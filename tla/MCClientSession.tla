-------------------------- MODULE MCClientSession --------------------------
(* One client, logging in again and again. *)
EXTENDS ClientSession
=============================================================================
