------------------------------ MODULE Mailbox ------------------------------
(***************************************************************************)
(* What the server promises about a chat message, without tables, queues   *)
(* or workers: once a message is accepted, each recipient's copy is        *)
(* written to that recipient at most once, or is lost, never both.         *)
(***************************************************************************)
EXTENDS Sequences

CONSTANTS Messages, Users, Recipients(_)

VARIABLES accepted,  \* messages the server has taken on
          pending,   \* copies <<m, u>> that are still the server's to deliver
          inbox,     \* inbox[u]: messages written to u, in order
          lost       \* copies nobody will ever write

mailVars == <<accepted, pending, inbox, lost>>

CopiesOf(m) == {m} \X Recipients(m)

MailInit ==
    /\ accepted = {} /\ pending = {} /\ lost = {}
    /\ inbox = [u \in Users |-> <<>>]

Take(m) ==
    /\ m \notin accepted
    /\ accepted' = accepted \cup {m}
    /\ pending' = pending \cup CopiesOf(m)
    /\ UNCHANGED <<inbox, lost>>

Deliver(m, u) ==
    /\ <<m, u>> \in pending
    /\ pending' = pending \ {<<m, u>>}
    /\ inbox' = [inbox EXCEPT ![u] = Append(@, m)]
    /\ UNCHANGED <<accepted, lost>>

Lose(copies) ==
    /\ copies \subseteq pending
    /\ pending' = pending \ copies
    /\ lost' = lost \cup copies
    /\ UNCHANGED <<accepted, inbox>>

MailNext ==
    \/ \E m \in Messages : Take(m)
    \/ \E m \in Messages, u \in Users : Deliver(m, u)
    \/ \E copies \in SUBSET pending : Lose(copies)

MailSpec == MailInit /\ [][MailNext]_mailVars
============================================================================
