----------------------------- MODULE MCSession -----------------------------
(* Two friends and their devices.                                         *)
EXTENDS Session, TLC

CONSTANTS ann, bob, c1, c2, c3

MCFriendsOf  == (ann :> {bob}) @@ (bob :> {ann})
Symmetry     == Permutations(Conns) \cup Permutations(Users)

\* A state in which nothing is promised to anyone is not followed further:
\* history only grows, so the invariants say nothing of what comes after.
SomeoneIsPromised == \E u \in Users : Undisturbed(u)
=============================================================================
