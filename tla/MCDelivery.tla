----------------------------- MODULE MCDelivery -----------------------------
(***************************************************************************)
(* Instances of Delivery.  Ann writes to Bob, alone and in a group they    *)
(* share, while Bob's devices come and go.  Bob is not in Ann's list, so   *)
(* the private message he sends her is turned back.                        *)
(***************************************************************************)
EXTENDS Delivery, TLC

CONSTANTS ann, bob, toBob, toGroup, request, toAnn, c1, c2, c3

MCOrigin  == [m \in Messages |-> IF m = toAnn THEN bob ELSE ann]
MCDest    == [m \in Messages |-> IF m = toGroup THEN {ann, bob}
                                 ELSE IF m = toAnn THEN {ann} ELSE {bob}]
MCKind    == [m \in Messages |-> IF m = toGroup THEN "group"
                                 ELSE IF m = request THEN "push" ELSE "private"]
MCFriends == (ann :> {}) @@ (bob :> {ann})

ConnSymmetry == Permutations(Conns)
=============================================================================
