----------------------------- MODULE MCRecords -----------------------------
(* Eight small databases and the requests that meet in each of them.        *)
EXTENDS Records

CONSTANTS u1, u2, u3, g1, g2, p, q, w1, w2

Outsider == NewAccount(p)
In(g, role) == [Outsider EXCEPT !.groups[g] = role]
Group1 == NewGroupChat(u1)

On(account) == [account EXCEPT !.online = TRUE]

Stored(a1, a2, a3, group) ==
    [k \in Keys |-> CASE k = u1 -> a1 [] k = u2 -> a2 [] k = u3 -> a3
                      [] k = g1 -> group [] OTHER -> Missing]

Scenario(start, todo_) ==
    [start |-> start, todo |-> todo_,
     table |-> {u \in Users : start[u] # Missing /\ start[u].online}]

Apply(u, t) == [op |-> "apply", of |-> u, group |-> g1, time |-> t]
Appoint(u)  == [op |-> "appoint", user |-> u1, of |-> u, group |-> g1]
Befriend(u, v) == [op |-> "befriend", user |-> u, of |-> v]
Simple(op, u)  == [op |-> op, user |-> u]
SignUp(u, pwd) == [op |-> "register", user |-> u, pwd |-> pwd]

Owner == On(In(g1, "owner"))

\* A user applies twice and is made a manager in between.
Twice ==
    Scenario(Stored(Owner, On(Outsider), Outsider, Group1),
             {Apply(u2, 1), Apply(u2, 2), Appoint(u2)})

\* Two users join at once, and one of them logs out and in again.
Joining ==
    Scenario(Stored(Owner, On(Outsider), On(Outsider), Group1),
             {Apply(u2, 1), Apply(u3, 1), Simple("logout", u2),
              Simple("login", u2)})

\* Two managers decide on the application of a user who logs in.
TwoManagers ==
    Scenario(Stored(Owner, On(In(g1, "admin")), Outsider,
                    [Group1 EXCEPT !.mgrs = <<u1, u2>>, !.role[u2] = "admin"]),
             {Apply(u3, 1), Simple("login", u3)})

\* An outsider joins while a member logs in.
Away ==
    Scenario(Stored(Owner, In(g1, "member"), On(Outsider),
                    [Group1 EXCEPT !.role[u2] = "member"]),
             {Apply(u3, 1), Simple("login", u2)})

\* Two members are to have the last seat, and an outsider joins.
LastSeat ==
    Scenario(Stored(Owner, On(In(g1, "member")), On(Outsider),
                    [Group1 EXCEPT !.role[u2] = "member"]),
             {Apply(u3, 1), Appoint(u2), Appoint(u3)})

\* One id is registered twice, two users befriend each other.
Accounts ==
    Scenario(Stored(On(Outsider), On(Outsider), Missing, Missing),
             {SignUp(u3, p), SignUp(u3, q), Befriend(u1, u2),
              Befriend(u2, u1), Simple("login", u1)})

\* Groups are created, and their owners log in.
Created ==
    Scenario(Stored(On(Outsider), On(Outsider), On(Outsider), Missing),
             {Simple("create", u1), Simple("create", u2),
              Simple("login", u1), Apply(u3, 1)})

\* A creator who is not answered applies to the group.
Unanswered ==
    Scenario(Stored(On(Outsider), Outsider, Missing, Missing),
             {Simple("create", u1), Apply(u1, 1)})

Instance ==
    {Twice, Joining, TwoManagers, Away, LastSeat, Accounts, Created, Unanswered}
=============================================================================
