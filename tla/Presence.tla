------------------------------ MODULE Presence ------------------------------
(***************************************************************************)
(* What the cluster promises about being logged in, without servers,       *)
(* tables or handlers: a user is offline, or in one session at one         *)
(* connection, or the session was lost with its process.  A lost session   *)
(* is never found again: login refuses a user whose row says online and    *)
(* nothing resets the rows of a dead process.                              *)
(***************************************************************************)
CONSTANTS
    User,
    Conn,
    Offline,    \* logged off, free to log in
    Lost        \* still "online", but the process that would change it is gone

VARIABLE presence

Init == presence = [u \in User |-> Offline]

\* A login succeeds: the user is free and the connection is in no session.
Acquire(u, c) ==
    /\ presence[u] = Offline
    /\ \A v \in User : presence[v] # c
    /\ presence' = [presence EXCEPT ![u] = c]

\* Logout, the close of the connection, or Ctrl-C.
Release(u) ==
    /\ presence[u] \in Conn
    /\ presence' = [presence EXCEPT ![u] = Offline]

\* A process dies with the sessions of the users in D.
Lose(D) ==
    /\ \A u \in D : presence[u] \in Conn
    /\ presence' = [u \in User |-> IF u \in D THEN Lost ELSE presence[u]]

Next ==
    \/ \E u \in User, c \in Conn : Acquire(u, c)
    \/ \E u \in User : Release(u)
    \/ \E D \in SUBSET User : Lose(D)

Spec == Init /\ [][Next]_presence
=============================================================================
