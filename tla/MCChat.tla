------------------------------- MODULE MCChat -------------------------------
(***************************************************************************)
(* Small instances of Chat for TLC: every user has a row.                  *)
(***************************************************************************)
EXTENDS Chat, TLC

\* Servers, users and connections are interchangeable; used for safety only.
Symmetry == Permutations(Server) \cup Permutations(User) \cup Permutations(Conn)

MCInit ==
    /\ ChatInit
    /\ \A u \in User : user[u] = "offline"

\* Logins of one user do not race.
SerialChat == MCInit /\ [][ChatNext /\ SerialLogins']_allVars

\* For the liveness properties: everybody is in every group, no message is stored, and one
\* of the connections is used by one user only, the others by anybody.
AnswerInit ==
    /\ MCInit
    /\ \A g \in Group : groupUser[g] = User

OwnConn ==
    arg[CHOOSE c \in Conn : TRUE] \in {CHOOSE u \in User : TRUE, NoUser}

FairChat == AnswerInit /\ [][ChatNext /\ OwnConn']_allVars /\ ChatFairness
=============================================================================
