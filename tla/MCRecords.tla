----------------------------- MODULE MCRecords ------------------------------
(***************************************************************************)
(* Small instances of Records for TLC.                                     *)
(***************************************************************************)
EXTENDS Records, TLC

\* Users are interchangeable, and so are clients; groups are numbered.
Symmetry == Permutations(User) \cup Permutations(Client)

\* Bound: the friend table shares no statement with the other tables, so behaviours go on
\* as long as only one of the two parts is in use.
OnePart ==
    \/ friend = {} /\ half = {}
    \/ allGroup = 0 /\ \A g \in GroupId : Member(g) = {}

\* Bound: one group at most has all users for members.
OneLarge == \A g, h \in GroupId : g # h => Member(g) # User \/ Cardinality(Member(h)) <= 1
=============================================================================
