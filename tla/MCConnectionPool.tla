-------------------------- MODULE MCConnectionPool --------------------------
(***************************************************************************)
(* Small instances of ConnectionPool for TLC.                              *)
(***************************************************************************)
EXTENDS ConnectionPool, TLC

\* Threads and addresses are interchangeable.
Symmetry == Permutations(Thread) \cup Permutations(Handle)
=============================================================================
