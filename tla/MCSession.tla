----------------------------- MODULE MCSession ------------------------------
(***************************************************************************)
(* Small instances of Session for TLC.  The configurations choose the      *)
(* sizes and what may fail; symmetry is used for safety only.              *)
(***************************************************************************)
EXTENDS SessionProperties, TLC

\* Servers, users and connections are interchangeable: no definition of
\* Session tells two of them apart.
Symmetry == Permutations(Server) \cup Permutations(User) \cup Permutations(Conn)
=============================================================================
