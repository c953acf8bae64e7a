------------------------- MODULE MCAccountSessions -------------------------
(***************************************************************************)
(* Instances of AccountSessions for TLC.                                   *)
(***************************************************************************)
EXTENDS AccountRefinement, TLC

\* Threads of the pool, and users, are interchangeable.
Symmetry == Permutations(Requests) \cup Permutations(Users)
=============================================================================
