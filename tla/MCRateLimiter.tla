--------------------------- MODULE MCRateLimiter ---------------------------
(***************************************************************************)
(* An instance of RateLimiter for TLC.  One e-mail address and one IP      *)
(* address make one key of each kind; with limits that fall from one window*)
(* to the next, a later window refuses what an earlier one let through.    *)
(***************************************************************************)
EXTENDS RateLimiter, TLC

Limits == [email |-> 3, ip |-> 2, pair |-> 1]

ThreadSymmetry == Permutations(Threads)
=============================================================================
