------------------------- MODULE AccountRefinement -------------------------
(***************************************************************************)
(* AccountSessions implements SessionStore as long as requests to one      *)
(* account do not overlap.                                                 *)
(***************************************************************************)
EXTENDS AccountSessions

\* A login is alive while a pair that descends from it is let in.
Alive ==
  [u \in Users |-> {t.session : t \in {p \in issued : p.user = u /\ Accepts(p)}}]

Store == INSTANCE SessionStore
  WITH Sessions <- 1..MaxSessions, alive <- Alive, used <- 1..lastSession

\* Each commit and each answer of the endpoints opens one login where none is
\* alive, ends all there are, or changes nothing that a token shows: a login is
\* never opened beside another, and one that is over is not brought back by a
\* refresh token, a reset or an update that was written from an older row.
ImplementsStore == Store!StoreSpec
=============================================================================
