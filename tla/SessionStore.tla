---------------------------- MODULE SessionStore ----------------------------
(***************************************************************************)
(* What an account promises about its logins: a new login replaces those   *)
(* before it, a login that ended never comes back, and no two are alive    *)
(* together.  How tokens, versions and the rows of the user table bring    *)
(* this about is not said here.                                            *)
(***************************************************************************)
CONSTANTS Users, Sessions

VARIABLES
  alive,   \* the logins of each user whose tokens are accepted
  used     \* logins there have been

storeVars == <<alive, used>>

StoreInit == alive = [u \in Users |-> {}] /\ used = {}

\* A login opens once the ones before it are over.
Open(u, s) ==
  /\ alive[u] = {} /\ s \notin used
  /\ alive' = [alive EXCEPT ![u] = {s}]
  /\ used' = used \cup {s}

\* A login in progress, a revocation or the end of the account: all are over.
EndAll(u) ==
  /\ alive[u] # {}
  /\ alive' = [alive EXCEPT ![u] = {}]
  /\ UNCHANGED used

StoreNext == \E u \in Users : EndAll(u) \/ \E s \in Sessions : Open(u, s)

StoreSpec == StoreInit /\ [][StoreNext]_storeVars
=============================================================================
