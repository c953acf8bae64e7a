----------------------- MODULE MCSuperuserBootstrap -----------------------
(***************************************************************************)
(* Instances of SuperuserBootstrap for TLC.                                *)
(***************************************************************************)
EXTENDS SuperuserBootstrap

\* All the addresses differ only in letter case.
OneMailbox == [u \in Users |-> "m1"]
=============================================================================
