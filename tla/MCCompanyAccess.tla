-------------------------- MODULE MCCompanyAccess --------------------------
(***************************************************************************)
(* Instances of CompanyAccess for TLC.  u1 is the superuser, x1 the role   *)
(* named Owner.                                                            *)
(***************************************************************************)
EXTENDS AccessRefinement, TLC

CONSTANTS u1, u2, c1, c2, x1, x2

\* The superuser founded nothing, or only the second company.
Founders == [c \in Companies |-> IF c = c1 THEN u2 ELSE u1]

\* Owner is there from the start; the other role is created later.
OwnerOnly == [x \in Roles |-> IF x = x1 THEN "Owner" ELSE None]

\* Both roles are enabled from the start.
OwnerAndAdministrator ==
  [x \in Roles |-> IF x = x1 THEN "Owner" ELSE "Administrator"]

\* All endpoints require the same permission, which the Owner has.
OnePermission == [op \in TenantOps |-> "manage"]
OwnerManages == {<<x1, "manage">>}
BothManage == {<<x1, "manage">>, <<x2, "manage">>}

Symmetry == Permutations(Requests)
=============================================================================
