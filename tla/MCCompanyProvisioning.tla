----------------------- MODULE MCCompanyProvisioning -----------------------
(***************************************************************************)
(* Instances of CompanyProvisioning for TLC.  u1 is the superuser.         *)
(***************************************************************************)
EXTENDS CompanyProvisioning, TLC

CONSTANTS u1, x1

\* Only AccessInit, which is not used here, starts from these.
Founders == [c \in Companies |-> u1]
OwnerOnly == [x \in Roles |-> IF x = x1 THEN "Owner" ELSE None]

OnePermission == [op \in TenantOps |-> "manage"]
OwnerAndAdministrator == {<<"Owner", "manage">>, <<"Administrator", "manage">>}

\* Only roles are chosen among by CHOOSE.
CreationSymmetry == Permutations(Creators) \cup Permutations(Companies)
=============================================================================
