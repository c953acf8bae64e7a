SPECIFICATION ProvisioningSpec
CHECK_DEADLOCK FALSE
CONSTANTS
  u1 = u1
  x1 = x1
  Users = {u1}
  Companies = {c1, c2}
  Roles = {x1, x2, x3}
  Permissions = {}
  Requests = {r1}
  None = None
  Superusers = {u1}
  Founder <- Founders
  BuiltinName <- OwnerOnly
  SystemPermission <- OnePermission
  Seeded = {}
  Offered = {"deleteRole", "revoke", "add"}
  GivenNames = {"Owner", "Administrator", "Viewer", "custom"}
  MayAbort = TRUE
  Creators = {k1, k2}
  DefaultLinks <- OwnerAndAdministrator
  OwnIds = {g1}
SYMMETRY CreationSymmetry
INVARIANTS
  ProvisioningTypeOK
  AnsweredIsComplete
  FailsOnlyWhenDisturbed
  SystemPermissionsHold
PROPERTIES
  LinksNotRestored
