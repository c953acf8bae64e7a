SPECIFICATION AccessSpec
CONSTANTS
  u1 = u1
  u2 = u2
  c1 = c1
  c2 = c2
  x1 = x1
  x2 = x2
  Users = {u1, u2}
  Companies = {c1, c2}
  Roles = {x1, x2}
  Permissions = {p1}
  Requests = {r1, r2}
  None = None
  Superusers = {u1}
  Founder <- Founders
  BuiltinName <- OwnerOnly
  SystemPermission <- OnePermission
  Seeded <- OwnerManages
  Offered = {"add", "createRole", "update", "rename", "newPermission", "dropPermission", "attach"}
  GivenNames = {"Owner", "custom"}
  MayAbort = TRUE
SYMMETRY Symmetry
INVARIANTS
  AccessTypeOK
  LinksWithinTenant
  MemberRoleWasEnabled
PROPERTIES
  StrangersChangeNothing
  ImplementsRecords
