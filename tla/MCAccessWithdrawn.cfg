SPECIFICATION AccessSpec
CONSTANTS
  u1 = u1
  u2 = u2
  c1 = c1
  c2 = c2
  x1 = x1
  x2 = x2
  Users = {u1, u2}
  Companies = {c1}
  Roles = {x1, x2}
  Permissions = {}
  Requests = {r1, r2}
  None = None
  Superusers = {u1}
  Founder <- Founders
  BuiltinName <- OwnerAndAdministrator
  SystemPermission <- OnePermission
  Seeded <- BothManage
  Offered = {"add", "unassign"}
  GivenNames = {"Owner", "custom"}
  MayAbort = TRUE
SYMMETRY Symmetry
INVARIANTS
  MemberRoleEnabled
