SPECIFICATION AccessSpec
CHECK_DEADLOCK FALSE
CONSTANTS
  u1 = u1
  u2 = u2
  c1 = c1
  c2 = c2
  x1 = x1
  x2 = x2
  Users = {u1, u2}
  Companies = {c1}
  Roles = {x1, x2}
  Permissions = {p1}
  Requests = {r1}
  None = None
  Superusers = {u1}
  Founder <- Founders
  BuiltinName <- OwnerOnly
  SystemPermission <- OnePermission
  Seeded <- OwnerManages
  Offered = {"add", "update", "remove", "assign", "assignMany", "unassign",
    "reassign", "deleteRole", "deleteCompany",
    "createFor", "newPermission", "dropPermission", "attach", "detach",
    "grant", "platform", "unplatform", "deleteUser"}
  GivenNames = {"Owner", "custom"}
  MayAbort = TRUE
INVARIANTS
  MemberRoleEnabled
  NoOrphanLink
  ClosedRoleIsBare
PROPERTIES
  OnlyMembersAct
