--------------------------- MODULE CompanyAccess ---------------------------
(***************************************************************************)
(* Who may do what in which company: the tables role, company_role,        *)
(* association_user_company, role_global_permission, company_permission,   *)
(* company_role_permission and user_role, and the requests that change     *)
(* them.  A request is authorised in one query, reads what it needs in     *)
(* others, and commits last; nothing is locked in between and no two of    *)
(* the tables check each other except by the foreign keys, so what a       *)
(* request has read may be out of date when it commits.                    *)
(*                                                                         *)
(* The reads between authorisation and commit are one step.  Requests name *)
(* roles by name or by id; a role is resolved in that step, so the model   *)
(* names it by id throughout.  Rows are closed (_closed_at), not deleted,  *)
(* unless the comment at the operation says so.                            *)
(***************************************************************************)
EXTENDS FiniteSets, Functions

CONSTANTS
  Users, Companies, Roles,
  Permissions,     \* ids of company permissions
  Requests,        \* threads of the pool: one of them runs serially
  None,            \* an unused field of a request
  Superusers,      \* users with is_superuser
  Founder,         \* the user who created each company
  BuiltinName,     \* name of each role that exists at first, None for others
  SystemPermission,\* the system permission each endpoint requires
  Seeded,          \* role_global_permission as seed_new_default_roles left it
  Offered,         \* endpoints in use
  GivenNames,      \* names a request may give to a role
  MayAbort         \* whether a request may die before its commit

DefaultNames == {"Owner", "Administrator", "Viewer"}
Names == DefaultNames \cup {"custom"}

MemberOps == {"add", "update", "remove"}
PermissionOps == {"newPermission", "dropPermission", "attach", "detach"}
TenantOps ==
  MemberOps \cup PermissionOps \cup {"assign", "unassign", "deleteCompany"}
SuperuserOps ==
  {"createRole", "createFor", "assignMany", "rename", "reassign",
   "deleteRole", "grant", "revoke", "platform", "unplatform"}

ASSUME RequestAssumption ==
  /\ Offered \subseteq TenantOps \cup SuperuserOps \cup {"deleteUser"}
  /\ None \notin Users \cup Companies \cup Roles \cup Permissions \cup Names
  /\ "gone" \notin Companies \cup {None}
  /\ GivenNames \subseteq Names /\ MayAbort \in BOOLEAN
ASSUME UserAssumption ==
  Superusers \subseteq Users /\ Founder \in [Companies -> Users]
ASSUME RoleAssumption ==
  /\ BuiltinName \in [Roles -> DefaultNames \cup {None}]
  /\ \E r \in Roles : BuiltinName[r] = "Owner"
  /\ \A r, s \in Roles :
       BuiltinName[r] = BuiltinName[s] /\ BuiltinName[r] # None => r = s
ASSUME SystemPermissionAssumption ==
  /\ DOMAIN SystemPermission = TenantOps
  /\ Seeded \subseteq Roles \X {SystemPermission[op] : op \in TenantOps}

VARIABLES
  openUser,      \* users whose account is not closed
  openCompany,   \* companies that are not closed
  role,          \* the role table: [state, name]
  enabled,       \* company_role
  member,        \* association_user_company: [state, role]
  granted,       \* role_global_permission, rows deleted physically
  owner,         \* company_permission: the company of each, or its absence
  attached,      \* company_role_permission, rows deleted physically
  platform,      \* user_role, rows deleted physically
  pc, req        \* where each request is, and its local variables

tables == <<openUser, openCompany, role, enabled, member, granted, owner,
            attached, platform>>
vars == <<tables, pc, req>>

-----------------------------------------------------------------------------

RowStates == {"absent", "open", "closed"}
SystemPermissions == {SystemPermission[op] : op \in TenantOps}
Ops == TenantOps \cup SuperuserOps
Pcs == {"idle", "authorised", "checked"}

Request == [op : Ops \cup {None}, caller : Users \cup {None},
            company : Companies \cup {None}, user : Users \cup {None},
            role : Roles \cup {None}, other : Roles \cup {None},
            permission : Permissions \cup SystemPermissions \cup {None},
            name : Names \cup {None}, rest : SUBSET Companies,
            links : SUBSET Users]

NoRequest == [op |-> None, caller |-> None, company |-> None, user |-> None,
              role |-> None, other |-> None, permission |-> None,
              name |-> None, rest |-> {}, links |-> {}]

AccessTypeOK ==
  /\ openUser \subseteq Users
  /\ openCompany \subseteq Companies
  /\ role \in [Roles -> [state : RowStates, name : Names]]
  /\ enabled \in [Companies \X Roles -> RowStates]
  /\ member \in [Users \X Companies -> [state : RowStates, role : Roles]]
  /\ granted \subseteq Roles \X SystemPermissions
  /\ owner \in [Permissions -> Companies \cup {None, "gone"}]
  /\ attached \subseteq Companies \X Roles \X Permissions
  /\ platform \subseteq Users \X Roles
  /\ pc \in [Requests -> Pcs]
  /\ req \in [Requests -> Request]

-----------------------------------------------------------------------------
(* Reading the tables.                                                     *)

RoleOpen(x) == role[x].state = "open"

\* The join of role and company_role in ensure_role_name_assigned.
RoleEnabled(c, x) == enabled[c, x] = "open" /\ RoleOpen(x)

\* Open memberships; the role is joined without a look at its own state.
MembersWith(c, x) ==
  {u \in Users : member[u, c].state = "open" /\ member[u, c].role = x}

IsNamed(x, name) == role[x].state # "absent" /\ role[x].name = name

\* The unique index on role.name also sees closed roles.
NameFree(name) == name = "custom" \/ \A x \in Roles : ~IsNamed(x, name)

\* Mutant of MayAct: the query forgets that a removed member's row stays.
MayActOnceMember(k, c, op) ==
  LET row == member[k, c] IN
  \/ k \in Superusers
  \/ /\ op \in TenantOps
     /\ row.state # "absent"
     /\ c \in openCompany
     /\ RoleEnabled(c, row.role)
     /\ <<row.role, SystemPermission[op]>> \in granted

\* Mutant of MayAct: the query is not restricted to the company asked about.
MayActAnywhere(k, c, op) ==
  \/ k \in Superusers
  \/ /\ op \in TenantOps
     /\ c \in openCompany
     /\ \E d \in Companies :
          /\ member[k, d].state = "open"
          /\ RoleEnabled(d, member[k, d].role)
          /\ <<member[k, d].role, SystemPermission[op]>> \in granted

\* CompanyAuthorizationService.require, and _ensure_superuser.
MayAct(k, c, op) ==
  LET row == member[k, c] IN
  \/ k \in Superusers
  \/ /\ op \in TenantOps
     /\ row.state = "open"
     /\ c \in openCompany
     /\ RoleEnabled(c, row.role)
     /\ <<row.role, SystemPermission[op]>> \in granted

-----------------------------------------------------------------------------
(* What a request asks for: the fields its path and body give it.          *)

\* The company of a request that names none is of no account to a superuser.
CompanyOps == TenantOps \cup {"createFor", "reassign"}
UserOps == MemberOps \cup {"platform", "unplatform"}
RoleOps ==
  {"add", "update", "assign", "unassign", "attach", "detach"} \cup SuperuserOps

Asked(k, op) ==
  LET Given(ops, values) == IF op \in ops THEN values ELSE {None} IN
  [op : {op}, caller : {k},
   company : Given(CompanyOps, Companies),
   user : Given(UserOps, Users),
   role : Given(RoleOps, Roles),
   other : Given({"reassign"}, Roles),
   permission : IF op \in PermissionOps THEN Permissions
                ELSE Given({"grant", "revoke"}, SystemPermissions),
   name : IF op = "rename" THEN GivenNames \cup {None}
          ELSE Given({"createRole"}, GivenNames),
   rest : IF op = "assignMany" THEN SUBSET Companies ELSE {{}},
   links : {{}}]

\* What the request reads after it was authorised, one operator per endpoint.

MayAdd(q) ==
  /\ RoleEnabled(q.company, q.role)
  /\ member[q.user, q.company].state # "open"

MayUpdate(q) ==
  /\ RoleEnabled(q.company, q.role)
  /\ member[q.user, q.company].state = "open"

\* The Owner check of the service, then the one of the repository.
MayRemove(q) ==
  LET row == member[q.user, q.company] IN
  /\ row.state = "open"
  /\ ~IsNamed(row.role, "Owner")
  /\ q.user = q.caller => ~IsNamed(row.role, "Administrator")

MayAssign(q) == RoleOpen(q.role) /\ enabled[q.company, q.role] # "open"

\* Mutant of MayUnassign: the members who have the role are not counted.
MayUnassignAssigned(q) == enabled[q.company, q.role] = "open"

MayUnassign(q) ==
  /\ enabled[q.company, q.role] = "open"
  /\ MembersWith(q.company, q.role) = {}

\* The payload is refused when it names a default role.
MayReassign(q) ==
  /\ q.role # q.other
  /\ role[q.role].name \notin DefaultNames
  /\ RoleEnabled(q.company, q.role)
  /\ RoleEnabled(q.company, q.other)

\* The platform roles of closed accounts are not counted.
MayDeleteRole(q) ==
  /\ RoleOpen(q.role)
  /\ \A c \in Companies : MembersWith(c, q.role) = {}
  /\ \A u \in openUser : <<u, q.role>> \notin platform

MayAttach(q) ==
  /\ RoleEnabled(q.company, q.role)
  /\ owner[q.permission] = q.company
  /\ <<q.company, q.role, q.permission>> \notin attached

MayDetach(q) ==
  /\ RoleEnabled(q.company, q.role)
  /\ owner[q.permission] = q.company
  /\ <<q.company, q.role, q.permission>> \in attached

Passes(q) ==
  \/ q.op = "add" /\ MayAdd(q)
  \/ q.op = "update" /\ MayUpdate(q)
  \/ q.op = "remove" /\ MayRemove(q)
  \/ q.op = "assign" /\ MayAssign(q)
  \/ q.op = "createFor" /\ (MayAssign(q) \/ role[q.role].state = "absent")
  \/ q.op = "unassign" /\ MayUnassign(q)
  \/ q.op = "reassign" /\ MayReassign(q)
  \/ q.op = "createRole"
  \/ q.op \in {"rename", "assignMany"} /\ RoleOpen(q.role)
  \/ q.op = "deleteRole" /\ MayDeleteRole(q)
  \/ q.op = "grant" /\ RoleOpen(q.role) /\ <<q.role, q.permission>> \notin granted
  \/ q.op = "revoke" /\ RoleOpen(q.role) /\ <<q.role, q.permission>> \in granted
  \/ q.op = "newPermission" /\ q.company \in openCompany
  \/ q.op = "dropPermission" /\ owner[q.permission] = q.company
  \/ q.op = "attach" /\ MayAttach(q)
  \/ q.op = "detach" /\ MayDetach(q)
  \/ /\ q.op = "platform" /\ q.user \in openUser /\ RoleOpen(q.role)
     /\ <<q.user, q.role>> \notin platform
  \/ /\ q.op = "unplatform" /\ q.user \in openUser
     /\ <<q.user, q.role>> \in platform
  \/ q.op = "deleteCompany" /\ q.company \in openCompany

\* The memberships whose role the request will write: the mapped object marks
\* role_id as changed only when the value it was loaded with differs.
Links(q) ==
  CASE q.op = "update" ->
         {q.user} \ MembersWith(q.company, q.role)
    [] q.op = "reassign" -> MembersWith(q.company, q.role)
    [] OTHER -> {}

\* create_role_for_company creates a role of its own when it found none.
NewName(q) ==
  IF q.op = "createFor" /\ role[q.role].state = "absent" THEN "custom"
                                                         ELSE q.name

-----------------------------------------------------------------------------
(* The life of a request.                                                  *)

Finish(r) ==
  /\ pc' = [pc EXCEPT ![r] = "idle"]
  /\ req' = [req EXCEPT ![r] = NoRequest]

\* The permission endpoints look for the company first.
Authorise(r, q) ==
  /\ pc[r] = "idle"
  /\ q.caller \in openUser
  /\ q.op \in PermissionOps => q.company \in openCompany
  /\ IF q.op \in TenantOps THEN MayAct(q.caller, q.company, q.op)
                           ELSE q.caller \in Superusers
  /\ pc' = [pc EXCEPT ![r] = "authorised"]
  /\ req' = [req EXCEPT ![r] = q]
  /\ UNCHANGED tables

Check(r) ==
  /\ pc[r] = "authorised"
  /\ Passes(req[r])
  /\ pc' = [pc EXCEPT ![r] = "checked"]
  /\ req' = [req EXCEPT ![r].links = Links(req[r]),
                        ![r].name = NewName(req[r])]
  /\ UNCHANGED tables

Refuse(r) ==
  /\ pc[r] = "authorised"
  /\ ~Passes(req[r])
  /\ Finish(r)
  /\ UNCHANGED tables

Abort(r) ==
  /\ MayAbort
  /\ pc[r] = "checked"
  /\ Finish(r)
  /\ UNCHANGED tables

Committing(r, op) == pc[r] = "checked" /\ req[r].op = op

-----------------------------------------------------------------------------
(* Commits on memberships.                                                 *)

\* Mutant of CommitAdd: the role is written as it is named, enabled or not.
CommitAddAnyRole(r) ==
  LET q == req[r]
      row == member[q.user, q.company] IN
  /\ Committing(r, "add")
  /\ \E x \in {y \in Roles : RoleOpen(y)} :
       member' = IF row.state = "absent"
         THEN [member EXCEPT ![<<q.user, q.company>>] =
                 [state |-> "open", role |-> x]]
         ELSE member
  /\ Finish(r)
  /\ UNCHANGED <<openUser, openCompany, role, enabled, granted, owner,
                 attached, platform>>

\* A closed row of the same user and company still has the primary key: the
\* insert fails, unhandled, and changes nothing.
CommitAdd(r) ==
  LET q == req[r]
      row == member[q.user, q.company] IN
  /\ Committing(r, "add")
  /\ member' = IF row.state = "absent"
       THEN [member EXCEPT ![<<q.user, q.company>>] =
               [state |-> "open", role |-> q.role]]
       ELSE member
  /\ Finish(r)
  /\ UNCHANGED <<openUser, openCompany, role, enabled, granted, owner,
                 attached, platform>>

CommitUpdate(r) ==
  LET q == req[r] IN
  /\ Committing(r, "update")
  /\ member' = [uc \in DOMAIN member |->
       IF uc[1] \in q.links /\ uc[2] = q.company
         THEN [member[uc] EXCEPT !.role = q.role]
         ELSE member[uc]]
  /\ Finish(r)
  /\ UNCHANGED <<openUser, openCompany, role, enabled, granted, owner,
                 attached, platform>>

CommitRemove(r) ==
  LET q == req[r] IN
  /\ Committing(r, "remove")
  /\ member' = [member EXCEPT ![<<q.user, q.company>>].state = "closed"]
  /\ Finish(r)
  /\ UNCHANGED <<openUser, openCompany, role, enabled, granted, owner,
                 attached, platform>>

-----------------------------------------------------------------------------
(* Commits on the roles of a company.                                      *)

\* As for members, the closed row keeps the primary key.
CommitAssign(r) ==
  LET q == req[r] IN
  /\ \/ Committing(r, "assign")
     \/ Committing(r, "createFor") /\ q.name = None
  /\ enabled' = IF enabled[q.company, q.role] = "absent"
       THEN [enabled EXCEPT ![<<q.company, q.role>>] = "open"]
       ELSE enabled
  /\ Finish(r)
  /\ UNCHANGED <<openUser, openCompany, role, member, granted, owner,
                 attached, platform>>

\* assign_role_to_companies reads and commits once for each company; one that
\* has the role is passed over, a closed row ends the request with an error.
AssignNext(r) ==
  LET q == req[r] IN
  /\ Committing(r, "assignMany")
  /\ q.company = None
  /\ IF q.rest = {} THEN Finish(r)
     ELSE \E c \in q.rest :
            /\ req' = [req EXCEPT ![r].rest = @ \ {c},
                 ![r].company = IF enabled[c, q.role] = "open" THEN None ELSE c]
            /\ UNCHANGED pc
  /\ UNCHANGED tables

CommitAssignNext(r) ==
  LET q == req[r] IN
  /\ Committing(r, "assignMany")
  /\ q.company # None
  /\ IF enabled[q.company, q.role] = "absent"
       THEN /\ enabled' = [enabled EXCEPT ![<<q.company, q.role>>] = "open"]
            /\ req' = [req EXCEPT ![r].company = None]
            /\ UNCHANGED pc
       ELSE UNCHANGED enabled /\ Finish(r)
  /\ UNCHANGED <<openUser, openCompany, role, member, granted, owner,
                 attached, platform>>

\* Mutant of Withdrawn: the links stay behind.
WithdrawnNothing(c, x) == attached

\* The company's permission links without those of the role.
Withdrawn(c, x) == {g \in attached : ~(g[1] = c /\ g[2] = x)}

CommitUnassign(r) ==
  LET q == req[r] IN
  /\ Committing(r, "unassign")
  /\ enabled' = [enabled EXCEPT ![<<q.company, q.role>>] = "closed"]
  /\ attached' = Withdrawn(q.company, q.role)
  /\ Finish(r)
  /\ UNCHANGED <<openUser, openCompany, role, member, granted, owner,
                 platform>>

CommitReassign(r) ==
  LET q == req[r] IN
  /\ Committing(r, "reassign")
  /\ member' = [uc \in DOMAIN member |->
       IF uc[1] \in q.links /\ uc[2] = q.company
         THEN [member[uc] EXCEPT !.role = q.other]
         ELSE member[uc]]
  /\ enabled' = [enabled EXCEPT ![<<q.company, q.role>>] = "closed"]
  /\ attached' = Withdrawn(q.company, q.role)
  /\ Finish(r)
  /\ UNCHANGED <<openUser, openCompany, role, granted, owner, platform>>

-----------------------------------------------------------------------------
(* Commits on the role catalogue.                                          *)

\* create_role; create_role_for_company goes on to read the assignment.
CommitRole(r) ==
  LET q == req[r]
      free == role[q.role].state = "absent" /\ NameFree(q.name) IN
  /\ \/ Committing(r, "createRole")
     \/ Committing(r, "createFor") /\ q.name # None
  /\ role' = IF free
       THEN [role EXCEPT ![q.role] = [state |-> "open", name |-> q.name]]
       ELSE role
  /\ IF q.op = "createFor" /\ free
       THEN /\ pc' = [pc EXCEPT ![r] = "authorised"]
            /\ req' = [req EXCEPT ![r].name = None]
       ELSE Finish(r)
  /\ UNCHANGED <<openUser, openCompany, enabled, member, granted, owner,
                 attached, platform>>

\* Mutant of CommitRename: a name left out of the body is written all the same.
CommitRenameOptional(r) ==
  LET q == req[r] IN
  /\ Committing(r, "rename")
  /\ role' = IF NameFree(q.name)
       THEN [role EXCEPT ![q.role].name = q.name] ELSE role
  /\ Finish(r)
  /\ UNCHANGED <<openUser, openCompany, enabled, member, granted, owner,
                 attached, platform>>

\* update_role, also behind the company's path, where the role must be enabled
\* for it as well; the body may leave the name out.
CommitRename(r) ==
  LET q == req[r] IN
  /\ Committing(r, "rename")
  /\ role' = IF q.name # None /\ NameFree(q.name)
       THEN [role EXCEPT ![q.role].name = q.name] ELSE role
  /\ Finish(r)
  /\ UNCHANGED <<openUser, openCompany, enabled, member, granted, owner,
                 attached, platform>>

\* Mutant of CommitDeleteRole: the links of user_role are left to the reader.
CommitDeleteRoleOnly(r) ==
  LET q == req[r] IN
  /\ Committing(r, "deleteRole")
  /\ role' = [role EXCEPT ![q.role].state = "closed"]
  /\ granted' = {g \in granted : g[1] # q.role}
  /\ attached' = {g \in attached : g[2] # q.role}
  /\ Finish(r)
  /\ UNCHANGED <<openUser, openCompany, enabled, member, owner, platform>>

CommitDeleteRole(r) ==
  LET q == req[r] IN
  /\ Committing(r, "deleteRole")
  /\ role' = [role EXCEPT ![q.role].state = "closed"]
  /\ granted' = {g \in granted : g[1] # q.role}
  /\ attached' = {g \in attached : g[2] # q.role}
  /\ platform' = {g \in platform : g[2] # q.role}
  /\ Finish(r)
  /\ UNCHANGED <<openUser, openCompany, enabled, member, owner>>

CommitGrant(r) ==
  LET q == req[r] IN
  /\ \/ /\ Committing(r, "grant")
        /\ granted' = granted \cup {<<q.role, q.permission>>}
     \/ /\ Committing(r, "revoke")
        /\ granted' = granted \ {<<q.role, q.permission>>}
  /\ Finish(r)
  /\ UNCHANGED <<openUser, openCompany, role, enabled, member, owner,
                 attached, platform>>

CommitPlatform(r) ==
  LET q == req[r] IN
  /\ \/ /\ Committing(r, "platform")
        /\ platform' = platform \cup {<<q.user, q.role>>}
     \/ /\ Committing(r, "unplatform")
        /\ platform' = platform \ {<<q.user, q.role>>}
  /\ Finish(r)
  /\ UNCHANGED <<openUser, openCompany, role, enabled, member, granted,
                 owner, attached>>

-----------------------------------------------------------------------------
(* Commits on the permissions of a company.                                *)

\* A new permission gets a fresh id.
CommitNewPermission(r) ==
  LET q == req[r] IN
  /\ Committing(r, "newPermission")
  /\ owner' = IF owner[q.permission] = None
       THEN [owner EXCEPT ![q.permission] = q.company] ELSE owner
  /\ Finish(r)
  /\ UNCHANGED <<openUser, openCompany, role, enabled, member, granted,
                 attached, platform>>

\* Mutant of CommitDropPermission: the links are left where they are.
CommitDropPermissionOnly(r) ==
  LET q == req[r] IN
  /\ Committing(r, "dropPermission")
  /\ owner' = [owner EXCEPT ![q.permission] = "gone"]
  /\ Finish(r)
  /\ UNCHANGED <<openUser, openCompany, role, enabled, member, granted,
                 attached, platform>>

\* The row is deleted physically, and its links with it.
CommitDropPermission(r) ==
  LET q == req[r] IN
  /\ Committing(r, "dropPermission")
  /\ owner' = [owner EXCEPT ![q.permission] = "gone"]
  /\ attached' = {g \in attached : g[3] # q.permission}
  /\ Finish(r)
  /\ UNCHANGED <<openUser, openCompany, role, enabled, member, granted,
                 platform>>

\* Mutant of ForeignKeys: only the enabled role is referenced.
ForeignKeyOfRole(g) == enabled[g[1], g[2]] # "absent"

\* The two composite foreign keys of company_role_permission.
ForeignKeys(g) == enabled[g[1], g[2]] # "absent" /\ owner[g[3]] = g[1]

CommitAttach(r) ==
  LET q == req[r]
      g == <<q.company, q.role, q.permission>> IN
  /\ Committing(r, "attach")
  /\ attached' = IF ForeignKeys(g) THEN attached \cup {g} ELSE attached
  /\ Finish(r)
  /\ UNCHANGED <<openUser, openCompany, role, enabled, member, granted,
                 owner, platform>>

CommitDetach(r) ==
  LET q == req[r] IN
  /\ Committing(r, "detach")
  /\ attached' = attached \ {<<q.company, q.role, q.permission>>}
  /\ Finish(r)
  /\ UNCHANGED <<openUser, openCompany, role, enabled, member, granted,
                 owner, platform>>

-----------------------------------------------------------------------------

CommitDeleteCompany(r) ==
  /\ Committing(r, "deleteCompany")
  /\ openCompany' = openCompany \ {req[r].company}
  /\ Finish(r)
  /\ UNCHANGED <<openUser, role, enabled, member, granted, owner, attached,
                 platform>>

\* DELETE /user/me closes the account and leaves every other table alone.
CloseAccount(u) ==
  /\ "deleteUser" \in Offered
  /\ u \in openUser
  /\ openUser' = openUser \ {u}
  /\ UNCHANGED <<openCompany, role, enabled, member, granted, owner, attached,
                 platform, pc, req>>

-----------------------------------------------------------------------------

\* Every company was created with the default roles enabled and its founder
\* as the Owner.
AccessInit ==
  LET Builtin == {x \in Roles : BuiltinName[x] # None}
      OwnerRole == CHOOSE x \in Roles : BuiltinName[x] = "Owner" IN
  /\ openUser = Users /\ openCompany = Companies
  /\ role = [x \in Roles |->
       IF x \in Builtin THEN [state |-> "open", name |-> BuiltinName[x]]
                        ELSE [state |-> "absent", name |-> "custom"]]
  /\ enabled = [cx \in Companies \X Roles |->
       IF cx[2] \in Builtin THEN "open" ELSE "absent"]
  /\ member = [uc \in Users \X Companies |->
       [state |-> IF uc[1] = Founder[uc[2]] THEN "open" ELSE "absent",
        role |-> OwnerRole]]
  /\ granted = Seeded
  /\ owner = [p \in Permissions |-> None]
  /\ attached = {} /\ platform = {}
  /\ pc = [r \in Requests |-> "idle"]
  /\ req = [r \in Requests |-> NoRequest]

Commit(r) ==
  \/ CommitAdd(r) \/ CommitUpdate(r) \/ CommitRemove(r)
  \/ CommitAssign(r) \/ AssignNext(r) \/ CommitAssignNext(r)
  \/ CommitUnassign(r) \/ CommitReassign(r)
  \/ CommitRole(r) \/ CommitRename(r) \/ CommitDeleteRole(r)
  \/ CommitGrant(r) \/ CommitPlatform(r)
  \/ CommitNewPermission(r) \/ CommitDropPermission(r)
  \/ CommitAttach(r) \/ CommitDetach(r) \/ CommitDeleteCompany(r)

AccessNext ==
  \/ \E r \in Requests :
       \/ \E k \in Users, op \in Offered \cap Ops :
            \E q \in Asked(k, op) : Authorise(r, q)
       \/ Check(r) \/ Refuse(r) \/ Abort(r) \/ Commit(r)
  \/ \E u \in Users : CloseAccount(u)

AccessSpec == AccessInit /\ [][AccessNext]_vars

-----------------------------------------------------------------------------
(* What must hold however requests interleave.                             *)

Tenant(c) == [open |-> c \in openCompany,
              roles |-> [x \in Roles |-> enabled[c, x]],
              members |-> [u \in Users |-> member[u, c]],
              permissions |-> {p \in Permissions : owner[p] = c},
              links |-> {g \in attached : g[1] = c}]

\* Whatever changes in a company is the work of a superuser, or of a request
\* about that company by somebody who is or was a member of it; membership in
\* another company and roles held on the platform are of no use.
StrangersChangeNothing ==
  [][\A c \in Companies : Tenant(c)' # Tenant(c) =>
       \E r \in Requests :
         /\ pc[r] = "checked"
         /\ \/ req[r].caller \in Superusers
            \/ /\ req[r].company = c
               /\ member[req[r].caller, c].state # "absent"]_tables

\* A company permission is only ever attached to roles of the company that owns
\* it, although the owner is read before the link is written and the permission
\* may be deleted in between.
LinksWithinTenant ==
  \A g \in attached : owner[g[3]] = g[1] /\ enabled[g[1], g[2]] # "absent"

\* The role of a member is one the company has or had enabled.  No foreign key
\* says so: association_user_company references the role alone.
MemberRoleWasEnabled ==
  \A u \in Users, c \in Companies :
    member[u, c].state = "absent" \/ enabled[c, member[u, c].role] # "absent"

(* What must hold when requests do not overlap.                            *)

\* Only a superuser, or a current member of an open company whose role is
\* enabled there, changes anything in a company.
OnlyMembersAct ==
  [][\A c \in Companies : Tenant(c)' # Tenant(c) =>
       \E r \in Requests :
         /\ pc[r] = "checked"
         /\ \/ req[r].caller \in Superusers
            \/ /\ req[r].company = c
               /\ c \in openCompany
               /\ member[req[r].caller, c].state = "open"
               /\ RoleEnabled(c, member[req[r].caller, c].role)]_tables

\* Every member has a role that is enabled in the company, so nobody's rights
\* change because a role was withdrawn or deleted elsewhere.
MemberRoleEnabled ==
  \A u \in Users, c \in Companies :
    member[u, c].state = "open" => RoleEnabled(c, member[u, c].role)

\* Company permissions are attached only to roles enabled for that company; a
\* role enabled again later starts without them.
NoOrphanLink ==
  \A g \in attached : RoleEnabled(g[1], g[2])

\* A deleted role gives nothing to anybody, in a company or on the platform.
ClosedRoleIsBare ==
  \A x \in Roles : role[x].state = "closed" =>
    /\ \A p \in SystemPermissions : <<x, p>> \notin granted
    /\ \A u \in Users : <<u, x>> \notin platform
=============================================================================
