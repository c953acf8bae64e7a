------------------------ MODULE CompanyProvisioning ------------------------
(***************************************************************************)
(* POST /company: the company, the default roles if they are missing, their*)
(* assignment to the company and the membership of its founder are         *)
(* committed one after the other, and an error half-way takes back nothing *)
(* that was committed before.  Creations run beside each other, beside the *)
(* requests of CompanyAccess, which rename and delete the same roles and   *)
(* change what the default roles may do, and beside those that keep the    *)
(* catalogue of global permissions, where the default roles' are looked up *)
(* by id and by name.                                                      *)
(***************************************************************************)
EXTENDS CompanyAccess

CONSTANTS
  Creators,      \* threads of the pool that serve POST /company
  DefaultLinks,  \* SYSTEM_PERMISSION_DEFINITIONS: which default role may what
  OwnIds         \* ids for the permissions superusers create

ASSUME CreatorAssumption ==
  /\ DefaultLinks \subseteq DefaultNames \X {SystemPermission[op] : op \in TenantOps}
  /\ OwnIds \cap SystemPermissions = {} /\ {None, "own"} \cap SystemPermissions = {}

VARIABLES
  catalogue,   \* global_permission: the name of each id, rows deleted physically
  migrated,    \* the migrations have made the schema, not create_all
  made,        \* e-mail addresses of companies, open or closed
  stage,       \* where each creation is
  draft,       \* its local variables
  refused,     \* creations that have read a reserved name with another id
  disturbed,   \* creations during which somebody else changed a role,
               \* what companies have it, or who is a member
  answered,    \* companies whose creation was reported as done
  halfMade     \* why creations failed after their first commit

permissions == <<catalogue, migrated>>
provisioning == <<permissions, made, stage, draft, refused, disturbed,
                  answered, halfMade>>
allVars == <<vars, provisioning>>

Stages == {"idle", "checked", "inserted", "found", "seeded", "enabled",
           "admitting"}

Draft == [company : Companies \cup {None}, founder : Users \cup {None},
          roles : [DefaultNames -> Roles \cup {None}],
          owner : Roles \cup {None}]

NoDraft == [company |-> None, founder |-> None,
            roles |-> [n \in DefaultNames |-> None], owner |-> None]

ProvisioningTypeOK ==
  /\ AccessTypeOK
  /\ catalogue \in [SystemPermissions \cup OwnIds ->
                      SystemPermissions \cup {"own", None}]
  /\ migrated \in BOOLEAN
  /\ made \subseteq Companies
  /\ stage \in [Creators -> Stages]
  /\ draft \in [Creators -> Draft]
  /\ {refused, disturbed} \subseteq SUBSET Creators
  /\ answered \subseteq Companies
  /\ halfMade \subseteq [disturbed : BOOLEAN, lost : BOOLEAN, reserved : BOOLEAN]

-----------------------------------------------------------------------------

\* The open role of this name, which _ensure_default_roles looks for.
RolesNamed(name) == {x \in Roles : RoleOpen(x) /\ role[x].name = name}

\* A deleted role still occupies the name of a default one.
NameLost ==
  \E x \in Roles : role[x].state = "closed" /\ role[x].name \in DefaultNames

\* _resolve_definition: a permission other than the system's own has its name,
\* or its own has another.
Reserved ==
  \E p \in SystemPermissions :
    \/ catalogue[p] \notin {p, None}
    \/ \E d \in DOMAIN catalogue \ {p} : catalogue[d] = p

Busy == {k \in Creators : stage[k] # "idle"}

Continue(k, label) == stage' = [stage EXCEPT ![k] = label]

Done(k) ==
  /\ Continue(k, "idle")
  /\ draft' = [draft EXCEPT ![k] = NoDraft]
  /\ refused' = refused \ {k}

Dies(k) ==
  /\ MayAbort
  /\ stage[k] # "idle"
  /\ Done(k)
  /\ UNCHANGED <<vars, permissions, made, disturbed, answered, halfMade>>

-----------------------------------------------------------------------------
(* create_company, from one commit to the next.                            *)

\* The company stands for its e-mail address, which no open company has.
BeginCreation(k, u, c) ==
  /\ stage[k] = "idle"
  /\ u \in openUser /\ c \notin openCompany
  /\ Continue(k, "checked")
  /\ draft' = [draft EXCEPT ![k] =
                 [NoDraft EXCEPT !.company = c, !.founder = u]]
  /\ disturbed' = disturbed \ {k}
  /\ UNCHANGED <<vars, permissions, made, refused, answered, halfMade>>

\* The unique address also sees closed companies: 409, and nothing is left.
InsertCompany(k) ==
  LET c == draft[k].company IN
  /\ stage[k] = "checked"
  /\ IF c \in made
       THEN Done(k) /\ UNCHANGED <<made, openCompany>>
       ELSE /\ Continue(k, "inserted")
            /\ made' = made \cup {c}
            /\ openCompany' = openCompany \cup {c}
            /\ UNCHANGED <<draft, refused>>
  /\ UNCHANGED <<openUser, role, enabled, member, granted, owner, attached,
                 platform, pc, req, permissions, disturbed, answered, halfMade>>

\* Mutant of FindRoles: the roles are taken to be missing.
FindNoRoles(k) ==
  /\ stage[k] = "inserted"
  /\ Continue(k, "found")
  /\ refused' = IF Reserved THEN refused \cup {k} ELSE refused
  /\ UNCHANGED <<vars, permissions, made, draft, disturbed, answered, halfMade>>

\* The names of the permissions are only looked up if a role is missing.
FindRoles(k) ==
  /\ stage[k] = "inserted"
  /\ Continue(k, "found")
  /\ draft' = [draft EXCEPT ![k].roles = [n \in DefaultNames |->
       IF RolesNamed(n) = {} THEN None ELSE CHOOSE x \in RolesNamed(n) : TRUE]]
  /\ refused' = IF Reserved /\ \E n \in DefaultNames : RolesNamed(n) = {}
                  THEN refused \cup {k} ELSE refused
  /\ UNCHANGED <<vars, permissions, made, disturbed, answered, halfMade>>

Missing(k) == {n \in DefaultNames : draft[k].roles[n] = None}

\* The new roles get fresh ids.
FreshRoles(names) ==
  Injection(names, {x \in Roles : role[x].state = "absent"})

\* Mutant of SeedLinks: all default roles get their links again.
SeedAllLinks(roles, names) ==
  {<<roles[l[1]], l[2]>> : l \in DefaultLinks}

\* Mutant of SeedLinks: the links name the roles instead of referring to them.
SeedLinksByName(roles, names) == {m \in DefaultLinks : m[1] \in names}

\* seed_new_default_roles: only roles created by this request are linked.
SeedLinks(roles, names) ==
  {<<roles[l[1]], l[2]>> : l \in {m \in DefaultLinks : m[1] \in names}}

\* What keeps the commit below from going through: a role of a missing name,
\* inserted meanwhile or deleted before, or a reserved name that was taken when
\* it was looked up or is when it is inserted.
RolesBlocked(k) ==
  \/ \E n \in Missing(k) : ~NameFree(n)
  \/ k \in refused
  \/ Missing(k) # {} /\ Reserved

\* The missing roles, the system permissions and their links are one commit.
CommitRoles(k) ==
  /\ stage[k] = "found"
  /\ ~RolesBlocked(k)
  /\ FreshRoles(Missing(k)) # {}
  /\ LET new == CHOOSE f \in FreshRoles(Missing(k)) : TRUE
         roles == [n \in DefaultNames |->
                     IF n \in Missing(k) THEN new[n] ELSE draft[k].roles[n]] IN
     /\ role' = [x \in Roles |->
          IF \E n \in Missing(k) : new[n] = x
            THEN [state |-> "open",
                  name |-> CHOOSE n \in Missing(k) : new[n] = x]
            ELSE role[x]]
     /\ granted' = granted \cup SeedLinks(roles, Missing(k))
     /\ catalogue' = [p \in DOMAIN catalogue |->
          IF p \in SystemPermissions /\ Missing(k) # {} THEN p ELSE catalogue[p]]
     /\ draft' = [draft EXCEPT ![k].roles = roles]
  /\ Continue(k, "seeded")
  /\ disturbed' = IF role' = role THEN disturbed
                                  ELSE disturbed \cup (Busy \ {k})
  /\ UNCHANGED <<openUser, openCompany, enabled, member, owner, attached,
                 platform, pc, req, migrated, made, refused, answered, halfMade>>

\* Mutant of EnableRoles: the roles are looked up again by their names.
EnableRolesByName(k) ==
  LET c == draft[k].company
      roles == UNION {RolesNamed(n) : n \in DefaultNames} IN
  /\ stage[k] = "seeded"
  /\ \A x \in roles : enabled[c, x] = "absent"
  /\ enabled' = [cx \in DOMAIN enabled |->
       IF cx[1] = c /\ cx[2] \in roles THEN "open" ELSE enabled[cx]]
  /\ Continue(k, "enabled")
  /\ UNCHANGED <<openUser, openCompany, role, member, granted, owner,
                 attached, platform, pc, req, permissions, made, draft, refused,
                 disturbed, answered, halfMade>>

\* One row of company_role for each default role.
EnableRoles(k) ==
  LET c == draft[k].company
      roles == {draft[k].roles[n] : n \in DefaultNames} IN
  /\ stage[k] = "seeded"
  /\ \A x \in roles : enabled[c, x] = "absent"
  /\ enabled' = [cx \in DOMAIN enabled |->
       IF cx[1] = c /\ cx[2] \in roles THEN "open" ELSE enabled[cx]]
  /\ Continue(k, "enabled")
  /\ UNCHANGED <<openUser, openCompany, role, member, granted, owner,
                 attached, platform, pc, req, permissions, made, draft, refused,
                 disturbed, answered, halfMade>>

\* ensure_role_name_assigned("Owner")
OwnerRoles(c) == {x \in RolesNamed("Owner") : enabled[c, x] = "open"}

\* add_user_to_company as for any other member, by the name of the role.
AdmitFounder(k) ==
  LET c == draft[k].company IN
  /\ stage[k] = "enabled"
  /\ member[draft[k].founder, c].state # "open"
  /\ \E x \in OwnerRoles(c) : draft' = [draft EXCEPT ![k].owner = x]
  /\ Continue(k, "admitting")
  /\ UNCHANGED <<vars, permissions, made, refused, disturbed, answered, halfMade>>

CommitFounder(k) ==
  LET c == draft[k].company
      u == draft[k].founder IN
  /\ stage[k] = "admitting"
  /\ member[u, c].state = "absent"
  /\ member' = [member EXCEPT ![<<u, c>>] =
                  [state |-> "open", role |-> draft[k].owner]]
  /\ answered' = answered \cup {c}
  /\ Done(k)
  /\ UNCHANGED <<openUser, openCompany, role, enabled, granted, owner,
                 attached, platform, pc, req, permissions, made, disturbed,
                 halfMade>>

\* Another request got in the way of the step this creation is at.
Obstructed(k) ==
  LET c == draft[k].company
      u == draft[k].founder IN
  \/ stage[k] = "found" /\ RolesBlocked(k)
  \/ /\ stage[k] = "seeded"
     /\ \E n \in DefaultNames : enabled[c, draft[k].roles[n]] # "absent"
  \/ /\ stage[k] = "enabled"
     /\ OwnerRoles(c) = {} \/ member[u, c].state = "open"
  \/ stage[k] = "admitting" /\ member[u, c].state # "absent"

\* An error nobody handles, or one the router turns into an answer: either way
\* nothing that was committed is taken back.
CreationFails(k) ==
  /\ Obstructed(k)
  /\ Done(k)
  /\ halfMade' = halfMade \cup
                   {[disturbed |-> k \in disturbed, lost |-> NameLost,
                     reserved |-> k \in refused \/ Reserved]}
  /\ UNCHANGED <<vars, permissions, made, disturbed, answered>>

-----------------------------------------------------------------------------
(* The catalogue of global permissions, which superusers keep.  What it    *)
(* holds besides the system's permissions authorises nothing.              *)

\* The unique name.
PermissionNameFree(name) ==
  name = "own" \/ \A p \in DOMAIN catalogue : catalogue[p] # name

\* Anything else stays as it is.
KeepCatalogue(change) ==
  /\ catalogue' = change
  /\ UNCHANGED <<vars, migrated, made, stage, draft, refused, disturbed,
                 answered, halfMade>>

CreatePermission(p, name) ==
  /\ p \in OwnIds /\ catalogue[p] = None /\ PermissionNameFree(name)
  /\ KeepCatalogue([catalogue EXCEPT ![p] = name])

\* Mutant of RenamePermission: the protection of the system's names is missing.
RenamePermissionAny(p, name) ==
  /\ catalogue[p] # None /\ PermissionNameFree(name)
  /\ KeepCatalogue([catalogue EXCEPT ![p] = name])

\* The system's permissions keep their names; their descriptions are left out.
RenamePermission(p, name) ==
  /\ catalogue[p] # None /\ PermissionNameFree(name)
  /\ p \notin SystemPermissions
  /\ KeepCatalogue([catalogue EXCEPT ![p] = name])

\* A permission of the system is not deleted, so no link of it is.
DeletePermission(p) ==
  /\ catalogue[p] # None /\ p \notin SystemPermissions
  /\ KeepCatalogue([catalogue EXCEPT ![p] = None])

-----------------------------------------------------------------------------

\* A migrated database, where the system permissions exist and nothing else, or
\* one that DB_AUTO_CREATE made, where they do not exist either.
ProvisioningInit ==
  /\ migrated \in BOOLEAN
  /\ catalogue = [p \in SystemPermissions \cup OwnIds |->
       IF migrated /\ p \in SystemPermissions THEN p ELSE None]
  /\ openUser = Users /\ openCompany = {}
  /\ role = [x \in Roles |-> [state |-> "absent", name |-> "custom"]]
  /\ enabled = [cx \in Companies \X Roles |-> "absent"]
  /\ member = [uc \in Users \X Companies |->
                 [state |-> "absent", role |-> CHOOSE x \in Roles : TRUE]]
  /\ granted = {} /\ attached = {} /\ platform = {}
  /\ owner = [p \in Permissions |-> None]
  /\ pc = [r \in Requests |-> "idle"]
  /\ req = [r \in Requests |-> NoRequest]
  /\ made = {} /\ refused = {} /\ disturbed = {} /\ answered = {} /\ halfMade = {}
  /\ stage = [k \in Creators |-> "idle"]
  /\ draft = [k \in Creators |-> NoDraft]

CreationStep(k) ==
  \/ \E u \in Users, c \in Companies : BeginCreation(k, u, c)
  \/ InsertCompany(k) \/ FindRoles(k) \/ CommitRoles(k) \/ EnableRoles(k)
  \/ AdmitFounder(k) \/ CommitFounder(k)
  \/ CreationFails(k) \/ Dies(k)

\* Ids are random: a request cannot name a company that does not exist yet, and
\* one that names a permission that does not exist is refused.
AccessStep ==
  /\ AccessNext
  /\ \A r \in Requests :
       /\ {req'[r].company} \cup req'[r].rest \subseteq made \cup {None}
       /\ req'[r].op \in {"grant", "revoke"} =>
            catalogue[req'[r].permission] # None
  /\ disturbed' = IF UNCHANGED <<role, enabled, member>>
                    THEN disturbed ELSE disturbed \cup Busy
  /\ UNCHANGED <<permissions, made, stage, draft, refused, answered, halfMade>>

CatalogueStep ==
  \E p \in DOMAIN catalogue :
    \/ \E name \in SystemPermissions \cup {"own"} :
         CreatePermission(p, name) \/ RenamePermission(p, name)
    \/ DeletePermission(p)

ProvisioningNext ==
  AccessStep \/ CatalogueStep \/ \E k \in Creators : CreationStep(k)

ProvisioningSpec == ProvisioningInit /\ [][ProvisioningNext]_allVars

-----------------------------------------------------------------------------

\* A company whose creation was answered has its founder as a member, with a
\* role that was enabled for this very company, and all the default roles were
\* enabled, although names are looked up anew between the commits and other
\* requests rename, delete and unassign roles meanwhile.
AnsweredIsComplete ==
  \A c \in answered :
    /\ \E u \in Users : /\ member[u, c].state # "absent"
                        /\ enabled[c, member[u, c].role] # "absent"
    /\ \E f \in [DefaultNames -> Roles] :
         /\ \A n \in DefaultNames : enabled[c, f[n]] # "absent"
         /\ \A m, n \in DefaultNames : f[m] = f[n] => m = n

\* A creation leaves a half-made company behind only if a default role had been
\* deleted, or somebody else changed roles or members while it ran, or, in a
\* database that was not migrated, somebody gave a permission of his own a name
\* of the system's before the first creation.  Alone, and on a catalogue nobody
\* deleted from, it always comes through, and nothing superusers do to the
\* permissions of a migrated database is in its way.
FailsOnlyWhenDisturbed ==
  \A h \in halfMade : h.disturbed \/ h.lost \/ (~migrated /\ h.reserved)

\* Whatever superusers create, rename and delete in the catalogue, a link of a
\* role is to a permission of the system under its own name, and a migrated
\* database keeps all of those and gives none of their names to another.
SystemPermissionsHold ==
  /\ \A g \in granted : catalogue[g[2]] = g[2]
  /\ migrated => ~Reserved /\ \A p \in SystemPermissions : catalogue[p] = p

\* A permission taken from a role is not restored by a later creation: links
\* are added only to roles that are created with them, or by a superuser.
LinksNotRestored ==
  [][\A g \in granted' \ granted :
       \/ role[g[1]].state = "absent"
       \/ \E r \in Requests : pc[r] = "checked" /\ req[r].op = "grant"]_granted
=============================================================================
