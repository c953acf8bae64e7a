--------------------------- MODULE SchemaUpgrade ---------------------------
(***************************************************************************)
(* The chain of Alembic revisions that turns an installation of an older   *)
(* release into the schema of this one, as the container runs it: the      *)
(* entrypoint applies "alembic upgrade head" unless told not to, then the  *)
(* API looks at the tables and starts, refuses to, or makes a schema of    *)
(* its own where there is none.                                            *)
(*                                                                         *)
(* A revision is a program: a sequence of statements on the tables.  On    *)
(* PostgreSQL the whole command is one transaction.  On MySQL every DDL    *)
(* statement commits itself and what came before it, and the revision is   *)
(* recorded by the commit after its last statement.  A container that dies *)
(* or fails is started again (--restart unless-stopped).                   *)
(*                                                                         *)
(* Of the columns only those are kept that some revision adds, drops or    *)
(* refers by.  A statement that needs a table, a column or a key that is   *)
(* not there, makes one that is there already, or drops a table another    *)
(* one refers to, fails.                                                   *)
(***************************************************************************)
EXTENDS Naturals, FiniteSets, Sequences, Functions

CONSTANTS
  Null,
  Installations,   \* what may be in the tables of the older release
  Engines,         \* "postgresql", "mysql"
  Deployments,     \* RUN_MIGRATIONS and DB_AUTO_CREATE of the container
  DefaultsOf,      \* system permissions the default roles are seeded with
  MaxCrashes,      \* bound on the number of crashes
  MaxCommands      \* bound on the number of commands run by hand

ASSUME EngineAssumption == Engines \subseteq {"postgresql", "mysql"}
ASSUME DeploymentAssumption ==
  Deployments \subseteq [migrate : BOOLEAN, create : BOOLEAN]
ASSUME SchemaBounds == MaxCrashes \in Nat /\ MaxCommands \in Nat

\* The older release has foreign keys from a membership to its user and its
\* company and from a role to its company, and names are not NULL.
ASSUME InstallationAssumption ==
  \A i \in Installations \ {Null} :
    /\ \A m \in i.members : m.user \in i.users /\ m.company \in i.companies
    /\ \A x \in i.roles : x.company \in i.companies /\ x.name # Null
ASSUME NullAssumption == Null # "Member"

VARIABLES
  installation, engine, deployment,
  live,      \* tables and version as the migrating connection sees them
  durable,   \* the same, as committed
  proc,      \* what the container does
  target,    \* the version the command is to reach
  todo,      \* rest of the revision at hand
  crashes, commands

setting == <<installation, engine, deployment>>

vars == <<setting, live, durable, proc, target, todo, crashes, commands>>

-----------------------------------------------------------------------------
(* Revisions, in the order of their down_revision.                         *)

Revisions == <<"84fe79d842e9", "ed9ebb68b121", "c539ec0c41d5", "9e858906b135",
               "9552b9fc884a", "4f9d2f8f6c13", "a4e8c1b7d2f9", "b7c2d4e6f809",
               "c9f4a6b8d210", "d1e5f7a9b302", "e2f6a8c1d403">>

Base == 0
Legacy == 4            \* the release whose data the chain takes over
HeadVersion == Len(Revisions)

-----------------------------------------------------------------------------
(* Statements.                                                             *)

CreateTable(t, has, refs) ==
  [do |-> "create", table |-> t, has |-> has, refs |-> refs]
DropTable(t) == [do |-> "drop", table |-> t]
DropIfThere(t, c) == [do |-> "drop_if_there", table |-> t, column |-> c]
RenameTable(t, new) == [do |-> "rename", table |-> t, new |-> new]
AddColumn(t, c, value) ==
  [do |-> "add_column", table |-> t, column |-> c, value |-> value]
DropColumn(t, c) == [do |-> "drop_column", table |-> t, column |-> c]
\* A named foreign key, or with no refs a named index.
AddKey(t, name, refs) ==
  [do |-> "add_key", table |-> t, name |-> name, refs |-> refs]
DropKey(t, name, refs) ==
  [do |-> "drop_key", table |-> t, name |-> name, refs |-> refs]
\* A read that fails when one of the tables is missing.
Reflect(ts) == [do |-> "reflect", tables |-> ts]
Write(rows) == [do |-> "write", rows |-> rows]
Raise == [do |-> "raise"]
Record(v) == [do |-> "record", version |-> v]

IsDDL(s) == s.do \notin {"reflect", "write", "raise", "record"}

-----------------------------------------------------------------------------
(* Tables.  tb maps the names of the tables that exist to their columns    *)
(* and keys, the tables they refer to, and their rows.                     *)

Table(has, refs, rows) == [has |-> has, refs |-> refs, rows |-> rows]

Put(tb, t, content) ==
  [x \in DOMAIN tb \cup {t} |-> IF x = t THEN content ELSE tb[x]]

Without(tb, t) == Restrict(tb, DOMAIN tb \ {t})

SetRows(tb, t, rows) == [tb EXCEPT ![t] = Table(@.has, @.refs, rows)]

\* rows maps the names of tables to the rows they are to have.
Fill(tb, rows) ==
  [t \in DOMAIN tb |->
     IF t \in DOMAIN rows THEN Table(tb[t].has, tb[t].refs, rows[t]) ELSE tb[t]]

Referenced(tb, t) == \E x \in DOMAIN tb \ {t} : t \in tb[x].refs

\* Foreign keys follow a table that is renamed.
Renamed(tb, t, new) ==
  LET moved(x) == IF x = t THEN new ELSE x
      content(x) ==
        [tb[x] EXCEPT !.refs = {moved(y) : y \in @}] IN
  [x \in (DOMAIN tb \ {t}) \cup {new} |->
     content(IF x = new THEN t ELSE x)]

HasColumn(tb, t, c) == t \in DOMAIN tb /\ c \in tb[t].has

-----------------------------------------------------------------------------
(* The rows the revisions write.  Ids are numbers in the older release and *)
(* UUIDs later; a role of the catalogue is identified by its name.         *)

MemberLevel(a) == IF a.user_level = Null THEN "Member" ELSE a.user_level

Association == "association_user_company"

\* 9552b9fc884a: INSERT INTO role ... SELECT DISTINCT ... WHERE NOT EXISTS.
InsertRoles(tb) ==
  LET roles == tb["role"].rows
      wanted == {<<a.company_id, MemberLevel(a)>> : a \in tb[Association].rows}
      known == {<<x.company_id, x.name>> : x \in roles} IN
  SetRows(tb, "role", roles \cup
    {[id |-> Null, company_id |-> w[1], name |-> w[2], closed |-> FALSE] :
       w \in wanted \ known})

\* 9552b9fc884a: UPDATE ... SET role_name, and its inverse.
NamesFromLevels(tb) ==
  SetRows(tb, Association,
    {[a EXCEPT !.role_name = MemberLevel(a)] : a \in tb[Association].rows})

LevelsFromNames(tb) ==
  SetRows(tb, Association,
    {[a EXCEPT !.user_level = a.role_name] : a \in tb[Association].rows})

\* 4f9d2f8f6c13: all rows again, with other ids for users and companies.
UserIds(tb) == {u.id : u \in tb["user"].rows}
CompanyIds(tb) == {c.id : c \in tb["company"].rows}

CopyRows(tb, newUser, newCompany) ==
  Fill(tb,
    [user_uuid_tmp |->
       {[u EXCEPT !.id = newUser[u.id]] : u \in tb["user"].rows},
     company_uuid_tmp |->
       {[c EXCEPT !.id = newCompany[c.id]] : c \in tb["company"].rows},
     role_uuid_tmp |->
       {[x EXCEPT !.company_id = newCompany[@]] : x \in tb["role"].rows},
     association_user_company_uuid_tmp |->
       {[a EXCEPT !.user_id = newUser[@], !.company_id = newCompany[@],
                  !.user_level = Null] : a \in tb[Association].rows}])

\* A row is read by its columns: where there are rows, a missing one is an error.
CanCopy(tb) ==
  /\ tb["role"].rows # {} => HasColumn(tb, "role", "company_id")
  /\ tb[Association].rows # {} => HasColumn(tb, Association, "role_name")

Uuid(id) == [uuid |-> TRUE, n |-> id.n]
Number(k) == [uuid |-> FALSE, n |-> k]

\* enumerate(rows, start=1), over rows that come in any order.
Numberings(ids) == Bijection(ids, {Number(k) : k \in 1..Cardinality(ids)})

\* The new ids are written as text of 36 characters, str(uuid4()), to a table as
\* the database describes it: a column of type uuid on PostgreSQL, which takes the
\* text, and CHAR(32) on MySQL, which does not.
TakesUuidText(ids) == engine = "postgresql" \/ ids = {}

\* Mutant of CopyToUuid: the memberships keep the ids they have.
CopyToUuidRowsOnly(tb) ==
  IF TakesUuidText(UserIds(tb) \cup CompanyIds(tb))
    THEN {SetRows(CopyRows(tb, [i \in UserIds(tb) |-> Uuid(i)],
                               [i \in CompanyIds(tb) |-> Uuid(i)]),
                  "association_user_company_uuid_tmp", tb[Association].rows)}
    ELSE {}

CopyToUuid(tb) ==
  IF TakesUuidText(UserIds(tb) \cup CompanyIds(tb))
    THEN {CopyRows(tb, [i \in UserIds(tb) |-> Uuid(i)],
                       [i \in CompanyIds(tb) |-> Uuid(i)])}
    ELSE {}

CopyToNumbers(tb) ==
  {CopyRows(tb, new[1], new[2]) :
     new \in Numberings(UserIds(tb)) \X Numberings(CompanyIds(tb))}

\* a4e8c1b7d2f9: the roles of one name become one, with the columns of the row
\* that is read first (the SELECT has no order); a row of company_role keeps
\* what each company had.
FoldInto(tb, first) ==
  Fill(tb,
    [role_global_tmp |->
       {[id |-> n, company_id |-> Null, name |-> n,
         closed |-> first[n].closed] : n \in DOMAIN first},
     company_role_tmp |->
       {[company_id |-> x.company_id, role_id |-> x.name,
         closed |-> x.closed] : x \in tb["role"].rows},
     association_user_company_tmp |->
       {[a EXCEPT !.role_id = a.role_name, !.role_name = Null] :
          a \in tb[Association].rows}])

\* role_key_map: a membership needs a role of its company, by its name.
CanFold(tb) ==
  CanCopy(tb) /\ \A a \in tb[Association].rows :
    \E x \in tb["role"].rows :
      x.company_id = a.company_id /\ x.name = a.role_name

FoldRoles(tb) ==
  LET roles == tb["role"].rows
      names == {x.name : x \in roles} IN
  IF TakesUuidText(names)
    THEN {FoldInto(tb, first) :
            first \in {f \in [names -> roles] : \A n \in names : f[n].name = n}}
    ELSE {}

\* c9f4a6b8d210: the system permissions, and their links to the default roles
\* that are open; what is there already is left alone.
SystemPermissions == UNION {DefaultsOf[name] : name \in DOMAIN DefaultsOf}

DefaultLinks(tb) ==
  UNION {{[role_id |-> x.id, permission |-> p] : p \in DefaultsOf[x.name]} :
           x \in {y \in tb["role"].rows :
                    ~y.closed /\ y.name \in DOMAIN DefaultsOf}}

SeedPermissions(tb) ==
  Fill(tb,
    [global_permission |-> tb["global_permission"].rows \cup SystemPermissions,
     role_global_permission |->
       tb["role_global_permission"].rows \cup DefaultLinks(tb)])

UnseedPermissions(tb) ==
  Fill(tb,
    [global_permission |-> tb["global_permission"].rows \ SystemPermissions,
     role_global_permission |->
       {l \in tb["role_global_permission"].rows :
          l.permission \notin SystemPermissions}])

\* d1e5f7a9b302: the one row of the control table.
InsertControl(tb) == SetRows(tb, "superuser_bootstrap_control", {1})

\* The columns of the memberships that a statement in SQL reads or sets.
ColumnsOf(rows) ==
  CASE rows = "insert_roles" -> {"user_level"}
    [] rows \in {"names_from_levels", "levels_from_names"} ->
         {"user_level", "role_name"}
    [] OTHER -> {}

\* The tables it writes, beside the memberships.
TablesOf(rows) ==
  CASE rows = "insert_roles" -> {"role"}
    [] rows \in {"copy_to_uuid", "copy_to_numbers"} ->
         {"user_uuid_tmp", "company_uuid_tmp", "role_uuid_tmp",
          "association_user_company_uuid_tmp"}
    [] rows = "fold_roles" ->
         {"role_global_tmp", "company_role_tmp", "association_user_company_tmp"}
    [] rows \in {"seed", "unseed"} ->
         {"global_permission", "role_global_permission"}
    [] rows = "control" -> {"superuser_bootstrap_control"}
    [] OTHER -> {}

\* The possible results of the reads and writes of a revision.
Written(tb, rows) ==
  IF \/ ~(TablesOf(rows) \subseteq DOMAIN tb)
     \/ \E c \in ColumnsOf(rows) : ~HasColumn(tb, Association, c)
     \/ rows \in {"copy_to_uuid", "copy_to_numbers"} /\ ~CanCopy(tb)
     \/ rows = "fold_roles" /\ ~CanFold(tb)
    THEN {}
    ELSE CASE rows = "insert_roles" -> {InsertRoles(tb)}
           [] rows = "names_from_levels" -> {NamesFromLevels(tb)}
           [] rows = "levels_from_names" -> {LevelsFromNames(tb)}
           [] rows = "copy_to_uuid" -> CopyToUuid(tb)
           [] rows = "copy_to_numbers" -> CopyToNumbers(tb)
           [] rows = "fold_roles" -> FoldRoles(tb)
           [] rows = "seed" -> {SeedPermissions(tb)}
           [] rows = "unseed" -> {UnseedPermissions(tb)}
           [] rows = "control" -> {InsertControl(tb)}

-----------------------------------------------------------------------------
(* What a statement does: the set of possible results, none if it fails.   *)

Creating(tb, s) ==
  IF s.table \notin DOMAIN tb /\ s.refs \subseteq DOMAIN tb
    THEN {Put(tb, s.table, Table(s.has, s.refs, {}))}
    ELSE {}

Dropping(tb, t) ==
  IF t \in DOMAIN tb /\ ~Referenced(tb, t) THEN {Without(tb, t)} ELSE {}

Renaming(tb, t, new) ==
  IF t \in DOMAIN tb /\ new \notin DOMAIN tb THEN {Renamed(tb, t, new)} ELSE {}

AddingColumn(tb, s) ==
  IF s.table \in DOMAIN tb /\ ~HasColumn(tb, s.table, s.column)
    THEN {[tb EXCEPT ![s.table] =
             Table(@.has \cup {s.column}, @.refs,
                   {[r EXCEPT ![s.column] = s.value] : r \in @.rows})]}
    ELSE {}

DroppingColumn(tb, s) ==
  IF HasColumn(tb, s.table, s.column)
    THEN {[tb EXCEPT ![s.table] =
             Table(@.has \ {s.column}, @.refs,
                   {[r EXCEPT ![s.column] = Null] : r \in @.rows})]}
    ELSE {}

AddingKey(tb, s) ==
  IF {s.table} \cup s.refs \subseteq DOMAIN tb /\ ~HasColumn(tb, s.table, s.name)
    THEN {[tb EXCEPT ![s.table] =
             Table(@.has \cup {s.name}, @.refs \cup s.refs, @.rows)]}
    ELSE {}

\* MySQL keeps an index that is the only one a foreign key of the table can use,
\* as both indexes of the chain are.
DroppingKey(tb, s) ==
  IF HasColumn(tb, s.table, s.name) /\ ~(engine = "mysql" /\ s.refs = {})
    THEN {[tb EXCEPT ![s.table] =
             Table(@.has \ {s.name}, @.refs \ s.refs, @.rows)]}
    ELSE {}

Outcomes(tb, s) ==
  CASE s.do = "create" -> Creating(tb, s)
    [] s.do = "drop" -> Dropping(tb, s.table)
    [] s.do = "drop_if_there" ->
         IF HasColumn(tb, s.table, s.column) THEN Dropping(tb, s.table) ELSE {tb}
    [] s.do = "rename" -> Renaming(tb, s.table, s.new)
    [] s.do = "add_column" -> AddingColumn(tb, s)
    [] s.do = "drop_column" -> DroppingColumn(tb, s)
    [] s.do = "add_key" -> AddingKey(tb, s)
    [] s.do = "drop_key" -> DroppingKey(tb, s)
    [] s.do = "reflect" -> IF s.tables \subseteq DOMAIN tb THEN {tb} ELSE {}
    [] s.do = "write" -> Written(tb, s.rows)
    [] s.do = "raise" -> {}
    [] s.do = "record" -> {tb}

-----------------------------------------------------------------------------
(* The revisions, upgrade() and downgrade().                               *)

CoreTables == {"user", "company", "role", Association}
RoleForeignKey == "fk_association_user_company_role"

CreateUsers == <<CreateTable("user", {}, {})>>

CreateCompanies ==
  <<CreateTable("company", {}, {}),
    CreateTable(Association, {"user_level"}, {"company", "user"})>>

CreateRoles == <<CreateTable("role", {"company_id"}, {"company"})>>

\* Mutant of LinkMembersToRoles: the level goes before the names are written.
LinkMembersTooLate ==
  <<AddColumn(Association, "role_name", Null), Write("insert_roles"),
    DropColumn(Association, "user_level"), Write("names_from_levels"),
    AddKey(Association, RoleForeignKey, {"role"})>>

\* The columns of company change their width only.
LinkMembersToRoles ==
  <<AddColumn(Association, "role_name", Null),
    Write("insert_roles"), Write("names_from_levels"),
    AddKey(Association, RoleForeignKey, {"role"}),
    DropColumn(Association, "user_level")>>

UnlinkMembersFromRoles ==
  <<AddColumn(Association, "user_level", Null), Write("levels_from_names"),
    DropKey(Association, RoleForeignKey, {"role"}),
    DropColumn(Association, "role_name")>>

\* The foreign key to the roles is made anew, without its name.
CreateIdTables ==
  <<CreateTable("user_uuid_tmp", {}, {}),
    CreateTable("company_uuid_tmp", {}, {}),
    CreateTable("role_uuid_tmp", {"company_id"}, {"company_uuid_tmp"}),
    CreateTable("association_user_company_uuid_tmp", {"role_name"},
      {"user_uuid_tmp", "company_uuid_tmp", "role_uuid_tmp"})>>

\* Mutant of DropOldTables: in the order the tables were made.
DropOldTablesInOrder ==
  <<DropTable("user"), DropTable("company"), DropTable("role"),
    DropTable(Association)>>

DropOldTables ==
  <<DropTable(Association), DropTable("role"), DropTable("company"),
    DropTable("user")>>

RenameIdTables ==
  <<RenameTable("user_uuid_tmp", "user"),
    RenameTable("company_uuid_tmp", "company"),
    RenameTable("role_uuid_tmp", "role"),
    RenameTable("association_user_company_uuid_tmp", Association)>>

ChangeIds(copy) ==
  <<Reflect({"user"})>> \o CreateIdTables \o
  <<Reflect(CoreTables), Write(copy)>> \o DropOldTables \o RenameIdTables

\* Passed over when the roles look normalised already.
NormalizeRoles(tb) ==
  IF HasColumn(tb, "role", "id") /\ ~HasColumn(tb, "role", "company_id")
    THEN << >>
    ELSE <<CreateTable("role_global_tmp", {"id"}, {}),
           CreateTable("company_role_tmp", {"role_id"},
             {"company", "role_global_tmp"}),
           CreateTable("association_user_company_tmp", {"role_id"},
             {"user", "company", "role_global_tmp"}),
           Reflect({"role", Association}), Write("fold_roles"),
           DropTable(Association), DropIfThere("company_role", "role_id"),
           DropTable("role"),
           RenameTable("role_global_tmp", "role"),
           RenameTable("company_role_tmp", "company_role"),
           RenameTable("association_user_company_tmp", Association)>>

PermissionIndex == "ix_company_role_permission_company_permission"

CreatePermissions ==
  <<CreateTable("global_permission", {}, {}),
    CreateTable("company_permission", {}, {"company"}),
    CreateTable("role_global_permission", {}, {"global_permission", "role"}),
    CreateTable("company_role_permission", {},
      {"company_permission", "company_role"}),
    AddKey("company_role_permission", PermissionIndex, {}),
    CreateTable("user_role", {}, {"role", "user"})>>

DropPermissions ==
  <<DropTable("user_role"),
    DropKey("company_role_permission", PermissionIndex, {}),
    DropTable("company_role_permission"), DropTable("role_global_permission"),
    DropTable("company_permission"), DropTable("global_permission")>>

SeedTables == {"global_permission", "role", "role_global_permission"}

EventIndex == "ix_privileged_access_event_target_created"

CreateControl ==
  <<CreateTable("superuser_bootstrap_control", {}, {"user"}),
    CreateTable("privileged_access_event", {}, {"user"}),
    AddKey("privileged_access_event", EventIndex, {}), Write("control")>>

DropControl ==
  <<DropKey("privileged_access_event", EventIndex, {}),
    DropTable("privileged_access_event"),
    DropTable("superuser_bootstrap_control")>>

Upgrade(v, tb) ==
  CASE Revisions[v] = "84fe79d842e9" -> CreateUsers
    [] Revisions[v] = "ed9ebb68b121" -> CreateCompanies
    [] Revisions[v] = "c539ec0c41d5" -> CreateRoles
    [] Revisions[v] = "9e858906b135" -> << >>
    [] Revisions[v] = "9552b9fc884a" -> LinkMembersToRoles
    [] Revisions[v] = "4f9d2f8f6c13" -> ChangeIds("copy_to_uuid")
    [] Revisions[v] = "a4e8c1b7d2f9" -> NormalizeRoles(tb)
    [] Revisions[v] = "b7c2d4e6f809" -> CreatePermissions
    [] Revisions[v] = "c9f4a6b8d210" -> <<Reflect(SeedTables), Write("seed")>>
    [] Revisions[v] = "d1e5f7a9b302" -> CreateControl
    [] Revisions[v] = "e2f6a8c1d403" -> <<AddColumn("user", "is_superuser", FALSE)>>

\* Commands go down to the older release at most; what is below it only drops
\* its tables.
Downgrade(v) ==
  CASE Revisions[v] = "9552b9fc884a" -> UnlinkMembersFromRoles
    [] Revisions[v] = "4f9d2f8f6c13" -> ChangeIds("copy_to_numbers")
    [] Revisions[v] = "a4e8c1b7d2f9" -> <<Raise>>
    [] Revisions[v] = "b7c2d4e6f809" -> DropPermissions
    [] Revisions[v] = "c9f4a6b8d210" -> <<Reflect(SeedTables), Write("unseed")>>
    [] Revisions[v] = "d1e5f7a9b302" -> DropControl
    [] Revisions[v] = "e2f6a8c1d403" -> <<DropColumn("user", "is_superuser")>>

-----------------------------------------------------------------------------
(* What the API looks at before it starts.                                 *)

ExpectedTables ==
  CoreTables \cup SeedTables \cup
  {"company_permission", "company_role", "company_role_permission",
   "privileged_access_event", "superuser_bootstrap_control", "user_role"}

SchemaMatchesModels(tb) ==
  /\ HasColumn(tb, "user", "is_superuser")
  /\ HasColumn(tb, "role", "id") /\ ~HasColumn(tb, "role", "company_id")
  /\ HasColumn(tb, Association, "role_id")
  /\ ~HasColumn(tb, Association, "role_name")
  /\ ~HasColumn(tb, Association, "user_level")
  /\ HasColumn(tb, "company_role", "role_id")

\* Mutant of TableState: the columns are not compared.
TableStateByName(tb) ==
  IF ExpectedTables \cap DOMAIN tb = {} THEN "missing"
  ELSE IF ~(ExpectedTables \subseteq DOMAIN tb) THEN "partial" ELSE "ok"

TableState(tb) ==
  IF ExpectedTables \cap DOMAIN tb = {} THEN "missing"
  ELSE IF ~(ExpectedTables \subseteq DOMAIN tb) THEN "partial"
  ELSE IF ~SchemaMatchesModels(tb) THEN "incompatible" ELSE "ok"

\* metadata.create_all, in the order of the foreign keys.  It inserts nothing
\* and records no version.
CreateAll ==
  <<CreateTable("company", {}, {}), CreateTable("global_permission", {}, {}),
    CreateTable("role", {"id"}, {}), CreateTable("user", {"is_superuser"}, {}),
    CreateTable(Association, {"role_id"}, {"company", "role", "user"}),
    CreateTable("company_permission", {}, {"company"}),
    CreateTable("company_role", {"role_id"}, {"company", "role"}),
    CreateTable("privileged_access_event", {}, {"user"}),
    CreateTable("role_global_permission", {}, {"global_permission", "role"}),
    CreateTable("superuser_bootstrap_control", {}, {"user"}),
    CreateTable("user_role", {}, {"role", "user"}),
    CreateTable("company_role_permission", {},
      {"company_permission", "company_role"}),
    AddKey("company_role_permission", PermissionIndex, {})>>

-----------------------------------------------------------------------------
(* The container and its commands.                                         *)

Commands == {"upgrading", "downgrading"}
Running == Commands \cup {"creating"}

\* The entrypoint, when the container is started or started again.
StartContainer ==
  /\ proc = "down"
  /\ proc' = IF deployment.migrate THEN "upgrading" ELSE "starting"
  /\ target' = HeadVersion /\ live' = durable
  /\ UNCHANGED <<setting, durable, todo, crashes, commands>>

\* Somebody stops the service and runs alembic upgrade or downgrade.
RunCommand(t) ==
  /\ proc \in {"down", "up"}
  /\ commands < MaxCommands /\ commands' = commands + 1
  /\ t # durable.version
  /\ proc' = IF t > durable.version THEN "upgrading" ELSE "downgrading"
  /\ target' = t /\ live' = durable
  /\ UNCHANGED <<setting, durable, todo, crashes>>

\* The next revision of the command: its statements, then its record.
BeginRevision ==
  LET v == live.version IN
  /\ proc \in Commands /\ todo = << >> /\ v # target
  /\ todo' = IF proc = "upgrading"
                THEN Append(Upgrade(v + 1, live.tables), Record(v + 1))
                ELSE Append(Downgrade(v), Record(v - 1))
  /\ UNCHANGED <<setting, live, durable, proc, target, crashes,
                 commands>>

\* A DDL statement of MySQL commits itself and what came before it.
CommitsOnMySQL(s) == engine = "mysql" /\ (IsDDL(s) \/ s.do = "record")

Execute ==
  LET s == Head(todo) IN
  /\ proc \in Running /\ todo # << >>
  /\ \E tb \in Outcomes(live.tables, s) :
       live' = [tables |-> tb,
                version |-> IF s.do = "record" THEN s.version ELSE live.version]
  /\ durable' = IF CommitsOnMySQL(s) THEN live' ELSE durable
  /\ todo' = Tail(todo)
  /\ UNCHANGED <<setting, proc, target, crashes, commands>>

\* The command ends with an error and the container with it.  On MySQL the
\* statement that failed has committed what came before it all the same.
FailStatement ==
  LET s == Head(todo) IN
  /\ proc \in Running /\ todo # << >>
  /\ Outcomes(live.tables, s) = {}
  /\ durable' = IF CommitsOnMySQL(s) THEN live ELSE durable
  /\ live' = durable' /\ todo' = << >> /\ proc' = "down"
  /\ UNCHANGED <<setting, target, crashes, commands>>

\* The transaction of PostgreSQL commits; the entrypoint goes on to the API.
FinishCommand ==
  /\ proc \in Commands /\ todo = << >> /\ live.version = target
  /\ durable' = live
  /\ proc' = IF proc = "upgrading" /\ target = HeadVersion THEN "starting"
                                                           ELSE "down"
  /\ UNCHANGED <<setting, live, target, todo, crashes, commands>>

\* DatabaseSessionManager(): the tables are as expected, there are none and they
\* may be made, or the API ends with an error.
StartAPI ==
  LET state == TableState(durable.tables)
      make == state = "missing" /\ deployment.create IN
  /\ proc = "starting"
  /\ proc' = IF state = "ok" THEN "up" ELSE IF make THEN "creating" ELSE "down"
  /\ todo' = IF make THEN CreateAll ELSE << >>
  /\ UNCHANGED <<setting, live, durable, target, crashes, commands>>

FinishCreation ==
  /\ proc = "creating" /\ todo = << >>
  /\ durable' = live /\ proc' = "up"
  /\ UNCHANGED <<setting, live, target, todo, crashes, commands>>

Crash ==
  /\ proc \in Running
  /\ crashes < MaxCrashes /\ crashes' = crashes + 1
  /\ live' = durable /\ todo' = << >> /\ proc' = "down"
  /\ UNCHANGED <<setting, durable, target, commands>>

-----------------------------------------------------------------------------

\* The tables as the older release left them.
LegacyTables(i) ==
  [t \in CoreTables |->
     CASE t = "user" ->
            Table({}, {}, {[id |-> Number(u), email |-> u,
                            is_superuser |-> Null] : u \in i.users})
       [] t = "company" ->
            Table({}, {}, {[id |-> Number(c), email |-> c] : c \in i.companies})
       [] t = "role" ->
            Table({"company_id"}, {"company"},
              {[id |-> Null, company_id |-> Number(x.company),
                name |-> x.name, closed |-> x.closed] : x \in i.roles})
       [] t = Association ->
            Table({"user_level"}, {"company", "user"},
              {[user_id |-> Number(m.user), company_id |-> Number(m.company),
                user_level |-> m.user_level, role_name |-> Null, role_id |-> Null,
                closed |-> m.closed] : m \in i.members})]

\* An empty database, or one of the older release.
SchemaInit ==
  /\ installation \in Installations
  /\ engine \in Engines /\ deployment \in Deployments
  /\ IF installation = Null
       THEN durable = [tables |-> << >>, version |-> Base]
       ELSE durable = [tables |-> LegacyTables(installation), version |-> Legacy]
  /\ live = durable
  /\ proc = "down" /\ target = HeadVersion /\ todo = << >>
  /\ crashes = 0 /\ commands = 0

CommandStep ==
  \/ BeginRevision \/ Execute \/ FailStatement \/ FinishCommand
  \/ StartAPI \/ FinishCreation

SchemaNext ==
  \/ StartContainer \/ CommandStep \/ Crash
  \/ \E t \in Legacy..HeadVersion : RunCommand(t)

\* A command goes on to its end unless it dies, and Docker starts the container
\* again when it ended.
FairSchemaSpec ==
  /\ SchemaInit /\ [][SchemaNext]_vars
  /\ WF_vars(StartContainer) /\ WF_vars(CommandStep)

-----------------------------------------------------------------------------
(* What the tables say, whatever the names of the tables are.              *)

Data == IF installation = Null
          THEN [users |-> {}, companies |-> {}, roles |-> {}, members |-> {}]
          ELSE installation

UserTables == {"user", "user_uuid_tmp"}
CompanyTables == {"company", "company_uuid_tmp"}
RoleTables == {"role", "role_uuid_tmp", "role_global_tmp"}
AssociationTables == {Association, "association_user_company_uuid_tmp",
                      "association_user_company_tmp"}

\* The rows of the table among ts that the table t refers to.
RowsBehind(tb, t, ts) == UNION {tb[x].rows : x \in tb[t].refs \cap ts}

UsersOf(tb, t, a) ==
  {u.email : u \in {x \in RowsBehind(tb, t, UserTables) : x.id = a.user_id}}

CompaniesOf(tb, t, a) ==
  {c.email :
     c \in {x \in RowsBehind(tb, t, CompanyTables) : x.id = a.company_id}}

RoleNamesOf(tb, t, a) ==
  IF a.role_id # Null
    THEN {x.name : x \in {y \in RowsBehind(tb, t, RoleTables) : y.id = a.role_id}}
    ELSE {IF a.role_name # Null THEN a.role_name ELSE MemberLevel(a)}

StandsFor(tb, t, a) ==
  [user : UsersOf(tb, t, a), company : CompaniesOf(tb, t, a),
   role : RoleNamesOf(tb, t, a), closed : {a.closed}]

Memberships(tb, t) == UNION {StandsFor(tb, t, a) : a \in tb[t].rows}

LegacyMemberships ==
  {[user |-> m.user, company |-> m.company, role |-> MemberLevel(m),
    closed |-> m.closed] : m \in Data.members}

\* The roles each company had, and those the memberships imply.
LegacyRoles ==
  LET named == {<<x.company, x.name>> : x \in Data.roles} IN
  Data.roles \cup
  {[company |-> m.company, name |-> MemberLevel(m), closed |-> FALSE] :
     m \in {n \in Data.members : <<n.company, MemberLevel(n)>> \notin named}}

Emails(tb, t) == {r.email : r \in tb[t].rows}

CompanyRoles(tb) ==
  UNION {[company : {c.email : c \in {y \in tb["company"].rows :
                                       y.id = cr.company_id}},
          name : {x.name : x \in {y \in tb["role"].rows : y.id = cr.role_id}},
          closed : {cr.closed}] : cr \in tb["company_role"].rows}

\* All that the upgrade is for: the same accounts, companies and memberships,
\* each company with the roles it had, a role of the catalogue closed only if
\* it was closed somewhere, and the default roles with their permissions.
AtHead(tb) ==
  /\ SchemaMatchesModels(tb) /\ ExpectedTables \subseteq DOMAIN tb
  /\ Emails(tb, "user") = Data.users
  /\ Emails(tb, "company") = Data.companies
  /\ Memberships(tb, Association) = LegacyMemberships
  /\ CompanyRoles(tb) = LegacyRoles
  /\ \A x \in tb["role"].rows : x.closed =>
       \E y \in Data.roles : y.name = x.name /\ y.closed
  /\ tb["role_global_permission"].rows = DefaultLinks(tb)
  /\ tb["superuser_bootstrap_control"].rows = {1}

-----------------------------------------------------------------------------

\* Foreign keys refer to tables that are there, and every membership to a user,
\* a company and a role in them.
Resolves(tb) ==
  /\ \A t \in DOMAIN tb : tb[t].refs \subseteq DOMAIN tb
  /\ \A t \in AssociationTables \cap DOMAIN tb : \A a \in tb[t].rows :
       /\ UsersOf(tb, t, a) # {} /\ CompaniesOf(tb, t, a) # {}
       /\ RoleNamesOf(tb, t, a) # {}

SchemaTypeOK ==
  /\ engine \in Engines /\ deployment \in Deployments
  /\ proc \in Running \cup {"down", "starting", "up"}
  /\ target \in Legacy..HeadVersion
  /\ crashes \in 0..MaxCrashes /\ commands \in 0..MaxCommands
  /\ \A d \in {live, durable} : d.version \in Base..HeadVersion /\ Resolves(d.tables)

\* Whatever dies or fails at whatever statement, and whatever is run after it,
\* every account and every membership of the older release is in a committed
\* table of the database, under one name or another.
NothingLost ==
  LET tb == durable.tables IN
  /\ Data.users # {} =>
       \E t \in UserTables \cap DOMAIN tb : Emails(tb, t) = Data.users
  /\ Data.members # {} =>
       \E t \in AssociationTables \cap DOMAIN tb :
         Memberships(tb, t) = LegacyMemberships

\* There are rows to which 4f9d2f8f6c13 gives new ids.
HasRows == Data.users \cup Data.companies # {}

\* An API that is started at any moment, beside a migration or after one was
\* interrupted, comes up only on a database that was taken over completely:
\* the comparison of tables and columns is all that tells it so, and the last
\* revision adds the column it waits for.  A new database that the API made by
\* itself lacks what the migrations insert.  Left out is a database of MySQL without
\* accounts where somebody ran 4f9d2f8f6c13 by hand and it died in the midst of its
\* drops and renames: it looks new to an API that may make tables.
OkIsComplete ==
  TableState(durable.tables) = "ok" =>
    \/ AtHead(durable.tables)
    \/ deployment.create /\ installation = Null /\ durable.version = Base
    \/ /\ engine = "mysql" /\ ~HasRows /\ crashes > 0 /\ commands > 0
       /\ deployment.create /\ ~deployment.migrate

\* A container that migrates, or that may make the tables of a new database,
\* gets the API up on PostgreSQL, whatever is in the database and also when it
\* dies on the way, and, if it migrates, when somebody has run commands by hand.
\* On MySQL it does so where the older release left no accounts and no companies
\* and nothing is interrupted or run by hand; where it left any, the API never
\* comes up, though docs/migrations.md:3 asks that every change work on both.
APIComesUp ==
  /\ deployment.migrate \/ (deployment.create /\ installation = Null) =>
       \/ []<>(proc = "up")
       \/ engine = "mysql" /\ HasRows
       \/ <>(engine = "mysql" /\ crashes + commands > 0)
       \/ <>(~deployment.migrate /\ commands > 0)
  /\ engine = "mysql" /\ HasRows => [](proc # "up")

(* What does not hold on MySQL.                                            *)

\* A database that is recorded to be at the head has the tables of the head,
\* with the memberships of the older release.
HeadIsComplete == durable.version = HeadVersion => AtHead(durable.tables)
=============================================================================
