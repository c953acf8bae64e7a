------------------------ MODULE SchemaUpgradeProofs ------------------------
(***************************************************************************)
(* Theorems about SchemaUpgrade: whatever is in the tables of the older    *)
(* release, and wherever the container dies, the foreign keys resolve and  *)
(* the accounts and memberships are in a committed table.                  *)
(***************************************************************************)
EXTENDS SchemaUpgrade, SequenceTheorems, TLAPS

-----------------------------------------------------------------------------
(* What each statement does to the tables.                                 *)

\* The tables are a function to records, and refer to tables that are there.
Shaped(tb) ==
  /\ tb = [t \in DOMAIN tb |-> tb[t]]
  /\ \A t \in DOMAIN tb :
       /\ tb[t] = Table(tb[t].has, tb[t].refs, tb[t].rows)
       /\ tb[t].refs \subseteq DOMAIN tb

\* The tables but t are as they were.
Elsewhere(tb, tb2, t) ==
  \A x \in DOMAIN tb \ {t} : x \in DOMAIN tb2 /\ tb2[x] = tb[x]

LEMMA PutEffect ==
  ASSUME NEW tb, Shaped(tb), NEW t \in DOMAIN tb, NEW has, NEW refs, NEW rows,
         refs \subseteq DOMAIN tb,
         NEW tb2, tb2 = [tb EXCEPT ![t] = Table(has, refs, rows)]
  PROVE  /\ Shaped(tb2) /\ Elsewhere(tb, tb2, t)
         /\ DOMAIN tb2 = DOMAIN tb /\ tb2[t] = Table(has, refs, rows)
<1>1. DOMAIN tb2 = DOMAIN tb
  OBVIOUS
<1>2. \A x \in DOMAIN tb \ {t} : tb2[x] = tb[x]
  OBVIOUS
<1>3. tb2[t] = Table(has, refs, rows)
  OBVIOUS
<1>4. tb2[t].has = has /\ tb2[t].refs = refs /\ tb2[t].rows = rows
  BY <1>3 DEF Table
<1>5. tb2 = [x \in DOMAIN tb2 |-> tb2[x]]
  OBVIOUS
<1> QED
  BY <1>1, <1>2, <1>3, <1>4, <1>5 DEF Shaped, Elsewhere

Created(tb, t, has, refs, tb2) ==
  /\ Shaped(tb2) /\ Elsewhere(tb, tb2, t)
  /\ t \notin DOMAIN tb /\ refs \subseteq DOMAIN tb
  /\ DOMAIN tb2 = DOMAIN tb \cup {t}
  /\ tb2[t] = Table(has, refs, {})

LEMMA CreateEffect ==
  ASSUME NEW tb, NEW t, NEW has, NEW refs, Shaped(tb),
         NEW tb2, tb2 \in Outcomes(tb, CreateTable(t, has, refs))
  PROVE  Created(tb, t, has, refs, tb2)
<1>1. tb2 \in Creating(tb, CreateTable(t, has, refs))
  BY DEF Outcomes, CreateTable
<1>2. /\ t \notin DOMAIN tb /\ refs \subseteq DOMAIN tb
      /\ tb2 = Put(tb, t, Table(has, refs, {}))
  BY <1>1 DEF Creating, CreateTable, Table
<1> QED
  BY <1>2 DEF Put, Shaped, Elsewhere, Table, Created

Dropped(tb, t, tb2) ==
  /\ Shaped(tb2) /\ Elsewhere(tb, tb2, t)
  /\ t \in DOMAIN tb /\ DOMAIN tb2 = DOMAIN tb \ {t}
  /\ \A x \in DOMAIN tb2 : t \notin tb[x].refs

LEMMA DropEffect ==
  ASSUME NEW tb, NEW t, Shaped(tb), NEW tb2, tb2 \in Dropping(tb, t)
  PROVE  Dropped(tb, t, tb2)
<1>1. t \in DOMAIN tb /\ ~Referenced(tb, t) /\ tb2 = Without(tb, t)
  BY DEF Dropping
<1> QED
  BY <1>1 DEF Without, Shaped, Restrict, Referenced, Elsewhere, Table,
         Dropped

Becomes(x, t, new) == IF x = t THEN new ELSE x

\* A table, as it is after another was renamed.
Redirected(c, t, new) ==
  Table(c.has, {Becomes(x, t, new) : x \in c.refs}, c.rows)

MovedTo(tb, t, new, tb2) ==
  /\ Shaped(tb2)
  /\ t \in DOMAIN tb /\ new \notin DOMAIN tb
  /\ DOMAIN tb2 = (DOMAIN tb \ {t}) \cup {new}
  /\ tb2[new] = Redirected(tb[t], t, new)
  /\ \A x \in DOMAIN tb \ {t} : tb2[x] = Redirected(tb[x], t, new)

LEMMA RenameEffect ==
  ASSUME NEW tb, NEW t, NEW new, Shaped(tb),
         NEW tb2, tb2 \in Outcomes(tb, RenameTable(t, new))
  PROVE  MovedTo(tb, t, new, tb2)
<1>1. tb2 \in Renaming(tb, t, new)
  BY DEF Outcomes, RenameTable
<1>2. t \in DOMAIN tb /\ new \notin DOMAIN tb /\ tb2 = Renamed(tb, t, new)
  BY <1>1 DEF Renaming
<1>3. DOMAIN tb2 = (DOMAIN tb \ {t}) \cup {new}
  BY <1>2 DEF Renamed
<1>4. ASSUME NEW x \in DOMAIN tb
      PROVE  tb2[Becomes(x, t, new)] = Redirected(tb[x], t, new)
  <2>1. PICK c : c = tb[x] /\ c = Table(c.has, c.refs, c.rows)
    BY DEF Shaped
  <2>2. tb2[Becomes(x, t, new)] =
          [c EXCEPT !.refs = {Becomes(y, t, new) : y \in @}]
    BY <1>2, <2>1 DEF Renamed, Becomes
  <2>3. [c EXCEPT !.refs = {Becomes(y, t, new) : y \in @}] =
          Redirected(c, t, new)
    BY <2>1 DEF Redirected, Table
  <2> QED
    BY <2>1, <2>2, <2>3
<1>5. tb2[new] = Redirected(tb[t], t, new)
  BY <1>2, <1>4 DEF Becomes
<1>6. \A x \in DOMAIN tb \ {t} : tb2[x] = Redirected(tb[x], t, new)
  BY <1>4 DEF Becomes
<1>7. Shaped(tb2)
  <2>1. tb2 = [x \in DOMAIN tb2 |-> tb2[x]]
    BY <1>2 DEF Renamed
  <2>2. ASSUME NEW x \in DOMAIN tb
        PROVE  LET c == Redirected(tb[x], t, new) IN
               c = Table(c.has, c.refs, c.rows) /\ c.refs \subseteq DOMAIN tb2
    <3>1. {Becomes(y, t, new) : y \in tb[x].refs} \subseteq DOMAIN tb2
      BY <1>3 DEF Shaped, Becomes
    <3> QED
      BY <3>1 DEF Redirected, Table
  <2> QED
    BY <1>2, <1>3, <1>5, <1>6, <2>1, <2>2 DEF Shaped
<1> QED
  BY <1>2, <1>3, <1>5, <1>6, <1>7 DEF MovedTo

-----------------------------------------------------------------------------
(* The inductive invariant: what holds of the tables after any statement,  *)
(* wherever a program was cut off.                                         *)

Copied == "association_user_company_uuid_tmp"
Folded == "association_user_company_tmp"

UserRow(r) ==
  r = [id |-> r.id, email |-> r.email, is_superuser |-> r.is_superuser]
CompanyRow(r) == r = [id |-> r.id, email |-> r.email]
RoleRow(r) ==
  /\ r = [id |-> r.id, company_id |-> r.company_id, name |-> r.name,
          closed |-> r.closed]
  /\ r.name # Null
MemberRow(a) ==
  a = [user_id |-> a.user_id, company_id |-> a.company_id,
       user_level |-> a.user_level, role_name |-> a.role_name,
       role_id |-> a.role_id, closed |-> a.closed]

\* Rows of one id have one email and the other way round, and the ids are all
\* numbers or all UUIDs.
Keyed(rows) ==
  \A r, q \in rows :
    /\ (r.id = q.id) <=> (r.email = q.email)
    /\ r.id.uuid = q.id.uuid /\ r.id = [uuid |-> r.id.uuid, n |-> r.id.n]

\* What a column that is not there holds; the level is not looked at where
\* the roles have ids.
NullColumns(c) ==
  \A a \in c.rows :
    /\ {"user_level", "role_id"} \cap c.has = {} => a.user_level = Null
    /\ "role_name" \notin c.has => a.role_name = Null
    /\ "role_id" \notin c.has => a.role_id = Null

\* The memberships refer to one table of users, one of companies and at most
\* one of roles; those under their proper name to none that is being made.
RefersWell(t, c) ==
  /\ \E u \in UserTables : c.refs \cap UserTables = {u}
  /\ \E x \in CompanyTables : c.refs \cap CompanyTables = {x}
  /\ \A x, y \in c.refs \cap RoleTables : x = y
  /\ t # Copied => c.refs \cap {"user_uuid_tmp", "company_uuid_tmp",
                                "role_uuid_tmp"} = {}
  /\ t # Folded => "role_global_tmp" \notin c.refs
  /\ t = Copied => c.has = {"role_name"}
  /\ t = Folded => c.has = {"role_id"}

\* The table t may have the content c.
Fits(t, c) ==
  /\ t \in UserTables => Keyed(c.rows) /\ \A r \in c.rows : UserRow(r)
  /\ t \in CompanyTables => Keyed(c.rows) /\ \A r \in c.rows : CompanyRow(r)
  /\ t \in RoleTables => \A r \in c.rows : RoleRow(r)
  /\ t \in AssociationTables =>
       /\ RefersWell(t, c) /\ NullColumns(c)
       /\ \A r \in c.rows : MemberRow(r)

\* The table t is empty or has all memberships, with what they refer to.
Complete(tb, t) ==
  /\ tb[t].rows = {} \/ Memberships(tb, t) = LegacyMemberships
  /\ \A a \in tb[t].rows :
       /\ UsersOf(tb, t, a) # {} /\ CompaniesOf(tb, t, a) # {}
       /\ RoleNamesOf(tb, t, a) # {}

\* Every membership has the name of a role.
NamedBy(rows, roles) ==
  \A a \in rows : a.role_name # Null /\ \E x \in roles : x.name = a.role_name

\* Up to 9552b9fc884a there are no ids of roles; from it on the memberships
\* have the names of roles, or their ids.
Early(v) == v <= 5
Late(v) == v >= 5

\* The columns of the memberships, by the version that is recorded.
AtVersion(tb, v) ==
  /\ Association \in DOMAIN tb /\ tb[Association].rows # {} =>
       /\ Early(v) => "role_id" \notin tb[Association].has
       /\ ~({"role_id", "role_name"} \subseteq tb[Association].has)
       /\ Late(v) /\ "role_name" \in tb[Association].has =>
            "role" \in DOMAIN tb /\ NamedBy(tb[Association].rows, tb["role"].rows)
  /\ Copied \in DOMAIN tb =>
       NamedBy(tb[Copied].rows, RowsBehind(tb, Copied, RoleTables))

UsersKept(tb) ==
  Data.users # {} => \E t \in UserTables \cap DOMAIN tb : Emails(tb, t) = Data.users

MembersKept(tb) ==
  Data.members # {} =>
    \E t \in AssociationTables \cap DOMAIN tb :
      Memberships(tb, t) = LegacyMemberships

Sound(tb, v) ==
  /\ Shaped(tb)
  /\ \A t \in DOMAIN tb : Fits(t, tb[t])
  /\ \A t \in AssociationTables \cap DOMAIN tb : Complete(tb, t)
  /\ AtVersion(tb, v)
  /\ UsersKept(tb) /\ MembersKept(tb)

-----------------------------------------------------------------------------
(* What a row stands for is what the rows behind it say.                   *)

LEMMA SameBehind ==
  ASSUME NEW tb, NEW t, NEW tb2, NEW t2, NEW ts,
         tb2[t2].refs \cap ts = tb[t].refs \cap ts,
         \A x \in tb[t].refs \cap ts : tb2[x].rows = tb[x].rows
  PROVE  RowsBehind(tb2, t2, ts) = RowsBehind(tb, t, ts)
<1>1. {tb2[x].rows : x \in tb2[t2].refs \cap ts} =
        {tb[x].rows : x \in tb[t].refs \cap ts}
  OBVIOUS
<1> QED
  BY <1>1 DEF RowsBehind

\* The row a of t and the row b of t2 stand for the same.
SameMember(tb, t, a, tb2, t2, b) ==
  /\ UsersOf(tb2, t2, b) = UsersOf(tb, t, a)
  /\ CompaniesOf(tb2, t2, b) = CompaniesOf(tb, t, a)
  /\ RoleNamesOf(tb2, t2, b) = RoleNamesOf(tb, t, a)
  /\ b.closed = a.closed

LEMMA SameMemberships ==
  ASSUME NEW tb, NEW t, NEW tb2, NEW t2,
         \A a \in tb[t].rows :
           \E b \in tb2[t2].rows : SameMember(tb, t, a, tb2, t2, b),
         \A b \in tb2[t2].rows :
           \E a \in tb[t].rows : SameMember(tb, t, a, tb2, t2, b)
  PROVE  /\ Memberships(tb2, t2) = Memberships(tb, t)
         /\ Complete(tb, t) => Complete(tb2, t2)
<1>1. ASSUME NEW a, NEW b, SameMember(tb, t, a, tb2, t2, b)
      PROVE  StandsFor(tb2, t2, b) = StandsFor(tb, t, a)
  BY <1>1 DEF SameMember, StandsFor
<1>2. {StandsFor(tb2, t2, b) : b \in tb2[t2].rows} =
        {StandsFor(tb, t, a) : a \in tb[t].rows}
  <2>1. \A a \in tb[t].rows :
          \E b \in tb2[t2].rows : StandsFor(tb2, t2, b) = StandsFor(tb, t, a)
    BY <1>1
  <2>2. \A b \in tb2[t2].rows :
          \E a \in tb[t].rows : StandsFor(tb2, t2, b) = StandsFor(tb, t, a)
    BY <1>1
  <2> QED
    BY <2>1, <2>2
<1>3. Memberships(tb2, t2) = Memberships(tb, t)
  BY <1>2 DEF Memberships
<1> QED
  BY <1>3 DEF Complete, SameMember

\* Tables with the same rows and the same rows behind them.
LEMMA SameRows ==
  ASSUME NEW tb, NEW t, NEW tb2, NEW t2, tb2[t2].rows = tb[t].rows,
         \A ts \in {UserTables, CompanyTables, RoleTables} :
           RowsBehind(tb2, t2, ts) = RowsBehind(tb, t, ts)
  PROVE  /\ Memberships(tb2, t2) = Memberships(tb, t)
         /\ Complete(tb, t) => Complete(tb2, t2)
<1>1. \A a \in tb[t].rows : SameMember(tb, t, a, tb2, t2, a)
  BY DEF SameMember, UsersOf, CompaniesOf, RoleNamesOf
<1> QED
  BY <1>1, SameMemberships

DataTables == UserTables \cup CompanyTables \cup RoleTables \cup AssociationTables

\* A table that is as it was, and the rows of the tables it refers to as well.
LEMMA SameTable ==
  ASSUME NEW tb, NEW tb2, NEW t, tb2[t] = tb[t],
         \A x \in tb[t].refs \cap DataTables : tb2[x].rows = tb[x].rows
  PROVE  /\ \A ts \in {UserTables, CompanyTables, RoleTables} :
              RowsBehind(tb2, t, ts) = RowsBehind(tb, t, ts)
         /\ Memberships(tb2, t) = Memberships(tb, t)
         /\ Complete(tb, t) => Complete(tb2, t)
<1>1. ASSUME NEW ts \in {UserTables, CompanyTables, RoleTables}
      PROVE  RowsBehind(tb2, t, ts) = RowsBehind(tb, t, ts)
  <2>1. ts \subseteq DataTables
    BY DEF DataTables
  <2> QED
    BY <2>1, SameBehind
<1> QED
  BY <1>1, SameRows

\* Tables that are made are empty, and of the others each is as it was or gone.
LEMMA Framed ==
  ASSUME NEW tb, NEW tb2, NEW v, Sound(tb, v), Shaped(tb2),
         \A t \in DataTables \cap DOMAIN tb2 :
           \/ t \in DOMAIN tb /\ tb2[t] = tb[t]
           \/ t \notin DOMAIN tb /\ tb2[t].rows = {} /\ Fits(t, tb2[t]),
         Association \in DOMAIN tb2 /\ "role" \in DOMAIN tb =>
           "role" \in DOMAIN tb2
  PROVE  /\ \A t \in DOMAIN tb2 : Fits(t, tb2[t])
         /\ \A t \in AssociationTables \cap DOMAIN tb2 : Complete(tb2, t)
         /\ AtVersion(tb2, v)
         /\ \A t \in AssociationTables \cap DOMAIN tb \cap DOMAIN tb2 :
              Memberships(tb2, t) = Memberships(tb, t)
         /\ \A t \in UserTables \cap DOMAIN tb \cap DOMAIN tb2 :
              Emails(tb2, t) = Emails(tb, t)
<1>1. ASSUME NEW t \in AssociationTables \cap DOMAIN tb \cap DOMAIN tb2
      PROVE  /\ \A ts \in {UserTables, CompanyTables, RoleTables} :
                  RowsBehind(tb2, t, ts) = RowsBehind(tb, t, ts)
             /\ Memberships(tb2, t) = Memberships(tb, t)
             /\ Complete(tb, t) => Complete(tb2, t)
             /\ tb2[t] = tb[t]
  <2>1. tb2[t] = tb[t]
    BY DEF DataTables
  <2>2. tb[t].refs \subseteq DOMAIN tb /\ tb2[t].refs \subseteq DOMAIN tb2
    BY DEF Sound, Shaped
  <2>3. \A x \in tb[t].refs \cap DataTables : tb2[x].rows = tb[x].rows
    BY <2>1, <2>2
  <2> QED
    BY <2>1, <2>3, SameTable
<1>2. \A t \in DOMAIN tb2 : Fits(t, tb2[t])
  <2>1. \A t \in DOMAIN tb2 \ DataTables : Fits(t, tb2[t])
    BY DEF Fits, DataTables
  <2> QED
    BY <2>1 DEF Sound
<1>3. ASSUME NEW t \in AssociationTables \cap DOMAIN tb2
      PROVE  Complete(tb2, t)
  <2>1. CASE t \in DOMAIN tb
    BY <1>1, <2>1 DEF Sound
  <2>2. CASE t \notin DOMAIN tb
    <3>1. tb2[t].rows = {}
      BY <2>2 DEF DataTables
    <3> QED
      BY <3>1 DEF Complete
  <2> QED
    BY <2>1, <2>2
<1>4. AtVersion(tb2, v)
  <2>1. ASSUME Association \in DOMAIN tb2, tb2[Association].rows # {}
        PROVE  /\ Early(v) => "role_id" \notin tb2[Association].has
               /\ ~({"role_id", "role_name"} \subseteq tb2[Association].has)
               /\ Late(v) /\ "role_name" \in tb2[Association].has =>
                    /\ "role" \in DOMAIN tb2
                    /\ NamedBy(tb2[Association].rows, tb2["role"].rows)
    <3>1. Association \in DOMAIN tb /\ tb2[Association] = tb[Association]
      BY <2>1 DEF DataTables, AssociationTables
    <3>2. "role" \in DOMAIN tb =>
            "role" \in DOMAIN tb2 /\ tb2["role"] = tb["role"]
      BY <2>1 DEF DataTables, RoleTables
    <3> QED
      BY <2>1, <3>1, <3>2 DEF Sound, AtVersion
  <2>2. ASSUME Copied \in DOMAIN tb2
        PROVE  NamedBy(tb2[Copied].rows, RowsBehind(tb2, Copied, RoleTables))
    <3>1. Copied \in DataTables /\ Copied \in AssociationTables
      BY DEF DataTables, AssociationTables, Copied
    <3>2. CASE Copied \in DOMAIN tb
      BY <1>1, <2>2, <3>1, <3>2 DEF Sound, AtVersion
    <3>3. CASE Copied \notin DOMAIN tb
      BY <2>2, <3>1, <3>3 DEF NamedBy
    <3> QED
      BY <3>2, <3>3
  <2> QED
    BY <2>1, <2>2 DEF AtVersion
<1>5. \A t \in UserTables \cap DOMAIN tb \cap DOMAIN tb2 :
        Emails(tb2, t) = Emails(tb, t)
  BY DEF DataTables, Emails
<1> QED
  BY <1>1, <1>2, <1>3, <1>4, <1>5

\* A new table is empty.
LEMMA SoundCreate ==
  ASSUME NEW tb, NEW v, NEW t, NEW has, NEW refs, Sound(tb, v),
         t \in AssociationTables => RefersWell(t, Table(has, refs, {})),
         NEW tb2, tb2 \in Outcomes(tb, CreateTable(t, has, refs))
  PROVE  Sound(tb2, v)
<1>1. Shaped(tb) /\ Created(tb, t, has, refs, tb2)
  BY CreateEffect, ZenonT(30) DEF Sound
<1>2. tb2[t].rows = {} /\ Fits(t, tb2[t])
  BY <1>1 DEF Fits, Table, Keyed, NullColumns, Created
<1>3. \A x \in DOMAIN tb : tb2[x] = tb[x]
  BY <1>1 DEF Elsewhere, Created
<1>4. /\ \A x \in DOMAIN tb2 : Fits(x, tb2[x])
      /\ \A x \in AssociationTables \cap DOMAIN tb2 : Complete(tb2, x)
      /\ AtVersion(tb2, v)
      /\ \A x \in AssociationTables \cap DOMAIN tb \cap DOMAIN tb2 :
           Memberships(tb2, x) = Memberships(tb, x)
      /\ \A x \in UserTables \cap DOMAIN tb \cap DOMAIN tb2 :
           Emails(tb2, x) = Emails(tb, x)
  BY <1>1, <1>2, <1>3, Framed DEF Created
<1>5. UsersKept(tb2)
  BY <1>1, <1>4 DEF UsersKept, Sound, Created
<1>6. MembersKept(tb2)
  BY <1>1, <1>4 DEF MembersKept, Sound, Created
<1> QED
  BY <1>1, <1>4, <1>5, <1>6 DEF Sound, Created

\* The memberships that t has are elsewhere if they were anywhere: there are
\* none in the table under its proper name, or there are some in t.
Moved(tb, t) ==
  /\ t \in DOMAIN tb
  /\ Association \in DOMAIN tb =>
       tb[Association].rows = {} \/ tb[t].rows # {}

\* The old tables go when what they had is in the new ones.
LEMMA SoundDrop ==
  ASSUME NEW tb, NEW v, NEW t, Sound(tb, v),
         t = "role" => Association \notin DOMAIN tb,
         t \in UserTables =>
           /\ t = "user" /\ "user_uuid_tmp" \in DOMAIN tb
           /\ Emails(tb, "user_uuid_tmp") = Emails(tb, "user"),
         t \in AssociationTables =>
           t = Association /\ \E s \in {Copied, Folded} : Moved(tb, s),
         NEW tb2, tb2 \in Dropping(tb, t)
  PROVE  Sound(tb2, v)
<1>1. Shaped(tb) /\ Dropped(tb, t, tb2)
  BY DropEffect, ZenonT(30) DEF Sound
<1>2. \A x \in DOMAIN tb2 : x \in DOMAIN tb /\ x # t /\ tb2[x] = tb[x]
  BY <1>1 DEF Elsewhere, Dropped
<1>3. /\ \A x \in DOMAIN tb2 : Fits(x, tb2[x])
      /\ \A x \in AssociationTables \cap DOMAIN tb2 : Complete(tb2, x)
      /\ AtVersion(tb2, v)
      /\ \A x \in AssociationTables \cap DOMAIN tb \cap DOMAIN tb2 :
           Memberships(tb2, x) = Memberships(tb, x)
      /\ \A x \in UserTables \cap DOMAIN tb \cap DOMAIN tb2 :
           Emails(tb2, x) = Emails(tb, x)
  BY <1>1, <1>2, Framed DEF Dropped
<1>4. UsersKept(tb2)
  <2>1. CASE t \in UserTables
    <3>1. "user_uuid_tmp" \in UserTables /\ "user_uuid_tmp" \in DOMAIN tb2
      BY <1>1, <2>1 DEF UserTables, Dropped
    <3>2. Emails(tb2, "user_uuid_tmp") = Emails(tb, "user")
      BY <1>1, <1>3, <2>1, <3>1 DEF Dropped
    <3>3. \A x \in UserTables : x = "user" \/ x = "user_uuid_tmp"
      BY DEF UserTables
    <3> QED
      BY <2>1, <3>1, <3>2, <3>3, <1>3 DEF UsersKept, Sound
  <2>2. CASE t \notin UserTables
    BY <1>1, <1>3, <2>2 DEF UsersKept, Sound, Dropped
  <2> QED
    BY <2>1, <2>2
<1>5. MembersKept(tb2)
  <2>1. CASE t \in AssociationTables
    <3> SUFFICES ASSUME Data.members # {}
                 PROVE  \E x \in AssociationTables \cap DOMAIN tb2 :
                          Memberships(tb2, x) = LegacyMemberships
      BY DEF MembersKept
    <3>1. PICK s \in {Copied, Folded} : Moved(tb, s)
      BY <2>1
    <3>2. s \in AssociationTables /\ s # Association
      BY DEF Copied, Folded, AssociationTables, Association
    <3>3. s \in DOMAIN tb2 /\ s \in DOMAIN tb
      BY <1>1, <2>1, <3>1, <3>2 DEF Moved, Dropped
    <3>4. PICK x \in AssociationTables \cap DOMAIN tb :
            Memberships(tb, x) = LegacyMemberships
      BY DEF Sound, MembersKept
    <3>5. CASE x # Association
      BY <1>1, <1>3, <2>1, <3>4, <3>5 DEF Dropped
    <3>6. CASE x = Association
      <4>1. LegacyMemberships # {}
        BY DEF LegacyMemberships
      <4>2. tb[Association].rows # {}
        BY <3>4, <3>6, <4>1 DEF Memberships
      <4>3. tb[s].rows # {}
        BY <3>1, <3>4, <3>6, <4>2 DEF Moved
      <4>4. Memberships(tb, s) = LegacyMemberships
        BY <3>2, <3>3, <4>3 DEF Sound, Complete
      <4> QED
        BY <1>3, <3>2, <3>3, <4>4
    <3> QED
      BY <3>5, <3>6
  <2>2. CASE t \notin AssociationTables
    BY <1>1, <1>3, <2>2 DEF MembersKept, Sound, Dropped
  <2> QED
    BY <2>1, <2>2
<1> QED
  BY <1>1, <1>3, <1>4, <1>5 DEF Sound, Dropped

-----------------------------------------------------------------------------
(* A table that is renamed has the same kind of rows as before.            *)

SameKind(t, new) ==
  \A ts \in {UserTables, CompanyTables, RoleTables, AssociationTables} :
    (t \in ts) <=> (new \in ts)

LEMMA RenamedBehind ==
  ASSUME NEW tb, NEW t, NEW new, NEW tb2, Shaped(tb), MovedTo(tb, t, new, tb2),
         NEW ts, (t \in ts) <=> (new \in ts), NEW x \in DOMAIN tb
  PROVE  RowsBehind(tb2, Becomes(x, t, new), ts) = RowsBehind(tb, x, ts)
<1>1. ASSUME NEW y \in DOMAIN tb
      PROVE  /\ tb2[Becomes(y, t, new)].rows = tb[y].rows
             /\ tb2[Becomes(y, t, new)].refs =
                  {Becomes(z, t, new) : z \in tb[y].refs}
  <2>1. tb2[Becomes(y, t, new)] = Redirected(tb[y], t, new)
    BY DEF MovedTo, Becomes
  <2> QED
    BY <2>1 DEF Redirected, Table
<1>2. \A y \in DOMAIN tb : tb2[Becomes(y, t, new)].rows = tb[y].rows
  BY <1>1
<1>3. tb2[Becomes(x, t, new)].refs = {Becomes(y, t, new) : y \in tb[x].refs}
  BY <1>1
<1>4. tb[x].refs \subseteq DOMAIN tb
  BY DEF Shaped
<1>5. \A y : (Becomes(y, t, new) \in ts) <=> (y \in ts)
  BY DEF Becomes
<1>6. {tb2[z].rows : z \in tb2[Becomes(x, t, new)].refs \cap ts} =
        {tb[y].rows : y \in tb[x].refs \cap ts}
  <2>1. ASSUME NEW z \in tb2[Becomes(x, t, new)].refs \cap ts
        PROVE  \E y \in tb[x].refs \cap ts : tb2[z].rows = tb[y].rows
    BY <1>2, <1>3, <1>4, <1>5
  <2>2. ASSUME NEW y \in tb[x].refs \cap ts
        PROVE  \E z \in tb2[Becomes(x, t, new)].refs \cap ts :
                 tb2[z].rows = tb[y].rows
    BY <1>2, <1>3, <1>4, <1>5
  <2> QED
    BY <2>1, <2>2
<1> QED
  BY <1>6 DEF RowsBehind

\* The names that only tables in the making have.
Temporary == {"user_uuid_tmp", "company_uuid_tmp", "role_uuid_tmp",
              "role_global_tmp", Copied, Folded}

LEMMA RenamedFits ==
  ASSUME NEW tb, NEW t, NEW new, NEW tb2, MovedTo(tb, t, new, tb2),
         Shaped(tb), SameKind(t, new), new \notin Temporary,
         t \in {Copied, Folded} => tb[t].refs \cap Temporary = {},
         NEW x \in DOMAIN tb, Fits(x, tb[x])
  PROVE  Fits(Becomes(x, t, new), tb2[Becomes(x, t, new)])
<1> DEFINE y == Becomes(x, t, new)
           c == tb2[Becomes(x, t, new)]
<1>1. /\ c.rows = tb[x].rows /\ c.has = tb[x].has
      /\ c.refs = {Becomes(z, t, new) : z \in tb[x].refs}
  <2>1. c = Redirected(tb[x], t, new)
    BY DEF MovedTo, Becomes
  <2> QED
    BY <2>1 DEF Redirected, Table
<1>2. \A ts \in {UserTables, CompanyTables, RoleTables, AssociationTables} :
        \A z : (Becomes(z, t, new) \in ts) <=> (z \in ts)
  BY DEF SameKind, Becomes
<1>3. (y = x /\ x # t) \/ (y = new /\ x = t)
  BY DEF Becomes
<1>4. ASSUME y \in AssociationTables
      PROVE  RefersWell(y, c)
  <2>1. x \in AssociationTables /\ RefersWell(x, tb[x])
    BY <1>2, <1>4 DEF Fits
  <2>2. \E u \in UserTables : c.refs \cap UserTables = {u}
    <3>1. PICK u \in UserTables : tb[x].refs \cap UserTables = {u}
      BY <2>1 DEF RefersWell
    <3>2. c.refs \cap UserTables = {Becomes(u, t, new)}
      BY <1>1, <1>2, <3>1
    <3> QED
      BY <1>2, <3>1, <3>2
  <2>3. \E u \in CompanyTables : c.refs \cap CompanyTables = {u}
    <3>1. PICK u \in CompanyTables : tb[x].refs \cap CompanyTables = {u}
      BY <2>1 DEF RefersWell
    <3>2. c.refs \cap CompanyTables = {Becomes(u, t, new)}
      BY <1>1, <1>2, <3>1
    <3> QED
      BY <1>2, <3>1, <3>2
  <2>4. \A u, w \in c.refs \cap RoleTables : u = w
    <3>1. \A u, w \in tb[x].refs \cap RoleTables : u = w
      BY <2>1 DEF RefersWell
    <3> QED
      BY <1>1, <1>2, <3>1
  <2>5. \A z \in c.refs : z \in Temporary => z \in tb[x].refs
    BY <1>1 DEF Becomes
  <2>6. y = new => x \in {Copied, Folded} /\ y = Association
    BY <1>2, <1>3, <1>4, <2>1
    DEF AssociationTables, Temporary, Copied, Folded, MovedTo
  <2>7. CASE y = new
    <3>1. c.refs \cap Temporary = {}
      BY <1>3, <2>5, <2>6, <2>7 DEF MovedTo
    <3> QED
      BY <2>2, <2>3, <2>4, <2>6, <2>7, <3>1
      DEF RefersWell, Temporary, Association, Copied, Folded
  <2>8. CASE y # new
    BY <1>1, <1>3, <2>1, <2>2, <2>3, <2>4, <2>5, <2>8 DEF RefersWell, Temporary
  <2> QED
    BY <2>7, <2>8
<1>5. y \in AssociationTables => NullColumns(c)
  BY <1>1, <1>2 DEF Fits, NullColumns
<1> QED
  BY <1>1, <1>2, <1>4, <1>5 DEF Fits

\* A new table that is complete takes the name of one that is gone.
LEMMA SoundRename ==
  ASSUME NEW tb, NEW v, NEW t, NEW new, Sound(tb, v), SameKind(t, new),
         Association \notin DOMAIN tb, new \notin Temporary,
         t \in {Copied, Folded} => tb[t].refs \cap Temporary = {},
         t = Folded => ~Early(v),
         NEW tb2, tb2 \in Outcomes(tb, RenameTable(t, new))
  PROVE  Sound(tb2, v)
<1>1. Shaped(tb) /\ MovedTo(tb, t, new, tb2)
  BY RenameEffect, ZenonT(30) DEF Sound
<1>2. DOMAIN tb2 = {Becomes(x, t, new) : x \in DOMAIN tb}
  BY <1>1 DEF MovedTo, Becomes
<1>3. \A y \in DOMAIN tb2 : Fits(y, tb2[y])
  BY <1>1, <1>2, RenamedFits DEF Sound
<1>4. \A ts \in {UserTables, CompanyTables, RoleTables, AssociationTables} :
        \A z : (Becomes(z, t, new) \in ts) <=> (z \in ts)
  BY DEF SameKind, Becomes
<1>5. ASSUME NEW x \in DOMAIN tb
      PROVE  tb2[Becomes(x, t, new)].rows = tb[x].rows
  <2>1. tb2[Becomes(x, t, new)] = Redirected(tb[x], t, new)
    BY <1>1 DEF MovedTo, Becomes
  <2> QED
    BY <2>1 DEF Redirected, Table
<1>6. ASSUME NEW x \in AssociationTables \cap DOMAIN tb
      PROVE  /\ \A ts \in {UserTables, CompanyTables, RoleTables} :
                  RowsBehind(tb2, Becomes(x, t, new), ts) =
                    RowsBehind(tb, x, ts)
             /\ Memberships(tb2, Becomes(x, t, new)) = Memberships(tb, x)
             /\ Complete(tb2, Becomes(x, t, new))
  <2>1. \A ts \in {UserTables, CompanyTables, RoleTables} :
          RowsBehind(tb2, Becomes(x, t, new), ts) = RowsBehind(tb, x, ts)
    BY <1>1, RenamedBehind DEF SameKind
  <2>2. Complete(tb, x)
    BY DEF Sound
  <2> QED
    BY <1>5, <2>1, <2>2, SameRows
<1>7. \A y \in AssociationTables \cap DOMAIN tb2 : Complete(tb2, y)
  BY <1>2, <1>4, <1>6
<1>8. UsersKept(tb2)
  <2>1. \A x \in DOMAIN tb : Emails(tb2, Becomes(x, t, new)) = Emails(tb, x)
    BY <1>5 DEF Emails
  <2> QED
    BY <1>2, <1>4, <2>1 DEF Sound, UsersKept
<1>9. MembersKept(tb2)
  BY <1>2, <1>4, <1>6 DEF Sound, MembersKept
<1>10. ASSUME Association \in DOMAIN tb2, tb2[Association].rows # {}
       PROVE  /\ Early(v) => "role_id" \notin tb2[Association].has
              /\ ~({"role_id", "role_name"} \subseteq tb2[Association].has)
              /\ Late(v) /\ "role_name" \in tb2[Association].has =>
                   /\ "role" \in DOMAIN tb2
                   /\ NamedBy(tb2[Association].rows, tb2["role"].rows)
  <2>1. new = Association /\ t \in DOMAIN tb
    BY <1>1, <1>10 DEF MovedTo
  <2>2. Association \in AssociationTables /\ Becomes(t, t, new) = Association
    BY <2>1 DEF AssociationTables, Becomes
  <2>3. t \in {Copied, Folded}
    BY <2>1, <2>2 DEF SameKind, AssociationTables, Copied, Folded
  <2>4. /\ tb2[Association].has = tb[t].has
        /\ tb2[Association].rows = tb[t].rows
    <3>1. tb2[Association] = Redirected(tb[t], t, new)
      BY <1>1, <2>1 DEF MovedTo
    <3> QED
      BY <3>1, <1>5, <2>1, <2>2 DEF Redirected, Table
  <2>5. RefersWell(t, tb[t])
    BY <2>1, <2>2 DEF Sound, Fits, SameKind
  <2>6. CASE t = Folded
    BY <2>4, <2>5, <2>6 DEF RefersWell
  <2>7. CASE t = Copied
    <3>1. tb2[Association].has = {"role_name"}
      BY <2>4, <2>5, <2>7 DEF RefersWell
    <3>2. NamedBy(tb2[Association].rows, RowsBehind(tb, Copied, RoleTables))
      BY <2>1, <2>4, <2>7 DEF Sound, AtVersion
    <3>3. RowsBehind(tb, Copied, RoleTables) =
            RowsBehind(tb2, Association, RoleTables)
      <4>1. Copied \in AssociationTables \cap DOMAIN tb
        BY <2>1, <2>7 DEF AssociationTables, Copied
      <4> QED
        BY <1>6, <2>2, <2>7, <4>1
    <3>4. tb2[Association].refs \cap RoleTables \subseteq {"role"}
      <4>1. RefersWell(Association, tb2[Association])
        BY <1>3, <1>10, <2>2 DEF Fits
      <4> QED
        BY <4>1 DEF RefersWell, RoleTables, Association, Copied, Folded
    <3>5. PICK a \in tb2[Association].rows : TRUE
      BY <1>10
    <3>6. \E x \in RowsBehind(tb2, Association, RoleTables) : TRUE
      BY <3>2, <3>3, <3>5 DEF NamedBy
    <3>7. "role" \in tb2[Association].refs \cap RoleTables
      BY <3>4, <3>6 DEF RowsBehind
    <3>8. tb2[Association].refs \subseteq DOMAIN tb2
      BY <1>1, <1>10 DEF MovedTo, Shaped
    <3>9. RowsBehind(tb2, Association, RoleTables) \subseteq tb2["role"].rows
      BY <3>4 DEF RowsBehind
    <3> QED
      BY <3>1, <3>2, <3>3, <3>7, <3>8, <3>9 DEF NamedBy
  <2> QED
    BY <2>3, <2>6, <2>7
<1>11. ASSUME Copied \in DOMAIN tb2
       PROVE  NamedBy(tb2[Copied].rows, RowsBehind(tb2, Copied, RoleTables))
  <2>1. Copied \in DOMAIN tb /\ Becomes(Copied, t, new) = Copied
    BY <1>1, <1>11 DEF MovedTo, Becomes, Temporary
  <2>2. Copied \in AssociationTables
    BY DEF AssociationTables, Copied
  <2> QED
    BY <1>5, <1>6, <2>1, <2>2 DEF Sound, AtVersion
<1> QED
  BY <1>1, <1>3, <1>7, <1>8, <1>9, <1>10, <1>11 DEF Sound, AtVersion, MovedTo

-----------------------------------------------------------------------------
(* Statements that change one table, its columns, keys or rows.            *)

Changed(tb, t, has, refs, rows, tb2) ==
  t \in DOMAIN tb /\ tb2 = [tb EXCEPT ![t] = Table(has, refs, rows)]

LEMMA AddColumnEffect ==
  ASSUME NEW tb, NEW t, NEW c, NEW value, NEW tb2,
         tb2 \in Outcomes(tb, AddColumn(t, c, value))
  PROVE  /\ Changed(tb, t, tb[t].has \cup {c}, tb[t].refs,
                    {[r EXCEPT ![c] = value] : r \in tb[t].rows}, tb2)
         /\ c \notin tb[t].has
<1>1. tb2 \in AddingColumn(tb, AddColumn(t, c, value))
  BY DEF Outcomes, AddColumn
<1>2. PICK s : s = AddColumn(t, c, value)
  OBVIOUS
<1>3. s.table = t /\ s.column = c /\ s.value = value
  BY <1>2 DEF AddColumn
<1>4. s.table \in DOMAIN tb /\ ~HasColumn(tb, s.table, s.column)
  BY <1>1, <1>2 DEF AddingColumn
<1>5. tb2 = [tb EXCEPT ![s.table] =
               Table(@.has \cup {s.column}, @.refs,
                     {[r EXCEPT ![s.column] = s.value] : r \in @.rows})]
  BY <1>1, <1>2, <1>4, ZenonT(60) DEF AddingColumn
<1> QED
  BY <1>3, <1>4, <1>5 DEF Changed, HasColumn

LEMMA DropColumnEffect ==
  ASSUME NEW tb, NEW t, NEW c, NEW tb2, tb2 \in Outcomes(tb, DropColumn(t, c))
  PROVE  /\ Changed(tb, t, tb[t].has \ {c}, tb[t].refs,
                    {[r EXCEPT ![c] = Null] : r \in tb[t].rows}, tb2)
         /\ c \in tb[t].has
<1>1. tb2 \in DroppingColumn(tb, DropColumn(t, c))
  BY DEF Outcomes, DropColumn
<1>2. PICK s : s = DropColumn(t, c)
  OBVIOUS
<1>3. s.table = t /\ s.column = c
  BY <1>2 DEF DropColumn
<1>4. /\ t \in DOMAIN tb /\ c \in tb[t].has
      /\ tb2 = [tb EXCEPT ![t] =
                  Table(@.has \ {s.column}, @.refs,
                        {[r EXCEPT ![s.column] = Null] : r \in @.rows})]
  BY <1>1, <1>2, <1>3 DEF DroppingColumn, HasColumn
<1> QED
  BY <1>3, <1>4 DEF Changed

LEMMA AddKeyEffect ==
  ASSUME NEW tb, NEW t, NEW name, NEW refs, NEW tb2,
         tb2 \in Outcomes(tb, AddKey(t, name, refs))
  PROVE  /\ Changed(tb, t, tb[t].has \cup {name}, tb[t].refs \cup refs,
                    tb[t].rows, tb2)
         /\ refs \subseteq DOMAIN tb
<1>1. tb2 \in AddingKey(tb, AddKey(t, name, refs))
  BY DEF Outcomes, AddKey
<1>2. AddKey(t, name, refs).table = t /\ AddKey(t, name, refs).name = name
  BY DEF AddKey
<1>3. AddKey(t, name, refs).refs = refs
  BY DEF AddKey
<1>4. /\ {t} \cup refs \subseteq DOMAIN tb
      /\ Changed(tb, t, tb[t].has \cup {name}, tb[t].refs \cup refs,
                 tb[t].rows, tb2)
  BY <1>1, <1>2, <1>3 DEF AddingKey, HasColumn, Changed
<1> QED
  BY <1>4

LEMMA DropKeyEffect ==
  ASSUME NEW tb, NEW t, NEW name, NEW refs, NEW tb2,
         tb2 \in Outcomes(tb, DropKey(t, name, refs))
  PROVE  Changed(tb, t, tb[t].has \ {name}, tb[t].refs \ refs, tb[t].rows, tb2)
<1>1. tb2 \in DroppingKey(tb, DropKey(t, name, refs))
  BY DEF Outcomes, DropKey
<1>2. DropKey(t, name, refs).table = t /\ DropKey(t, name, refs).name = name
  BY DEF DropKey
<1>3. DropKey(t, name, refs).refs = refs
  BY DEF DropKey
<1> QED
  BY <1>1, <1>2, <1>3 DEF DroppingKey, HasColumn, Changed

LEMMA SetRowsEffect ==
  ASSUME NEW tb, NEW t \in DOMAIN tb, NEW rows
  PROVE  Changed(tb, t, tb[t].has, tb[t].refs, rows, SetRows(tb, t, rows))
BY DEF Changed, SetRows

LEMMA ChangedEffect ==
  ASSUME NEW tb, NEW t, NEW has, NEW refs, NEW rows, NEW tb2, Shaped(tb),
         refs \subseteq DOMAIN tb, Changed(tb, t, has, refs, rows, tb2)
  PROVE  /\ Shaped(tb2) /\ t \in DOMAIN tb /\ DOMAIN tb2 = DOMAIN tb
         /\ \A x \in DOMAIN tb \ {t} : tb2[x] = tb[x]
         /\ tb2[t].has = has /\ tb2[t].refs = refs /\ tb2[t].rows = rows
<1>1. t \in DOMAIN tb /\ tb2 = [tb EXCEPT ![t] = Table(has, refs, rows)]
  BY DEF Changed
<1>2. /\ Shaped(tb2) /\ Elsewhere(tb, tb2, t)
      /\ DOMAIN tb2 = DOMAIN tb /\ tb2[t] = Table(has, refs, rows)
  BY <1>1, PutEffect
<1> QED
  BY <1>1, <1>2 DEF Elsewhere, Table

\* The clause of AtVersion about the memberships under their proper name.
MembersAtVersion(tb, v) ==
  Association \in DOMAIN tb /\ tb[Association].rows # {} =>
    /\ Early(v) => "role_id" \notin tb[Association].has
    /\ ~({"role_id", "role_name"} \subseteq tb[Association].has)
    /\ Late(v) /\ "role_name" \in tb[Association].has =>
         "role" \in DOMAIN tb /\ NamedBy(tb[Association].rows, tb["role"].rows)

\* The memberships change, and stand for what they stood for.
LEMMA SoundMembers ==
  ASSUME NEW tb, NEW v, NEW has, NEW refs, NEW rows, NEW tb2, Sound(tb, v),
         Changed(tb, Association, has, refs, rows, tb2),
         refs \subseteq DOMAIN tb, Fits(Association, tb2[Association]),
         \A a \in tb[Association].rows : \E b \in rows :
           SameMember(tb, Association, a, tb2, Association, b),
         \A b \in rows : \E a \in tb[Association].rows :
           SameMember(tb, Association, a, tb2, Association, b),
         MembersAtVersion(tb2, v)
  PROVE  Sound(tb2, v)
<1>1. /\ Shaped(tb2) /\ Association \in DOMAIN tb /\ DOMAIN tb2 = DOMAIN tb
      /\ \A x \in DOMAIN tb \ {Association} : tb2[x] = tb[x]
      /\ tb2[Association].rows = rows
  BY ChangedEffect DEF Sound
<1>2. \A ts \in {UserTables, CompanyTables, RoleTables} : Association \notin ts
  BY DEF UserTables, CompanyTables, RoleTables, Association
<1>3. ASSUME NEW t \in AssociationTables \cap DOMAIN tb
      PROVE  /\ Memberships(tb2, t) = Memberships(tb, t)
             /\ Complete(tb, t) => Complete(tb2, t)
             /\ t # Association => RowsBehind(tb2, t, RoleTables) =
                                     RowsBehind(tb, t, RoleTables)
  <2>1. CASE t = Association
    BY <1>1, <2>1, SameMemberships
  <2>2. CASE t # Association
    <3>1. tb[t].refs \subseteq DOMAIN tb /\ tb2[t] = tb[t]
      BY <1>1, <2>2 DEF Sound, Shaped
    <3>2. ASSUME NEW ts \in {UserTables, CompanyTables, RoleTables}
          PROVE  RowsBehind(tb2, t, ts) = RowsBehind(tb, t, ts)
      <4>1. \A x \in tb[t].refs \cap ts : tb2[x].rows = tb[x].rows
        BY <1>1, <1>2, <3>1
      <4> QED
        BY <3>1, <4>1, SameBehind
    <3> QED
      BY <3>1, <3>2, SameRows
  <2> QED
    BY <2>1, <2>2
<1>4. \A t \in DOMAIN tb2 : Fits(t, tb2[t])
  BY <1>1 DEF Sound
<1>5. \A t \in AssociationTables \cap DOMAIN tb2 : Complete(tb2, t)
  BY <1>1, <1>3 DEF Sound
<1>6. UsersKept(tb2)
  BY <1>1, <1>2 DEF Sound, UsersKept, Emails
<1>7. MembersKept(tb2)
  BY <1>1, <1>3 DEF Sound, MembersKept
<1>8. AtVersion(tb2, v)
  <2>1. ASSUME Copied \in DOMAIN tb2
        PROVE  NamedBy(tb2[Copied].rows, RowsBehind(tb2, Copied, RoleTables))
    <3>1. Copied \in AssociationTables /\ Copied # Association
      BY DEF AssociationTables, Copied, Association
    <3> QED
      BY <1>1, <1>3, <2>1, <3>1 DEF Sound, AtVersion
  <2> QED
    BY <2>1 DEF AtVersion, MembersAtVersion
<1> QED
  BY <1>1, <1>4, <1>5, <1>6, <1>7, <1>8 DEF Sound

\* A membership's row with another value in the column c.
LEMMA ColumnSet ==
  ASSUME NEW a, MemberRow(a), NEW x
  PROVE  /\ [a EXCEPT !.user_level = x] =
              [user_id |-> a.user_id, company_id |-> a.company_id,
               user_level |-> x, role_name |-> a.role_name,
               role_id |-> a.role_id, closed |-> a.closed]
         /\ [a EXCEPT !.role_name = x] =
              [user_id |-> a.user_id, company_id |-> a.company_id,
               user_level |-> a.user_level, role_name |-> x,
               role_id |-> a.role_id, closed |-> a.closed]
BY DEF MemberRow

\* The rows stay and so do the tables of users, companies and roles behind them.
LEMMA SoundSameRows ==
  ASSUME NEW tb, NEW v, NEW has, NEW refs, NEW tb2, Sound(tb, v),
         Changed(tb, Association, has, refs, tb[Association].rows, tb2),
         refs \subseteq DOMAIN tb, Fits(Association, tb2[Association]),
         refs \cap UserTables = tb[Association].refs \cap UserTables,
         refs \cap CompanyTables = tb[Association].refs \cap CompanyTables,
         \/ refs = tb[Association].refs
         \/ \A a \in tb[Association].rows : a.role_id = Null,
         MembersAtVersion(tb2, v)
  PROVE  Sound(tb2, v)
<1>1. /\ Shaped(tb2) /\ Association \in DOMAIN tb /\ DOMAIN tb2 = DOMAIN tb
      /\ \A x \in DOMAIN tb \ {Association} : tb2[x] = tb[x]
      /\ tb2[Association].refs = refs
      /\ tb2[Association].rows = tb[Association].rows
  BY ChangedEffect DEF Sound
<1>2. tb[Association].refs \subseteq DOMAIN tb
  BY <1>1 DEF Sound, Shaped
<1>3. ASSUME NEW ts \in {UserTables, CompanyTables, RoleTables},
             refs \cap ts = tb[Association].refs \cap ts
      PROVE  RowsBehind(tb2, Association, ts) = RowsBehind(tb, Association, ts)
  <2>1. Association \notin ts
    BY DEF UserTables, CompanyTables, RoleTables, Association
  <2>2. \A x \in tb[Association].refs \cap ts : tb2[x].rows = tb[x].rows
    BY <1>1, <1>2, <2>1
  <2> QED
    BY <1>1, <1>3, <2>2, SameBehind
<1>4. ASSUME NEW a \in tb[Association].rows
      PROVE  SameMember(tb, Association, a, tb2, Association, a)
  <2>1. RowsBehind(tb2, Association, UserTables) =
          RowsBehind(tb, Association, UserTables)
    BY <1>3
  <2>2. RowsBehind(tb2, Association, CompanyTables) =
          RowsBehind(tb, Association, CompanyTables)
    BY <1>3
  <2>3. RoleNamesOf(tb2, Association, a) = RoleNamesOf(tb, Association, a)
    <3>1. CASE refs = tb[Association].refs
      <4>1. RowsBehind(tb2, Association, RoleTables) =
              RowsBehind(tb, Association, RoleTables)
        BY <1>3, <3>1
      <4> QED
        BY <4>1 DEF RoleNamesOf
    <3>2. CASE a.role_id = Null
      BY <3>2 DEF RoleNamesOf
    <3> QED
      BY <3>1, <3>2
  <2> QED
    BY <2>1, <2>2, <2>3 DEF SameMember, UsersOf, CompaniesOf
<1> QED
  BY <1>4, SoundMembers

\* A column that was not there held NULL, and holds it when it is added.
LEMMA SoundAddMemberColumn ==
  ASSUME NEW tb, NEW v, NEW c \in {"user_level", "role_name"},
         Sound(tb, v), Early(v), c = "role_name" => ~Late(v),
         NEW tb2, tb2 \in Outcomes(tb, AddColumn(Association, c, Null))
  PROVE  /\ Sound(tb2, v)
         /\ Changed(tb, Association, tb[Association].has \cup {c},
                    tb[Association].refs, tb[Association].rows, tb2)
         /\ \A a \in tb[Association].rows :
              c = "role_name" => a.role_name = Null
<1> DEFINE t == Association
<1>1. /\ Changed(tb, t, tb[t].has \cup {c}, tb[t].refs,
                 {[r EXCEPT ![c] = Null] : r \in tb[t].rows}, tb2)
      /\ c \notin tb[t].has
  BY AddColumnEffect, Zenon
<1>2. Fits(t, tb[t]) /\ t \in AssociationTables /\ t \in DOMAIN tb
  BY <1>1 DEF Sound, Changed, AssociationTables
<1>3. ASSUME NEW a \in tb[t].rows
      PROVE  [a EXCEPT ![c] = Null] = a /\ a[c] = Null
  <2>1. MemberRow(a)
    BY <1>2 DEF Fits
  <2>2. CASE c = "user_level"
    <3>1. "role_id" \notin tb[t].has
      BY <1>2 DEF Sound, AtVersion
    <3>2. {"user_level", "role_id"} \cap tb[t].has = {}
      BY <1>1, <2>2, <3>1
    <3>3. a.user_level = Null
      BY <1>2, <3>2 DEF Fits, NullColumns
    <3> QED
      BY <2>1, <2>2, <3>3 DEF MemberRow
  <2>3. CASE c = "role_name"
    <3>1. a.role_name = Null
      BY <1>1, <1>2, <2>3 DEF Fits, NullColumns
    <3> QED
      BY <2>1, <2>3, <3>1 DEF MemberRow
  <2> QED
    BY <2>2, <2>3
<1>4. {[r EXCEPT ![c] = Null] : r \in tb[t].rows} = tb[t].rows
  BY <1>3
<1>5. Changed(tb, t, tb[t].has \cup {c}, tb[t].refs, tb[t].rows, tb2)
  BY <1>1, <1>4
<1>6. tb[t].refs \subseteq DOMAIN tb
  BY <1>2 DEF Sound, Shaped
<1>7. /\ tb2[t].has = tb[t].has \cup {c} /\ tb2[t].refs = tb[t].refs
      /\ tb2[t].rows = tb[t].rows /\ DOMAIN tb2 = DOMAIN tb
      /\ \A x \in DOMAIN tb \ {t} : tb2[x] = tb[x]
  BY <1>5, <1>6, ChangedEffect DEF Sound
<1>8. Fits(t, tb2[t])
  <2>1. RefersWell(t, tb2[t])
    BY <1>2, <1>7 DEF Fits, RefersWell, Association, Copied, Folded
  <2>2. NullColumns(tb2[t])
    BY <1>2, <1>7 DEF Fits, NullColumns
  <2> QED
    BY <1>2, <1>7, <2>1, <2>2
    DEF Fits, Association, UserTables, CompanyTables, RoleTables
<1>9. MembersAtVersion(tb2, v)
  <2>1. MembersAtVersion(tb, v)
    BY DEF Sound, AtVersion, MembersAtVersion
  <2>2. "role" # Association
    BY DEF Association
  <2> QED
    BY <1>2, <1>7, <2>1, <2>2 DEF MembersAtVersion
<1>10. Sound(tb2, v)
  BY <1>5, <1>6, <1>8, <1>9, SoundSameRows
<1> QED
  BY <1>3, <1>5, <1>10

\* The role a membership names is in another column, or in both.
LEMMA SoundRewritten ==
  ASSUME NEW tb, NEW v, NEW has, NEW rows, NEW tb2, Sound(tb, v), Early(v),
         Changed(tb, Association, has, tb[Association].refs, rows, tb2),
         NullColumns(Table(has, tb[Association].refs, rows)),
         "role_id" \in has => "role_id" \in tb[Association].has,
         \A a \in tb[Association].rows : \E b \in rows :
           /\ a.user_id = b.user_id /\ a.company_id = b.company_id
           /\ a.closed = b.closed /\ a.role_id = b.role_id
           /\ RoleNamesOf(tb, Association, a) = RoleNamesOf(tb2, Association, b),
         \A b \in rows : MemberRow(b) /\ \E a \in tb[Association].rows :
           /\ a.user_id = b.user_id /\ a.company_id = b.company_id
           /\ a.closed = b.closed /\ a.role_id = b.role_id
           /\ RoleNamesOf(tb, Association, a) = RoleNamesOf(tb2, Association, b),
         Late(v) /\ "role_name" \in has /\ rows # {} =>
           "role" \in DOMAIN tb /\ NamedBy(rows, tb["role"].rows)
  PROVE  Sound(tb2, v)
<1> DEFINE t == Association
<1>1. /\ Fits(t, tb[t]) /\ t \in AssociationTables /\ t \in DOMAIN tb
      /\ tb[t].refs \subseteq DOMAIN tb
  BY DEF Sound, Shaped, Changed, AssociationTables
<1>2. /\ tb2[t].has = has /\ tb2[t].refs = tb[t].refs
      /\ tb2[t].rows = rows /\ DOMAIN tb2 = DOMAIN tb
      /\ \A x \in DOMAIN tb \ {t} : tb2[x] = tb[x]
  BY <1>1, ChangedEffect DEF Sound
<1>3. ASSUME NEW ts \in {UserTables, CompanyTables}
      PROVE  RowsBehind(tb2, t, ts) = RowsBehind(tb, t, ts)
  <2>1. t \notin ts
    BY DEF UserTables, CompanyTables, Association
  <2>2. \A x \in tb[t].refs \cap ts : tb2[x].rows = tb[x].rows
    BY <1>1, <1>2, <2>1
  <2> QED
    BY <1>2, <2>2, SameBehind
<1>4. ASSUME NEW a, NEW b, a.user_id = b.user_id, a.company_id = b.company_id,
             a.closed = b.closed, RoleNamesOf(tb, t, a) = RoleNamesOf(tb2, t, b)
      PROVE  SameMember(tb, t, a, tb2, t, b)
  BY <1>3, <1>4 DEF SameMember, UsersOf, CompaniesOf
<1>5. Fits(t, tb2[t])
  <2>1. RefersWell(t, tb2[t])
    BY <1>1, <1>2 DEF Fits, RefersWell, Association, Copied, Folded
  <2>2. NullColumns(tb2[t])
    BY <1>2 DEF NullColumns, Table
  <2> QED
    BY <1>2, <2>1, <2>2
    DEF Fits, Association, UserTables, CompanyTables, RoleTables
<1>6. MembersAtVersion(tb2, v)
  <2>1. MembersAtVersion(tb, v)
    BY DEF Sound, AtVersion, MembersAtVersion
  <2>2. "role" # Association
    BY DEF Association
  <2>3. rows # {} => tb[t].rows # {}
    OBVIOUS
  <2> QED
    BY <1>1, <1>2, <2>1, <2>2, <2>3 DEF MembersAtVersion
<1>7. \A a \in tb[t].rows : \E b \in rows : SameMember(tb, t, a, tb2, t, b)
  BY <1>4
<1>8. \A b \in rows : \E a \in tb[t].rows : SameMember(tb, t, a, tb2, t, b)
  BY <1>4
<1> QED
  BY <1>1, <1>5, <1>6, <1>7, <1>8, SoundMembers

\* Before there are ids of roles, a membership names its role in a column.
LEMMA NoRoleIds ==
  ASSUME NEW tb, NEW v, Sound(tb, v), Early(v), Association \in DOMAIN tb,
         NEW a \in tb[Association].rows
  PROVE  /\ a.role_id = Null /\ "role_id" \notin tb[Association].has
         /\ MemberRow(a)
<1>1. "role_id" \notin tb[Association].has
  BY DEF Sound, AtVersion
<1>2. Association \in AssociationTables
  BY DEF AssociationTables
<1> QED
  BY <1>1, <1>2 DEF Sound, Fits, NullColumns

\* A membership's row without its level, or without the name of its role.
Levelless(a) == [a EXCEPT !["user_level"] = Null]
Nameless(a) == [a EXCEPT !["role_name"] = Null]

LEMMA SoundDropUserLevel ==
  ASSUME NEW tb, NEW v, Sound(tb, v), Early(v),
         Association \in DOMAIN tb =>
           \A a \in tb[Association].rows : a.role_name # Null,
         NEW tb2, tb2 \in Outcomes(tb, DropColumn(Association, "user_level"))
  PROVE  /\ Sound(tb2, v)
         /\ Changed(tb, Association, tb[Association].has \ {"user_level"},
                    tb[Association].refs,
                    {Levelless(r) : r \in tb[Association].rows}, tb2)
<1> DEFINE t == Association
           rows == {Levelless(r) : r \in tb[t].rows}
<1>1. Changed(tb, t, tb[t].has \ {"user_level"}, tb[t].refs, rows, tb2)
  <2>1. Changed(tb, t, tb[t].has \ {"user_level"}, tb[t].refs,
                {[r EXCEPT !["user_level"] = Null] : r \in tb[t].rows}, tb2)
    BY DropColumnEffect, Zenon
  <2> QED
    BY <2>1, Zenon DEF Levelless
<1>2. t \in DOMAIN tb /\ Fits(t, tb[t]) /\ t \in AssociationTables
  BY <1>1 DEF Changed, Sound, AssociationTables
<1>3. ASSUME NEW a \in tb[t].rows
      PROVE  /\ a.user_id = Levelless(a).user_id
             /\ a.company_id = Levelless(a).company_id
             /\ a.closed = Levelless(a).closed
             /\ a.role_id = Levelless(a).role_id
             /\ a.role_name = Levelless(a).role_name
             /\ Levelless(a).user_level = Null /\ MemberRow(Levelless(a))
             /\ RoleNamesOf(tb, t, a) = RoleNamesOf(tb2, t, Levelless(a))
  <2>1. a.role_id = Null /\ MemberRow(a) /\ a.role_name # Null
    BY <1>2, NoRoleIds
  <2>2. Levelless(a) =
          [user_id |-> a.user_id, company_id |-> a.company_id,
           user_level |-> Null, role_name |-> a.role_name,
           role_id |-> a.role_id, closed |-> a.closed]
    BY <2>1, ColumnSet DEF Levelless
  <2> QED
    BY <2>1, <2>2 DEF MemberRow, RoleNamesOf
<1>4. NullColumns(Table(tb[t].has \ {"user_level"}, tb[t].refs, rows))
  BY <1>2, <1>3 DEF NullColumns, Table, Fits
<1>5. Late(v) /\ "role_name" \in tb[t].has \ {"user_level"} /\ rows # {} =>
        "role" \in DOMAIN tb /\ NamedBy(rows, tb["role"].rows)
  BY <1>2, <1>3 DEF Sound, AtVersion, NamedBy
<1>6. \A a \in tb[t].rows : \E b \in rows :
        /\ a.user_id = b.user_id /\ a.company_id = b.company_id
        /\ a.closed = b.closed /\ a.role_id = b.role_id
        /\ RoleNamesOf(tb, t, a) = RoleNamesOf(tb2, t, b)
  BY <1>3
<1>7. \A b \in rows : MemberRow(b) /\ \E a \in tb[t].rows :
        /\ a.user_id = b.user_id /\ a.company_id = b.company_id
        /\ a.closed = b.closed /\ a.role_id = b.role_id
        /\ RoleNamesOf(tb, t, a) = RoleNamesOf(tb2, t, b)
  BY <1>3
<1>8. Sound(tb2, v)
  <2>1. PICK has : has = tb[t].has \ {"user_level"}
    OBVIOUS
  <2>2. "role_id" \in has => "role_id" \in tb[t].has
    BY <2>1
  <2>3. /\ Changed(tb, t, has, tb[t].refs, rows, tb2)
        /\ NullColumns(Table(has, tb[t].refs, rows))
        /\ Late(v) /\ "role_name" \in has /\ rows # {} =>
             "role" \in DOMAIN tb /\ NamedBy(rows, tb["role"].rows)
    BY <1>1, <1>4, <1>5, <2>1
  <2> HIDE DEF rows
  <2> QED
    BY <2>2, <2>3, <1>6, <1>7, SoundRewritten, SMTT(30)
<1> QED
  BY <1>1, <1>8

LEMMA SoundDropRoleName ==
  ASSUME NEW tb, NEW v, Sound(tb, v), Early(v),
         Association \in DOMAIN tb =>
           \A a \in tb[Association].rows :
             a.user_level = a.role_name /\ a.role_name # Null,
         NEW tb2, tb2 \in Outcomes(tb, DropColumn(Association, "role_name"))
  PROVE  Sound(tb2, v) /\ DOMAIN tb2 = DOMAIN tb
<1> DEFINE t == Association
           rows == {Nameless(r) : r \in tb[t].rows}
<1>1. /\ Changed(tb, t, tb[t].has \ {"role_name"}, tb[t].refs, rows, tb2)
      /\ "role_name" \in tb[t].has
  <2>1. /\ Changed(tb, t, tb[t].has \ {"role_name"}, tb[t].refs,
                   {[r EXCEPT !["role_name"] = Null] : r \in tb[t].rows}, tb2)
        /\ "role_name" \in tb[t].has
    BY DropColumnEffect, Zenon
  <2> QED
    BY <2>1, Zenon DEF Nameless
<1>2. /\ t \in DOMAIN tb /\ Fits(t, tb[t]) /\ t \in AssociationTables
      /\ DOMAIN tb2 = DOMAIN tb
  BY <1>1 DEF Changed, Sound, AssociationTables
<1>3. ASSUME NEW a \in tb[t].rows
      PROVE  /\ a.user_id = Nameless(a).user_id
             /\ a.company_id = Nameless(a).company_id
             /\ a.closed = Nameless(a).closed
             /\ a.role_id = Nameless(a).role_id
             /\ a.user_level = Nameless(a).user_level
             /\ Nameless(a).role_name = Null /\ MemberRow(Nameless(a))
             /\ RoleNamesOf(tb, t, a) = RoleNamesOf(tb2, t, Nameless(a))
  <2>1. /\ a.role_id = Null /\ MemberRow(a)
        /\ a.user_level = a.role_name /\ a.role_name # Null
    BY <1>2, NoRoleIds
  <2>2. Nameless(a) =
          [user_id |-> a.user_id, company_id |-> a.company_id,
           user_level |-> a.user_level, role_name |-> Null,
           role_id |-> a.role_id, closed |-> a.closed]
    BY <2>1, ColumnSet DEF Nameless
  <2> QED
    BY <2>1, <2>2 DEF MemberRow, RoleNamesOf, MemberLevel
<1>4. NullColumns(Table(tb[t].has \ {"role_name"}, tb[t].refs, rows))
  BY <1>2, <1>3 DEF NullColumns, Table, Fits
<1>5. \A a \in tb[t].rows : \E b \in rows :
        /\ a.user_id = b.user_id /\ a.company_id = b.company_id
        /\ a.closed = b.closed /\ a.role_id = b.role_id
        /\ RoleNamesOf(tb, t, a) = RoleNamesOf(tb2, t, b)
  BY <1>3
<1>6. \A b \in rows : MemberRow(b) /\ \E a \in tb[t].rows :
        /\ a.user_id = b.user_id /\ a.company_id = b.company_id
        /\ a.closed = b.closed /\ a.role_id = b.role_id
        /\ RoleNamesOf(tb, t, a) = RoleNamesOf(tb2, t, b)
  BY <1>3
<1>7. Sound(tb2, v)
  <2>1. PICK has : has = tb[t].has \ {"role_name"}
    OBVIOUS
  <2>2. "role_id" \in has => "role_id" \in tb[t].has
    BY <2>1
  <2>3. /\ Changed(tb, t, has, tb[t].refs, rows, tb2)
        /\ NullColumns(Table(has, tb[t].refs, rows))
        /\ Late(v) /\ "role_name" \in has /\ rows # {} =>
             "role" \in DOMAIN tb /\ NamedBy(rows, tb["role"].rows)
    BY <1>1, <1>4, <2>1
  <2> HIDE DEF rows
  <2> QED
    BY <2>2, <2>3, <1>5, <1>6, SoundRewritten, SMTT(30)
<1> QED
  BY <1>2, <1>7

\* What a write that succeeds found, and what it made of the tables.
LEMMA WrittenEffect ==
  ASSUME NEW tb, NEW tb2
  PROVE  /\ tb2 \in Outcomes(tb, Write("insert_roles")) =>
              /\ "role" \in DOMAIN tb /\ HasColumn(tb, Association, "user_level")
              /\ tb2 = InsertRoles(tb)
         /\ tb2 \in Outcomes(tb, Write("names_from_levels")) =>
              /\ HasColumn(tb, Association, "user_level")
              /\ HasColumn(tb, Association, "role_name")
              /\ tb2 = NamesFromLevels(tb)
         /\ tb2 \in Outcomes(tb, Write("levels_from_names")) =>
              /\ HasColumn(tb, Association, "user_level")
              /\ HasColumn(tb, Association, "role_name")
              /\ tb2 = LevelsFromNames(tb)
<1>1. ASSUME NEW w, tb2 \in Outcomes(tb, Write(w))
      PROVE  tb2 \in Written(tb, w)
  BY <1>1, Zenon DEF Outcomes, Write
<1>2. ASSUME NEW w, tb2 \in Written(tb, w)
      PROVE  /\ TablesOf(w) \subseteq DOMAIN tb
             /\ \A c \in ColumnsOf(w) : HasColumn(tb, Association, c)
  BY <1>2, Zenon DEF Written
<1>3. ASSUME tb2 \in Written(tb, "insert_roles")
      PROVE  /\ "role" \in DOMAIN tb /\ HasColumn(tb, Association, "user_level")
             /\ tb2 = InsertRoles(tb)
  <2>1. TablesOf("insert_roles") = {"role"}
    BY Zenon DEF TablesOf
  <2>2. ColumnsOf("insert_roles") = {"user_level"}
    BY Zenon DEF ColumnsOf
  <2>3. tb2 = InsertRoles(tb)
    BY <1>3, Zenon DEF Written
  <2> QED
    BY <1>2, <1>3, <2>1, <2>2, <2>3
<1>4. ASSUME tb2 \in Written(tb, "names_from_levels")
      PROVE  /\ HasColumn(tb, Association, "user_level")
             /\ HasColumn(tb, Association, "role_name")
             /\ tb2 = NamesFromLevels(tb)
  <2>1. ColumnsOf("names_from_levels") = {"user_level", "role_name"}
    BY Zenon DEF ColumnsOf
  <2>2. tb2 = NamesFromLevels(tb)
    BY <1>4, Zenon DEF Written
  <2> QED
    BY <1>2, <1>4, <2>1, <2>2
<1>5. ASSUME tb2 \in Written(tb, "levels_from_names")
      PROVE  /\ HasColumn(tb, Association, "user_level")
             /\ HasColumn(tb, Association, "role_name")
             /\ tb2 = LevelsFromNames(tb)
  <2>1. ColumnsOf("levels_from_names") = {"user_level", "role_name"}
    BY Zenon DEF ColumnsOf
  <2>2. tb2 = LevelsFromNames(tb)
    BY <1>5, Zenon DEF Written
  <2> QED
    BY <1>2, <1>5, <2>1, <2>2
<1> QED
  BY <1>1, <1>3, <1>4, <1>5

\* A membership's row with its level as the name of its role, and with the name
\* as its level.
Named(a) == [a EXCEPT !.role_name = MemberLevel(a)]
Levelled(a) == [a EXCEPT !.user_level = a.role_name]

LEMMA LevelIsName ==
  ASSUME NEW a
  PROVE  MemberLevel(a) # Null
BY NullAssumption DEF MemberLevel

LEMMA SoundNamesFromLevels ==
  ASSUME NEW tb, NEW v, Sound(tb, v), Early(v), ~Late(v),
         \A a \in tb[Association].rows : a.role_name = Null,
         Association \in DOMAIN tb, "role_name" \in tb[Association].has,
         NEW tb2, tb2 = NamesFromLevels(tb)
  PROVE  /\ Sound(tb2, v)
         /\ Changed(tb, Association, tb[Association].has, tb[Association].refs,
                    {Named(r) : r \in tb[Association].rows}, tb2)
         /\ \A a \in tb[Association].rows : Named(a).role_name = MemberLevel(a)
<1> DEFINE t == Association
           rows == {Named(r) : r \in tb[t].rows}
<1>2. Changed(tb, t, tb[t].has, tb[t].refs, rows, tb2)
  <2>1. tb2 = SetRows(tb, t, rows)
    BY DEF NamesFromLevels, Named
  <2> HIDE DEF rows
  <2> QED
    BY <2>1, SetRowsEffect
<1>3. Fits(t, tb[t]) /\ t \in AssociationTables
  BY DEF Sound, AssociationTables
<1>4. ASSUME NEW a \in tb[t].rows
      PROVE  /\ a.user_id = Named(a).user_id
             /\ a.company_id = Named(a).company_id
             /\ a.closed = Named(a).closed
             /\ a.role_id = Named(a).role_id
             /\ a.user_level = Named(a).user_level
             /\ Named(a).role_name = MemberLevel(a) /\ MemberRow(Named(a))
             /\ RoleNamesOf(tb, t, a) = RoleNamesOf(tb2, t, Named(a))
  <2>1. a.role_id = Null /\ MemberRow(a) /\ a.role_name = Null
    BY NoRoleIds
  <2>2. Named(a) =
          [user_id |-> a.user_id, company_id |-> a.company_id,
           user_level |-> a.user_level, role_name |-> MemberLevel(a),
           role_id |-> a.role_id, closed |-> a.closed]
    <3>1. PICK x : x = MemberLevel(a)
      OBVIOUS
    <3> QED
      BY <2>1, <3>1, ColumnSet DEF Named
  <2>3. MemberLevel(a) # Null
    BY LevelIsName
  <2>4. RoleNamesOf(tb, t, a) = {MemberLevel(a)}
    BY <2>1 DEF RoleNamesOf
  <2>5. PICK b : b = Named(a)
    OBVIOUS
  <2>6. /\ b.user_id = a.user_id /\ b.company_id = a.company_id
        /\ b.closed = a.closed /\ b.role_id = a.role_id
        /\ b.user_level = a.user_level /\ b.role_name = MemberLevel(a)
    BY <2>2, <2>5
  <2>7. MemberRow(b)
    BY <2>2, <2>5, <2>6 DEF MemberRow
  <2>8. RoleNamesOf(tb2, t, b) = {MemberLevel(a)}
    BY <2>1, <2>3, <2>6 DEF RoleNamesOf
  <2> QED
    BY <2>4, <2>5, <2>6, <2>7, <2>8
<1>5. NullColumns(Table(tb[t].has, tb[t].refs, rows))
  BY <1>3, <1>4 DEF NullColumns, Table, Fits
<1>6. \A a \in tb[t].rows : \E b \in rows :
        /\ a.user_id = b.user_id /\ a.company_id = b.company_id
        /\ a.closed = b.closed /\ a.role_id = b.role_id
        /\ RoleNamesOf(tb, t, a) = RoleNamesOf(tb2, t, b)
  BY <1>4
<1>7. \A b \in rows : MemberRow(b) /\ \E a \in tb[t].rows :
        /\ a.user_id = b.user_id /\ a.company_id = b.company_id
        /\ a.closed = b.closed /\ a.role_id = b.role_id
        /\ RoleNamesOf(tb, t, a) = RoleNamesOf(tb2, t, b)
  BY <1>4
<1>8. Sound(tb2, v)
  <2>1. PICK has : has = tb[t].has
    OBVIOUS
  <2>2. /\ Changed(tb, t, has, tb[t].refs, rows, tb2)
        /\ NullColumns(Table(has, tb[t].refs, rows))
        /\ "role_id" \in has => "role_id" \in tb[t].has
    BY <1>2, <1>5, <2>1
  <2> HIDE DEF rows
  <2> QED
    BY <2>2, <1>6, <1>7, SoundRewritten, SMTT(30)
<1> QED
  BY <1>2, <1>4, <1>8

LEMMA SoundLevelsFromNames ==
  ASSUME NEW tb, NEW v, Sound(tb, v), Early(v), Late(v),
         Association \in DOMAIN tb,
         {"user_level", "role_name"} \subseteq tb[Association].has,
         NEW tb2, tb2 = LevelsFromNames(tb)
  PROVE  /\ Sound(tb2, v)
         /\ Association \in DOMAIN tb2
         /\ \A a \in tb2[Association].rows :
              a.user_level = a.role_name /\ a.role_name # Null
<1> DEFINE t == Association
           rows == {Levelled(r) : r \in tb[t].rows}
<1>2. Changed(tb, t, tb[t].has, tb[t].refs, rows, tb2)
  <2>1. tb2 = SetRows(tb, t, rows)
    BY Zenon DEF LevelsFromNames, Levelled
  <2> HIDE DEF rows
  <2> QED
    BY <2>1, SetRowsEffect
<1>3. Fits(t, tb[t]) /\ t \in AssociationTables /\ tb[t].refs \subseteq DOMAIN tb
  BY DEF Sound, AssociationTables, Shaped
<1>4. ASSUME NEW a \in tb[t].rows
      PROVE  /\ a.user_id = Levelled(a).user_id
             /\ a.company_id = Levelled(a).company_id
             /\ a.closed = Levelled(a).closed
             /\ a.role_id = Levelled(a).role_id
             /\ a.role_name = Levelled(a).role_name
             /\ a.role_name = Levelled(a).user_level
             /\ a.role_name # Null /\ MemberRow(Levelled(a))
             /\ "role" \in DOMAIN tb
             /\ \E x \in tb["role"].rows : x.name = a.role_name
             /\ RoleNamesOf(tb, t, a) = RoleNamesOf(tb2, t, Levelled(a))
  <2>1. a.role_id = Null /\ MemberRow(a)
    BY NoRoleIds
  <2>2. /\ a.role_name # Null /\ "role" \in DOMAIN tb
        /\ \E x \in tb["role"].rows : x.name = a.role_name
    BY DEF Sound, AtVersion, NamedBy
  <2>3. Levelled(a) =
          [user_id |-> a.user_id, company_id |-> a.company_id,
           user_level |-> a.role_name, role_name |-> a.role_name,
           role_id |-> a.role_id, closed |-> a.closed]
    BY <2>1, ColumnSet DEF Levelled
  <2>4. PICK b : b = Levelled(a)
    OBVIOUS
  <2>5. /\ b.user_id = a.user_id /\ b.company_id = a.company_id
        /\ b.closed = a.closed /\ b.role_id = a.role_id
        /\ b.user_level = a.role_name /\ b.role_name = a.role_name
    BY <2>3, <2>4
  <2>6. MemberRow(b)
    BY <2>3, <2>4, <2>5 DEF MemberRow
  <2>7. RoleNamesOf(tb2, t, b) = RoleNamesOf(tb, t, a)
    BY <2>1, <2>2, <2>5 DEF RoleNamesOf
  <2> QED
    BY <2>2, <2>4, <2>5, <2>6, <2>7
<1>5. NullColumns(Table(tb[t].has, tb[t].refs, rows))
  BY <1>3, <1>4 DEF NullColumns, Table, Fits
<1>6. \A a \in tb[t].rows : \E b \in rows :
        /\ a.user_id = b.user_id /\ a.company_id = b.company_id
        /\ a.closed = b.closed /\ a.role_id = b.role_id
        /\ RoleNamesOf(tb, t, a) = RoleNamesOf(tb2, t, b)
  BY <1>4
<1>7. \A b \in rows : MemberRow(b) /\ \E a \in tb[t].rows :
        /\ a.user_id = b.user_id /\ a.company_id = b.company_id
        /\ a.closed = b.closed /\ a.role_id = b.role_id
        /\ RoleNamesOf(tb, t, a) = RoleNamesOf(tb2, t, b)
  BY <1>4
<1>8. rows # {} => "role" \in DOMAIN tb /\ NamedBy(rows, tb["role"].rows)
  BY <1>4 DEF NamedBy
<1>9. Sound(tb2, v)
  <2>1. PICK has : has = tb[t].has
    OBVIOUS
  <2>2. /\ Changed(tb, t, has, tb[t].refs, rows, tb2)
        /\ NullColumns(Table(has, tb[t].refs, rows))
        /\ "role_id" \in has => "role_id" \in tb[t].has
        /\ Late(v) /\ "role_name" \in has /\ rows # {} =>
             "role" \in DOMAIN tb /\ NamedBy(rows, tb["role"].rows)
    BY <1>2, <1>5, <1>8, <2>1
  <2> HIDE DEF rows
  <2> QED
    BY <2>2, <1>6, <1>7, SoundRewritten
<1>10. t \in DOMAIN tb2 /\ tb2[t].rows = rows
  BY <1>2, <1>3, ChangedEffect DEF Sound
<1> QED
  BY <1>4, <1>9, <1>10

\* The foreign key of the memberships to the roles, made and dropped while no
\* membership has the id of a role.
LEMMA SoundRoleKey ==
  ASSUME NEW tb, NEW v, NEW has, NEW refs, Sound(tb, v), Early(v), NEW tb2,
         Changed(tb, Association, has, refs, tb[Association].rows, tb2),
         \A c \in {"user_level", "role_name", "role_id"} :
           (c \in has) <=> (c \in tb[Association].has),
         refs \subseteq DOMAIN tb,
         \A x : x # "role" => ((x \in refs) <=> (x \in tb[Association].refs))
  PROVE  Sound(tb2, v)
<1> DEFINE t == Association
<1>1. t \in DOMAIN tb /\ Fits(t, tb[t]) /\ t \in AssociationTables
  BY DEF Changed, Sound, AssociationTables
<1>2. /\ tb2[t].has = has /\ tb2[t].refs = refs /\ tb2[t].rows = tb[t].rows
      /\ DOMAIN tb2 = DOMAIN tb /\ \A x \in DOMAIN tb \ {t} : tb2[x] = tb[x]
  BY ChangedEffect DEF Sound
<1>3. /\ refs \cap UserTables = tb[t].refs \cap UserTables
      /\ refs \cap CompanyTables = tb[t].refs \cap CompanyTables
  BY DEF UserTables, CompanyTables
<1>4. RefersWell(t, tb2[t])
  <2>1. RefersWell(t, tb[t])
    BY <1>1 DEF Fits
  <2>2. \A x \in refs \cap RoleTables : x = "role"
    BY <2>1 DEF RefersWell, RoleTables, Association, Copied, Folded
  <2> QED
    BY <1>2, <1>3, <2>1, <2>2 DEF RefersWell, Association, Copied, Folded
<1>5. NullColumns(tb2[t])
  BY <1>1, <1>2 DEF Fits, NullColumns
<1>6. Fits(t, tb2[t])
  BY <1>1, <1>2, <1>4, <1>5
  DEF Fits, Association, UserTables, CompanyTables, RoleTables
<1>7. \A a \in tb[t].rows : a.role_id = Null
  BY <1>1, NoRoleIds
<1>8. MembersAtVersion(tb2, v)
  <2>1. MembersAtVersion(tb, v)
    BY DEF Sound, AtVersion, MembersAtVersion
  <2>2. "role" # Association
    BY DEF Association
  <2> QED
    BY <1>2, <2>1, <2>2 DEF MembersAtVersion
<1> QED
  BY <1>3, <1>6, <1>7, <1>8, SoundSameRows

LEMMA SoundAddRoleKey ==
  ASSUME NEW tb, NEW v, Sound(tb, v), Early(v),
         NEW tb2, tb2 \in Outcomes(tb, AddKey(Association, RoleForeignKey, {"role"}))
  PROVE  /\ Sound(tb2, v)
         /\ DOMAIN tb2 = DOMAIN tb
         /\ tb2[Association].rows = tb[Association].rows
         /\ \A x \in DOMAIN tb \ {Association} : tb2[x] = tb[x]
<1> DEFINE t == Association
<1>1. PICK has, refs : /\ has = tb[t].has \cup {RoleForeignKey}
                       /\ refs = tb[t].refs \cup {"role"}
  OBVIOUS
<1>2. Changed(tb, t, has, refs, tb[t].rows, tb2) /\ {"role"} \subseteq DOMAIN tb
  BY <1>1, AddKeyEffect, Zenon
<1>3. \A c \in {"user_level", "role_name", "role_id"} : c # RoleForeignKey
  BY DEF RoleForeignKey
<1>4. refs \subseteq DOMAIN tb
  BY <1>1, <1>2 DEF Sound, Shaped, Changed
<1>5. Sound(tb2, v)
  BY <1>1, <1>2, <1>3, <1>4, SoundRoleKey
<1> QED
  BY <1>2, <1>4, <1>5, ChangedEffect DEF Sound

LEMMA SoundDropRoleKey ==
  ASSUME NEW tb, NEW v, Sound(tb, v), Early(v),
         NEW tb2, tb2 \in Outcomes(tb, DropKey(Association, RoleForeignKey, {"role"}))
  PROVE  /\ Sound(tb2, v)
         /\ DOMAIN tb2 = DOMAIN tb
         /\ tb2[Association].rows = tb[Association].rows
         /\ \A x \in DOMAIN tb \ {Association} : tb2[x] = tb[x]
<1> DEFINE t == Association
<1>1. PICK has, refs : /\ has = tb[t].has \ {RoleForeignKey}
                       /\ refs = tb[t].refs \ {"role"}
  OBVIOUS
<1>2. Changed(tb, t, has, refs, tb[t].rows, tb2)
  BY <1>1, DropKeyEffect, Zenon
<1>3. \A c \in {"user_level", "role_name", "role_id"} : c # RoleForeignKey
  BY DEF RoleForeignKey
<1>4. refs \subseteq DOMAIN tb
  BY <1>1, <1>2 DEF Sound, Shaped, Changed
<1>5. Sound(tb2, v)
  BY <1>1, <1>2, <1>3, <1>4, SoundRoleKey
<1> QED
  BY <1>2, <1>4, <1>5, ChangedEffect DEF Sound

-----------------------------------------------------------------------------
(* Statements on other tables.                                             *)

\* A statement that leaves users, companies, roles and memberships alone.
LEMMA SoundOutside ==
  ASSUME NEW tb, NEW tb2, NEW v, Sound(tb, v), Shaped(tb2),
         DOMAIN tb2 = DOMAIN tb,
         \A x \in DataTables \cap DOMAIN tb : tb2[x] = tb[x]
  PROVE  Sound(tb2, v)
<1>1. /\ \A x \in DOMAIN tb2 : Fits(x, tb2[x])
      /\ \A x \in AssociationTables \cap DOMAIN tb2 : Complete(tb2, x)
      /\ AtVersion(tb2, v)
      /\ \A x \in AssociationTables \cap DOMAIN tb \cap DOMAIN tb2 :
           Memberships(tb2, x) = Memberships(tb, x)
      /\ \A x \in UserTables \cap DOMAIN tb \cap DOMAIN tb2 :
           Emails(tb2, x) = Emails(tb, x)
  BY Framed
<1>2. UsersKept(tb2)
  BY <1>1 DEF UsersKept, Sound
<1>3. MembersKept(tb2)
  BY <1>1 DEF MembersKept, Sound
<1> QED
  BY <1>1, <1>2, <1>3 DEF Sound

LEMMA SoundChangedOutside ==
  ASSUME NEW tb, NEW v, NEW t, t \notin DataTables, NEW has, NEW refs, NEW rows,
         Sound(tb, v), refs \subseteq DOMAIN tb,
         NEW tb2, Changed(tb, t, has, refs, rows, tb2)
  PROVE  Sound(tb2, v)
<1>1. Shaped(tb)
  BY DEF Sound
<1>2. /\ Shaped(tb2) /\ DOMAIN tb2 = DOMAIN tb
      /\ \A x \in DOMAIN tb \ {t} : tb2[x] = tb[x]
  BY <1>1, ChangedEffect
<1> QED
  BY <1>2, SoundOutside

\* An index.
LEMMA SoundAddIndex ==
  ASSUME NEW tb, NEW v, NEW t, t \notin DataTables, NEW name, Sound(tb, v),
         NEW tb2, tb2 \in Outcomes(tb, AddKey(t, name, {}))
  PROVE  Sound(tb2, v)
<1>1. Changed(tb, t, tb[t].has \cup {name}, tb[t].refs \cup {}, tb[t].rows, tb2)
  BY AddKeyEffect, Zenon
<1>2. tb[t].refs \cup {} \subseteq DOMAIN tb
  BY <1>1 DEF Sound, Shaped, Changed
<1> QED
  BY <1>1, <1>2, SoundChangedOutside

LEMMA SoundDropIndex ==
  ASSUME NEW tb, NEW v, NEW t, t \notin DataTables, NEW name, Sound(tb, v),
         NEW tb2, tb2 \in Outcomes(tb, DropKey(t, name, {}))
  PROVE  Sound(tb2, v)
<1>1. Changed(tb, t, tb[t].has \ {name}, tb[t].refs \ {}, tb[t].rows, tb2)
  BY DropKeyEffect, Zenon
<1>2. tb[t].refs \ {} \subseteq DOMAIN tb
  BY <1>1 DEF Sound, Shaped, Changed
<1> QED
  BY <1>1, <1>2, SoundChangedOutside

LEMMA FillEffect ==
  ASSUME NEW tb, NEW rows, Shaped(tb), NEW tb2, tb2 = Fill(tb, rows)
  PROVE  /\ Shaped(tb2) /\ DOMAIN tb2 = DOMAIN tb
         /\ \A x \in DOMAIN tb \ DOMAIN rows : tb2[x] = tb[x]
         /\ \A x \in DOMAIN tb :
              /\ tb2[x].has = tb[x].has /\ tb2[x].refs = tb[x].refs
              /\ x \in DOMAIN rows => tb2[x].rows = rows[x]
<1>1. DOMAIN tb2 = DOMAIN tb /\ tb2 = [x \in DOMAIN tb2 |-> tb2[x]]
  BY DEF Fill
<1>2. ASSUME NEW x \in DOMAIN tb
      PROVE  /\ tb2[x] = Table(tb2[x].has, tb2[x].refs, tb2[x].rows)
             /\ tb2[x].has = tb[x].has /\ tb2[x].refs = tb[x].refs
             /\ x \in DOMAIN rows => tb2[x].rows = rows[x]
             /\ x \notin DOMAIN rows => tb2[x] = tb[x]
  <2>1. CASE x \in DOMAIN rows
    <3>1. tb2[x] = Table(tb[x].has, tb[x].refs, rows[x])
      BY <2>1 DEF Fill
    <3> QED
      BY <2>1, <3>1 DEF Table
  <2>2. CASE x \notin DOMAIN rows
    <3>1. tb2[x] = tb[x]
      BY <2>2 DEF Fill
    <3> QED
      BY <2>2, <3>1 DEF Shaped
  <2> QED
    BY <2>1, <2>2
<1>3. Shaped(tb2)
  BY <1>1, <1>2 DEF Shaped
<1> QED
  BY <1>1, <1>2, <1>3

\* Users get or lose a column that no membership reads.
LEMMA SoundUsers ==
  ASSUME NEW tb, NEW v, NEW has, NEW rows, Sound(tb, v), NEW tb2,
         Changed(tb, "user", has, tb["user"].refs, rows, tb2),
         \A r \in rows : UserRow(r),
         \A r \in rows : \E q \in tb["user"].rows : r.id = q.id /\ r.email = q.email,
         \A q \in tb["user"].rows : \E r \in rows : r.id = q.id /\ r.email = q.email
  PROVE  Sound(tb2, v) /\ DOMAIN tb2 = DOMAIN tb
<1>1. "user" \in DOMAIN tb /\ tb["user"].refs \subseteq DOMAIN tb
  BY DEF Changed, Sound, Shaped
<1>2. /\ Shaped(tb2) /\ DOMAIN tb2 = DOMAIN tb
      /\ \A x \in DOMAIN tb \ {"user"} : tb2[x] = tb[x]
      /\ tb2["user"].rows = rows
  BY <1>1, ChangedEffect DEF Sound
<1>3. Keyed(rows)
  <2>1. Keyed(tb["user"].rows)
    BY <1>1 DEF Sound, Fits, UserTables
  <2>2. ASSUME NEW r \in rows, NEW s \in rows
        PROVE  /\ (r.id = s.id) <=> (r.email = s.email)
               /\ r.id.uuid = s.id.uuid /\ r.id = [uuid |-> r.id.uuid, n |-> r.id.n]
    <3>1. PICK q \in tb["user"].rows : r.id = q.id /\ r.email = q.email
      OBVIOUS
    <3>2. PICK o \in tb["user"].rows : s.id = o.id /\ s.email = o.email
      OBVIOUS
    <3>3. /\ (q.id = o.id) <=> (q.email = o.email)
          /\ q.id.uuid = o.id.uuid /\ q.id = [uuid |-> q.id.uuid, n |-> q.id.n]
      BY <2>1 DEF Keyed
    <3> QED
      BY <3>1, <3>2, <3>3
  <2> QED
    BY <2>2 DEF Keyed
<1>4. \A x \in DOMAIN tb2 : Fits(x, tb2[x])
  <2>1. Fits("user", tb2["user"])
    BY <1>2, <1>3
    DEF Fits, UserTables, CompanyTables, RoleTables, AssociationTables, Association
  <2> QED
    BY <1>2, <2>1 DEF Sound
<1>5. /\ \A x \in AssociationTables : x # "user"
      /\ "user" \notin CompanyTables /\ "user" \notin RoleTables
  BY DEF AssociationTables, Association, CompanyTables, RoleTables
<1>6. ASSUME NEW t \in AssociationTables \cap DOMAIN tb
      PROVE  /\ Memberships(tb2, t) = Memberships(tb, t)
             /\ Complete(tb, t) => Complete(tb2, t)
             /\ RowsBehind(tb2, t, RoleTables) = RowsBehind(tb, t, RoleTables)
             /\ tb2[t] = tb[t]
  <2>1. tb[t].refs \subseteq DOMAIN tb /\ tb2[t] = tb[t]
    BY <1>2, <1>5 DEF Sound, Shaped
  <2>2. ASSUME NEW ts \in {CompanyTables, RoleTables}
        PROVE  RowsBehind(tb2, t, ts) = RowsBehind(tb, t, ts)
    <3>1. \A x \in tb[t].refs \cap ts : tb2[x].rows = tb[x].rows
      BY <1>2, <1>5, <2>1
    <3> QED
      BY <2>1, <3>1, SameBehind
  <2>3. /\ \A r \in RowsBehind(tb2, t, UserTables) :
             \E q \in RowsBehind(tb, t, UserTables) :
               r.id = q.id /\ r.email = q.email
        /\ \A q \in RowsBehind(tb, t, UserTables) :
             \E r \in RowsBehind(tb2, t, UserTables) :
               r.id = q.id /\ r.email = q.email
    <3>1. ASSUME NEW x \in tb[t].refs \cap UserTables
          PROVE  /\ \A r \in tb2[x].rows : \E q \in tb[x].rows :
                      r.id = q.id /\ r.email = q.email
                 /\ \A q \in tb[x].rows : \E r \in tb2[x].rows :
                      r.id = q.id /\ r.email = q.email
      BY <1>2, <2>1
    <3> QED
      BY <2>1, <3>1 DEF RowsBehind
  <2>4. ASSUME NEW a
        PROVE  UsersOf(tb2, t, a) = UsersOf(tb, t, a)
    <3>1. \A e : e \in UsersOf(tb2, t, a) <=>
            \E r \in RowsBehind(tb2, t, UserTables) : r.id = a.user_id /\ e = r.email
      BY DEF UsersOf
    <3>2. \A e : e \in UsersOf(tb, t, a) <=>
            \E r \in RowsBehind(tb, t, UserTables) : r.id = a.user_id /\ e = r.email
      BY DEF UsersOf
    <3>3. \A e : e \in UsersOf(tb2, t, a) <=> e \in UsersOf(tb, t, a)
      BY <2>3, <3>1, <3>2
    <3> QED
      BY <3>3 DEF UsersOf
  <2>5. \A a \in tb[t].rows : SameMember(tb, t, a, tb2, t, a)
    BY <2>2, <2>4 DEF SameMember, CompaniesOf, RoleNamesOf
  <2>6. Memberships(tb2, t) = Memberships(tb, t)
        /\ (Complete(tb, t) => Complete(tb2, t))
    BY <2>1, <2>5, SameMemberships
  <2> QED
    BY <2>1, <2>2, <2>6
<1>7. \A t \in AssociationTables \cap DOMAIN tb2 : Complete(tb2, t)
  BY <1>2, <1>6 DEF Sound
<1>8. AtVersion(tb2, v)
  <2>1. Association \in AssociationTables /\ Copied \in AssociationTables
    BY DEF AssociationTables, Copied
  <2>2. "role" # "user"
    OBVIOUS
  <2> QED
    BY <1>2, <1>6, <2>1, <2>2 DEF Sound, AtVersion
<1>9. UsersKept(tb2)
  <2>1. \A e : e \in Emails(tb2, "user") <=> e \in Emails(tb, "user")
    BY <1>2 DEF Emails
  <2>2. Emails(tb2, "user") = Emails(tb, "user")
    BY <2>1 DEF Emails
  <2>3. \A x \in DOMAIN tb \ {"user"} : Emails(tb2, x) = Emails(tb, x)
    BY <1>2 DEF Emails
  <2> QED
    BY <1>2, <2>2, <2>3 DEF Sound, UsersKept
<1>10. MembersKept(tb2)
  BY <1>2, <1>6 DEF Sound, MembersKept
<1> QED
  BY <1>2, <1>4, <1>7, <1>8, <1>9, <1>10 DEF Sound

\* A user's row with another value in the column of superusers.
Ranked(r, x) == [r EXCEPT !["is_superuser"] = x]

LEMMA RankedRow ==
  ASSUME NEW r, UserRow(r), NEW x
  PROVE  /\ Ranked(r, x).id = r.id /\ Ranked(r, x).email = r.email
         /\ UserRow(Ranked(r, x))
<1>1. [r EXCEPT !.is_superuser = x] =
        [id |-> r.id, email |-> r.email, is_superuser |-> x]
  BY DEF UserRow
<1>2. Ranked(r, x) = [id |-> r.id, email |-> r.email, is_superuser |-> x]
  BY <1>1 DEF Ranked
<1> QED
  BY <1>2 DEF UserRow

LEMMA SoundAddRank ==
  ASSUME NEW tb, NEW v, NEW x, Sound(tb, v),
         NEW tb2, tb2 \in Outcomes(tb, AddColumn("user", "is_superuser", x))
  PROVE  Sound(tb2, v)
<1> DEFINE rows == {Ranked(r, x) : r \in tb["user"].rows}
<1>1. Changed(tb, "user", tb["user"].has \cup {"is_superuser"},
              tb["user"].refs, rows, tb2)
  <2>1. /\ Changed(tb, "user", tb["user"].has \cup {"is_superuser"},
                   tb["user"].refs,
                   {[r EXCEPT !["is_superuser"] = x] : r \in tb["user"].rows}, tb2)
        /\ "is_superuser" \notin tb["user"].has
    BY AddColumnEffect, Zenon
  <2> QED
    BY <2>1, Zenon DEF Ranked
<1>2. \A r \in tb["user"].rows : UserRow(r)
  BY <1>1 DEF Changed, Sound, Fits, UserTables
<1>3. ASSUME NEW r \in tb["user"].rows
      PROVE  /\ Ranked(r, x).id = r.id /\ Ranked(r, x).email = r.email
             /\ UserRow(Ranked(r, x))
  BY <1>2, RankedRow
<1>4. \A r \in rows : UserRow(r) /\ \E q \in tb["user"].rows :
        r.id = q.id /\ r.email = q.email
  BY <1>3
<1>5. \A q \in tb["user"].rows : \E r \in rows : r.id = q.id /\ r.email = q.email
  BY <1>3
<1>6. PICK has : has = tb["user"].has \cup {"is_superuser"}
  OBVIOUS
<1>7. Changed(tb, "user", has, tb["user"].refs, rows, tb2)
  BY <1>1, <1>6
<1> HIDE DEF rows
<1> QED
  BY <1>4, <1>5, <1>7, SoundUsers, ZenonT(60)

LEMMA SoundDropRank ==
  ASSUME NEW tb, NEW v, Sound(tb, v),
         NEW tb2, tb2 \in Outcomes(tb, DropColumn("user", "is_superuser"))
  PROVE  Sound(tb2, v)
<1> DEFINE rows == {Ranked(r, Null) : r \in tb["user"].rows}
<1>1. Changed(tb, "user", tb["user"].has \ {"is_superuser"},
              tb["user"].refs, rows, tb2)
  <2>1. Changed(tb, "user", tb["user"].has \ {"is_superuser"}, tb["user"].refs,
                {[r EXCEPT !["is_superuser"] = Null] : r \in tb["user"].rows}, tb2)
    BY DropColumnEffect, Zenon
  <2> QED
    BY <2>1, Zenon DEF Ranked
<1>2. \A r \in tb["user"].rows : UserRow(r)
  BY <1>1 DEF Changed, Sound, Fits, UserTables
<1>3. ASSUME NEW r \in tb["user"].rows
      PROVE  /\ Ranked(r, Null).id = r.id /\ Ranked(r, Null).email = r.email
             /\ UserRow(Ranked(r, Null))
  BY <1>2, RankedRow
<1>4. \A r \in rows : UserRow(r) /\ \E q \in tb["user"].rows :
        r.id = q.id /\ r.email = q.email
  BY <1>3
<1>5. \A q \in tb["user"].rows : \E r \in rows : r.id = q.id /\ r.email = q.email
  BY <1>3
<1>6. PICK has : has = tb["user"].has \ {"is_superuser"}
  OBVIOUS
<1>7. Changed(tb, "user", has, tb["user"].refs, rows, tb2)
  BY <1>1, <1>6
<1> HIDE DEF rows
<1> QED
  BY <1>4, <1>5, <1>7, SoundUsers, ZenonT(60)

\* Roles that no membership refers to by an id are added.
LEMMA SoundInsertRoles ==
  ASSUME NEW tb, NEW v, Sound(tb, v), "role" \in DOMAIN tb,
         Association \in DOMAIN tb, NEW tb2, tb2 = InsertRoles(tb)
  PROVE  /\ Sound(tb2, v) /\ DOMAIN tb2 = DOMAIN tb
         /\ tb2[Association] = tb[Association]
         /\ \A a \in tb[Association].rows :
              \E x \in tb2["role"].rows : x.name = MemberLevel(a)
<1>1. PICK wanted :
        wanted = {<<a.company_id, MemberLevel(a)>> : a \in tb[Association].rows}
  OBVIOUS
<1>2. PICK known : known = {<<x.company_id, x.name>> : x \in tb["role"].rows}
  OBVIOUS
<1>3. PICK new : new =
        {[id |-> Null, company_id |-> w[1], name |-> w[2], closed |-> FALSE] :
           w \in wanted \ known}
  OBVIOUS
<1>4. tb2 = SetRows(tb, "role", tb["role"].rows \cup new)
  BY <1>1, <1>2, <1>3, Zenon DEF InsertRoles
<1>5. \A x \in new : x.id = Null /\ RoleRow(x)
  <2>1. ASSUME NEW w \in wanted \ known
        PROVE  LET x == [id |-> Null, company_id |-> w[1], name |-> w[2],
                         closed |-> FALSE] IN
               x.id = Null /\ RoleRow(x)
    <3>1. PICK a \in tb[Association].rows : w = <<a.company_id, MemberLevel(a)>>
      BY <1>1
    <3>2. w[2] # Null
      BY <3>1, LevelIsName
    <3> QED
      BY <3>2 DEF RoleRow
  <2> QED
    BY <1>3, <2>1
<1>6. PICK rows : rows = tb["role"].rows \cup new
  OBVIOUS
<1>7. Changed(tb, "role", tb["role"].has, tb["role"].refs, rows, tb2)
  BY <1>4, <1>6, SetRowsEffect
<1>8. tb["role"].refs \subseteq DOMAIN tb
  BY DEF Sound, Shaped
<1>9. /\ Shaped(tb2) /\ DOMAIN tb2 = DOMAIN tb
      /\ \A x \in DOMAIN tb \ {"role"} : tb2[x] = tb[x]
      /\ tb2["role"].rows = rows
  BY <1>7, <1>8, ChangedEffect DEF Sound
<1>10. ASSUME NEW a \in tb[Association].rows
       PROVE  \E x \in rows : x.name = MemberLevel(a)
  <2>1. PICK w \in wanted : w = <<a.company_id, MemberLevel(a)>>
    BY <1>1
  <2>2. CASE w \in known
    <3>1. PICK x \in tb["role"].rows : w = <<x.company_id, x.name>>
      BY <1>2, <2>2
    <3> QED
      BY <1>6, <2>1, <3>1
  <2>3. CASE w \notin known
    <3>1. PICK x : x = [id |-> Null, company_id |-> w[1], name |-> w[2],
                        closed |-> FALSE]
      OBVIOUS
    <3>2. x \in new /\ x.name = w[2]
      BY <1>3, <2>3, <3>1
    <3> QED
      BY <1>6, <2>1, <3>2
  <2> QED
    BY <2>2, <2>3
<1>11. /\ \A x \in AssociationTables : x # "role"
       /\ "role" \notin CompanyTables /\ "role" \notin UserTables
  BY DEF AssociationTables, Association, CompanyTables, UserTables
<1>12. \A x \in DOMAIN tb2 : Fits(x, tb2[x])
  <2>1. Fits("role", tb2["role"])
    <3>1. \A x \in tb["role"].rows : RoleRow(x)
      BY DEF Sound, Fits, RoleTables
    <3> QED
      BY <1>5, <1>6, <1>9, <1>11, <3>1 DEF Fits
  <2> QED
    BY <1>9, <2>1 DEF Sound
<1>13. ASSUME NEW t \in AssociationTables \cap DOMAIN tb
       PROVE  /\ Memberships(tb2, t) = Memberships(tb, t)
              /\ Complete(tb, t) => Complete(tb2, t)
              /\ RowsBehind(tb, t, RoleTables) \subseteq
                   RowsBehind(tb2, t, RoleTables)
              /\ tb2[t] = tb[t]
  <2>1. tb[t].refs \subseteq DOMAIN tb /\ tb2[t] = tb[t]
    BY <1>9, <1>11 DEF Sound, Shaped
  <2>2. ASSUME NEW ts \in {CompanyTables, UserTables}
        PROVE  RowsBehind(tb2, t, ts) = RowsBehind(tb, t, ts)
    <3>1. \A x \in tb[t].refs \cap ts : tb2[x].rows = tb[x].rows
      BY <1>9, <1>11, <2>1
    <3> QED
      BY <2>1, <3>1, SameBehind
  <2>3. /\ RowsBehind(tb, t, RoleTables) \subseteq RowsBehind(tb2, t, RoleTables)
        /\ RowsBehind(tb2, t, RoleTables) \subseteq
             RowsBehind(tb, t, RoleTables) \cup new
    <3>1. \A x \in tb[t].refs \cap RoleTables :
            tb[x].rows \subseteq tb2[x].rows /\ tb2[x].rows \subseteq tb[x].rows \cup new
      BY <1>6, <1>9, <2>1
    <3> QED
      BY <2>1, <3>1 DEF RowsBehind
  <2>4. ASSUME NEW a
        PROVE  RoleNamesOf(tb2, t, a) = RoleNamesOf(tb, t, a)
    <3>1. CASE a.role_id = Null
      BY <3>1 DEF RoleNamesOf
    <3>2. CASE a.role_id # Null
      <4>1. {y \in RowsBehind(tb2, t, RoleTables) : y.id = a.role_id} =
              {y \in RowsBehind(tb, t, RoleTables) : y.id = a.role_id}
        BY <1>5, <2>3, <3>2
      <4> QED
        BY <3>2, <4>1 DEF RoleNamesOf
    <3> QED
      BY <3>1, <3>2
  <2>5. \A a \in tb[t].rows : SameMember(tb, t, a, tb2, t, a)
    BY <2>2, <2>4 DEF SameMember, CompaniesOf, UsersOf
  <2>6. Memberships(tb2, t) = Memberships(tb, t)
        /\ (Complete(tb, t) => Complete(tb2, t))
    BY <2>1, <2>5, SameMemberships
  <2> QED
    BY <2>1, <2>3, <2>6
<1>14. \A t \in AssociationTables \cap DOMAIN tb2 : Complete(tb2, t)
  BY <1>9, <1>13 DEF Sound
<1>15. AtVersion(tb2, v)
  <2>1. Association \in AssociationTables /\ Copied \in AssociationTables
    BY DEF AssociationTables, Copied
  <2>2. ASSUME NEW xs, NEW roles, NEW more, NamedBy(xs, roles),
               roles \subseteq more
        PROVE  NamedBy(xs, more)
    BY <2>2 DEF NamedBy
  <2>3. tb["role"].rows \subseteq tb2["role"].rows
    BY <1>6, <1>9
  <2>4. tb2[Association] = tb[Association]
    BY <1>13, <2>1
  <2>5. Copied \in DOMAIN tb =>
          NamedBy(tb2[Copied].rows, RowsBehind(tb2, Copied, RoleTables))
    BY <1>13, <2>1, <2>2 DEF Sound, AtVersion
  <2>6. NamedBy(tb[Association].rows, tb["role"].rows) =>
          NamedBy(tb2[Association].rows, tb2["role"].rows)
    BY <2>2, <2>3, <2>4
  <2> QED
    BY <1>9, <2>4, <2>5, <2>6 DEF Sound, AtVersion
<1>16. UsersKept(tb2)
  BY <1>9, <1>11 DEF Sound, UsersKept, Emails
<1>17. MembersKept(tb2)
  BY <1>9, <1>13 DEF Sound, MembersKept
<1>18. tb2[Association] = tb[Association]
  BY <1>13 DEF AssociationTables
<1> QED
  BY <1>9, <1>10, <1>12, <1>14, <1>15, <1>16, <1>17, <1>18 DEF Sound

-----------------------------------------------------------------------------
(* 4f9d2f8f6c13: the rows again with other ids.                            *)

\* Different ids stay different, and all become numbers or all UUIDs.
NewIds(f, ids) ==
  \A i, j \in ids :
    /\ f[i] = f[j] => i = j
    /\ f[i].uuid = f[j].uuid /\ f[i] = [uuid |-> f[i].uuid, n |-> f[i].n]

MovedUser(u, f) == [u EXCEPT !.id = f[u.id]]
MovedCompany(c, f) == [c EXCEPT !.id = f[c.id]]
MovedRole(x, f) == [x EXCEPT !.company_id = f[@]]
MovedMember(a, f, g) ==
  [a EXCEPT !.user_id = f[@], !.company_id = g[@], !.user_level = Null]

LEMMA MovedRows ==
  ASSUME NEW r, NEW f, NEW g
  PROVE  /\ UserRow(r) => /\ UserRow(MovedUser(r, f))
                          /\ MovedUser(r, f).id = f[r.id]
                          /\ MovedUser(r, f).email = r.email
         /\ CompanyRow(r) => /\ CompanyRow(MovedCompany(r, f))
                             /\ MovedCompany(r, f).id = f[r.id]
                             /\ MovedCompany(r, f).email = r.email
         /\ RoleRow(r) => /\ RoleRow(MovedRole(r, f))
                          /\ MovedRole(r, f).name = r.name
         /\ MemberRow(r) => /\ MemberRow(MovedMember(r, f, g))
                            /\ MovedMember(r, f, g).user_id = f[r.user_id]
                            /\ MovedMember(r, f, g).company_id = g[r.company_id]
                            /\ MovedMember(r, f, g).user_level = Null
                            /\ MovedMember(r, f, g).role_name = r.role_name
                            /\ MovedMember(r, f, g).role_id = r.role_id
                            /\ MovedMember(r, f, g).closed = r.closed
<1>1. ASSUME UserRow(r)
      PROVE  MovedUser(r, f) =
               [id |-> f[r.id], email |-> r.email, is_superuser |-> r.is_superuser]
  BY <1>1 DEF UserRow, MovedUser
<1>2. ASSUME CompanyRow(r)
      PROVE  MovedCompany(r, f) = [id |-> f[r.id], email |-> r.email]
  BY <1>2 DEF CompanyRow, MovedCompany
<1>3. ASSUME RoleRow(r)
      PROVE  MovedRole(r, f) =
               [id |-> r.id, company_id |-> f[r.company_id], name |-> r.name,
                closed |-> r.closed]
  BY <1>3 DEF RoleRow, MovedRole
<1>4. ASSUME MemberRow(r)
      PROVE  MovedMember(r, f, g) =
               [user_id |-> f[r.user_id], company_id |-> g[r.company_id],
                user_level |-> Null, role_name |-> r.role_name,
                role_id |-> r.role_id, closed |-> r.closed]
  <2>1. PICK e : e = MovedMember(r, f, g)
    OBVIOUS
  <2>2. e = [z \in DOMAIN r |-> e[z]]
    BY <2>1 DEF MovedMember
  <2>3. DOMAIN r = {"user_id", "company_id", "user_level", "role_name",
                    "role_id", "closed"}
    BY <1>4 DEF MemberRow
  <2>4. /\ e.user_id = f[r.user_id] /\ e.company_id = g[r.company_id]
        /\ e.user_level = Null
    BY <2>1, <2>3 DEF MovedMember
  <2>5. e.role_name = r.role_name /\ e.role_id = r.role_id /\ e.closed = r.closed
    BY <2>1, <2>3 DEF MovedMember
  <2> QED
    BY <2>1, <2>2, <2>3, <2>4, <2>5
<1>5. UserRow(r) => /\ UserRow(MovedUser(r, f))
                    /\ MovedUser(r, f).id = f[r.id]
                    /\ MovedUser(r, f).email = r.email
  BY <1>1 DEF UserRow
<1>6. CompanyRow(r) => /\ CompanyRow(MovedCompany(r, f))
                       /\ MovedCompany(r, f).id = f[r.id]
                       /\ MovedCompany(r, f).email = r.email
  BY <1>2 DEF CompanyRow
<1>7. RoleRow(r) => RoleRow(MovedRole(r, f)) /\ MovedRole(r, f).name = r.name
  BY <1>3 DEF RoleRow
<1>8. MemberRow(r) => /\ MemberRow(MovedMember(r, f, g))
                      /\ MovedMember(r, f, g).user_id = f[r.user_id]
                      /\ MovedMember(r, f, g).company_id = g[r.company_id]
                      /\ MovedMember(r, f, g).user_level = Null
                      /\ MovedMember(r, f, g).role_name = r.role_name
                      /\ MovedMember(r, f, g).role_id = r.role_id
                      /\ MovedMember(r, f, g).closed = r.closed
  BY <1>4 DEF MemberRow
<1> QED
  BY <1>5, <1>6, <1>7, <1>8

LEMMA CopyEffect ==
  ASSUME NEW tb, NEW f, NEW g, Shaped(tb), NEW tb2, tb2 = CopyRows(tb, f, g),
         {"user_uuid_tmp", "company_uuid_tmp", "role_uuid_tmp", Copied} \subseteq
           DOMAIN tb
  PROVE  /\ Shaped(tb2) /\ DOMAIN tb2 = DOMAIN tb
         /\ \A x \in DOMAIN tb : tb2[x].has = tb[x].has /\ tb2[x].refs = tb[x].refs
         /\ \A x \in DOMAIN tb \ {"user_uuid_tmp", "company_uuid_tmp",
                                  "role_uuid_tmp", Copied} : tb2[x] = tb[x]
         /\ tb2["user_uuid_tmp"].rows = {MovedUser(u, f) : u \in tb["user"].rows}
         /\ tb2["company_uuid_tmp"].rows =
              {MovedCompany(c, g) : c \in tb["company"].rows}
         /\ tb2["role_uuid_tmp"].rows = {MovedRole(x, g) : x \in tb["role"].rows}
         /\ tb2[Copied].rows = {MovedMember(a, f, g) : a \in tb[Association].rows}
<1>1. PICK us : us = {MovedUser(u, f) : u \in tb["user"].rows}
  OBVIOUS
<1>2. PICK cs : cs = {MovedCompany(c, g) : c \in tb["company"].rows}
  OBVIOUS
<1>3. PICK xs : xs = {MovedRole(x, g) : x \in tb["role"].rows}
  OBVIOUS
<1>4. PICK as : as = {MovedMember(a, f, g) : a \in tb[Association].rows}
  OBVIOUS
<1>5. PICK rows :
        rows = [user_uuid_tmp |-> us, company_uuid_tmp |-> cs,
                role_uuid_tmp |-> xs, association_user_company_uuid_tmp |-> as]
  OBVIOUS
<1>6. tb2 = Fill(tb, rows)
  BY <1>1, <1>2, <1>3, <1>4, <1>5
  DEF CopyRows, MovedUser, MovedCompany, MovedRole, MovedMember
<1>7. /\ DOMAIN rows = {"user_uuid_tmp", "company_uuid_tmp", "role_uuid_tmp", Copied}
      /\ rows["user_uuid_tmp"] = us /\ rows["company_uuid_tmp"] = cs
      /\ rows["role_uuid_tmp"] = xs /\ rows[Copied] = as
  BY <1>5 DEF Copied
<1>8. /\ Shaped(tb2) /\ DOMAIN tb2 = DOMAIN tb
      /\ \A x \in DOMAIN tb \ DOMAIN rows : tb2[x] = tb[x]
      /\ \A x \in DOMAIN tb :
           /\ tb2[x].has = tb[x].has /\ tb2[x].refs = tb[x].refs
           /\ x \in DOMAIN rows => tb2[x].rows = rows[x]
  BY <1>6, FillEffect
<1> QED
  BY <1>1, <1>2, <1>3, <1>4, <1>7, <1>8

\* The table t is there and has no rows.
Fresh(tb, t) == t \in DOMAIN tb /\ tb[t].rows = {}

\* The rows behind a table that refers to one table of the kind.
LEMMA OneBehind ==
  ASSUME NEW tb, NEW t, NEW ts, NEW x, tb[t].refs \cap ts = {x}
  PROVE  RowsBehind(tb, t, ts) = tb[x].rows
BY DEF RowsBehind

LEMMA BehindMembers ==
  ASSUME NEW tb, NEW v, Sound(tb, v), Association \in DOMAIN tb
  PROVE  /\ RowsBehind(tb, Association, UserTables) = tb["user"].rows
         /\ RowsBehind(tb, Association, CompanyTables) = tb["company"].rows
         /\ tb[Association].refs \cap Temporary \subseteq {Copied, Folded}
<1>1. RefersWell(Association, tb[Association])
  BY DEF Sound, Fits, AssociationTables
<1>2. Association # Copied /\ Association # Folded
  BY DEF Association, Copied, Folded
<1>3. tb[Association].refs \cap UserTables = {"user"}
  BY <1>1, <1>2 DEF RefersWell, UserTables
<1>4. tb[Association].refs \cap CompanyTables = {"company"}
  BY <1>1, <1>2 DEF RefersWell, CompanyTables
<1>5. tb[Association].refs \cap Temporary \subseteq {Copied, Folded}
  <2>1. \A x \in {"user_uuid_tmp", "company_uuid_tmp", "role_uuid_tmp",
                  "role_global_tmp"} : x \notin tb[Association].refs
    BY <1>1, <1>2 DEF RefersWell
  <2> QED
    BY <2>1 DEF Temporary
<1>6. RowsBehind(tb, Association, UserTables) = tb["user"].rows
  <2>1. {tb[x].rows : x \in tb[Association].refs \cap UserTables} = {tb["user"].rows}
    BY <1>3
  <2> QED
    BY <2>1 DEF RowsBehind
<1>7. RowsBehind(tb, Association, CompanyTables) = tb["company"].rows
  <2>1. {tb[x].rows : x \in tb[Association].refs \cap CompanyTables} = {tb["company"].rows}
    BY <1>4
  <2> QED
    BY <2>1 DEF RowsBehind
<1> QED
  BY <1>5, <1>6, <1>7

\* What a copied membership stands for.
LEMMA CopiedMember ==
  ASSUME NEW tb, NEW f, NEW g, NEW tb2, NEW a, MemberRow(a), a.role_id = Null,
         a.role_name # Null,
         RowsBehind(tb2, Copied, UserTables) =
           {MovedUser(u, f) : u \in RowsBehind(tb, Association, UserTables)},
         RowsBehind(tb2, Copied, CompanyTables) =
           {MovedCompany(c, g) : c \in RowsBehind(tb, Association, CompanyTables)},
         \A u \in RowsBehind(tb, Association, UserTables) : UserRow(u),
         \A c \in RowsBehind(tb, Association, CompanyTables) : CompanyRow(c),
         NewIds(f, {u.id : u \in RowsBehind(tb, Association, UserTables)}),
         NewIds(g, {c.id : c \in RowsBehind(tb, Association, CompanyTables)}),
         UsersOf(tb, Association, a) # {}, CompaniesOf(tb, Association, a) # {}
  PROVE  SameMember(tb, Association, a, tb2, Copied, MovedMember(a, f, g))
<1>1. PICK b : b = MovedMember(a, f, g)
  OBVIOUS
<1>2. /\ b.user_id = f[a.user_id] /\ b.company_id = g[a.company_id]
      /\ b.role_name = a.role_name /\ b.role_id = a.role_id /\ b.closed = a.closed
  BY <1>1, MovedRows
<1>3. RoleNamesOf(tb2, Copied, b) = RoleNamesOf(tb, Association, a)
  BY <1>2 DEF RoleNamesOf
<1>4. UsersOf(tb2, Copied, b) = UsersOf(tb, Association, a)
  <2>1. PICK us : us = RowsBehind(tb, Association, UserTables)
    OBVIOUS
  <2>2. PICK w \in us : w.id = a.user_id
    BY <2>1 DEF UsersOf
  <2>3. ASSUME NEW u \in us
        PROVE  /\ (MovedUser(u, f).id = b.user_id) <=> (u.id = a.user_id)
               /\ MovedUser(u, f).email = u.email
    <3>1. MovedUser(u, f).id = f[u.id] /\ MovedUser(u, f).email = u.email
      BY <2>1, MovedRows
    <3>2. f[u.id] = f[w.id] => u.id = w.id
      <4>1. PICK ids : ids = {o.id : o \in us}
        OBVIOUS
      <4>2. u.id \in ids /\ w.id \in ids /\ NewIds(f, ids)
        BY <2>1, <4>1
      <4> QED
        BY <4>2 DEF NewIds
    <3> QED
      BY <1>2, <2>2, <3>1, <3>2
  <2>4. \A e : e \in UsersOf(tb, Association, a) <=>
          \E u \in us : u.id = a.user_id /\ e = u.email
    BY <2>1 DEF UsersOf
  <2>5. \A e : e \in UsersOf(tb2, Copied, b) <=>
          \E u \in us : MovedUser(u, f).id = b.user_id /\ e = MovedUser(u, f).email
    <3>1. RowsBehind(tb2, Copied, UserTables) = {MovedUser(u, f) : u \in us}
      BY <2>1
    <3>2. \A e : e \in UsersOf(tb2, Copied, b) <=>
            \E o \in {MovedUser(u, f) : u \in us} :
              o.id = b.user_id /\ e = o.email
      BY <3>1 DEF UsersOf
    <3> QED
      BY <3>2
  <2>6. \A e : e \in UsersOf(tb2, Copied, b) <=> e \in UsersOf(tb, Association, a)
    BY <2>3, <2>4, <2>5
  <2> QED
    BY <2>6 DEF UsersOf
<1>5. CompaniesOf(tb2, Copied, b) = CompaniesOf(tb, Association, a)
  <2>1. PICK cs : cs = RowsBehind(tb, Association, CompanyTables)
    OBVIOUS
  <2>2. PICK w \in cs : w.id = a.company_id
    BY <2>1 DEF CompaniesOf
  <2>3. ASSUME NEW c \in cs
        PROVE  /\ (MovedCompany(c, g).id = b.company_id) <=> (c.id = a.company_id)
               /\ MovedCompany(c, g).email = c.email
    <3>1. MovedCompany(c, g).id = g[c.id] /\ MovedCompany(c, g).email = c.email
      BY <2>1, MovedRows
    <3>2. g[c.id] = g[w.id] => c.id = w.id
      <4>1. PICK ids : ids = {o.id : o \in cs}
        OBVIOUS
      <4>2. c.id \in ids /\ w.id \in ids /\ NewIds(g, ids)
        BY <2>1, <4>1
      <4> QED
        BY <4>2 DEF NewIds
    <3> QED
      BY <1>2, <2>2, <3>1, <3>2
  <2>4. \A e : e \in CompaniesOf(tb, Association, a) <=>
          \E c \in cs : c.id = a.company_id /\ e = c.email
    BY <2>1 DEF CompaniesOf
  <2>5. \A e : e \in CompaniesOf(tb2, Copied, b) <=>
          \E c \in cs :
            MovedCompany(c, g).id = b.company_id /\ e = MovedCompany(c, g).email
    <3>1. RowsBehind(tb2, Copied, CompanyTables) = {MovedCompany(c, g) : c \in cs}
      BY <2>1
    <3>2. \A e : e \in CompaniesOf(tb2, Copied, b) <=>
            \E o \in {MovedCompany(c, g) : c \in cs} :
              o.id = b.company_id /\ e = o.email
      BY <3>1 DEF CompaniesOf
    <3> QED
      BY <3>2
  <2>6. \A e : e \in CompaniesOf(tb2, Copied, b) <=>
               e \in CompaniesOf(tb, Association, a)
    BY <2>3, <2>4, <2>5
  <2> QED
    BY <2>6 DEF CompaniesOf
<1> QED
  BY <1>1, <1>2, <1>3, <1>4, <1>5 DEF SameMember

\* Empty tables that no filled one refers to get their rows.
LEMMA SoundFilled ==
  ASSUME NEW tb, NEW v, NEW ts, NEW tb2, Sound(tb, v), Shaped(tb2),
         DOMAIN tb2 = DOMAIN tb, ts \subseteq DOMAIN tb,
         Association \notin ts, "role" \notin ts,
         \A x \in (DataTables \cap DOMAIN tb) \ ts : tb2[x] = tb[x],
         \A x \in ts : tb[x].rows = {} /\ Fits(x, tb2[x]),
         \A t \in (AssociationTables \cap DOMAIN tb) \ ts : 
           \A x \in ts \ AssociationTables : x \notin tb[t].refs,
         \A t \in AssociationTables \cap ts : Complete(tb2, t),
         Copied \in ts =>
           NamedBy(tb2[Copied].rows, RowsBehind(tb2, Copied, RoleTables))
  PROVE  Sound(tb2, v)
<1>1. ASSUME NEW t \in (AssociationTables \cap DOMAIN tb) \ ts
      PROVE  /\ \A k \in {UserTables, CompanyTables, RoleTables} :
                  RowsBehind(tb2, t, k) = RowsBehind(tb, t, k)
             /\ Memberships(tb2, t) = Memberships(tb, t)
             /\ Complete(tb, t) => Complete(tb2, t)
             /\ tb2[t] = tb[t]
  <2>1. tb2[t] = tb[t]
    BY DEF DataTables
  <2>2. tb[t].refs \subseteq DOMAIN tb
    BY DEF Sound, Shaped
  <2>3. ASSUME NEW k \in {UserTables, CompanyTables, RoleTables},
               NEW x \in tb[t].refs \cap k
        PROVE  tb2[x].rows = tb[x].rows
    <3>1. x \in DataTables /\ x \notin AssociationTables
      BY DEF DataTables, UserTables, CompanyTables, RoleTables,
             AssociationTables, Association
    <3>2. x \notin ts
      BY <3>1
    <3> QED
      BY <2>2, <3>1, <3>2
  <2>4. \A k \in {UserTables, CompanyTables, RoleTables} :
          RowsBehind(tb2, t, k) = RowsBehind(tb, t, k)
    BY <2>1, <2>3, SameBehind
  <2> QED
    BY <2>1, <2>4, SameRows
<1>2. \A t \in DOMAIN tb2 : Fits(t, tb2[t])
  <2>1. ASSUME NEW t \in DOMAIN tb, t \notin DataTables PROVE Fits(t, tb2[t])
    BY <2>1 DEF Fits, DataTables
  <2>2. ASSUME NEW t \in DOMAIN tb, t \in DataTables PROVE Fits(t, tb2[t])
    BY <2>2 DEF Sound
  <2> QED
    BY <2>1, <2>2
<1>3. \A t \in AssociationTables \cap DOMAIN tb2 : Complete(tb2, t)
  BY <1>1 DEF Sound
<1>4. AtVersion(tb2, v)
  <2>1. Association \in DOMAIN tb => tb2[Association] = tb[Association]
    BY DEF DataTables, AssociationTables
  <2>2. "role" \in DOMAIN tb => tb2["role"] = tb["role"]
    BY DEF DataTables, RoleTables
  <2>3. Copied \in DOMAIN tb /\ Copied \notin ts =>
          /\ tb2[Copied] = tb[Copied]
          /\ RowsBehind(tb2, Copied, RoleTables) = RowsBehind(tb, Copied, RoleTables)
    BY <1>1 DEF AssociationTables, Copied
  <2> QED
    BY <2>1, <2>2, <2>3 DEF Sound, AtVersion
<1>5. UsersKept(tb2)
  <2>1. ASSUME NEW t \in UserTables \cap DOMAIN tb, Emails(tb, t) = Data.users,
               Data.users # {}
        PROVE  Emails(tb2, t) = Data.users
    <3>1. tb[t].rows # {}
      BY <2>1 DEF Emails
    <3>2. tb2[t] = tb[t]
      BY <3>1 DEF DataTables
    <3> QED
      BY <2>1, <3>2 DEF Emails
  <2> QED
    BY <2>1 DEF Sound, UsersKept
<1>6. MembersKept(tb2)
  <2>1. ASSUME NEW t \in AssociationTables \cap DOMAIN tb, Data.members # {},
               Memberships(tb, t) = LegacyMemberships
        PROVE  Memberships(tb2, t) = LegacyMemberships
    <3>1. tb[t].rows # {}
      <4>1. LegacyMemberships # {}
        BY <2>1 DEF LegacyMemberships
      <4> QED
        BY <2>1, <4>1 DEF Memberships
    <3> QED
      BY <1>1, <2>1, <3>1
  <2> QED
    BY <2>1 DEF Sound, MembersKept
<1> QED
  BY <1>2, <1>3, <1>4, <1>5, <1>6 DEF Sound

LEMMA KeyedMoved ==
  ASSUME NEW rows, NEW f, NEW ids, Keyed(rows), NewIds(f, ids),
         ids = {r.id : r \in rows},
         NEW moved,
         \A m \in moved : \E r \in rows : m.id = f[r.id] /\ m.email = r.email
  PROVE  Keyed(moved)
<1>1. \A r \in rows : r.id \in ids
  OBVIOUS
<1>2. ASSUME NEW m \in moved, NEW l \in moved
      PROVE  /\ (m.id = l.id) <=> (m.email = l.email)
             /\ m.id.uuid = l.id.uuid /\ m.id = [uuid |-> m.id.uuid, n |-> m.id.n]
  <2>1. PICK r \in rows : m.id = f[r.id] /\ m.email = r.email
    OBVIOUS
  <2>2. PICK q \in rows : l.id = f[q.id] /\ l.email = q.email
    OBVIOUS
  <2>3. /\ f[r.id] = f[q.id] => r.id = q.id
        /\ f[r.id].uuid = f[q.id].uuid
        /\ f[r.id] = [uuid |-> f[r.id].uuid, n |-> f[r.id].n]
    BY <1>1 DEF NewIds
  <2>4. (r.id = q.id) <=> (r.email = q.email)
    BY DEF Keyed
  <2> QED
    BY <2>1, <2>2, <2>3, <2>4
<1> QED
  BY <1>2 DEF Keyed

\* Where the memberships can be copied, each has the name of a role and no id.
LEMMA NamedMembers ==
  ASSUME NEW tb, NEW v, Sound(tb, v), Late(v), CoreTables \subseteq DOMAIN tb,
         CanCopy(tb), NEW a \in tb[Association].rows
  PROVE  /\ a.role_id = Null /\ a.role_name # Null /\ MemberRow(a)
         /\ \E x \in tb["role"].rows : x.name = a.role_name
<1>1. Association \in DOMAIN tb
  BY DEF CoreTables
<1>2. "role_name" \in tb[Association].has
  BY DEF CanCopy, HasColumn
<1>3. NamedBy(tb[Association].rows, tb["role"].rows)
  BY <1>1, <1>2 DEF Sound, AtVersion
<1>4. "role_id" \notin tb[Association].has
  BY <1>1, <1>2 DEF Sound, AtVersion
<1>5. Fits(Association, tb[Association])
  BY <1>1 DEF Sound
<1>6. NullColumns(tb[Association]) /\ MemberRow(a)
  BY <1>5 DEF Fits, AssociationTables
<1> QED
  BY <1>3, <1>4, <1>6 DEF NullColumns, NamedBy

UuidTables == {"user_uuid_tmp", "company_uuid_tmp", "role_uuid_tmp"}

LEMMA SoundCopy ==
  ASSUME NEW tb, NEW v, NEW f, NEW g, Sound(tb, v), Late(v),
         CoreTables \subseteq DOMAIN tb, CanCopy(tb),
         NewIds(f, UserIds(tb)), NewIds(g, CompanyIds(tb)),
         \A x \in UuidTables : Fresh(tb, x),
         Fresh(tb, Copied), tb[Copied].refs = UuidTables,
         NEW tb2, tb2 = CopyRows(tb, f, g)
  PROVE  /\ Sound(tb2, v) /\ DOMAIN tb2 = DOMAIN tb
         /\ Moved(tb2, Copied) /\ tb2[Copied].refs = UuidTables
         /\ Emails(tb2, "user_uuid_tmp") = Emails(tb2, "user")
<1> USE DEF Fresh, UuidTables
<1>1. {"user_uuid_tmp", "company_uuid_tmp", "role_uuid_tmp", Copied} \subseteq DOMAIN tb
  OBVIOUS
<1>2. /\ Shaped(tb2) /\ DOMAIN tb2 = DOMAIN tb
      /\ \A x \in DOMAIN tb : tb2[x].has = tb[x].has /\ tb2[x].refs = tb[x].refs
      /\ \A x \in DOMAIN tb \ {"user_uuid_tmp", "company_uuid_tmp",
                               "role_uuid_tmp", Copied} : tb2[x] = tb[x]
      /\ tb2["user_uuid_tmp"].rows = {MovedUser(u, f) : u \in tb["user"].rows}
      /\ tb2["company_uuid_tmp"].rows =
           {MovedCompany(c, g) : c \in tb["company"].rows}
      /\ tb2["role_uuid_tmp"].rows = {MovedRole(x, g) : x \in tb["role"].rows}
      /\ tb2[Copied].rows = {MovedMember(a, f, g) : a \in tb[Association].rows}
  BY <1>1, CopyEffect DEF Sound
<1>3. /\ {"user", "company", "role", Association} \subseteq DOMAIN tb
      /\ \A t \in DOMAIN tb : Fits(t, tb[t])
  BY DEF Sound, CoreTables
<1>4. /\ Keyed(tb["user"].rows) /\ \A u \in tb["user"].rows : UserRow(u)
      /\ Keyed(tb["company"].rows) /\ \A c \in tb["company"].rows : CompanyRow(c)
      /\ \A x \in tb["role"].rows : RoleRow(x)
  BY <1>3 DEF Fits, UserTables, CompanyTables, RoleTables
<1>5. \A a \in tb[Association].rows :
        /\ a.role_id = Null /\ a.role_name # Null /\ MemberRow(a)
        /\ \E x \in tb["role"].rows : x.name = a.role_name
  BY NamedMembers
<1>6. RowsBehind(tb2, Copied, UserTables) =
        {MovedUser(u, f) : u \in RowsBehind(tb, Association, UserTables)}
  <2>1. tb2[Copied].refs \cap UserTables = {"user_uuid_tmp"}
    BY <1>1, <1>2 DEF UserTables
  <2>2. {tb2[x].rows : x \in tb2[Copied].refs \cap UserTables} =
          {tb2["user_uuid_tmp"].rows}
    BY <2>1
  <2>3. RowsBehind(tb2, Copied, UserTables) = tb2["user_uuid_tmp"].rows
    BY <2>2 DEF RowsBehind
  <2> QED
    BY <1>2, <1>3, <2>3, BehindMembers
<1>7. RowsBehind(tb2, Copied, CompanyTables) =
        {MovedCompany(c, g) : c \in RowsBehind(tb, Association, CompanyTables)}
  <2>1. tb2[Copied].refs \cap CompanyTables = {"company_uuid_tmp"}
    BY <1>1, <1>2 DEF CompanyTables
  <2>2. {tb2[x].rows : x \in tb2[Copied].refs \cap CompanyTables} =
          {tb2["company_uuid_tmp"].rows}
    BY <2>1
  <2>3. RowsBehind(tb2, Copied, CompanyTables) = tb2["company_uuid_tmp"].rows
    BY <2>2 DEF RowsBehind
  <2> QED
    BY <1>2, <1>3, <2>3, BehindMembers
<1>8. RowsBehind(tb2, Copied, RoleTables) = tb2["role_uuid_tmp"].rows
  <2>1. tb2[Copied].refs \cap RoleTables = {"role_uuid_tmp"}
    BY <1>1, <1>2 DEF RoleTables
  <2>2. {tb2[x].rows : x \in tb2[Copied].refs \cap RoleTables} =
          {tb2["role_uuid_tmp"].rows}
    BY <2>1
  <2> QED
    BY <2>2 DEF RowsBehind
<1>9. \A a \in tb[Association].rows :
        SameMember(tb, Association, a, tb2, Copied, MovedMember(a, f, g))
  <2>1. RowsBehind(tb, Association, UserTables) = tb["user"].rows
        /\ RowsBehind(tb, Association, CompanyTables) = tb["company"].rows
    BY <1>3, BehindMembers
  <2>2. /\ NewIds(f, {u.id : u \in RowsBehind(tb, Association, UserTables)})
        /\ NewIds(g, {c.id : c \in RowsBehind(tb, Association, CompanyTables)})
    BY <2>1 DEF UserIds, CompanyIds
  <2>3. ASSUME NEW a \in tb[Association].rows
        PROVE  UsersOf(tb, Association, a) # {} /\ CompaniesOf(tb, Association, a) # {}
    BY <1>3 DEF Sound, Complete, AssociationTables
  <2> QED
    BY <1>4, <1>5, <1>6, <1>7, <2>1, <2>2, <2>3, CopiedMember
<1>10. Complete(tb2, Copied)
  <2>1. Complete(tb, Association)
    BY <1>3 DEF Sound, AssociationTables
  <2>2. \A a \in tb[Association].rows : \E b \in tb2[Copied].rows :
          SameMember(tb, Association, a, tb2, Copied, b)
    BY <1>2, <1>9
  <2>3. \A b \in tb2[Copied].rows : \E a \in tb[Association].rows :
          SameMember(tb, Association, a, tb2, Copied, b)
    BY <1>2, <1>9
  <2> QED
    BY <2>1, <2>2, <2>3, SameMemberships, ZenonT(60)
<1>11. NamedBy(tb2[Copied].rows, RowsBehind(tb2, Copied, RoleTables))
  <2>1. ASSUME NEW a \in tb[Association].rows
        PROVE  /\ MovedMember(a, f, g).role_name # Null
               /\ \E x \in tb2["role_uuid_tmp"].rows :
                    x.name = MovedMember(a, f, g).role_name
    <3>1. MovedMember(a, f, g).role_name = a.role_name
      BY <1>5, MovedRows
    <3>2. PICK x \in tb["role"].rows : x.name = a.role_name
      BY <1>5
    <3>3. MovedRole(x, g).name = x.name
      BY <1>4, MovedRows
    <3> QED
      BY <1>2, <1>5, <3>1, <3>2, <3>3
  <2> QED
    BY <1>2, <1>8, <2>1 DEF NamedBy
<1>12. Fits(Copied, tb2[Copied])
  <2>1. RefersWell(Copied, tb[Copied])
    BY <1>3 DEF Fits, AssociationTables, Copied
  <2>2. RefersWell(Copied, tb2[Copied])
    BY <1>1, <1>2, <2>1 DEF RefersWell
  <2>3. ASSUME NEW a \in tb[Association].rows
        PROVE  /\ MemberRow(MovedMember(a, f, g))
               /\ MovedMember(a, f, g).user_level = Null
               /\ MovedMember(a, f, g).role_id = Null
    BY <1>5, MovedRows
  <2>4. tb2[Copied].has = {"role_name"}
    BY <2>2 DEF RefersWell
  <2>5. NullColumns(tb2[Copied])
    BY <1>2, <2>3, <2>4 DEF NullColumns
  <2>6. \A b \in tb2[Copied].rows : MemberRow(b)
    BY <1>2, <2>3
  <2> QED
    BY <2>2, <2>5, <2>6
    DEF Fits, Copied, UserTables, CompanyTables, RoleTables
<1>13. Fits("user_uuid_tmp", tb2["user_uuid_tmp"])
  <2>1. \A u \in tb["user"].rows :
          /\ UserRow(MovedUser(u, f)) /\ MovedUser(u, f).id = f[u.id]
          /\ MovedUser(u, f).email = u.email
    BY <1>4, MovedRows
  <2>2. Keyed(tb2["user_uuid_tmp"].rows)
    BY <1>2, <1>4, <2>1, KeyedMoved DEF UserIds
  <2> QED
    BY <1>2, <2>1, <2>2
    DEF Fits, UserTables, CompanyTables, RoleTables, AssociationTables, Association
<1>14. Fits("company_uuid_tmp", tb2["company_uuid_tmp"])
  <2>1. \A c \in tb["company"].rows :
          /\ CompanyRow(MovedCompany(c, g)) /\ MovedCompany(c, g).id = g[c.id]
          /\ MovedCompany(c, g).email = c.email
    BY <1>4, MovedRows
  <2>2. Keyed(tb2["company_uuid_tmp"].rows)
    BY <1>2, <1>4, <2>1, KeyedMoved DEF CompanyIds
  <2> QED
    BY <1>2, <2>1, <2>2
    DEF Fits, UserTables, CompanyTables, RoleTables, AssociationTables, Association
<1>15. Fits("role_uuid_tmp", tb2["role_uuid_tmp"])
  <2>1. \A x \in tb["role"].rows : RoleRow(MovedRole(x, g))
    BY <1>4, MovedRows
  <2> QED
    BY <1>2, <2>1
    DEF Fits, UserTables, CompanyTables, RoleTables, AssociationTables, Association
<1>16. PICK ts : ts = {"user_uuid_tmp", "company_uuid_tmp", "role_uuid_tmp", Copied}
  OBVIOUS
<1>17. Sound(tb2, v)
  <2>1. Association \notin ts /\ "role" \notin ts /\ ts \subseteq DOMAIN tb
    BY <1>1, <1>16 DEF Association, Copied
  <2>2. \A x \in (DataTables \cap DOMAIN tb) \ ts : tb2[x] = tb[x]
    BY <1>2, <1>16
  <2>3. \A x \in ts : tb[x].rows = {} /\ Fits(x, tb2[x])
    BY <1>12, <1>13, <1>14, <1>15, <1>16
  <2>4. ASSUME NEW t \in (AssociationTables \cap DOMAIN tb) \ ts,
               NEW x \in ts \ AssociationTables
        PROVE  x \notin tb[t].refs
    <3>1. RefersWell(t, tb[t]) /\ t # Copied /\ x # Copied
      BY <1>3, <1>16 DEF Fits, AssociationTables, Copied
    <3> QED
      BY <1>16, <3>1 DEF RefersWell
  <2>5. \A t \in AssociationTables \cap ts : Complete(tb2, t)
    <3>1. AssociationTables \cap ts = {Copied}
      BY <1>16 DEF AssociationTables, Copied, Association
    <3> QED
      BY <1>10, <3>1
  <2>6. Shaped(tb2) /\ DOMAIN tb2 = DOMAIN tb
    BY <1>2
  <2> QED
    BY <1>11, <2>1, <2>2, <2>3, <2>4, <2>5, <2>6, SoundFilled, Zenon
<1>18. tb2[Association] = tb[Association] /\ tb2["user"] = tb["user"]
  BY <1>2, <1>3 DEF Association, Copied
<1>19. Moved(tb2, Copied)
  BY <1>1, <1>2, <1>18 DEF Moved
<1>20. tb2[Copied].refs = UuidTables
  BY <1>1, <1>2
<1>21. Emails(tb2, "user_uuid_tmp") = Emails(tb2, "user")
  <2>1. \A u \in tb["user"].rows : MovedUser(u, f).email = u.email
    BY <1>4, MovedRows
  <2> QED
    BY <1>2, <1>18, <2>1 DEF Emails
<1> QED
  BY <1>2, <1>17, <1>19, <1>20, <1>21

\* UUIDs for numbers and numbers for UUIDs: both keep different ids apart.
LEMMA UuidsAreNew ==
  ASSUME NEW rows, Keyed(rows), NEW ids, ids = {r.id : r \in rows},
         NEW f, f = [i \in ids |-> Uuid(i)]
  PROVE  NewIds(f, ids)
<1>1. ASSUME NEW i \in ids
      PROVE  f[i].uuid = TRUE /\ f[i].n = i.n /\ f[i] = [uuid |-> TRUE, n |-> i.n]
  BY DEF Uuid
<1>2. ASSUME NEW i \in ids, NEW j \in ids
      PROVE  i.uuid = j.uuid /\ i = [uuid |-> i.uuid, n |-> i.n]
  BY DEF Keyed
<1> HIDE DEF Uuid
<1>3. ASSUME NEW i \in ids, NEW j \in ids
      PROVE  /\ f[i] = f[j] => i = j
             /\ f[i].uuid = f[j].uuid /\ f[i] = [uuid |-> f[i].uuid, n |-> f[i].n]
  <2>1. /\ f[i].uuid = TRUE /\ f[i].n = i.n /\ f[i] = [uuid |-> TRUE, n |-> i.n]
        /\ f[j].uuid = TRUE /\ f[j].n = j.n /\ f[j] = [uuid |-> TRUE, n |-> j.n]
    BY <1>1
  <2>2. /\ i.uuid = j.uuid
        /\ i = [uuid |-> i.uuid, n |-> i.n] /\ j = [uuid |-> j.uuid, n |-> j.n]
    BY <1>2
  <2> QED
    BY <2>1, <2>2
<1> QED
  BY <1>3 DEF NewIds

LEMMA NumbersAreNew ==
  ASSUME NEW ids, NEW f, f \in Numberings(ids)
  PROVE  NewIds(f, ids)
<1>1. PICK new : new = {Number(k) : k \in 1..Cardinality(ids)}
  OBVIOUS
<1>2. /\ \A i, j \in ids : f[i] = f[j] => i = j
      /\ \A i \in ids : f[i] \in new
  BY <1>1 DEF Numberings, Bijection, Injection, IsInjective
<1>3. \A y \in new : y.uuid = FALSE /\ y = [uuid |-> y.uuid, n |-> y.n]
  BY <1>1 DEF Number
<1> QED
  BY <1>2, <1>3 DEF NewIds

LEMMA CopyWritten ==
  ASSUME NEW tb, NEW copy \in {"copy_to_uuid", "copy_to_numbers"},
         NEW tb2, tb2 \in Outcomes(tb, Write(copy))
  PROVE  /\ CanCopy(tb)
         /\ \/ tb2 \in CopyToUuid(tb)
            \/ tb2 \in CopyToNumbers(tb)
<1>1. CASE copy = "copy_to_uuid"
  <2>1. tb2 \in Written(tb, "copy_to_uuid")
    BY <1>1, Zenon DEF Outcomes, Write
  <2>2. CanCopy(tb)
    BY <2>1 DEF Written
  <2>3. tb2 \in CopyToUuid(tb)
    BY <2>1, Zenon DEF Written
  <2> QED
    BY <2>2, <2>3
<1>2. CASE copy = "copy_to_numbers"
  <2>1. tb2 \in Written(tb, "copy_to_numbers")
    BY <1>2, Zenon DEF Outcomes, Write
  <2>2. CanCopy(tb)
    BY <2>1 DEF Written
  <2>3. tb2 \in CopyToNumbers(tb)
    BY <2>1, Zenon DEF Written
  <2> QED
    BY <2>2, <2>3
<1> QED
  BY <1>1, <1>2

\* The copy of either direction of 4f9d2f8f6c13.
LEMMA SoundCopyWrite ==
  ASSUME NEW tb, NEW v, NEW copy \in {"copy_to_uuid", "copy_to_numbers"},
         Sound(tb, v), Late(v), CoreTables \subseteq DOMAIN tb,
         \A x \in UuidTables : Fresh(tb, x),
         Fresh(tb, Copied), tb[Copied].refs = UuidTables,
         NEW tb2, tb2 \in Outcomes(tb, Write(copy))
  PROVE  /\ Sound(tb2, v) /\ DOMAIN tb2 = DOMAIN tb
         /\ Moved(tb2, Copied) /\ tb2[Copied].refs = UuidTables
         /\ Emails(tb2, "user_uuid_tmp") = Emails(tb2, "user")
<1>1. PICK f, g : NewIds(f, UserIds(tb)) /\ NewIds(g, CompanyIds(tb))
                  /\ tb2 = CopyRows(tb, f, g)
  <2>1. CASE tb2 \in CopyToUuid(tb)
    <3>1. PICK f, g : /\ f = [i \in UserIds(tb) |-> Uuid(i)]
                      /\ g = [i \in CompanyIds(tb) |-> Uuid(i)]
      OBVIOUS
    <3>2. tb2 = CopyRows(tb, f, g)
      BY <2>1, <3>1 DEF CopyToUuid
    <3>3. Fits("user", tb["user"]) /\ Fits("company", tb["company"])
      BY DEF Sound, CoreTables
    <3>4. Keyed(tb["user"].rows) /\ Keyed(tb["company"].rows)
      BY <3>3 DEF Fits, UserTables, CompanyTables
    <3>5. NewIds(f, UserIds(tb)) /\ NewIds(g, CompanyIds(tb))
      BY <3>1, <3>4, UuidsAreNew DEF UserIds, CompanyIds
    <3> QED
      BY <3>2, <3>5
  <2>2. CASE tb2 \in CopyToNumbers(tb)
    <3>1. PICK new \in Numberings(UserIds(tb)) \X Numberings(CompanyIds(tb)) :
            tb2 = CopyRows(tb, new[1], new[2])
      BY <2>2 DEF CopyToNumbers
    <3> QED
      BY <3>1, NumbersAreNew
  <2> QED
    BY <2>1, <2>2, CopyWritten
<1>2. CanCopy(tb)
  BY CopyWritten
<1> QED
  BY <1>1, <1>2, SoundCopy

-----------------------------------------------------------------------------
(* a4e8c1b7d2f9: the roles of one name become one.                         *)

\* A membership's row that names its role by the id of the role.
ById(a) == [a EXCEPT !.role_id = a.role_name, !.role_name = Null]

LEMMA ByIdRow ==
  ASSUME NEW a, MemberRow(a)
  PROVE  /\ MemberRow(ById(a)) /\ ById(a).user_id = a.user_id
         /\ ById(a).company_id = a.company_id /\ ById(a).user_level = a.user_level
         /\ ById(a).role_name = Null /\ ById(a).role_id = a.role_name
         /\ ById(a).closed = a.closed
<1>1. PICK e : e = ById(a)
  OBVIOUS
<1>2. e = [z \in DOMAIN a |-> e[z]]
  BY <1>1 DEF ById
<1>3. DOMAIN a = {"user_id", "company_id", "user_level", "role_name",
                  "role_id", "closed"}
  BY DEF MemberRow
<1>4. /\ e.role_name = Null /\ e.role_id = a.role_name
      /\ e.user_id = a.user_id /\ e.company_id = a.company_id
  BY <1>1, <1>3 DEF ById
<1>5. e.user_level = a.user_level /\ e.closed = a.closed
  BY <1>1, <1>3 DEF ById
<1>6. MemberRow(e)
  BY <1>2, <1>3 DEF MemberRow
<1> QED
  BY <1>1, <1>4, <1>5, <1>6

GlobalRole(n, closed) ==
  [id |-> n, company_id |-> Null, name |-> n, closed |-> closed]
GlobalRoleOf(y, n) == \E closed : y = GlobalRole(n, closed)

LEMMA FoldEffect ==
  ASSUME NEW tb, Shaped(tb), NEW tb2, tb2 \in Outcomes(tb, Write("fold_roles"))
  PROVE  /\ Shaped(tb2) /\ DOMAIN tb2 = DOMAIN tb /\ CanCopy(tb)
         /\ {"role_global_tmp", Folded} \subseteq DOMAIN tb
         /\ \A x \in DOMAIN tb : tb2[x].has = tb[x].has /\ tb2[x].refs = tb[x].refs
         /\ \A x \in DOMAIN tb \ {"role_global_tmp", "company_role_tmp", Folded} :
              tb2[x] = tb[x]
         /\ \A y \in tb2["role_global_tmp"].rows :
              \E x \in tb["role"].rows : GlobalRoleOf(y, x.name)
         /\ \A x \in tb["role"].rows :
              \E y \in tb2["role_global_tmp"].rows : GlobalRoleOf(y, x.name)
         /\ tb2[Folded].rows = {ById(a) : a \in tb[Association].rows}
<1>1. tb2 \in Written(tb, "fold_roles")
  BY Zenon DEF Outcomes, Write
<1>2. CanCopy(tb)
  BY <1>1, Zenon DEF Written, CanFold
<1>3. TablesOf("fold_roles") \subseteq DOMAIN tb
  BY <1>1 DEF Written
<1>4. TablesOf("fold_roles") =
        {"role_global_tmp", "company_role_tmp", "association_user_company_tmp"}
  BY Zenon DEF TablesOf
<1>5. tb2 \in FoldRoles(tb)
  BY <1>1, Zenon DEF Written
<1>6. PICK first :
        /\ tb2 = FoldInto(tb, first)
        /\ DOMAIN first = {x.name : x \in tb["role"].rows}
  BY <1>5 DEF FoldRoles
<1>7. PICK new : new = {GlobalRole(n, first[n].closed) : n \in DOMAIN first}
  OBVIOUS
<1>8. PICK old : old = {[company_id |-> x.company_id, role_id |-> x.name,
                         closed |-> x.closed] : x \in tb["role"].rows}
  OBVIOUS
<1>9. PICK as : as = {ById(a) : a \in tb[Association].rows}
  OBVIOUS
<1>10. PICK rows : rows = [role_global_tmp |-> new, company_role_tmp |-> old,
                           association_user_company_tmp |-> as]
  OBVIOUS
<1>11. tb2 = Fill(tb, rows)
  BY <1>6, <1>7, <1>8, <1>9, <1>10 DEF FoldInto, GlobalRole, ById
<1>12. DOMAIN rows = {"role_global_tmp", "company_role_tmp", Folded}
  BY <1>10 DEF Folded
<1>13. rows["role_global_tmp"] = new /\ rows[Folded] = as
  BY <1>10 DEF Folded
<1>14. /\ Shaped(tb2) /\ DOMAIN tb2 = DOMAIN tb
       /\ \A x \in DOMAIN tb \ DOMAIN rows : tb2[x] = tb[x]
       /\ \A x \in DOMAIN tb :
            /\ tb2[x].has = tb[x].has /\ tb2[x].refs = tb[x].refs
            /\ x \in DOMAIN rows => tb2[x].rows = rows[x]
  BY <1>11, FillEffect
<1>15. {"role_global_tmp", Folded} \subseteq DOMAIN tb
  BY <1>3, <1>4 DEF Folded
<1>16. \A x \in DOMAIN rows \cap DOMAIN tb : tb2[x].rows = rows[x]
  BY <1>14
<1>17. tb2["role_global_tmp"].rows = new /\ tb2[Folded].rows = as
  BY <1>12, <1>13, <1>15, <1>16
<1>18. \A y \in new : \E x \in tb["role"].rows : GlobalRoleOf(y, x.name)
  <2>1. ASSUME NEW n \in DOMAIN first
        PROVE  \E x \in tb["role"].rows :
                 GlobalRoleOf(GlobalRole(n, first[n].closed), x.name)
    BY <1>6 DEF GlobalRoleOf
  <2> QED
    BY <1>7, <2>1
<1>19. \A x \in tb["role"].rows : \E y \in new : GlobalRoleOf(y, x.name)
  <2>1. ASSUME NEW x \in tb["role"].rows
        PROVE  \E y \in new : GlobalRoleOf(y, x.name)
    <3>1. x.name \in DOMAIN first
      BY <1>6
    <3>2. GlobalRole(x.name, first[x.name].closed) \in new
      BY <1>7, <3>1
    <3> QED
      BY <3>2 DEF GlobalRoleOf
  <2> QED
    BY <2>1
<1>20. \A x \in DOMAIN tb \ {"role_global_tmp", "company_role_tmp", Folded} :
         tb2[x] = tb[x]
  BY <1>12, <1>14
<1> QED
  BY <1>2, <1>9, <1>14, <1>15, <1>17, <1>18, <1>19, <1>20

GlobalRefs == {"user", "company", "role_global_tmp"}

LEMMA SoundFold ==
  ASSUME NEW tb, NEW v, Sound(tb, v), Late(v),
         {"role", Association} \subseteq DOMAIN tb,
         Fresh(tb, "role_global_tmp"), Fresh(tb, Folded),
         tb[Folded].refs = GlobalRefs,
         NEW tb2, tb2 \in Outcomes(tb, Write("fold_roles"))
  PROVE  Sound(tb2, v) /\ DOMAIN tb2 = DOMAIN tb /\ Moved(tb2, Folded)
<1> USE DEF Fresh, GlobalRefs
<1>1. /\ Shaped(tb2) /\ DOMAIN tb2 = DOMAIN tb /\ CanCopy(tb)
      /\ \A x \in DOMAIN tb : tb2[x].has = tb[x].has /\ tb2[x].refs = tb[x].refs
      /\ \A x \in DOMAIN tb \ {"role_global_tmp", "company_role_tmp", Folded} :
           tb2[x] = tb[x]
      /\ \A y \in tb2["role_global_tmp"].rows :
           \E x \in tb["role"].rows : GlobalRoleOf(y, x.name)
      /\ \A x \in tb["role"].rows :
           \E y \in tb2["role_global_tmp"].rows : GlobalRoleOf(y, x.name)
      /\ tb2[Folded].rows = {ById(a) : a \in tb[Association].rows}
  BY FoldEffect, ZenonT(60) DEF Sound
<1>2. /\ CoreTables \subseteq DOMAIN tb
      /\ \A t \in DOMAIN tb : Fits(t, tb[t])
  BY DEF Sound, Shaped, CoreTables
<1>3. \A a \in tb[Association].rows :
        /\ a.role_id = Null /\ a.role_name # Null /\ MemberRow(a)
        /\ \E x \in tb["role"].rows : x.name = a.role_name
  BY <1>1, <1>2, NamedMembers
<1>4. tb2[Association] = tb[Association] /\ tb2["user"] = tb["user"]
      /\ tb2["company"] = tb["company"]
  BY <1>1, <1>2 DEF CoreTables, Association, Folded
<1>5. RowsBehind(tb2, Folded, UserTables) = RowsBehind(tb, Association, UserTables)
  <2>1. tb2[Folded].refs \cap UserTables = {"user"}
    BY <1>1 DEF UserTables
  <2>2. {tb2[x].rows : x \in tb2[Folded].refs \cap UserTables} = {tb2["user"].rows}
    BY <2>1
  <2>3. RowsBehind(tb2, Folded, UserTables) = tb2["user"].rows
    BY <2>2 DEF RowsBehind
  <2> QED
    BY <1>4, <2>3, BehindMembers
<1>6. RowsBehind(tb2, Folded, CompanyTables) =
        RowsBehind(tb, Association, CompanyTables)
  <2>1. tb2[Folded].refs \cap CompanyTables = {"company"}
    BY <1>1 DEF CompanyTables
  <2>2. {tb2[x].rows : x \in tb2[Folded].refs \cap CompanyTables} =
          {tb2["company"].rows}
    BY <2>1
  <2>3. RowsBehind(tb2, Folded, CompanyTables) = tb2["company"].rows
    BY <2>2 DEF RowsBehind
  <2> QED
    BY <1>4, <2>3, BehindMembers
<1>7. RowsBehind(tb2, Folded, RoleTables) = tb2["role_global_tmp"].rows
  <2>1. tb2[Folded].refs \cap RoleTables = {"role_global_tmp"}
    BY <1>1 DEF RoleTables
  <2>2. {tb2[x].rows : x \in tb2[Folded].refs \cap RoleTables} =
          {tb2["role_global_tmp"].rows}
    BY <2>1
  <2> QED
    BY <2>2 DEF RowsBehind
<1>8. ASSUME NEW a \in tb[Association].rows
      PROVE  SameMember(tb, Association, a, tb2, Folded, ById(a))
  <2>1. PICK b : b = ById(a)
    OBVIOUS
  <2>2. /\ b.user_id = a.user_id /\ b.company_id = a.company_id
        /\ b.role_name = Null /\ b.role_id = a.role_name /\ b.closed = a.closed
    BY <1>3, <2>1, ByIdRow
  <2>3. UsersOf(tb2, Folded, b) = UsersOf(tb, Association, a)
    BY <1>5, <2>2 DEF UsersOf
  <2>4. CompaniesOf(tb2, Folded, b) = CompaniesOf(tb, Association, a)
    BY <1>6, <2>2 DEF CompaniesOf
  <2>5. RoleNamesOf(tb, Association, a) = {a.role_name}
    BY <1>3 DEF RoleNamesOf
  <2>6. PICK x \in tb["role"].rows : x.name = a.role_name
    BY <1>3
  <2>7. PICK y \in tb2["role_global_tmp"].rows : GlobalRoleOf(y, x.name)
    BY <1>1
  <2>8. y.id = a.role_name /\ y.name = a.role_name
    BY <2>6, <2>7 DEF GlobalRole, GlobalRoleOf
  <2>9. \A z \in tb2["role_global_tmp"].rows : z.id = z.name
    BY <1>1 DEF GlobalRole, GlobalRoleOf
  <2>10. {z.name : z \in {w \in tb2["role_global_tmp"].rows : w.id = b.role_id}} =
           {a.role_name}
    BY <2>2, <2>8, <2>9
  <2>11. b.role_id # Null
    BY <1>3, <2>2
  <2>12. RoleNamesOf(tb2, Folded, b) = {a.role_name}
    BY <1>7, <2>10, <2>11 DEF RoleNamesOf
  <2> QED
    BY <2>1, <2>2, <2>3, <2>4, <2>5, <2>12 DEF SameMember
<1>9. Complete(tb2, Folded)
  <2>1. Complete(tb, Association)
    BY DEF Sound, AssociationTables
  <2>2. \A a \in tb[Association].rows : \E b \in tb2[Folded].rows :
          SameMember(tb, Association, a, tb2, Folded, b)
    BY <1>1, <1>8
  <2>3. \A b \in tb2[Folded].rows : \E a \in tb[Association].rows :
          SameMember(tb, Association, a, tb2, Folded, b)
    BY <1>1, <1>8
  <2> QED
    BY <2>1, <2>2, <2>3, SameMemberships
<1>10. Fits(Folded, tb2[Folded])
  <2>1. RefersWell(Folded, tb[Folded])
    BY <1>2 DEF Fits, AssociationTables, Folded
  <2>2. RefersWell(Folded, tb2[Folded])
    BY <1>1, <2>1 DEF RefersWell
  <2>3. \A b \in tb2[Folded].rows : MemberRow(b) /\ b.role_name = Null
    BY <1>1, <1>3, ByIdRow
  <2>4. tb2[Folded].has = {"role_id"}
    BY <2>2 DEF RefersWell
  <2>5. NullColumns(tb2[Folded])
    BY <2>3, <2>4 DEF NullColumns
  <2> QED
    BY <2>2, <2>3, <2>5
    DEF Fits, Folded, UserTables, CompanyTables, RoleTables
<1>11. Fits("role_global_tmp", tb2["role_global_tmp"])
  <2>1. \A x \in tb["role"].rows : x.name # Null
    BY <1>2 DEF Fits, RoleTables, RoleRow
  <2>2. ASSUME NEW y \in tb2["role_global_tmp"].rows PROVE RoleRow(y)
    <3>1. PICK x \in tb["role"].rows : GlobalRoleOf(y, x.name)
      BY <1>1
    <3> QED
      BY <2>1, <3>1 DEF GlobalRole, GlobalRoleOf, RoleRow
  <2> QED
    BY <2>2 DEF Fits, UserTables, CompanyTables, RoleTables, AssociationTables,
                Association
<1>12. PICK ts : ts = {"role_global_tmp", Folded}
  OBVIOUS
<1>13. Sound(tb2, v)
  <2>1. /\ Association \notin ts /\ "role" \notin ts /\ Copied \notin ts
        /\ ts \subseteq DOMAIN tb
    BY <1>12 DEF Association, Copied, Folded
  <2>2. \A x \in (DataTables \cap DOMAIN tb) \ ts : tb2[x] = tb[x]
    <3>1. "company_role_tmp" \notin DataTables
      BY DEF DataTables, UserTables, CompanyTables, RoleTables, AssociationTables,
             Association
    <3> QED
      BY <1>1, <1>12, <3>1
  <2>3. \A x \in ts : tb[x].rows = {} /\ Fits(x, tb2[x])
    BY <1>10, <1>11, <1>12
  <2>4. ASSUME NEW t \in (AssociationTables \cap DOMAIN tb) \ ts,
               NEW x \in ts \ AssociationTables
        PROVE  x \notin tb[t].refs
    <3>1. RefersWell(t, tb[t]) /\ t # Folded /\ x # Folded
      BY <1>2, <1>12 DEF Fits, AssociationTables, Folded
    <3> QED
      BY <1>12, <3>1 DEF RefersWell
  <2>5. \A t \in AssociationTables \cap ts : Complete(tb2, t)
    <3>1. AssociationTables \cap ts = {Folded}
      BY <1>12 DEF AssociationTables, Folded, Association
    <3> QED
      BY <1>9, <3>1
  <2>6. Shaped(tb2) /\ DOMAIN tb2 = DOMAIN tb
    BY <1>1
  <2> QED
    BY <2>1, <2>2, <2>3, <2>4, <2>5, <2>6, SoundFilled, Zenon
<1>14. Moved(tb2, Folded)
  BY <1>1, <1>4 DEF Moved
<1> QED
  BY <1>1, <1>13, <1>14

-----------------------------------------------------------------------------
(* Statements that may be run at any moment.                               *)

LEMMA SoundOtherWrite ==
  ASSUME NEW tb, NEW v, NEW rows \in {"seed", "unseed", "control"}, Sound(tb, v),
         NEW tb2, tb2 \in Outcomes(tb, Write(rows))
  PROVE  Sound(tb2, v)
<1>1. tb2 \in Written(tb, rows)
  BY Zenon DEF Outcomes, Write
<1>2. TablesOf(rows) \subseteq DOMAIN tb
  BY <1>1 DEF Written
<1>3. PICK others :
        others = {"global_permission", "role_global_permission",
                  "superuser_bootstrap_control"}
  OBVIOUS
<1>4. Shaped(tb2) /\ DOMAIN tb2 = DOMAIN tb
      /\ \A x \in DOMAIN tb \ others : tb2[x] = tb[x]
  <2>1. CASE rows \in {"seed", "unseed"}
    <3>1. PICK ps, ls :
            tb2 = Fill(tb, [global_permission |-> ps, role_global_permission |-> ls])
      <4>1. CASE rows = "seed"
        <5>1. tb2 = SeedPermissions(tb)
          BY <1>1, <4>1, Zenon DEF Written
        <5> QED
          BY <5>1, Zenon DEF SeedPermissions
      <4>2. CASE rows = "unseed"
        <5>1. tb2 = UnseedPermissions(tb)
          BY <1>1, <4>2, Zenon DEF Written
        <5> QED
          BY <5>1, Zenon DEF UnseedPermissions
      <4> QED
        BY <2>1, <4>1, <4>2
    <3>2. PICK new : new = [global_permission |-> ps, role_global_permission |-> ls]
      OBVIOUS
    <3>3. DOMAIN new = {"global_permission", "role_global_permission"}
      BY <3>2
    <3>4. Shaped(tb2) /\ DOMAIN tb2 = DOMAIN tb
          /\ \A x \in DOMAIN tb \ DOMAIN new : tb2[x] = tb[x]
      BY <3>1, <3>2, FillEffect DEF Sound
    <3> QED
      BY <1>3, <3>3, <3>4
  <2>2. CASE rows = "control"
    <3>1. tb2 = InsertControl(tb)
      BY <1>1, <2>2, Zenon DEF Written
    <3>2. TablesOf("control") = {"superuser_bootstrap_control"}
      BY Zenon DEF TablesOf
    <3>3. PICK t : t = "superuser_bootstrap_control"
      OBVIOUS
    <3>4. t \in DOMAIN tb /\ tb[t].refs \subseteq DOMAIN tb
      BY <1>2, <2>2, <3>2, <3>3 DEF Sound, Shaped
    <3>5. PICK new : new = {1}
      OBVIOUS
    <3>6. Changed(tb, t, tb[t].has, tb[t].refs, new, tb2)
      BY <3>1, <3>3, <3>4, <3>5, SetRowsEffect DEF InsertControl
    <3>7. Shaped(tb2) /\ DOMAIN tb2 = DOMAIN tb
          /\ \A x \in DOMAIN tb \ {t} : tb2[x] = tb[x]
      BY <3>4, <3>6, ChangedEffect DEF Sound
    <3> QED
      BY <1>3, <3>3, <3>7
  <2> QED
    BY <2>1, <2>2
<1>5. others \cap DataTables = {}
  BY <1>3 DEF DataTables, UserTables, CompanyTables, RoleTables,
              AssociationTables, Association
<1> QED
  BY <1>4, <1>5, SoundOutside

Plain(s) ==
  \/ \E t, has, refs :
       /\ s = CreateTable(t, has, refs)
       /\ t \in AssociationTables => RefersWell(t, Table(has, refs, {}))
  \/ \E t : t \notin DataTables /\ s = DropTable(t)
  \/ \E t, name : t \notin DataTables /\ s = AddKey(t, name, {})
  \/ \E t, name : t \notin DataTables /\ s = DropKey(t, name, {})
  \/ \E rows \in {"seed", "unseed", "control"} : s = Write(rows)
  \/ \E ts : s = Reflect(ts)
  \/ s = Raise
  \/ s = AddColumn("user", "is_superuser", FALSE)
  \/ s = DropColumn("user", "is_superuser")

LEMMA ReflectEffect ==
  ASSUME NEW tb, NEW ts, NEW tb2, tb2 \in Outcomes(tb, Reflect(ts))
  PROVE  tb2 = tb /\ ts \subseteq DOMAIN tb
<1>1. tb2 \in IF ts \subseteq DOMAIN tb THEN {tb} ELSE {}
  BY Zenon DEF Outcomes, Reflect
<1> QED
  BY <1>1

LEMMA RecordEffect ==
  ASSUME NEW tb, NEW w, NEW tb2, tb2 \in Outcomes(tb, Record(w))
  PROVE  tb2 = tb
<1>1. tb2 \in {tb}
  BY Zenon DEF Outcomes, Record
<1> QED
  BY <1>1

LEMMA SoundPlain ==
  ASSUME NEW tb, NEW v, NEW s, Plain(s), Sound(tb, v),
         NEW tb2, tb2 \in Outcomes(tb, s)
  PROVE  Sound(tb2, v) /\ s.do # "record"
<1>1. CASE \E t, has, refs :
             /\ s = CreateTable(t, has, refs)
             /\ t \in AssociationTables => RefersWell(t, Table(has, refs, {}))
  <2>1. PICK t, has, refs :
          /\ s = CreateTable(t, has, refs)
          /\ t \in AssociationTables => RefersWell(t, Table(has, refs, {}))
    BY <1>1
  <2>2. Sound(tb2, v)
    BY <2>1, SoundCreate, Zenon
  <2> QED
    BY <2>1, <2>2 DEF CreateTable
<1>2. CASE \E t : t \notin DataTables /\ s = DropTable(t)
  <2>1. PICK t : t \notin DataTables /\ s = DropTable(t)
    BY <1>2
  <2>2. tb2 \in Dropping(tb, t)
    BY <2>1, Zenon DEF Outcomes, DropTable
  <2>3. t # "role" /\ t \notin UserTables /\ t \notin AssociationTables
    BY <2>1 DEF DataTables, RoleTables
  <2>4. Sound(tb2, v)
    BY <2>2, <2>3, SoundDrop
  <2> QED
    BY <2>1, <2>4 DEF DropTable
<1>3. CASE \E t, name : t \notin DataTables /\ s = AddKey(t, name, {})
  <2>1. PICK t, name : t \notin DataTables /\ s = AddKey(t, name, {})
    BY <1>3
  <2>2. Sound(tb2, v)
    BY <2>1, SoundAddIndex, Zenon
  <2> QED
    BY <2>1, <2>2 DEF AddKey
<1>4. CASE \E t, name : t \notin DataTables /\ s = DropKey(t, name, {})
  <2>1. PICK t, name : t \notin DataTables /\ s = DropKey(t, name, {})
    BY <1>4
  <2>2. Sound(tb2, v)
    BY <2>1, SoundDropIndex, Zenon
  <2> QED
    BY <2>1, <2>2 DEF DropKey
<1>5. CASE \E rows \in {"seed", "unseed", "control"} : s = Write(rows)
  <2>1. PICK rows \in {"seed", "unseed", "control"} : s = Write(rows)
    BY <1>5
  <2>2. Sound(tb2, v)
    BY <2>1, SoundOtherWrite, Zenon
  <2> QED
    BY <2>1, <2>2 DEF Write
<1>6. CASE \E ts : s = Reflect(ts)
  <2>1. PICK ts : s = Reflect(ts)
    BY <1>6
  <2>2. tb2 = tb
    BY <2>1, ReflectEffect, Zenon
  <2> QED
    BY <2>1, <2>2 DEF Reflect
<1>7. CASE s = Raise
  <2>1. Outcomes(tb, s) = {}
    BY <1>7, Zenon DEF Outcomes, Raise
  <2> QED
    BY <2>1
<1>8. CASE s = AddColumn("user", "is_superuser", FALSE)
  <2>1. Sound(tb2, v)
    BY <1>8, SoundAddRank, Zenon
  <2> QED
    BY <1>8, <2>1 DEF AddColumn
<1>9. CASE s = DropColumn("user", "is_superuser")
  <2>1. Sound(tb2, v)
    BY <1>9, SoundDropRank, Zenon
  <2> QED
    BY <1>9, <2>1 DEF DropColumn
<1> QED
  BY <1>1, <1>2, <1>3, <1>4, <1>5, <1>6, <1>7, <1>8, <1>9, Zenon DEF Plain

-----------------------------------------------------------------------------
(* Revisions that move the memberships, statement by statement.            *)

\* 9552b9fc884a, after k statements of its upgrade.
LinkAt(k, tb) ==
  /\ k \in {1, 2} =>
       /\ Association \in DOMAIN tb
       /\ \A a \in tb[Association].rows : a.role_name = Null
  /\ k = 2 =>
       /\ "role" \in DOMAIN tb
       /\ \A a \in tb[Association].rows :
            \E x \in tb["role"].rows : x.name = MemberLevel(a)
  /\ k \in {3, 4, 5} =>
       /\ {"role", Association} \subseteq DOMAIN tb
       /\ NamedBy(tb[Association].rows, tb["role"].rows)

LEMMA LinkStatements ==
  /\ LinkMembersToRoles[1] = AddColumn(Association, "role_name", Null)
  /\ LinkMembersToRoles[2] = Write("insert_roles")
  /\ LinkMembersToRoles[3] = Write("names_from_levels")
  /\ LinkMembersToRoles[4] = AddKey(Association, RoleForeignKey, {"role"})
  /\ LinkMembersToRoles[5] = DropColumn(Association, "user_level")
BY DEF LinkMembersToRoles

LEMMA LinkStep ==
  ASSUME NEW tb, NEW v, NEW k \in {0, 1, 2, 3, 4}, Sound(tb, v), Early(v), ~Late(v),
         LinkAt(k, tb),
         NEW tb2, tb2 \in Outcomes(tb, LinkMembersToRoles[k + 1])
  PROVE  Sound(tb2, v) /\ LinkAt(k + 1, tb2)
<1>1. CASE k = 0
  <2>1. tb2 \in Outcomes(tb, AddColumn(Association, "role_name", Null))
    BY <1>1, LinkStatements
  <2>2. /\ Sound(tb2, v)
        /\ Changed(tb, Association, tb[Association].has \cup {"role_name"},
                   tb[Association].refs, tb[Association].rows, tb2)
        /\ \A a \in tb[Association].rows : a.role_name = Null
    BY <2>1, SoundAddMemberColumn, Zenon
  <2>3. Association \in DOMAIN tb2 /\ tb2[Association].rows = tb[Association].rows
    BY <2>2 DEF Changed, Table
  <2> QED
    BY <1>1, <2>2, <2>3 DEF LinkAt
<1>2. CASE k = 1
  <2>1. tb2 \in Outcomes(tb, Write("insert_roles"))
    BY <1>2, LinkStatements
  <2>2. "role" \in DOMAIN tb /\ tb2 = InsertRoles(tb)
    BY <2>1, WrittenEffect
  <2>3. /\ Association \in DOMAIN tb
        /\ \A a \in tb[Association].rows : a.role_name = Null
    BY <1>2 DEF LinkAt
  <2>4. /\ Sound(tb2, v) /\ DOMAIN tb2 = DOMAIN tb
        /\ tb2[Association] = tb[Association]
        /\ \A a \in tb[Association].rows :
             \E x \in tb2["role"].rows : x.name = MemberLevel(a)
    BY <2>2, <2>3, SoundInsertRoles
  <2> QED
    BY <1>2, <2>2, <2>3, <2>4 DEF LinkAt
<1>3. CASE k = 2
  <2>1. tb2 \in Outcomes(tb, Write("names_from_levels"))
    BY <1>3, LinkStatements
  <2>2. /\ HasColumn(tb, Association, "role_name") /\ tb2 = NamesFromLevels(tb)
    BY <2>1, WrittenEffect
  <2>3. /\ {"role", Association} \subseteq DOMAIN tb
        /\ \A a \in tb[Association].rows : a.role_name = Null
        /\ \A a \in tb[Association].rows :
             \E x \in tb["role"].rows : x.name = MemberLevel(a)
    BY <1>3 DEF LinkAt
  <2>4. /\ Sound(tb2, v)
        /\ Changed(tb, Association, tb[Association].has, tb[Association].refs,
                   {Named(r) : r \in tb[Association].rows}, tb2)
        /\ \A a \in tb[Association].rows : Named(a).role_name = MemberLevel(a)
    BY <2>2, <2>3, SoundNamesFromLevels DEF HasColumn
  <2>5. tb[Association].refs \subseteq DOMAIN tb
    BY <2>3 DEF Sound, Shaped
  <2>6. PICK has, refs, rows :
          /\ has = tb[Association].has /\ refs = tb[Association].refs
          /\ rows = {Named(r) : r \in tb[Association].rows}
    OBVIOUS
  <2>7. /\ DOMAIN tb2 = DOMAIN tb
        /\ \A x \in DOMAIN tb \ {Association} : tb2[x] = tb[x]
        /\ tb2[Association].rows = rows
    BY <2>4, <2>5, <2>6, ChangedEffect DEF Sound
  <2>8. "role" # Association
    BY DEF Association
  <2>9. NamedBy(rows, tb["role"].rows)
    BY <2>3, <2>4, <2>6, LevelIsName DEF NamedBy
  <2> QED
    BY <1>3, <2>3, <2>4, <2>7, <2>8, <2>9 DEF LinkAt
<1>4. CASE k = 3
  <2>1. tb2 \in Outcomes(tb, AddKey(Association, RoleForeignKey, {"role"}))
    BY <1>4, LinkStatements
  <2>2. /\ Sound(tb2, v)
        /\ DOMAIN tb2 = DOMAIN tb
        /\ tb2[Association].rows = tb[Association].rows
        /\ \A x \in DOMAIN tb \ {Association} : tb2[x] = tb[x]
    BY <2>1, SoundAddRoleKey, Zenon
  <2>3. "role" # Association
    BY DEF Association
  <2> QED
    BY <1>4, <2>2, <2>3 DEF LinkAt
<1>5. CASE k = 4
  <2>1. tb2 \in Outcomes(tb, DropColumn(Association, "user_level"))
    BY <1>5, LinkStatements
  <2>2. /\ {"role", Association} \subseteq DOMAIN tb
        /\ NamedBy(tb[Association].rows, tb["role"].rows)
    BY <1>5 DEF LinkAt
  <2>3. \A a \in tb[Association].rows : a.role_name # Null
    BY <2>2 DEF NamedBy
  <2>4. /\ Sound(tb2, v)
        /\ Changed(tb, Association, tb[Association].has \ {"user_level"},
                   tb[Association].refs,
                   {Levelless(r) : r \in tb[Association].rows}, tb2)
    BY <2>1, <2>3, SoundDropUserLevel, Zenon
  <2>5. tb[Association].refs \subseteq DOMAIN tb
    BY <2>2 DEF Sound, Shaped
  <2>6. PICK has, refs, rows :
          /\ has = tb[Association].has \ {"user_level"}
          /\ refs = tb[Association].refs
          /\ rows = {Levelless(r) : r \in tb[Association].rows}
    OBVIOUS
  <2>7. /\ DOMAIN tb2 = DOMAIN tb
        /\ \A x \in DOMAIN tb \ {Association} : tb2[x] = tb[x]
        /\ tb2[Association].rows = rows
    BY <2>4, <2>5, <2>6, ChangedEffect DEF Sound
  <2>8. "role" # Association
    BY DEF Association
  <2>9. ASSUME NEW a \in tb[Association].rows
        PROVE  Levelless(a).role_name = a.role_name
    <3>1. Fits(Association, tb[Association])
      BY <2>2 DEF Sound
    <3>2. MemberRow(a)
      BY <3>1 DEF Fits, AssociationTables
    <3> QED
      BY <3>2 DEF Levelless, MemberRow
  <2>10. NamedBy(rows, tb["role"].rows)
    BY <2>2, <2>6, <2>9 DEF NamedBy
  <2> QED
    BY <1>5, <2>2, <2>4, <2>7, <2>8, <2>10 DEF LinkAt
<1> QED
  BY <1>1, <1>2, <1>3, <1>4, <1>5

\* The same, after k statements of its downgrade.
UnlinkAt(k, tb) ==
  /\ k \in {1, 2, 3} => Association \in DOMAIN tb
  /\ k \in {2, 3} =>
       \A a \in tb[Association].rows :
         a.user_level = a.role_name /\ a.role_name # Null

LEMMA UnlinkStatements ==
  /\ UnlinkMembersFromRoles[1] = AddColumn(Association, "user_level", Null)
  /\ UnlinkMembersFromRoles[2] = Write("levels_from_names")
  /\ UnlinkMembersFromRoles[3] = DropKey(Association, RoleForeignKey, {"role"})
  /\ UnlinkMembersFromRoles[4] = DropColumn(Association, "role_name")
BY DEF UnlinkMembersFromRoles

LEMMA UnlinkStep ==
  ASSUME NEW tb, NEW v, NEW k \in {0, 1, 2, 3}, Sound(tb, v), Early(v), Late(v),
         UnlinkAt(k, tb),
         NEW tb2, tb2 \in Outcomes(tb, UnlinkMembersFromRoles[k + 1])
  PROVE  Sound(tb2, v) /\ UnlinkAt(k + 1, tb2)
<1>1. CASE k = 0
  <2>1. tb2 \in Outcomes(tb, AddColumn(Association, "user_level", Null))
    BY <1>1, UnlinkStatements
  <2>2. /\ Sound(tb2, v)
        /\ Changed(tb, Association, tb[Association].has \cup {"user_level"},
                   tb[Association].refs, tb[Association].rows, tb2)
    <3>1. "user_level" # "role_name"
      OBVIOUS
    <3> QED
      BY <2>1, <3>1, SoundAddMemberColumn, Zenon
  <2>3. Association \in DOMAIN tb2
    BY <2>2 DEF Changed
  <2> QED
    BY <1>1, <2>2, <2>3 DEF UnlinkAt
<1>2. CASE k = 1
  <2>1. tb2 \in Outcomes(tb, Write("levels_from_names"))
    BY <1>2, UnlinkStatements
  <2>2. /\ HasColumn(tb, Association, "user_level")
        /\ HasColumn(tb, Association, "role_name")
        /\ tb2 = LevelsFromNames(tb)
    BY <2>1, WrittenEffect
  <2>3. /\ Association \in DOMAIN tb
        /\ {"user_level", "role_name"} \subseteq tb[Association].has
    BY <2>2 DEF HasColumn
  <2>4. /\ Sound(tb2, v) /\ Association \in DOMAIN tb2
        /\ \A a \in tb2[Association].rows :
             a.user_level = a.role_name /\ a.role_name # Null
    BY <2>2, <2>3, SoundLevelsFromNames
  <2> QED
    BY <1>2, <2>4 DEF UnlinkAt
<1>3. CASE k = 2
  <2>1. tb2 \in Outcomes(tb, DropKey(Association, RoleForeignKey, {"role"}))
    BY <1>3, UnlinkStatements
  <2>2. /\ Sound(tb2, v) /\ DOMAIN tb2 = DOMAIN tb
        /\ tb2[Association].rows = tb[Association].rows
    BY <2>1, SoundDropRoleKey, Zenon
  <2> QED
    BY <1>3, <2>2 DEF UnlinkAt
<1>4. CASE k = 3
  <2>1. tb2 \in Outcomes(tb, DropColumn(Association, "role_name"))
    BY <1>4, UnlinkStatements
  <2>2. \A a \in tb[Association].rows :
          a.user_level = a.role_name /\ a.role_name # Null
    BY <1>4 DEF UnlinkAt
  <2>3. Sound(tb2, v)
    BY <2>1, <2>2, SoundDropRoleName, Zenon
  <2> QED
    BY <1>4, <2>3 DEF UnlinkAt
<1> QED
  BY <1>1, <1>2, <1>3, <1>4

\* 4f9d2f8f6c13, after k statements, in either direction.
ChangeAt(k, tb) ==
  /\ k \in {2, 3, 4, 5, 6} => Fresh(tb, "user_uuid_tmp")
  /\ k \in {3, 4, 5, 6} => Fresh(tb, "company_uuid_tmp")
  /\ k \in {4, 5, 6} => Fresh(tb, "role_uuid_tmp")
  /\ k \in {5, 6} => Fresh(tb, Copied)
  /\ k \in {5, 6, 7, 8, 9, 10, 11} => tb[Copied].refs = UuidTables
  /\ k = 6 => CoreTables \subseteq DOMAIN tb
  /\ k = 7 => Moved(tb, Copied)
  /\ k \in {7, 8, 9, 10} =>
       /\ {"user", "user_uuid_tmp"} \subseteq DOMAIN tb
       /\ Emails(tb, "user_uuid_tmp") = Emails(tb, "user")
  /\ k \in {7, 8, 9, 10, 11, 12, 13, 14} => Copied \in DOMAIN tb
  /\ k \in {8, 9, 10, 11, 12, 13, 14} => Association \notin DOMAIN tb
  /\ k = 12 => tb[Copied].refs = {"user", "company_uuid_tmp", "role_uuid_tmp"}
  /\ k = 13 => tb[Copied].refs = {"user", "company", "role_uuid_tmp"}
  /\ k = 14 => tb[Copied].refs = {"user", "company", "role"}
  /\ k = 15 => Association \in DOMAIN tb /\ tb[Association].has = {"role_name"}

LEMMA ChangeStatements ==
  ASSUME NEW copy, NEW P, P = ChangeIds(copy)
  PROVE  /\ P[1] = Reflect({"user"})
         /\ P[2] = CreateTable("user_uuid_tmp", {}, {})
         /\ P[3] = CreateTable("company_uuid_tmp", {}, {})
         /\ P[4] = CreateTable("role_uuid_tmp", {"company_id"}, {"company_uuid_tmp"})
         /\ P[5] = CreateTable(Copied, {"role_name"}, UuidTables)
         /\ P[6] = Reflect(CoreTables)
         /\ P[7] = Write(copy)
         /\ P[8] = DropTable(Association)
         /\ P[9] = DropTable("role")
         /\ P[10] = DropTable("company")
         /\ P[11] = DropTable("user")
         /\ P[12] = RenameTable("user_uuid_tmp", "user")
         /\ P[13] = RenameTable("company_uuid_tmp", "company")
         /\ P[14] = RenameTable("role_uuid_tmp", "role")
         /\ P[15] = RenameTable(Copied, Association)
<1>1. P = <<Reflect({"user"})>> \o CreateIdTables \o
          <<Reflect(CoreTables), Write(copy)>> \o DropOldTables \o RenameIdTables
  BY DEF ChangeIds
<1>2. /\ P[1] = Reflect({"user"}) /\ P[6] = Reflect(CoreTables)
      /\ P[7] = Write(copy)
  BY <1>1 DEF CreateIdTables, DropOldTables, RenameIdTables
<1>3. /\ P[2] = CreateIdTables[1] /\ P[3] = CreateIdTables[2]
      /\ P[4] = CreateIdTables[3] /\ P[5] = CreateIdTables[4]
  BY <1>1 DEF CreateIdTables, DropOldTables, RenameIdTables
<1>4. /\ P[8] = DropOldTables[1] /\ P[9] = DropOldTables[2]
      /\ P[10] = DropOldTables[3] /\ P[11] = DropOldTables[4]
  BY <1>1 DEF CreateIdTables, DropOldTables, RenameIdTables
<1>5. /\ P[12] = RenameIdTables[1] /\ P[13] = RenameIdTables[2]
      /\ P[14] = RenameIdTables[3] /\ P[15] = RenameIdTables[4]
  BY <1>1 DEF CreateIdTables, DropOldTables, RenameIdTables
<1>6. /\ CreateIdTables[1] = CreateTable("user_uuid_tmp", {}, {})
      /\ CreateIdTables[2] = CreateTable("company_uuid_tmp", {}, {})
      /\ CreateIdTables[3] =
           CreateTable("role_uuid_tmp", {"company_id"}, {"company_uuid_tmp"})
      /\ CreateIdTables[4] = CreateTable(Copied, {"role_name"}, UuidTables)
  BY DEF CreateIdTables, Copied, UuidTables
<1>7. /\ DropOldTables[1] = DropTable(Association)
      /\ DropOldTables[2] = DropTable("role")
      /\ DropOldTables[3] = DropTable("company")
      /\ DropOldTables[4] = DropTable("user")
  BY DEF DropOldTables
<1>8. /\ RenameIdTables[1] = RenameTable("user_uuid_tmp", "user")
      /\ RenameIdTables[2] = RenameTable("company_uuid_tmp", "company")
      /\ RenameIdTables[3] = RenameTable("role_uuid_tmp", "role")
      /\ RenameIdTables[4] = RenameTable(Copied, Association)
  BY DEF RenameIdTables, Copied
<1> QED
  BY <1>2, <1>3, <1>4, <1>5, <1>6, <1>7, <1>8

\* The tables that a name says nothing about are none of the others.
LEMMA Names ==
  /\ Association # Copied /\ Association # Folded /\ Copied # Folded
  /\ {Association, Copied, Folded} \cap
       {"user", "company", "role", "user_uuid_tmp", "company_uuid_tmp",
        "role_uuid_tmp", "role_global_tmp", "company_role_tmp", "company_role"} = {}
  /\ AssociationTables = {Association, Copied, Folded}
BY DEF Association, Copied, Folded, AssociationTables

\* The tables for other ids are made.
LEMMA ChangeStepMake ==
  ASSUME NEW tb, NEW v, NEW copy, NEW k \in {0, 1, 2, 3, 4, 5},
         Sound(tb, v), ChangeAt(k, tb),
         NEW tb2, tb2 \in Outcomes(tb, ChangeIds(copy)[k + 1])
  PROVE  Sound(tb2, v) /\ ChangeAt(k + 1, tb2)
<1>1. CASE k = 0
  <2>1. tb2 \in Outcomes(tb, Reflect({"user"}))
    BY <1>1, ChangeStatements
  <2>2. tb2 = tb
    BY <2>1, ReflectEffect, Zenon
  <2> QED
    BY <1>1, <2>2 DEF ChangeAt
<1>2. CASE k = 1
  <2>1. tb2 \in Outcomes(tb, CreateTable("user_uuid_tmp", {}, {}))
    BY <1>2, ChangeStatements
  <2>2. Created(tb, "user_uuid_tmp", {}, {}, tb2)
    BY <2>1, CreateEffect, ZenonT(30) DEF Sound
  <2>3. Sound(tb2, v)
    BY <2>1, Names, SoundCreate, Zenon
  <2>4. Fresh(tb2, "user_uuid_tmp")
    BY <2>2 DEF Created, Fresh, Table
  <2> QED
    BY <1>2, <2>3, <2>4 DEF ChangeAt
<1>3. CASE k = 2
  <2>1. tb2 \in Outcomes(tb, CreateTable("company_uuid_tmp", {}, {}))
    BY <1>3, ChangeStatements
  <2>2. Created(tb, "company_uuid_tmp", {}, {}, tb2)
    BY <2>1, CreateEffect, ZenonT(30) DEF Sound
  <2>3. Sound(tb2, v)
    BY <2>1, Names, SoundCreate, Zenon
  <2>4. Fresh(tb, "user_uuid_tmp")
    BY <1>3 DEF ChangeAt
  <2>5. Fresh(tb2, "user_uuid_tmp") /\ Fresh(tb2, "company_uuid_tmp")
    BY <2>2, <2>4 DEF Created, Elsewhere, Fresh, Table
  <2> QED
    BY <1>3, <2>3, <2>5 DEF ChangeAt
<1>4. CASE k = 3
  <2>1. tb2 \in Outcomes(tb,
                 CreateTable("role_uuid_tmp", {"company_id"}, {"company_uuid_tmp"}))
    BY <1>4, ChangeStatements
  <2>2. Created(tb, "role_uuid_tmp", {"company_id"}, {"company_uuid_tmp"}, tb2)
    BY <2>1, CreateEffect, ZenonT(30) DEF Sound
  <2>3. Sound(tb2, v)
    BY <2>1, Names, SoundCreate, Zenon
  <2>4. Fresh(tb, "user_uuid_tmp") /\ Fresh(tb, "company_uuid_tmp")
    BY <1>4 DEF ChangeAt
  <2>5. /\ Fresh(tb2, "user_uuid_tmp") /\ Fresh(tb2, "company_uuid_tmp")
        /\ Fresh(tb2, "role_uuid_tmp")
    BY <2>2, <2>4 DEF Created, Elsewhere, Fresh, Table
  <2> QED
    BY <1>4, <2>3, <2>5 DEF ChangeAt
<1>5. CASE k = 4
  <2>1. tb2 \in Outcomes(tb, CreateTable(Copied, {"role_name"}, UuidTables))
    BY <1>5, ChangeStatements
  <2>2. Created(tb, Copied, {"role_name"}, UuidTables, tb2)
    BY <2>1, CreateEffect, ZenonT(30) DEF Sound
  <2>3. RefersWell(Copied, Table({"role_name"}, UuidTables, {}))
    BY Names DEF RefersWell, Table, UuidTables, UserTables, CompanyTables, RoleTables
  <2>4. Sound(tb2, v)
    BY <2>1, <2>3, SoundCreate, Zenon
  <2>5. /\ Fresh(tb, "user_uuid_tmp") /\ Fresh(tb, "company_uuid_tmp")
        /\ Fresh(tb, "role_uuid_tmp")
    BY <1>5 DEF ChangeAt
  <2>6. /\ Fresh(tb2, "user_uuid_tmp") /\ Fresh(tb2, "company_uuid_tmp")
        /\ Fresh(tb2, "role_uuid_tmp")
    BY <2>2, <2>5, Names DEF Created, Elsewhere, Fresh
  <2>7. Fresh(tb2, Copied) /\ tb2[Copied].refs = UuidTables
    BY <2>2 DEF Created, Fresh, Table
  <2> QED
    BY <1>5, <2>4, <2>6, <2>7 DEF ChangeAt
<1>6. CASE k = 5
  <2>1. tb2 \in Outcomes(tb, Reflect(CoreTables))
    BY <1>6, ChangeStatements
  <2>2. tb2 = tb /\ CoreTables \subseteq DOMAIN tb
    BY <2>1, ReflectEffect, Zenon
  <2> QED
    BY <1>6, <2>2 DEF ChangeAt
<1> QED
  BY <1>1, <1>2, <1>3, <1>4, <1>5, <1>6

\* They are filled, and the old tables are dropped.
LEMMA ChangeStepMove ==
  ASSUME NEW tb, NEW v, NEW copy \in {"copy_to_uuid", "copy_to_numbers"},
         NEW k \in {6, 7, 8, 9, 10},
         Sound(tb, v), Late(v), ChangeAt(k, tb),
         NEW tb2, tb2 \in Outcomes(tb, ChangeIds(copy)[k + 1])
  PROVE  Sound(tb2, v) /\ ChangeAt(k + 1, tb2)
<1>1. CASE k = 6
  <2>1. tb2 \in Outcomes(tb, Write(copy))
    BY <1>1, ChangeStatements
  <2>2. /\ \A x \in UuidTables : Fresh(tb, x)
        /\ Fresh(tb, Copied) /\ tb[Copied].refs = UuidTables
        /\ CoreTables \subseteq DOMAIN tb
    BY <1>1 DEF ChangeAt, UuidTables
  <2>3. /\ Sound(tb2, v) /\ DOMAIN tb2 = DOMAIN tb
        /\ Moved(tb2, Copied) /\ tb2[Copied].refs = UuidTables
        /\ Emails(tb2, "user_uuid_tmp") = Emails(tb2, "user")
    BY <2>1, <2>2, SoundCopyWrite
  <2>4. {"user", "user_uuid_tmp", Copied} \subseteq DOMAIN tb2
    BY <2>2, <2>3 DEF CoreTables, Fresh, UuidTables
  <2> QED
    BY <1>1, <2>2, <2>3, <2>4 DEF ChangeAt
<1>2. ASSUME NEW t, tb2 \in Dropping(tb, t)
      PROVE  /\ t \in DOMAIN tb /\ DOMAIN tb2 = DOMAIN tb \ {t}
             /\ \A x \in DOMAIN tb2 : tb2[x] = tb[x]
  <2>1. Dropped(tb, t, tb2)
    BY <1>2, DropEffect DEF Sound
  <2> QED
    BY <2>1 DEF Dropped, Elsewhere
<1>3. ASSUME NEW t, tb2 \in Outcomes(tb, DropTable(t))
      PROVE  tb2 \in Dropping(tb, t)
  BY <1>3, Zenon DEF Outcomes, DropTable
<1>4. CASE k = 7
  <2>1. tb2 \in Dropping(tb, Association)
    BY <1>3, <1>4, ChangeStatements
  <2>2. /\ Moved(tb, Copied) /\ tb[Copied].refs = UuidTables
        /\ {"user", "user_uuid_tmp", Copied} \subseteq DOMAIN tb
        /\ Emails(tb, "user_uuid_tmp") = Emails(tb, "user")
    BY <1>4 DEF ChangeAt
  <2>3. Association # "role" /\ Association \notin UserTables
    BY DEF Association, UserTables
  <2>4. Sound(tb2, v)
    BY <2>1, <2>2, <2>3, SoundDrop
  <2>5. /\ DOMAIN tb2 = DOMAIN tb \ {Association}
        /\ \A x \in DOMAIN tb2 : tb2[x] = tb[x]
    BY <1>2, <2>1
  <2>6. {"user", "user_uuid_tmp", Copied} \subseteq DOMAIN tb2
    BY <2>2, <2>5, Names
  <2> QED
    BY <1>4, <2>2, <2>4, <2>5, <2>6, SMTT(30) DEF ChangeAt, Emails
<1>5. ASSUME k \in {8, 9, 10}
      PROVE  /\ tb[Copied].refs = UuidTables /\ Association \notin DOMAIN tb
             /\ {"user", "user_uuid_tmp", Copied} \subseteq DOMAIN tb
             /\ Emails(tb, "user_uuid_tmp") = Emails(tb, "user")
  BY <1>5 DEF ChangeAt
<1>6. CASE k \in {8, 9}
  <2>1. PICK t \in {"role", "company"} : tb2 \in Dropping(tb, t)
    BY <1>3, <1>6, ChangeStatements
  <2>2. t \notin UserTables /\ t \notin AssociationTables
    BY Names DEF UserTables
  <2>3. Sound(tb2, v)
    BY <1>5, <1>6, <2>1, <2>2, SoundDrop
  <2>4. /\ DOMAIN tb2 = DOMAIN tb \ {t}
        /\ \A x \in DOMAIN tb2 : tb2[x] = tb[x]
    BY <1>2, <2>1
  <2>5. {"user", "user_uuid_tmp", Copied} \subseteq DOMAIN tb2
    BY <1>5, <1>6, <2>4, Names
  <2> QED
    BY <1>5, <1>6, <2>3, <2>4, <2>5 DEF ChangeAt, Emails
<1>7. CASE k = 10
  <2>1. tb2 \in Dropping(tb, "user")
    BY <1>3, <1>7, ChangeStatements
  <2>2. "user" # "role" /\ "user" \notin AssociationTables
    BY Names
  <2>3. Sound(tb2, v)
    BY <1>5, <1>7, <2>1, <2>2, SoundDrop
  <2>4. /\ DOMAIN tb2 = DOMAIN tb \ {"user"}
        /\ \A x \in DOMAIN tb2 : tb2[x] = tb[x]
    BY <1>2, <2>1
  <2>5. Copied \in DOMAIN tb2
    BY <1>5, <1>7, <2>4, Names
  <2> QED
    BY <1>5, <1>7, <2>3, <2>4, <2>5 DEF ChangeAt
<1> QED
  BY <1>1, <1>4, <1>6, <1>7

\* A table in the making takes the name of one that is gone.
LEMMA RenameStep ==
  ASSUME NEW tb, NEW v, NEW t, NEW new, Sound(tb, v), SameKind(t, new),
         Association \notin DOMAIN tb, new \notin Temporary,
         t \in {Copied, Folded} => tb[t].refs \cap Temporary = {},
         t = Folded => ~Early(v),
         NEW tb2, tb2 \in Outcomes(tb, RenameTable(t, new))
  PROVE  Sound(tb2, v) /\ MovedTo(tb, t, new, tb2)
<1>1. Sound(tb2, v)
  BY SoundRename, Zenon
<1>2. MovedTo(tb, t, new, tb2)
  BY RenameEffect, ZenonT(30) DEF Sound
<1> QED
  BY <1>1, <1>2

\* Another than the one with the memberships.
LEMMA RenameOther ==
  ASSUME NEW tb, NEW v, NEW t, NEW new, Sound(tb, v), SameKind(t, new),
         Association \notin DOMAIN tb, new \notin Temporary,
         t # Copied, t # Folded,
         NEW tb2, tb2 \in Outcomes(tb, RenameTable(t, new))
  PROVE  Sound(tb2, v) /\ MovedTo(tb, t, new, tb2)
<1>1. t \notin {Copied, Folded}
  OBVIOUS
<1> QED
  BY <1>1, RenameStep, Zenon

\* The table s refers to what t refers to by now.
Follows(tb, t, new, tb2, s) ==
  /\ DOMAIN tb2 = (DOMAIN tb \ {t}) \cup {new}
  /\ tb2[s].refs = {Becomes(x, t, new) : x \in tb[s].refs}

LEMMA MovedRefs ==
  ASSUME NEW tb, NEW t, NEW new, NEW tb2, MovedTo(tb, t, new, tb2),
         NEW s, s \in DOMAIN tb, t # s
  PROVE  Follows(tb, t, new, tb2, s)
<1>1. tb2[s] = Redirected(tb[s], t, new)
  BY DEF MovedTo
<1>2. tb2[s].refs = {Becomes(x, t, new) : x \in tb[s].refs}
  BY <1>1 DEF Redirected, Table
<1> QED
  BY <1>2 DEF MovedTo, Follows

LEMMA Kinds ==
  /\ SameKind("user_uuid_tmp", "user") /\ SameKind("company_uuid_tmp", "company")
  /\ SameKind("role_uuid_tmp", "role") /\ SameKind("role_global_tmp", "role")
  /\ SameKind("company_role_tmp", "company_role")
  /\ SameKind(Copied, Association) /\ SameKind(Folded, Association)
  /\ \A t \in {"user", "company", "role", "company_role", Association} :
       t \notin Temporary
  /\ \A t \in {"user_uuid_tmp", "company_uuid_tmp", "role_uuid_tmp",
              "role_global_tmp", "company_role_tmp"} : t # Copied /\ t # Folded
BY DEF SameKind, UserTables, CompanyTables, RoleTables, AssociationTables,
       Association, Copied, Folded, Temporary

\* The new tables take the names of the old ones.
LEMMA ChangeStepRename ==
  ASSUME NEW tb, NEW v, NEW copy, NEW k \in {11, 12, 13, 14},
         Sound(tb, v), ChangeAt(k, tb),
         NEW tb2, tb2 \in Outcomes(tb, ChangeIds(copy)[k + 1])
  PROVE  Sound(tb2, v) /\ ChangeAt(k + 1, tb2)
<1>1. Copied \in DOMAIN tb /\ Association \notin DOMAIN tb
  BY DEF ChangeAt
<1>2. CASE k = 11
  <2>1. tb2 \in Outcomes(tb, RenameTable("user_uuid_tmp", "user"))
    BY <1>2, ChangeStatements
  <2>2. Sound(tb2, v) /\ Follows(tb, "user_uuid_tmp", "user", tb2, Copied)
    <3>1. "user_uuid_tmp" # Copied /\ "user_uuid_tmp" # Folded /\ "user" \notin Temporary
      BY Kinds
    <3>2. Copied \in {Copied, Folded} /\ Copied \in DOMAIN tb
          /\ Association \notin DOMAIN tb
      BY <1>1
    <3>3. Sound(tb2, v) /\ MovedTo(tb, "user_uuid_tmp", "user", tb2)
      BY <2>1, <3>1, <3>2, Kinds, RenameOther, Zenon
    <3> QED
      BY <3>1, <3>2, <3>3, MovedRefs, Zenon
  <2>3. tb[Copied].refs = UuidTables
    BY <1>2 DEF ChangeAt
  <2>4. tb2[Copied].refs = {"user", "company_uuid_tmp", "role_uuid_tmp"}
    BY <2>2, <2>3 DEF Follows, Becomes, UuidTables
  <2>5. Copied \in DOMAIN tb2 /\ Association \notin DOMAIN tb2
    BY <1>1, <2>2, Names DEF Follows
  <2> QED
    BY <1>2, <2>2, <2>4, <2>5 DEF ChangeAt
<1>3. CASE k = 12
  <2>1. tb2 \in Outcomes(tb, RenameTable("company_uuid_tmp", "company"))
    BY <1>3, ChangeStatements
  <2>2. Sound(tb2, v) /\ Follows(tb, "company_uuid_tmp", "company", tb2, Copied)
    <3>1. "company_uuid_tmp" # Copied /\ "company_uuid_tmp" # Folded /\ "company" \notin Temporary
      BY Kinds
    <3>2. Copied \in {Copied, Folded} /\ Copied \in DOMAIN tb
          /\ Association \notin DOMAIN tb
      BY <1>1
    <3>3. Sound(tb2, v) /\ MovedTo(tb, "company_uuid_tmp", "company", tb2)
      BY <2>1, <3>1, <3>2, Kinds, RenameOther, Zenon
    <3> QED
      BY <3>1, <3>2, <3>3, MovedRefs, Zenon
  <2>3. tb[Copied].refs = {"user", "company_uuid_tmp", "role_uuid_tmp"}
    BY <1>3 DEF ChangeAt
  <2>4. tb2[Copied].refs = {"user", "company", "role_uuid_tmp"}
    BY <2>2, <2>3 DEF Follows, Becomes
  <2>5. Copied \in DOMAIN tb2 /\ Association \notin DOMAIN tb2
    BY <1>1, <2>2, Names DEF Follows
  <2> QED
    BY <1>3, <2>2, <2>4, <2>5 DEF ChangeAt
<1>4. CASE k = 13
  <2>1. tb2 \in Outcomes(tb, RenameTable("role_uuid_tmp", "role"))
    BY <1>4, ChangeStatements
  <2>2. Sound(tb2, v) /\ Follows(tb, "role_uuid_tmp", "role", tb2, Copied)
    <3>1. "role_uuid_tmp" # Copied /\ "role_uuid_tmp" # Folded /\ "role" \notin Temporary
      BY Kinds
    <3>2. Copied \in {Copied, Folded} /\ Copied \in DOMAIN tb
          /\ Association \notin DOMAIN tb
      BY <1>1
    <3>3. Sound(tb2, v) /\ MovedTo(tb, "role_uuid_tmp", "role", tb2)
      BY <2>1, <3>1, <3>2, Kinds, RenameOther, Zenon
    <3> QED
      BY <3>1, <3>2, <3>3, MovedRefs, Zenon
  <2>3. tb[Copied].refs = {"user", "company", "role_uuid_tmp"}
    BY <1>4 DEF ChangeAt
  <2>4. tb2[Copied].refs = {"user", "company", "role"}
    BY <2>2, <2>3 DEF Follows, Becomes
  <2>5. Copied \in DOMAIN tb2 /\ Association \notin DOMAIN tb2
    BY <1>1, <2>2, Names DEF Follows
  <2> QED
    BY <1>4, <2>2, <2>4, <2>5 DEF ChangeAt
<1>5. CASE k = 14
  <2>1. tb2 \in Outcomes(tb, RenameTable(Copied, Association))
    BY <1>5, ChangeStatements
  <2>2. tb[Copied].refs = {"user", "company", "role"}
    BY <1>5 DEF ChangeAt
  <2>3. tb[Copied].refs \cap Temporary = {}
    BY <2>2, Names DEF Temporary
  <2>4. /\ Sound(tb2, v)
        /\ DOMAIN tb2 = (DOMAIN tb \ {Copied}) \cup {Association}
        /\ tb2[Association].has = tb[Copied].has
    <3>1. Association \notin Temporary /\ Copied # Folded
      BY Names, Kinds
    <3>2. MovedTo(tb, Copied, Association, tb2) /\ Sound(tb2, v)
      BY <1>1, <2>1, <2>3, <3>1, Kinds, RenameStep, Zenon
    <3> QED
      BY <3>2 DEF MovedTo, Redirected, Table
  <2>5. tb[Copied].has = {"role_name"}
    <3>1. Fits(Copied, tb[Copied])
      BY <1>1 DEF Sound
    <3> QED
      BY <3>1, Names DEF Fits, RefersWell
  <2> QED
    BY <1>5, <2>4, <2>5 DEF ChangeAt
<1> QED
  BY <1>2, <1>3, <1>4, <1>5

\* a4e8c1b7d2f9, after k statements.
NormalizeAt(k, tb) ==
  /\ k \in {1, 2, 3, 4} => Fresh(tb, "role_global_tmp")
  /\ k \in {3, 4} => Fresh(tb, Folded)
  /\ k \in {3, 4, 5, 6, 7, 8} =>
       Folded \in DOMAIN tb /\ tb[Folded].refs = GlobalRefs
  /\ k = 4 => {"role", Association} \subseteq DOMAIN tb
  /\ k = 5 => Moved(tb, Folded)
  /\ k \in {6, 7, 8, 9, 10} => Association \notin DOMAIN tb
  /\ k \in {9, 10} =>
       Folded \in DOMAIN tb /\ tb[Folded].refs = {"user", "company", "role"}

FoldProgram ==
  <<CreateTable("role_global_tmp", {"id"}, {}),
    CreateTable("company_role_tmp", {"role_id"}, {"company", "role_global_tmp"}),
    CreateTable(Folded, {"role_id"}, {"user", "company", "role_global_tmp"}),
    Reflect({"role", Association}), Write("fold_roles"),
    DropTable(Association), DropIfThere("company_role", "role_id"),
    DropTable("role"),
    RenameTable("role_global_tmp", "role"),
    RenameTable("company_role_tmp", "company_role"),
    RenameTable(Folded, Association)>>

LEMMA NormalizeStatements ==
  LET P == FoldProgram IN
  /\ P[1] = CreateTable("role_global_tmp", {"id"}, {})
  /\ P[2] =
       CreateTable("company_role_tmp", {"role_id"}, {"company", "role_global_tmp"})
  /\ P[3] = CreateTable(Folded, {"role_id"}, GlobalRefs)
  /\ P[4] = Reflect({"role", Association})
  /\ P[5] = Write("fold_roles")
  /\ P[6] = DropTable(Association)
  /\ P[7] = DropIfThere("company_role", "role_id")
  /\ P[8] = DropTable("role")
  /\ P[9] = RenameTable("role_global_tmp", "role")
  /\ P[10] = RenameTable("company_role_tmp", "company_role")
  /\ P[11] = RenameTable(Folded, Association)
BY DEF FoldProgram, GlobalRefs

LEMMA DropIfThereEffect ==
  ASSUME NEW tb, NEW t, NEW c, NEW tb2, tb2 \in Outcomes(tb, DropIfThere(t, c))
  PROVE  tb2 = tb \/ tb2 \in Dropping(tb, t)
<1>1. tb2 \in IF HasColumn(tb, t, c) THEN Dropping(tb, t) ELSE {tb}
  BY Zenon DEF Outcomes, DropIfThere
<1> QED
  BY <1>1

\* The new tables are made and filled.
LEMMA NormalizeStepMake ==
  ASSUME NEW tb, NEW v, NEW k \in {0, 1, 2, 3, 4},
         Sound(tb, v), Late(v), NormalizeAt(k, tb),
         NEW tb2, tb2 \in Outcomes(tb, FoldProgram[k + 1])
  PROVE  Sound(tb2, v) /\ NormalizeAt(k + 1, tb2)
<1>1. CASE k = 0
  <2>1. tb2 \in Outcomes(tb, CreateTable("role_global_tmp", {"id"}, {}))
    BY <1>1, NormalizeStatements
  <2>2. Created(tb, "role_global_tmp", {"id"}, {}, tb2)
    BY <2>1, CreateEffect, ZenonT(30) DEF Sound
  <2>3. Sound(tb2, v)
    BY <2>1, Names, SoundCreate, Zenon
  <2>4. Fresh(tb2, "role_global_tmp")
    BY <2>2 DEF Created, Fresh, Table
  <2> QED
    BY <1>1, <2>3, <2>4 DEF NormalizeAt
<1>2. CASE k = 1
  <2>1. PICK has, refs :
          tb2 \in Outcomes(tb, CreateTable("company_role_tmp", has, refs))
    BY <1>2, NormalizeStatements
  <2>2. Created(tb, "company_role_tmp", has, refs, tb2)
    BY <2>1, CreateEffect, ZenonT(30) DEF Sound
  <2>3. Sound(tb2, v)
    BY <2>1, Names, SoundCreate, Zenon
  <2>4. Fresh(tb, "role_global_tmp")
    BY <1>2 DEF NormalizeAt
  <2>5. Fresh(tb2, "role_global_tmp")
    BY <2>2, <2>4 DEF Created, Elsewhere, Fresh
  <2> QED
    BY <1>2, <2>3, <2>5 DEF NormalizeAt
<1>3. CASE k = 2
  <2>1. tb2 \in Outcomes(tb, CreateTable(Folded, {"role_id"}, GlobalRefs))
    BY <1>3, NormalizeStatements
  <2>2. Created(tb, Folded, {"role_id"}, GlobalRefs, tb2)
    BY <2>1, CreateEffect, ZenonT(30) DEF Sound
  <2>3. RefersWell(Folded, Table({"role_id"}, GlobalRefs, {}))
    BY Names DEF RefersWell, Table, GlobalRefs, UserTables, CompanyTables, RoleTables
  <2>4. Sound(tb2, v)
    BY <2>1, <2>3, SoundCreate, Zenon
  <2>5. Fresh(tb, "role_global_tmp")
    BY <1>3 DEF NormalizeAt
  <2>6. Fresh(tb2, "role_global_tmp")
    BY <2>2, <2>5, Names DEF Created, Elsewhere, Fresh
  <2>7. Fresh(tb2, Folded) /\ tb2[Folded].refs = GlobalRefs
    BY <2>2 DEF Created, Fresh, Table
  <2> QED
    BY <1>3, <2>4, <2>6, <2>7 DEF NormalizeAt, Fresh
<1>4. CASE k = 3
  <2>1. tb2 \in Outcomes(tb, Reflect({"role", Association}))
    BY <1>4, NormalizeStatements
  <2>2. tb2 = tb /\ {"role", Association} \subseteq DOMAIN tb
    BY <2>1, ReflectEffect, Zenon
  <2> QED
    BY <1>4, <2>2 DEF NormalizeAt
<1>5. CASE k = 4
  <2>1. tb2 \in Outcomes(tb, Write("fold_roles"))
    BY <1>5, NormalizeStatements
  <2>2. /\ {"role", Association} \subseteq DOMAIN tb
        /\ Fresh(tb, "role_global_tmp") /\ Fresh(tb, Folded)
        /\ tb[Folded].refs = GlobalRefs
    BY <1>5 DEF NormalizeAt
  <2>3. Sound(tb2, v) /\ DOMAIN tb2 = DOMAIN tb /\ Moved(tb2, Folded)
    BY <2>1, <2>2, SoundFold
  <2>4. Folded \in DOMAIN tb2 /\ tb2[Folded].refs = GlobalRefs
    BY <2>1, <2>2, FoldEffect DEF Sound
  <2> QED
    BY <1>5, <2>3, <2>4 DEF NormalizeAt
<1> QED
  BY <1>1, <1>2, <1>3, <1>4, <1>5

\* The old ones are dropped, and the new ones take their names.
LEMMA NormalizeStepMove ==
  ASSUME NEW tb, NEW v, NEW k \in {5, 6, 7, 8, 9, 10},
         Sound(tb, v), ~Early(v), NormalizeAt(k, tb),
         NEW tb2, tb2 \in Outcomes(tb, FoldProgram[k + 1])
  PROVE  Sound(tb2, v) /\ NormalizeAt(k + 1, tb2)
<1>1. ASSUME NEW t, tb2 \in Dropping(tb, t)
      PROVE  /\ t \in DOMAIN tb /\ DOMAIN tb2 = DOMAIN tb \ {t}
             /\ \A x \in DOMAIN tb2 : tb2[x] = tb[x]
  <2>1. Dropped(tb, t, tb2)
    BY <1>1, DropEffect DEF Sound
  <2> QED
    BY <2>1 DEF Dropped, Elsewhere
<1>2. ASSUME NEW t, tb2 \in Outcomes(tb, DropTable(t))
      PROVE  tb2 \in Dropping(tb, t)
  BY <1>2, Zenon DEF Outcomes, DropTable
<1>3. k \in {5, 6, 7, 8} => Folded \in DOMAIN tb /\ tb[Folded].refs = GlobalRefs
  BY DEF NormalizeAt
<1>4. k \in {6, 7, 8, 9, 10} => Association \notin DOMAIN tb
  BY DEF NormalizeAt
<1>5. CASE k = 5
  <2>1. tb2 \in Dropping(tb, Association)
    BY <1>2, <1>5, NormalizeStatements
  <2>2. Moved(tb, Folded)
    BY <1>5 DEF NormalizeAt
  <2>3. Association # "role" /\ Association \notin UserTables
    BY DEF Association, UserTables
  <2>4. Sound(tb2, v)
    BY <2>1, <2>2, <2>3, SoundDrop
  <2>5. /\ DOMAIN tb2 = DOMAIN tb \ {Association}
        /\ \A x \in DOMAIN tb2 : tb2[x] = tb[x]
    BY <1>1, <2>1
  <2>6. Folded \in DOMAIN tb2
    BY <1>3, <1>5, <2>5, Names
  <2> QED
    BY <1>3, <1>5, <2>4, <2>5, <2>6 DEF NormalizeAt
<1>6. ASSUME NEW t \in {"role", "company_role"}, tb2 \in Dropping(tb, t),
             k \in {6, 7}
      PROVE  Sound(tb2, v) /\ NormalizeAt(k + 1, tb2)
  <2>1. t \notin UserTables /\ t \notin AssociationTables
    BY Names DEF UserTables
  <2>2. Sound(tb2, v)
    BY <1>4, <1>6, <2>1, SoundDrop
  <2>3. /\ DOMAIN tb2 = DOMAIN tb \ {t}
        /\ \A x \in DOMAIN tb2 : tb2[x] = tb[x]
    BY <1>1, <1>6
  <2>4. Folded \in DOMAIN tb2 /\ Association \notin DOMAIN tb2
    BY <1>3, <1>4, <1>6, <2>3, Names
  <2> QED
    BY <1>3, <1>6, <2>2, <2>3, <2>4 DEF NormalizeAt
<1>7. CASE k = 6
  <2>1. tb2 = tb \/ tb2 \in Dropping(tb, "company_role")
    BY <1>7, NormalizeStatements, DropIfThereEffect
  <2>2. CASE tb2 = tb
    BY <1>3, <1>4, <1>7, <2>2 DEF NormalizeAt
  <2> QED
    BY <1>6, <1>7, <2>1, <2>2
<1>8. CASE k = 7
  <2>1. tb2 \in Dropping(tb, "role")
    BY <1>2, <1>8, NormalizeStatements
  <2> QED
    BY <1>6, <1>8, <2>1
<1>9. CASE k = 8
  <2>1. tb2 \in Outcomes(tb, RenameTable("role_global_tmp", "role"))
    BY <1>9, NormalizeStatements
  <2>2. Sound(tb2, v) /\ Follows(tb, "role_global_tmp", "role", tb2, Folded)
    <3>1. "role_global_tmp" # Copied /\ "role_global_tmp" # Folded /\ "role" \notin Temporary
      BY Kinds
    <3>2. Folded \in {Copied, Folded} /\ Folded \in DOMAIN tb
          /\ Association \notin DOMAIN tb
      BY <1>3, <1>4, <1>9
    <3>3. Sound(tb2, v) /\ MovedTo(tb, "role_global_tmp", "role", tb2)
      BY <2>1, <3>1, <3>2, Kinds, RenameOther, Zenon
    <3> QED
      BY <3>1, <3>2, <3>3, MovedRefs, Zenon
  <2>3. tb2[Folded].refs = {"user", "company", "role"}
    BY <1>3, <1>9, <2>2 DEF Follows, Becomes, GlobalRefs
  <2>4. Folded \in DOMAIN tb2 /\ Association \notin DOMAIN tb2
    BY <1>3, <1>4, <1>9, <2>2, Names DEF Follows
  <2> QED
    BY <1>9, <2>2, <2>3, <2>4 DEF NormalizeAt
<1>10. k \in {9, 10} =>
         Folded \in DOMAIN tb /\ tb[Folded].refs = {"user", "company", "role"}
  BY DEF NormalizeAt
<1>11. CASE k = 9
  <2>1. tb2 \in Outcomes(tb, RenameTable("company_role_tmp", "company_role"))
    BY <1>11, NormalizeStatements
  <2>2. Sound(tb2, v) /\ Follows(tb, "company_role_tmp", "company_role", tb2, Folded)
    <3>1. "company_role_tmp" # Copied /\ "company_role_tmp" # Folded /\ "company_role" \notin Temporary
      BY Kinds
    <3>2. Folded \in {Copied, Folded} /\ Folded \in DOMAIN tb
          /\ Association \notin DOMAIN tb
      BY <1>4, <1>10, <1>11
    <3>3. Sound(tb2, v) /\ MovedTo(tb, "company_role_tmp", "company_role", tb2)
      BY <2>1, <3>1, <3>2, Kinds, RenameOther, Zenon
    <3> QED
      BY <3>1, <3>2, <3>3, MovedRefs, Zenon
  <2>3. tb2[Folded].refs = {"user", "company", "role"}
    BY <1>10, <1>11, <2>2 DEF Follows, Becomes
  <2>4. Folded \in DOMAIN tb2 /\ Association \notin DOMAIN tb2
    BY <1>4, <1>10, <1>11, <2>2, Names DEF Follows
  <2> QED
    BY <1>11, <2>2, <2>3, <2>4 DEF NormalizeAt
<1>12. CASE k = 10
  <2>1. tb2 \in Outcomes(tb, RenameTable(Folded, Association))
    BY <1>12, NormalizeStatements
  <2>2. tb[Folded].refs \cap Temporary = {}
    BY <1>10, <1>12, Names DEF Temporary
  <2>3. Association \notin DOMAIN tb /\ Association \notin Temporary
    BY <1>4, <1>12, Kinds
  <2>4. Sound(tb2, v)
    BY <2>1, <2>2, <2>3, Kinds, RenameStep, Zenon
  <2> QED
    BY <1>12, <2>4 DEF NormalizeAt
<1> QED
  BY <1>5, <1>7, <1>8, <1>9, <1>11, <1>12

-----------------------------------------------------------------------------
(* A revision is a sequence of statements Q and its record r.  What is left *)
(* of it after k statements is a suffix.                                   *)

Left(Q, r, k) == SubSeq(Append(Q, r), k + 1, Len(Q) + 1)

LEMMA LeftStep ==
  ASSUME NEW S, NEW Q \in Seq(S), NEW r, NEW k \in 0..Len(Q)
  PROVE  /\ Left(Q, r, k) # << >>
         /\ k < Len(Q) => /\ Head(Left(Q, r, k)) = Q[k + 1]
                          /\ Tail(Left(Q, r, k)) = Left(Q, r, k + 1)
         /\ k = Len(Q) => /\ Head(Left(Q, r, k)) = r
                          /\ Tail(Left(Q, r, k)) = << >>
         /\ Left(Q, r, 0) = Append(Q, r)
<1>1. PICK P, T : P = Append(Q, r) /\ T = S \cup {r}
  OBVIOUS
<1>2. P \in Seq(T) /\ Len(P) = Len(Q) + 1 /\ P[Len(P)] = r
      /\ \A i \in 1..Len(Q) : P[i] = Q[i]
  BY <1>1
<1>3. PICK n : n = Len(P)
  OBVIOUS
<1>4. n \in Nat /\ k + 1 \in 1..n /\ n \in k + 1 .. Len(P)
  BY <1>2, <1>3
<1>5. /\ Head(SubSeq(P, k + 1, n)) = P[k + 1]
      /\ Tail(SubSeq(P, k + 1, n)) = SubSeq(P, (k + 1) + 1, n)
  BY <1>2, <1>4, HeadTailOfSubSeq
<1>6. Len(SubSeq(P, k + 1, n)) = n - (k + 1) + 1
  BY <1>2, <1>4
<1>7. Left(Q, r, k) = SubSeq(P, k + 1, n)
      /\ Left(Q, r, k + 1) = SubSeq(P, (k + 1) + 1, n)
  BY <1>1, <1>2, <1>3 DEF Left
<1>8. Left(Q, r, 0) = Append(Q, r)
  <2>1. SubSeq(P, 1, Len(P)) = P
    BY <1>2, SubSeqFull
  <2> QED
    BY <1>1, <1>2, <2>1 DEF Left
<1>9. k = Len(Q) => SubSeq(P, (k + 1) + 1, n) = << >>
  <2>1. k = Len(Q) => (k + 1) + 1 > n
    BY <1>2, <1>3
  <2> QED
    BY <1>2, <1>4, <2>1, SubSeqEmpty
<1>10. SubSeq(P, k + 1, n) # << >>
  <2>1. Len(<< >>) = 0 /\ n - (k + 1) + 1 # 0
    BY <1>4
  <2> QED
    BY <1>6, <2>1
<1>11. k < Len(Q) => P[k + 1] = Q[k + 1]
  BY <1>2
<1>12. k = Len(Q) => P[k + 1] = r
  BY <1>2
<1>13. SubSeq(P, (k + 1) + 1, n) = Left(Q, r, k + 1)
  BY <1>7
<1> HIDE DEF Left
<1> QED
  BY <1>5, <1>7, <1>8, <1>9, <1>10, <1>11, <1>12, <1>13

LEMMA LeftGoesOn ==
  ASSUME NEW S, NEW Q, Q \in Seq(S), NEW r, NEW k, NEW n, n = Len(Q),
         k \in 0..n, k # n, NEW q, q = Left(Q, r, k)
  PROVE  Head(q) = Q[k + 1] /\ Tail(q) = Left(Q, r, k + 1)
<1>1. k \in 0..Len(Q) /\ k < Len(Q)
  OBVIOUS
<1> QED
  BY <1>1, LeftStep

OnlyLeft(q, r) == Head(q) = r /\ Tail(q) = << >>

LEMMA LeftEnds ==
  ASSUME NEW S, NEW Q, Q \in Seq(S), NEW r, NEW n, n = Len(Q),
         NEW q, q = Left(Q, r, n)
  PROVE  OnlyLeft(q, r)
<1>1. n \in 0..Len(Q)
  OBVIOUS
<1> QED
  BY <1>1, LeftStep DEF OnlyLeft

LEMMA Programs ==
  /\ \E S : LinkMembersToRoles \in Seq(S)
  /\ \E S : UnlinkMembersFromRoles \in Seq(S)
  /\ \A copy : \E S : ChangeIds(copy) \in Seq(S)
  /\ \E S : FoldProgram \in Seq(S)
  /\ Len(LinkMembersToRoles) = 5 /\ Len(UnlinkMembersFromRoles) = 4
  /\ \A copy : Len(ChangeIds(copy)) = 15
  /\ Len(FoldProgram) = 11
<1>1. \E S : LinkMembersToRoles \in Seq(S)
  <2>1. PICK a, b, c, d, e : LinkMembersToRoles = <<a, b, c, d, e>>
    BY DEF LinkMembersToRoles
  <2>2. PICK S : {a, b, c, d, e} \subseteq S
    OBVIOUS
  <2> QED
    BY <2>1, <2>2
<1>2. \E S : UnlinkMembersFromRoles \in Seq(S)
  <2>1. PICK a, b, c, d : UnlinkMembersFromRoles = <<a, b, c, d>>
    BY DEF UnlinkMembersFromRoles
  <2>2. PICK S : {a, b, c, d} \subseteq S
    OBVIOUS
  <2> QED
    BY <2>1, <2>2
<1>3. ASSUME NEW copy
      PROVE  \E S : ChangeIds(copy) \in Seq(S)
  <2>1. PICK a, f, g : <<Reflect({"user"})>> = <<a>>
                       /\ <<Reflect(CoreTables), Write(copy)>> = <<f, g>>
    OBVIOUS
  <2>2. PICK b, c, d, e : CreateIdTables = <<b, c, d, e>>
    BY DEF CreateIdTables
  <2>3. PICK h, i, j, k : DropOldTables = <<h, i, j, k>>
    BY DEF DropOldTables
  <2>4. PICK l, m, n, o : RenameIdTables = <<l, m, n, o>>
    BY DEF RenameIdTables
  <2>5. ChangeIds(copy) =
          <<a>> \o <<b, c, d, e>> \o <<f, g>> \o <<h, i, j, k>> \o <<l, m, n, o>>
    BY <2>1, <2>2, <2>3, <2>4, Zenon DEF ChangeIds
  <2>6. PICK S : {a, b, c, d, e, f, g, h, i, j, k, l, m, n, o} \subseteq S
    OBVIOUS
  <2>7. /\ <<a>> \in Seq(S) /\ <<b, c, d, e>> \in Seq(S) /\ <<f, g>> \in Seq(S)
        /\ <<h, i, j, k>> \in Seq(S) /\ <<l, m, n, o>> \in Seq(S)
    BY <2>6
  <2>8. \A p, q \in Seq(S) : p \o q \in Seq(S)
    OBVIOUS
  <2> QED
    BY <2>5, <2>7, <2>8
<1>4. \E S : FoldProgram \in Seq(S)
  <2>1. PICK a, b, c, d, e, f, g, h, i, j, k :
          FoldProgram = <<a, b, c, d, e, f, g, h, i, j, k>>
    BY DEF FoldProgram
  <2>2. PICK S : {a, b, c, d, e, f, g, h, i, j, k} \subseteq S
    OBVIOUS
  <2> QED
    BY <2>1, <2>2
<1>5. /\ Len(LinkMembersToRoles) = 5 /\ Len(UnlinkMembersFromRoles) = 4
      /\ Len(FoldProgram) = 11
  BY DEF LinkMembersToRoles, UnlinkMembersFromRoles, FoldProgram
<1>6. ASSUME NEW copy
      PROVE  Len(ChangeIds(copy)) = 15
  BY DEF ChangeIds, CreateIdTables, DropOldTables, RenameIdTables
<1> QED
  BY <1>1, <1>2, <1>3, <1>4, <1>5, <1>6

Silent(s) == s.do # "record"

LEMMA SilentStatements ==
  /\ \A t, x, y : /\ Silent(CreateTable(t, x, y)) /\ Silent(AddColumn(t, x, y))
                 /\ Silent(AddKey(t, x, y)) /\ Silent(DropKey(t, x, y))
  /\ \A t, x : /\ Silent(DropColumn(t, x)) /\ Silent(DropIfThere(t, x))
              /\ Silent(RenameTable(t, x))
  /\ \A t : Silent(DropTable(t)) /\ Silent(Reflect(t)) /\ Silent(Write(t))
<1>1. \A t, x, y : /\ Silent(CreateTable(t, x, y)) /\ Silent(AddColumn(t, x, y))
                   /\ Silent(AddKey(t, x, y)) /\ Silent(DropKey(t, x, y))
  BY DEF Silent, CreateTable, AddColumn, AddKey, DropKey
<1>2. \A t, x : /\ Silent(DropColumn(t, x)) /\ Silent(DropIfThere(t, x))
                /\ Silent(RenameTable(t, x))
  BY DEF Silent, DropColumn, DropIfThere, RenameTable
<1>3. \A t : Silent(DropTable(t)) /\ Silent(Reflect(t)) /\ Silent(Write(t))
  BY DEF Silent, DropTable, Reflect, Write
<1> QED
  BY <1>1, <1>2, <1>3

LEMMA NoRecordInLink ==
  \A i \in {1, 2, 3, 4, 5} : Silent(LinkMembersToRoles[i])
BY SilentStatements, LinkStatements

LEMMA NoRecordInUnlink ==
  \A i \in {1, 2, 3, 4} : Silent(UnlinkMembersFromRoles[i])
BY SilentStatements, UnlinkStatements

LEMMA NoRecordInChange ==
  ASSUME NEW copy, NEW P, P = ChangeIds(copy)
  PROVE  \A i \in {1, 2, 3, 4, 5, 6, 7, 8, 9, 10, 11, 12, 13, 14, 15} :
           Silent(P[i])
<1>1. /\ P[1] = Reflect({"user"})
      /\ P[2] = CreateTable("user_uuid_tmp", {}, {})
      /\ P[3] = CreateTable("company_uuid_tmp", {}, {})
      /\ P[4] = CreateTable("role_uuid_tmp", {"company_id"}, {"company_uuid_tmp"})
      /\ P[5] = CreateTable(Copied, {"role_name"}, UuidTables)
  BY ChangeStatements
<1>2. /\ Silent(P[1])
      /\ Silent(P[2])
      /\ Silent(P[3])
      /\ Silent(P[4])
      /\ Silent(P[5])
  BY <1>1, SilentStatements, Zenon
<1>3. /\ P[6] = Reflect(CoreTables)
      /\ P[7] = Write(copy)
      /\ P[8] = DropTable(Association)
      /\ P[9] = DropTable("role")
      /\ P[10] = DropTable("company")
  BY ChangeStatements
<1>4. /\ Silent(P[6])
      /\ Silent(P[7])
      /\ Silent(P[8])
      /\ Silent(P[9])
      /\ Silent(P[10])
  BY <1>3, SilentStatements, Zenon
<1>5. /\ P[11] = DropTable("user")
      /\ P[12] = RenameTable("user_uuid_tmp", "user")
      /\ P[13] = RenameTable("company_uuid_tmp", "company")
      /\ P[14] = RenameTable("role_uuid_tmp", "role")
      /\ P[15] = RenameTable(Copied, Association)
  BY ChangeStatements
<1>6. /\ Silent(P[11])
      /\ Silent(P[12])
      /\ Silent(P[13])
      /\ Silent(P[14])
      /\ Silent(P[15])
  BY <1>5, SilentStatements, Zenon
<1> QED
  BY <1>2, <1>4, <1>6

LEMMA NoRecordInFold ==
  \A i \in {1, 2, 3, 4, 5, 6, 7, 8, 9, 10, 11} : Silent(FoldProgram[i])
<1>1. PICK P : P = FoldProgram
  OBVIOUS
<1>2. /\ P[1] = CreateTable("role_global_tmp", {"id"}, {})
      /\ P[2] =
           CreateTable("company_role_tmp", {"role_id"}, {"company", "role_global_tmp"})
      /\ P[3] = CreateTable(Folded, {"role_id"}, GlobalRefs)
      /\ P[4] = Reflect({"role", Association})
      /\ P[5] = Write("fold_roles")
  BY <1>1, NormalizeStatements
<1>3. /\ Silent(P[1])
      /\ Silent(P[2])
      /\ Silent(P[3])
      /\ Silent(P[4])
      /\ Silent(P[5])
  BY <1>2, SilentStatements, Zenon
<1>4. /\ P[6] = DropTable(Association)
      /\ P[7] = DropIfThere("company_role", "role_id")
      /\ P[8] = DropTable("role")
      /\ P[9] = RenameTable("role_global_tmp", "role")
      /\ P[10] = RenameTable("company_role_tmp", "company_role")
  BY <1>1, NormalizeStatements
<1>5. /\ Silent(P[6])
      /\ Silent(P[7])
      /\ Silent(P[8])
      /\ Silent(P[9])
      /\ Silent(P[10])
  BY <1>4, SilentStatements, Zenon
<1>6. /\ P[11] = RenameTable(Folded, Association)
  BY <1>1, NormalizeStatements
<1>7. /\ Silent(P[11])
  BY <1>6, SilentStatements, Zenon
<1> QED
  BY <1>1, <1>3, <1>5, <1>7

LEMMA Versions ==
  /\ Early(4) /\ ~Late(4) /\ Early(5) /\ Late(5) /\ ~Early(6) /\ Late(6)
  /\ Late(7) /\ ~Early(7)
BY DEF Early, Late

\* The record of w says no more of the tables than that of v.
Harmless(v, w) == (Early(w) => Early(v)) /\ (Late(w) => Late(v))

LEMMA SoundRecord ==
  ASSUME NEW tb, NEW v, NEW w, Sound(tb, v), Harmless(v, w)
  PROVE  Sound(tb, w)
BY DEF Sound, AtVersion, Harmless

\* What is left of a revision that leads from v to w, on the tables tb.
PlainLeft(q, w) ==
  \E S : \E Q \in Seq(S) : \E k \in 0..Len(Q) :
    /\ q = Left(Q, Record(w), k)
    /\ \A i \in 1..Len(Q) : Plain(Q[i])

Linking(q, tb) ==
  \E k \in {0, 1, 2, 3, 4, 5} :
    q = Left(LinkMembersToRoles, Record(5), k) /\ LinkAt(k, tb)

Unlinking(q, tb) ==
  \E k \in {0, 1, 2, 3, 4} :
    q = Left(UnlinkMembersFromRoles, Record(4), k) /\ UnlinkAt(k, tb)

Changing(q, copy, w, tb) ==
  \E k \in {0, 1, 2, 3, 4, 5, 6, 7, 8, 9, 10, 11, 12, 13, 14, 15} :
    q = Left(ChangeIds(copy), Record(w), k) /\ ChangeAt(k, tb)

Normalizing(q, tb) ==
  \E k \in {0, 1, 2, 3, 4, 5, 6, 7, 8, 9, 10, 11} :
    q = Left(FoldProgram, Record(7), k) /\ NormalizeAt(k, tb)

Underway(q, v, w, tb) ==
  \/ Harmless(v, w) /\ PlainLeft(q, w)
  \/ v = 4 /\ w = 5 /\ Linking(q, tb)
  \/ v = 5 /\ w = 4 /\ Unlinking(q, tb)
  \/ v = 5 /\ w = 6 /\ Changing(q, "copy_to_uuid", 6, tb)
  \/ v = 6 /\ w = 5 /\ Changing(q, "copy_to_numbers", 5, tb)
  \/ v = 6 /\ w = 7 /\ Normalizing(q, tb)

\* The first statement of it is executed, and there are the tables tb2.
Advances(q, v, w, tb2) ==
  \/ Silent(Head(q)) /\ Sound(tb2, v) /\ Underway(Tail(q), v, w, tb2)
  \/ Head(q) = Record(w) /\ Sound(tb2, w) /\ Tail(q) = << >>

LEMMA PlainAdvances ==
  ASSUME NEW q, NEW v, NEW w, NEW tb, Harmless(v, w), PlainLeft(q, w),
         Sound(tb, v), NEW tb2, tb2 \in Outcomes(tb, Head(q))
  PROVE  Advances(q, v, w, tb2)
<1>1. PICK S : \E Q \in Seq(S) : \E k \in 0..Len(Q) :
        /\ q = Left(Q, Record(w), k)
        /\ \A i \in 1..Len(Q) : Plain(Q[i])
  BY DEF PlainLeft
<1>2. PICK Q \in Seq(S) : \E k \in 0..Len(Q) :
        /\ q = Left(Q, Record(w), k)
        /\ \A i \in 1..Len(Q) : Plain(Q[i])
  BY <1>1
<1>3. PICK k \in 0..Len(Q) :
        /\ q = Left(Q, Record(w), k)
        /\ \A i \in 1..Len(Q) : Plain(Q[i])
  BY <1>2
<1>4. Len(Q) \in Nat
  OBVIOUS
<1>5. CASE k = Len(Q)
  <2>1. Head(q) = Record(w) /\ Tail(q) = << >>
    BY <1>3, <1>5, LeftStep
  <2>2. tb2 = tb
    BY <2>1, RecordEffect
  <2>3. Sound(tb2, w)
    BY <2>2, SoundRecord
  <2> QED
    BY <2>1, <2>3 DEF Advances
<1>6. CASE k < Len(Q)
  <2>1. Head(q) = Q[k + 1] /\ Tail(q) = Left(Q, Record(w), k + 1)
    BY <1>3, <1>6, LeftStep
  <2>2. k + 1 \in 1..Len(Q) /\ k + 1 \in 0..Len(Q)
    BY <1>4, <1>6
  <2>3. Plain(Head(q))
    BY <1>3, <2>1, <2>2
  <2>4. Sound(tb2, v) /\ Silent(Head(q))
    BY <2>3, SoundPlain DEF Silent
  <2>5. PlainLeft(Tail(q), w)
    BY <1>3, <2>1, <2>2 DEF PlainLeft
  <2> QED
    BY <2>4, <2>5 DEF Advances, Underway
<1> QED
  BY <1>4, <1>5, <1>6

LEMMA LinkAdvances ==
  ASSUME NEW q, NEW tb, Linking(q, tb), Sound(tb, 4),
         NEW tb2, tb2 \in Outcomes(tb, Head(q))
  PROVE  Advances(q, 4, 5, tb2)
<1>1. PICK k \in {0, 1, 2, 3, 4, 5} :
        q = Left(LinkMembersToRoles, Record(5), k) /\ LinkAt(k, tb)
  BY DEF Linking
<1>2. PICK S : LinkMembersToRoles \in Seq(S)
  BY Programs
<1>3. Len(LinkMembersToRoles) = 5
  BY Programs
<1>4. CASE k = 5
  <2>1. OnlyLeft(q, Record(5))
    <3>1. PICK n : n = Len(LinkMembersToRoles)
      OBVIOUS
    <3>2. q = Left(LinkMembersToRoles, Record(5), n)
      BY <1>1, <1>3, <1>4, <3>1
    <3> QED
      BY <1>2, <3>1, <3>2, LeftEnds, Zenon
  <2>2. tb2 = tb
    BY <2>1, RecordEffect DEF OnlyLeft
  <2>3. /\ {"role", Association} \subseteq DOMAIN tb
        /\ NamedBy(tb[Association].rows, tb["role"].rows)
    BY <1>1, <1>4 DEF LinkAt
  <2>4. Sound(tb2, 5)
    BY <2>2, <2>3, Versions DEF Sound, AtVersion
  <2> QED
    BY <2>1, <2>4 DEF Advances, OnlyLeft
<1>5. CASE k \in {0, 1, 2, 3, 4}
  <2>1. Head(q) = LinkMembersToRoles[k + 1]
        /\ Tail(q) = Left(LinkMembersToRoles, Record(5), k + 1)
    <3>1. PICK n : n = Len(LinkMembersToRoles) /\ k \in 0..n /\ k # n
      BY <1>3, <1>5
    <3> QED
      BY <1>1, <1>2, <3>1, LeftGoesOn
  <2>2. Sound(tb2, 4) /\ LinkAt(k + 1, tb2)
    BY <1>1, <1>5, <2>1, Versions, LinkStep
  <2>3. Silent(Head(q))
    BY <1>5, <2>1, NoRecordInLink
  <2>4. Linking(Tail(q), tb2)
    BY <1>5, <2>1, <2>2 DEF Linking
  <2> QED
    BY <2>2, <2>3, <2>4 DEF Advances, Underway
<1> QED
  BY <1>4, <1>5

LEMMA UnlinkAdvances ==
  ASSUME NEW q, NEW tb, Unlinking(q, tb), Sound(tb, 5),
         NEW tb2, tb2 \in Outcomes(tb, Head(q))
  PROVE  Advances(q, 5, 4, tb2)
<1>1. PICK k \in {0, 1, 2, 3, 4} :
        q = Left(UnlinkMembersFromRoles, Record(4), k) /\ UnlinkAt(k, tb)
  BY DEF Unlinking
<1>2. PICK S : UnlinkMembersFromRoles \in Seq(S)
  BY Programs
<1>3. Len(UnlinkMembersFromRoles) = 4
  BY Programs
<1>4. CASE k = 4
  <2>1. OnlyLeft(q, Record(4))
    <3>1. PICK n : n = Len(UnlinkMembersFromRoles)
      OBVIOUS
    <3>2. q = Left(UnlinkMembersFromRoles, Record(4), n)
      BY <1>1, <1>3, <1>4, <3>1
    <3> QED
      BY <1>2, <3>1, <3>2, LeftEnds, Zenon
  <2>2. tb2 = tb
    BY <2>1, RecordEffect DEF OnlyLeft
  <2>3. Sound(tb2, 4)
    BY <2>2, Versions, SoundRecord DEF Harmless
  <2> QED
    BY <2>1, <2>3 DEF Advances, OnlyLeft
<1>5. CASE k \in {0, 1, 2, 3}
  <2>1. Head(q) = UnlinkMembersFromRoles[k + 1]
        /\ Tail(q) = Left(UnlinkMembersFromRoles, Record(4), k + 1)
    <3>1. PICK n : n = Len(UnlinkMembersFromRoles) /\ k \in 0..n /\ k # n
      BY <1>3, <1>5
    <3> QED
      BY <1>1, <1>2, <3>1, LeftGoesOn
  <2>2. Sound(tb2, 5) /\ UnlinkAt(k + 1, tb2)
    BY <1>1, <1>5, <2>1, Versions, UnlinkStep
  <2>3. Silent(Head(q))
    BY <1>5, <2>1, NoRecordInUnlink
  <2>4. Unlinking(Tail(q), tb2)
    BY <1>5, <2>1, <2>2 DEF Unlinking
  <2> QED
    BY <2>2, <2>3, <2>4 DEF Advances, Underway
<1> QED
  BY <1>4, <1>5

\* 4f9d2f8f6c13 leads from v to w with this copy.
ChangesIds(v, copy, w) ==
  \/ v = 5 /\ w = 6 /\ copy = "copy_to_uuid"
  \/ v = 6 /\ w = 5 /\ copy = "copy_to_numbers"

LEMMA ChangeAdvances ==
  ASSUME NEW q, NEW copy, NEW v, NEW w, ChangesIds(v, copy, w),
         NEW tb, Changing(q, copy, w, tb), Sound(tb, v),
         NEW tb2, tb2 \in Outcomes(tb, Head(q))
  PROVE  Advances(q, v, w, tb2)
<1>0. copy \in {"copy_to_uuid", "copy_to_numbers"} /\ Late(v) /\ Late(w)
  BY Versions DEF ChangesIds
<1>1. PICK k \in {0, 1, 2, 3, 4, 5, 6, 7, 8, 9, 10, 11, 12, 13, 14, 15} :
        q = Left(ChangeIds(copy), Record(w), k) /\ ChangeAt(k, tb)
  BY DEF Changing
<1>2. PICK S : ChangeIds(copy) \in Seq(S)
  BY Programs
<1>3. Len(ChangeIds(copy)) = 15
  BY Programs
<1>4. CASE k = 15
  <2>1. OnlyLeft(q, Record(w))
    <3>1. PICK n : n = Len(ChangeIds(copy))
      OBVIOUS
    <3>2. q = Left(ChangeIds(copy), Record(w), n)
      BY <1>1, <1>3, <1>4, <3>1
    <3> QED
      BY <1>2, <3>1, <3>2, LeftEnds, Zenon
  <2>2. tb2 = tb
    BY <2>1, RecordEffect DEF OnlyLeft
  <2>3. Association \in DOMAIN tb /\ tb[Association].has = {"role_name"}
    BY <1>1, <1>4 DEF ChangeAt
  <2>4. Late(v) /\ Late(w)
    BY <1>0
  <2>5. Sound(tb, w)
    <3>1. "role_id" \notin tb[Association].has
      BY <2>3
    <3>2. AtVersion(tb, w)
      BY <2>4, <3>1 DEF Sound, AtVersion
    <3> QED
      BY <3>2 DEF Sound
  <2> QED
    BY <2>1, <2>2, <2>5 DEF Advances, OnlyLeft
<1>5. CASE k \in {0, 1, 2, 3, 4, 5, 6, 7, 8, 9, 10, 11, 12, 13, 14}
  <2>1. Head(q) = ChangeIds(copy)[k + 1]
        /\ Tail(q) = Left(ChangeIds(copy), Record(w), k + 1)
    <3>1. PICK n : n = 15 /\ n = Len(ChangeIds(copy))
      BY <1>3
    <3>2. k \in 0..15 /\ k # 15
      BY <1>5
    <3>3. k \in 0..n /\ k # n
      BY <3>1, <3>2
    <3>4. PICK Q : Q = ChangeIds(copy)
      OBVIOUS
    <3>5. Q \in Seq(S) /\ n = Len(Q) /\ q = Left(Q, Record(w), k)
      BY <1>1, <1>2, <3>1, <3>4
    <3>6. Head(q) = Q[k + 1] /\ Tail(q) = Left(Q, Record(w), k + 1)
      BY <3>3, <3>5, LeftGoesOn
    <3> QED
      BY <3>4, <3>6
  <2>2. ChangeAt(k, tb) /\ tb2 \in Outcomes(tb, ChangeIds(copy)[k + 1])
    BY <1>1, <2>1
  <2>3. Sound(tb2, v) /\ ChangeAt(k + 1, tb2)
    <3>1. CASE k \in {0, 1, 2, 3, 4, 5}
      BY <2>2, <3>1, ChangeStepMake
    <3>2. CASE k \in {6, 7, 8, 9, 10}
      BY <1>0, <2>2, <3>2, ChangeStepMove
    <3>3. CASE k \in {11, 12, 13, 14}
      BY <2>2, <3>3, ChangeStepRename
    <3> QED
      BY <1>5, <3>1, <3>2, <3>3
  <2>4. Silent(Head(q))
    <3>1. PICK P : P = ChangeIds(copy)
      OBVIOUS
    <3>2. k + 1 \in {1, 2, 3, 4, 5, 6, 7, 8, 9, 10, 11, 12, 13, 14, 15}
      BY <1>5
    <3> QED
      BY <2>1, <3>1, <3>2, NoRecordInChange
  <2>5. Changing(Tail(q), copy, w, tb2)
    <3>1. k + 1 \in {0, 1, 2, 3, 4, 5, 6, 7, 8, 9, 10, 11, 12, 13, 14, 15}
      BY <1>5
    <3> QED
      BY <2>1, <2>3, <3>1 DEF Changing
  <2> QED
    BY <2>3, <2>4, <2>5 DEF Advances, Underway, ChangesIds
<1> QED
  BY <1>4, <1>5

LEMMA NormalizeAdvances ==
  ASSUME NEW q, NEW tb, Normalizing(q, tb), Sound(tb, 6),
         NEW tb2, tb2 \in Outcomes(tb, Head(q))
  PROVE  Advances(q, 6, 7, tb2)
<1>1. PICK k \in {0, 1, 2, 3, 4, 5, 6, 7, 8, 9, 10, 11} :
        q = Left(FoldProgram, Record(7), k) /\ NormalizeAt(k, tb)
  BY DEF Normalizing
<1>2. PICK S : FoldProgram \in Seq(S)
  BY Programs
<1>3. Len(FoldProgram) = 11
  BY Programs
<1>4. CASE k = 11
  <2>1. OnlyLeft(q, Record(7))
    <3>1. PICK n : n = Len(FoldProgram)
      OBVIOUS
    <3>2. q = Left(FoldProgram, Record(7), n)
      BY <1>1, <1>3, <1>4, <3>1
    <3> QED
      BY <1>2, <3>1, <3>2, LeftEnds, Zenon
  <2>2. tb2 = tb
    BY <2>1, RecordEffect DEF OnlyLeft
  <2>3. Sound(tb2, 7)
    BY <2>2, Versions, SoundRecord DEF Harmless
  <2> QED
    BY <2>1, <2>3 DEF Advances, OnlyLeft
<1>5. CASE k \in {0, 1, 2, 3, 4, 5, 6, 7, 8, 9, 10}
  <2>1. Head(q) = FoldProgram[k + 1]
        /\ Tail(q) = Left(FoldProgram, Record(7), k + 1)
    <3>1. PICK n : n = Len(FoldProgram) /\ k \in 0..n /\ k # n
      BY <1>3, <1>5
    <3> QED
      BY <1>1, <1>2, <3>1, LeftGoesOn
  <2>2. NormalizeAt(k, tb) /\ tb2 \in Outcomes(tb, FoldProgram[k + 1])
    BY <1>1, <2>1
  <2>3. Sound(tb2, 6) /\ NormalizeAt(k + 1, tb2)
    <3>1. CASE k \in {0, 1, 2, 3, 4}
      BY <2>2, <3>1, Versions, NormalizeStepMake
    <3>2. CASE k \in {5, 6, 7, 8, 9, 10}
      BY <2>2, <3>2, Versions, NormalizeStepMove
    <3> QED
      BY <1>5, <3>1, <3>2
  <2>4. Silent(Head(q))
    <3>1. k + 1 \in {1, 2, 3, 4, 5, 6, 7, 8, 9, 10, 11}
      BY <1>5
    <3> QED
      BY <2>1, <3>1, NoRecordInFold
  <2>5. Normalizing(Tail(q), tb2)
    <3>1. k + 1 \in {0, 1, 2, 3, 4, 5, 6, 7, 8, 9, 10, 11}
      BY <1>5
    <3> QED
      BY <2>1, <2>3, <3>1 DEF Normalizing
  <2> QED
    BY <2>3, <2>4, <2>5 DEF Advances, Underway
<1> QED
  BY <1>4, <1>5

\* Whatever revision is under way, each of its statements leaves sound tables,
\* and the last one records the version they are sound for.
LEMMA UnderwayAdvances ==
  ASSUME NEW q, NEW v, NEW w, NEW tb, Underway(q, v, w, tb), Sound(tb, v),
         NEW tb2, tb2 \in Outcomes(tb, Head(q))
  PROVE  Advances(q, v, w, tb2)
<1>1. CASE Harmless(v, w) /\ PlainLeft(q, w)
  BY <1>1, PlainAdvances
<1>2. CASE v = 4 /\ w = 5 /\ Linking(q, tb)
  BY <1>2, LinkAdvances
<1>3. CASE v = 5 /\ w = 4 /\ Unlinking(q, tb)
  BY <1>3, UnlinkAdvances
<1>4. CASE v = 5 /\ w = 6 /\ Changing(q, "copy_to_uuid", 6, tb)
  <2>1. ChangesIds(v, "copy_to_uuid", w) /\ Changing(q, "copy_to_uuid", w, tb)
    BY <1>4 DEF ChangesIds
  <2> QED
    BY <2>1, ChangeAdvances, Zenon
<1>5. CASE v = 6 /\ w = 5 /\ Changing(q, "copy_to_numbers", 5, tb)
  <2>1. ChangesIds(v, "copy_to_numbers", w) /\ Changing(q, "copy_to_numbers", w, tb)
    BY <1>5 DEF ChangesIds
  <2> QED
    BY <2>1, ChangeAdvances, Zenon
<1>6. CASE v = 6 /\ w = 7 /\ Normalizing(q, tb)
  BY <1>6, NormalizeAdvances
<1> QED
  BY <1>1, <1>2, <1>3, <1>4, <1>5, <1>6 DEF Underway

-----------------------------------------------------------------------------
(* What the commands and the API begin.                                    *)

LEMMA RevisionIds ==
  /\ HeadVersion = 11
  /\ Revisions[1] = "84fe79d842e9"
  /\ Revisions[2] = "ed9ebb68b121"
  /\ Revisions[3] = "c539ec0c41d5"
  /\ Revisions[4] = "9e858906b135"
  /\ Revisions[5] = "9552b9fc884a"
  /\ Revisions[6] = "4f9d2f8f6c13"
  /\ Revisions[7] = "a4e8c1b7d2f9"
  /\ Revisions[8] = "b7c2d4e6f809"
  /\ Revisions[9] = "c9f4a6b8d210"
  /\ Revisions[10] = "d1e5f7a9b302"
  /\ Revisions[11] = "e2f6a8c1d403"
BY DEF Revisions, HeadVersion

LEMMA Upgrades ==
  ASSUME NEW tb
  PROVE  /\ Upgrade(1, tb) = CreateUsers
         /\ Upgrade(2, tb) = CreateCompanies
         /\ Upgrade(3, tb) = CreateRoles
         /\ Upgrade(4, tb) = << >>
         /\ Upgrade(5, tb) = LinkMembersToRoles
         /\ Upgrade(6, tb) = ChangeIds("copy_to_uuid")
         /\ Upgrade(7, tb) = NormalizeRoles(tb)
         /\ Upgrade(8, tb) = CreatePermissions
         /\ Upgrade(9, tb) = <<Reflect(SeedTables), Write("seed")>>
         /\ Upgrade(10, tb) = CreateControl
         /\ Upgrade(11, tb) = <<AddColumn("user", "is_superuser", FALSE)>>
<1>1. Upgrade(1, tb) = CreateUsers
  <2>1. Revisions[1] = "84fe79d842e9"
    BY RevisionIds
  <2> QED
    BY <2>1, Zenon DEF Upgrade
<1>2. Upgrade(2, tb) = CreateCompanies
  <2>1. Revisions[2] = "ed9ebb68b121"
    BY RevisionIds
  <2> QED
    BY <2>1, Zenon DEF Upgrade
<1>3. Upgrade(3, tb) = CreateRoles
  <2>1. Revisions[3] = "c539ec0c41d5"
    BY RevisionIds
  <2> QED
    BY <2>1, Zenon DEF Upgrade
<1>4. Upgrade(4, tb) = << >>
  <2>1. Revisions[4] = "9e858906b135"
    BY RevisionIds
  <2> QED
    BY <2>1, Zenon DEF Upgrade
<1>5. Upgrade(5, tb) = LinkMembersToRoles
  <2>1. Revisions[5] = "9552b9fc884a"
    BY RevisionIds
  <2> QED
    BY <2>1, Zenon DEF Upgrade
<1>6. Upgrade(6, tb) = ChangeIds("copy_to_uuid")
  <2>1. Revisions[6] = "4f9d2f8f6c13"
    BY RevisionIds
  <2> QED
    BY <2>1, Zenon DEF Upgrade
<1>7. Upgrade(7, tb) = NormalizeRoles(tb)
  <2>1. Revisions[7] = "a4e8c1b7d2f9"
    BY RevisionIds
  <2> QED
    BY <2>1, Zenon DEF Upgrade
<1>8. Upgrade(8, tb) = CreatePermissions
  <2>1. Revisions[8] = "b7c2d4e6f809"
    BY RevisionIds
  <2> QED
    BY <2>1, Zenon DEF Upgrade
<1>9. Upgrade(9, tb) = <<Reflect(SeedTables), Write("seed")>>
  <2>1. Revisions[9] = "c9f4a6b8d210"
    BY RevisionIds
  <2> QED
    BY <2>1, Zenon DEF Upgrade
<1>10. Upgrade(10, tb) = CreateControl
  <2>1. Revisions[10] = "d1e5f7a9b302"
    BY RevisionIds
  <2> QED
    BY <2>1, Zenon DEF Upgrade
<1>11. Upgrade(11, tb) = <<AddColumn("user", "is_superuser", FALSE)>>
  <2>1. Revisions[11] = "e2f6a8c1d403"
    BY RevisionIds
  <2> QED
    BY <2>1, Zenon DEF Upgrade
<1> QED
  BY <1>1, <1>2, <1>3, <1>4, <1>5, <1>6, <1>7, <1>8, <1>9, <1>10, <1>11

LEMMA Downgrades ==
  /\ Downgrade(5) = UnlinkMembersFromRoles
  /\ Downgrade(6) = ChangeIds("copy_to_numbers")
  /\ Downgrade(7) = <<Raise>>
  /\ Downgrade(8) = DropPermissions
  /\ Downgrade(9) = <<Reflect(SeedTables), Write("unseed")>>
  /\ Downgrade(10) = DropControl
  /\ Downgrade(11) = <<DropColumn("user", "is_superuser")>>
<1>5. Downgrade(5) = UnlinkMembersFromRoles
  <2>1. Revisions[5] = "9552b9fc884a"
    BY RevisionIds
  <2> QED
    BY <2>1, Zenon DEF Downgrade
<1>6. Downgrade(6) = ChangeIds("copy_to_numbers")
  <2>1. Revisions[6] = "4f9d2f8f6c13"
    BY RevisionIds
  <2> QED
    BY <2>1, Zenon DEF Downgrade
<1>7. Downgrade(7) = <<Raise>>
  <2>1. Revisions[7] = "a4e8c1b7d2f9"
    BY RevisionIds
  <2> QED
    BY <2>1, Zenon DEF Downgrade
<1>8. Downgrade(8) = DropPermissions
  <2>1. Revisions[8] = "b7c2d4e6f809"
    BY RevisionIds
  <2> QED
    BY <2>1, Zenon DEF Downgrade
<1>9. Downgrade(9) = <<Reflect(SeedTables), Write("unseed")>>
  <2>1. Revisions[9] = "c9f4a6b8d210"
    BY RevisionIds
  <2> QED
    BY <2>1, Zenon DEF Downgrade
<1>10. Downgrade(10) = DropControl
  <2>1. Revisions[10] = "d1e5f7a9b302"
    BY RevisionIds
  <2> QED
    BY <2>1, Zenon DEF Downgrade
<1>11. Downgrade(11) = <<DropColumn("user", "is_superuser")>>
  <2>1. Revisions[11] = "e2f6a8c1d403"
    BY RevisionIds
  <2> QED
    BY <2>1, Zenon DEF Downgrade
<1> QED
  BY <1>5, <1>6, <1>7, <1>8, <1>9, <1>10, <1>11

\* A program of statements that do not touch the memberships.
AllPlain(P) == \E S : P \in Seq(S) /\ \A i \in 1..Len(P) : Plain(P[i])

LEMMA PlainTuples ==
  /\ AllPlain(<< >>)
  /\ \A a : Plain(a) => AllPlain(<<a>>)
  /\ \A P, a : AllPlain(P) /\ Plain(a) => AllPlain(Append(P, a))
<1>1. AllPlain(<< >>)
  BY DEF AllPlain
<1>2. ASSUME NEW a, Plain(a)
      PROVE  AllPlain(<<a>>)
  <2>1. PICK P : P = <<a>>
    OBVIOUS
  <2>2. P \in Seq({a}) /\ \A i \in 1..Len(P) : P[i] = a
    BY <2>1
  <2> QED
    BY <1>2, <2>1, <2>2 DEF AllPlain
<1>3. ASSUME NEW P, NEW a, AllPlain(P), Plain(a)
      PROVE  AllPlain(Append(P, a))
  <2>1. PICK S : P \in Seq(S) /\ \A i \in 1..Len(P) : Plain(P[i])
    BY <1>3 DEF AllPlain
  <2>2. PICK T : T = S \cup {a}
    OBVIOUS
  <2>3. Append(P, a) \in Seq(T)
    BY <2>1, <2>2
  <2>4. \A i \in 1..Len(Append(P, a)) : Plain(Append(P, a)[i])
    BY <1>3, <2>1
  <2> QED
    BY <2>3, <2>4 DEF AllPlain
<1> QED
  BY <1>1, <1>2, <1>3

LEMMA PlainStatements ==
  /\ \A t, has, refs : t \notin AssociationTables => Plain(CreateTable(t, has, refs))
  /\ \A has : Plain(CreateTable(Association, has, {"company", "user"}))
  /\ \A has : Plain(CreateTable(Association, has, {"company", "role", "user"}))
  /\ \A t : t \notin DataTables => Plain(DropTable(t))
  /\ \A t, name : t \notin DataTables =>
       Plain(AddKey(t, name, {})) /\ Plain(DropKey(t, name, {}))
  /\ \A rows \in {"seed", "unseed", "control"} : Plain(Write(rows))
  /\ \A ts : Plain(Reflect(ts))
  /\ Plain(Raise)
  /\ Plain(AddColumn("user", "is_superuser", FALSE))
  /\ Plain(DropColumn("user", "is_superuser"))
<1>1. ASSUME NEW t, NEW has, NEW refs, t \notin AssociationTables
      PROVE  Plain(CreateTable(t, has, refs))
  BY <1>1, Zenon DEF Plain
<1>2. ASSUME NEW has, NEW refs \in {{"company", "user"}, {"company", "role", "user"}}
      PROVE  Plain(CreateTable(Association, has, refs))
  <2>1. /\ refs \cap UserTables = {"user"} /\ refs \cap CompanyTables = {"company"}
        /\ \A x, y \in refs \cap RoleTables : x = y
        /\ refs \cap {"user_uuid_tmp", "company_uuid_tmp", "role_uuid_tmp"} = {}
        /\ "role_global_tmp" \notin refs
    BY DEF UserTables, CompanyTables, RoleTables
  <2>2. Association # Copied /\ Association # Folded
    BY Names
  <2>3. "user" \in UserTables /\ "company" \in CompanyTables
    BY DEF UserTables, CompanyTables
  <2>4. RefersWell(Association, Table(has, refs, {}))
    BY <2>1, <2>2, <2>3 DEF RefersWell, Table
  <2> QED
    BY <2>4, Zenon DEF Plain
<1>3. /\ \A t : t \notin DataTables => Plain(DropTable(t))
      /\ \A t, name : t \notin DataTables =>
           Plain(AddKey(t, name, {})) /\ Plain(DropKey(t, name, {}))
      /\ \A rows \in {"seed", "unseed", "control"} : Plain(Write(rows))
      /\ \A ts : Plain(Reflect(ts))
  BY Zenon DEF Plain
<1>4. /\ Plain(Raise)
      /\ Plain(AddColumn("user", "is_superuser", FALSE))
      /\ Plain(DropColumn("user", "is_superuser"))
  BY Zenon DEF Plain
<1> QED
  BY <1>1, <1>2, <1>3, <1>4

LEMMA PlainRows ==
  /\ \A a, b : Plain(a) /\ Plain(b) => AllPlain(<<a, b>>)
  /\ \A a, b, c : Plain(a) /\ Plain(b) /\ Plain(c) => AllPlain(<<a, b, c>>)
  /\ \A a, b, c, d : Plain(a) /\ Plain(b) /\ Plain(c) /\ Plain(d) =>
       AllPlain(<<a, b, c, d>>)
  /\ \A a, b, c, d, e, f :
       Plain(a) /\ Plain(b) /\ Plain(c) /\ Plain(d) /\ Plain(e) /\ Plain(f) =>
         AllPlain(<<a, b, c, d, e, f>>)
<1>1. ASSUME NEW a, NEW b, Plain(a), Plain(b)
      PROVE  AllPlain(<<a, b>>)
  <2>1. <<a, b>> = Append(<<a>>, b)
    OBVIOUS
  <2> QED
    BY <1>1, <2>1, PlainTuples
<1>2. ASSUME NEW a, NEW b, NEW c, Plain(a), Plain(b), Plain(c)
      PROVE  AllPlain(<<a, b, c>>)
  <2>1. <<a, b, c>> = Append(<<a, b>>, c)
    OBVIOUS
  <2> QED
    BY <1>1, <1>2, <2>1, PlainTuples
<1>3. ASSUME NEW a, NEW b, NEW c, NEW d, Plain(a), Plain(b), Plain(c), Plain(d)
      PROVE  AllPlain(<<a, b, c, d>>)
  <2>1. <<a, b, c, d>> = Append(<<a, b, c>>, d)
    OBVIOUS
  <2> QED
    BY <1>2, <1>3, <2>1, PlainTuples
<1>4. ASSUME NEW a, NEW b, NEW c, NEW d, NEW e, NEW f,
             Plain(a), Plain(b), Plain(c), Plain(d), Plain(e), Plain(f)
      PROVE  AllPlain(<<a, b, c, d, e, f>>)
  <2>1. <<a, b, c, d, e>> = Append(<<a, b, c, d>>, e)
    OBVIOUS
  <2>2. <<a, b, c, d, e, f>> = Append(<<a, b, c, d, e>>, f)
    OBVIOUS
  <2>3. AllPlain(<<a, b, c, d, e>>)
    BY <1>3, <1>4, <2>1, PlainTuples
  <2> QED
    BY <1>4, <2>2, <2>3, PlainTuples
<1> QED
  BY <1>1, <1>2, <1>3, <1>4

LEMMA PlainConcat ==
  ASSUME NEW P, NEW Q, AllPlain(P), AllPlain(Q)
  PROVE  AllPlain(P \o Q)
<1>1. PICK S : P \in Seq(S) /\ \A i \in 1..Len(P) : Plain(P[i])
  BY DEF AllPlain
<1>2. PICK T : Q \in Seq(T) /\ \A i \in 1..Len(Q) : Plain(Q[i])
  BY DEF AllPlain
<1>3. PICK U : U = S \cup T
  OBVIOUS
<1>4. P \in Seq(U) /\ Q \in Seq(U)
  BY <1>1, <1>2, <1>3
<1>5. PICK R : R = P \o Q
  OBVIOUS
<1>6. R \in Seq(U) /\ Len(R) = Len(P) + Len(Q)
  BY <1>4, <1>5
<1>7. ASSUME NEW n \in 1..Len(R)
      PROVE  Plain(R[n])
  <2>1. CASE n \in 1..Len(P)
    BY <1>1, <1>4, <1>5, <2>1
  <2>2. CASE n \notin 1..Len(P)
    <3>1. n - Len(P) \in 1..Len(Q)
      BY <1>4, <1>6, <2>2
    <3>2. R[n] = Q[n - Len(P)]
      BY <1>4, <1>5, <1>6, <2>2
    <3> QED
      BY <1>2, <3>1, <3>2
  <2> QED
    BY <2>1, <2>2
<1> QED
  BY <1>5, <1>6, <1>7 DEF AllPlain

\* The tables the revisions make and drop beside those of the memberships.
LEMMA OtherTables ==
  /\ {"global_permission", "company_permission", "role_global_permission",
      "company_role_permission", "user_role", "superuser_bootstrap_control",
      "privileged_access_event"} \cap DataTables = {}
  /\ {"user", "company", "role", "company_role", "global_permission",
      "company_permission", "role_global_permission", "company_role_permission",
      "user_role", "superuser_bootstrap_control", "privileged_access_event"}
       \cap AssociationTables = {}
BY DEF DataTables, UserTables, CompanyTables, RoleTables, AssociationTables,
       Association

LEMMA PlainRevisions ==
  /\ AllPlain(CreateUsers) /\ AllPlain(CreateCompanies) /\ AllPlain(CreateRoles)
  /\ AllPlain(CreatePermissions) /\ AllPlain(DropPermissions)
  /\ AllPlain(CreateControl) /\ AllPlain(DropControl)
  /\ \A ts : \A rows \in {"seed", "unseed"} : AllPlain(<<Reflect(ts), Write(rows)>>)
  /\ AllPlain(<<Raise>>)
  /\ AllPlain(<<AddColumn("user", "is_superuser", FALSE)>>)
  /\ AllPlain(<<DropColumn("user", "is_superuser")>>)
<1>1. /\ Plain(CreateTable("user", {}, {})) /\ Plain(CreateTable("company", {}, {}))
      /\ Plain(CreateTable("role", {"company_id"}, {"company"}))
      /\ Plain(CreateTable(Association, {"user_level"}, {"company", "user"}))
  BY OtherTables, PlainStatements
<1>2. AllPlain(CreateUsers) /\ AllPlain(CreateCompanies) /\ AllPlain(CreateRoles)
  BY <1>1, PlainTuples, PlainRows DEF CreateUsers, CreateCompanies, CreateRoles
<1>3. AllPlain(CreatePermissions)
  <2>1. /\ Plain(CreateTable("global_permission", {}, {}))
        /\ Plain(CreateTable("company_permission", {}, {"company"}))
        /\ Plain(CreateTable("role_global_permission", {},
                             {"global_permission", "role"}))
        /\ Plain(CreateTable("company_role_permission", {},
                             {"company_permission", "company_role"}))
    BY OtherTables, PlainStatements
  <2>2. /\ Plain(AddKey("company_role_permission", PermissionIndex, {}))
        /\ Plain(CreateTable("user_role", {}, {"role", "user"}))
    BY OtherTables, PlainStatements
  <2> QED
    BY <2>1, <2>2, PlainRows, Zenon DEF CreatePermissions
<1>4. AllPlain(DropPermissions)
  <2>1. /\ Plain(DropTable("user_role")) /\ Plain(DropTable("company_permission"))
        /\ Plain(DropTable("company_role_permission"))
        /\ Plain(DropTable("role_global_permission"))
        /\ Plain(DropTable("global_permission"))
    BY OtherTables, PlainStatements
  <2>2. Plain(DropKey("company_role_permission", PermissionIndex, {}))
    BY OtherTables, PlainStatements
  <2> QED
    BY <2>1, <2>2, PlainRows, Zenon DEF DropPermissions
<1>5. AllPlain(CreateControl)
  <2>1. /\ Plain(CreateTable("superuser_bootstrap_control", {}, {"user"}))
        /\ Plain(CreateTable("privileged_access_event", {}, {"user"}))
    BY OtherTables, PlainStatements
  <2>2. Plain(AddKey("privileged_access_event", EventIndex, {}))
    BY OtherTables, PlainStatements
  <2>3. Plain(Write("control"))
    BY PlainStatements
  <2> QED
    BY <2>1, <2>2, <2>3, PlainRows, Zenon DEF CreateControl
<1>6. AllPlain(DropControl)
  <2>1. /\ Plain(DropTable("superuser_bootstrap_control"))
        /\ Plain(DropTable("privileged_access_event"))
    BY OtherTables, PlainStatements
  <2>2. Plain(DropKey("privileged_access_event", EventIndex, {}))
    BY OtherTables, PlainStatements
  <2> QED
    BY <2>1, <2>2, PlainRows, Zenon DEF DropControl
<1>7. \A ts : \A rows \in {"seed", "unseed"} : AllPlain(<<Reflect(ts), Write(rows)>>)
  <2>1. \A ts : Plain(Reflect(ts))
    BY PlainStatements, Zenon
  <2>2. Plain(Write("seed")) /\ Plain(Write("unseed"))
    BY PlainStatements
  <2> QED
    BY <2>1, <2>2, PlainRows, Zenon
<1>8. /\ AllPlain(<<Raise>>)
      /\ AllPlain(<<AddColumn("user", "is_superuser", FALSE)>>)
      /\ AllPlain(<<DropColumn("user", "is_superuser")>>)
  BY PlainStatements, PlainTuples, Zenon
<1> QED
  BY <1>2, <1>3, <1>4, <1>5, <1>6, <1>7, <1>8, Zenon

LEMMA PlainBegins ==
  ASSUME NEW P, AllPlain(P), NEW v, NEW w, Harmless(v, w), NEW tb
  PROVE  Underway(Append(P, Record(w)), v, w, tb)
<1>1. PICK S : P \in Seq(S) /\ \A i \in 1..Len(P) : Plain(P[i])
  BY DEF AllPlain
<1>2. PICK k : k = 0 /\ k \in 0..Len(P)
  BY <1>1
<1>3. Append(P, Record(w)) = Left(P, Record(w), k)
  BY <1>1, <1>2, LeftStep
<1>4. PlainLeft(Append(P, Record(w)), w)
  BY <1>1, <1>2, <1>3 DEF PlainLeft
<1> QED
  BY <1>4 DEF Underway

LEMMA LeftBegins ==
  ASSUME NEW S, NEW P, P \in Seq(S), NEW r
  PROVE  Append(P, r) = Left(P, r, 0)
<1>1. PICK k : k = 0 /\ k \in 0..Len(P)
  OBVIOUS
<1> QED
  BY <1>1, LeftStep

LEMMA MovesBegin ==
  ASSUME NEW tb
  PROVE  /\ Linking(Append(LinkMembersToRoles, Record(5)), tb)
         /\ Unlinking(Append(UnlinkMembersFromRoles, Record(4)), tb)
         /\ Changing(Append(ChangeIds("copy_to_uuid"), Record(6)),
                     "copy_to_uuid", 6, tb)
         /\ Changing(Append(ChangeIds("copy_to_numbers"), Record(5)),
                     "copy_to_numbers", 5, tb)
         /\ Normalizing(Append(FoldProgram, Record(7)), tb)
<1>1. /\ LinkAt(0, tb) /\ UnlinkAt(0, tb) /\ ChangeAt(0, tb)
      /\ NormalizeAt(0, tb)
  BY DEF LinkAt, UnlinkAt, ChangeAt, NormalizeAt
<1>2. Append(LinkMembersToRoles, Record(5)) =
        Left(LinkMembersToRoles, Record(5), 0)
  BY Programs, LeftBegins, Zenon
<1>3. Append(UnlinkMembersFromRoles, Record(4)) =
        Left(UnlinkMembersFromRoles, Record(4), 0)
  BY Programs, LeftBegins, Zenon
<1>4. \A copy, w : Append(ChangeIds(copy), Record(w)) =
                     Left(ChangeIds(copy), Record(w), 0)
  BY Programs, LeftBegins, Zenon
<1>5. Append(FoldProgram, Record(7)) = Left(FoldProgram, Record(7), 0)
  BY Programs, LeftBegins, Zenon
<1>6. 0 \in {0, 1, 2, 3, 4, 5, 6, 7, 8, 9, 10, 11, 12, 13, 14, 15}
      /\ 0 \in {0, 1, 2, 3, 4, 5, 6, 7, 8, 9, 10, 11}
      /\ 0 \in {0, 1, 2, 3, 4, 5} /\ 0 \in {0, 1, 2, 3, 4}
  OBVIOUS
<1>7. Linking(Append(LinkMembersToRoles, Record(5)), tb)
  BY <1>1, <1>2, <1>6, Zenon DEF Linking
<1>8. Unlinking(Append(UnlinkMembersFromRoles, Record(4)), tb)
  BY <1>1, <1>3, <1>6, Zenon DEF Unlinking
<1>9. \A copy, w : Changing(Append(ChangeIds(copy), Record(w)), copy, w, tb)
  BY <1>1, <1>4, <1>6, Zenon DEF Changing
<1>10. Normalizing(Append(FoldProgram, Record(7)), tb)
  BY <1>1, <1>5, <1>6, Zenon DEF Normalizing
<1> QED
  BY <1>7, <1>8, <1>9, <1>10

LEMMA HarmlessSteps ==
  /\ \A v \in {0, 1, 2, 3, 5, 6, 7, 8, 9, 10} : Harmless(v, v + 1)
  /\ \A v \in {7, 8, 9, 10, 11} : Harmless(v, v - 1)
BY DEF Harmless, Early, Late

\* Any revision begins on sound tables as it may.
LEMMA UpgradeBegins ==
  ASSUME NEW tb, NEW v \in 0..10
  PROVE  Underway(Append(Upgrade(v + 1, tb), Record(v + 1)), v, v + 1, tb)
<1>1. CASE v = 0
  <2>1. Upgrade(1, tb) = CreateUsers
    BY Upgrades
  <2>2. AllPlain(Upgrade(1, tb))
    BY <2>1, PlainRevisions, PlainTuples, Zenon
  <2>3. Harmless(0, 1)
    <3>1. 0 + 1 = 1
      OBVIOUS
    <3> QED
      BY <3>1, HarmlessSteps
  <2>4. Underway(Append(Upgrade(1, tb), Record(1)), 0, 1, tb)
    BY <2>2, <2>3, PlainBegins
  <2>5. v + 1 = 1
    BY <1>1
  <2> QED
    BY <1>1, <2>4, <2>5
<1>2. CASE v = 1
  <2>1. Upgrade(2, tb) = CreateCompanies
    BY Upgrades
  <2>2. AllPlain(Upgrade(2, tb))
    BY <2>1, PlainRevisions, PlainTuples, Zenon
  <2>3. Harmless(1, 2)
    <3>1. 1 + 1 = 2
      OBVIOUS
    <3> QED
      BY <3>1, HarmlessSteps
  <2>4. Underway(Append(Upgrade(2, tb), Record(2)), 1, 2, tb)
    BY <2>2, <2>3, PlainBegins
  <2>5. v + 1 = 2
    BY <1>2
  <2> QED
    BY <1>2, <2>4, <2>5
<1>3. CASE v = 2
  <2>1. Upgrade(3, tb) = CreateRoles
    BY Upgrades
  <2>2. AllPlain(Upgrade(3, tb))
    BY <2>1, PlainRevisions, PlainTuples, Zenon
  <2>3. Harmless(2, 3)
    <3>1. 2 + 1 = 3
      OBVIOUS
    <3> QED
      BY <3>1, HarmlessSteps
  <2>4. Underway(Append(Upgrade(3, tb), Record(3)), 2, 3, tb)
    BY <2>2, <2>3, PlainBegins
  <2>5. v + 1 = 3
    BY <1>3
  <2> QED
    BY <1>3, <2>4, <2>5
<1>4. CASE v = 3
  <2>1. Upgrade(4, tb) = << >>
    BY Upgrades
  <2>2. AllPlain(Upgrade(4, tb))
    BY <2>1, PlainRevisions, PlainTuples, Zenon
  <2>3. Harmless(3, 4)
    <3>1. 3 + 1 = 4
      OBVIOUS
    <3> QED
      BY <3>1, HarmlessSteps
  <2>4. Underway(Append(Upgrade(4, tb), Record(4)), 3, 4, tb)
    BY <2>2, <2>3, PlainBegins
  <2>5. v + 1 = 4
    BY <1>4
  <2> QED
    BY <1>4, <2>4, <2>5
<1>5. CASE v = 4
  <2>1. Underway(Append(Upgrade(5, tb), Record(5)), 4, 5, tb)
    BY Upgrades, MovesBegin DEF Underway
  <2>2. v + 1 = 5
    BY <1>5
  <2> QED
    BY <1>5, <2>1, <2>2
<1>6. CASE v = 5
  <2>1. Underway(Append(Upgrade(6, tb), Record(6)), 5, 6, tb)
    BY Upgrades, MovesBegin DEF Underway
  <2>2. v + 1 = 6
    BY <1>6
  <2> QED
    BY <1>6, <2>1, <2>2
<1>7. CASE v = 6
  <2>1. Upgrade(7, tb) = << >> \/ Upgrade(7, tb) = FoldProgram
    BY Upgrades DEF NormalizeRoles, FoldProgram, Folded
  <2>2. CASE Upgrade(7, tb) = << >>
    <3>1. 6 + 1 = 7
      OBVIOUS
    <3>2. Harmless(6, 7)
      BY <3>1, HarmlessSteps
    <3>3. AllPlain(Upgrade(7, tb))
      BY <2>2, PlainTuples
    <3> QED
      BY <1>7, <3>1, <3>2, <3>3, PlainBegins
  <2>3. CASE Upgrade(7, tb) = FoldProgram
    <3>1. Underway(Append(Upgrade(7, tb), Record(7)), 6, 7, tb)
      BY <2>3, MovesBegin DEF Underway
    <3>2. v + 1 = 7
      BY <1>7
    <3> QED
      BY <1>7, <3>1, <3>2
  <2> QED
    BY <2>1, <2>2, <2>3
<1>8. CASE v = 7
  <2>1. Upgrade(8, tb) = CreatePermissions
    BY Upgrades
  <2>2. AllPlain(Upgrade(8, tb))
    BY <2>1, PlainRevisions, PlainTuples, Zenon
  <2>3. Harmless(7, 8)
    <3>1. 7 + 1 = 8
      OBVIOUS
    <3> QED
      BY <3>1, HarmlessSteps
  <2>4. Underway(Append(Upgrade(8, tb), Record(8)), 7, 8, tb)
    BY <2>2, <2>3, PlainBegins
  <2>5. v + 1 = 8
    BY <1>8
  <2> QED
    BY <1>8, <2>4, <2>5
<1>9. CASE v = 8
  <2>1. Upgrade(9, tb) = <<Reflect(SeedTables), Write("seed")>>
    BY Upgrades
  <2>2. AllPlain(Upgrade(9, tb))
    BY <2>1, PlainRevisions, PlainTuples, Zenon
  <2>3. Harmless(8, 9)
    <3>1. 8 + 1 = 9
      OBVIOUS
    <3> QED
      BY <3>1, HarmlessSteps
  <2>4. Underway(Append(Upgrade(9, tb), Record(9)), 8, 9, tb)
    BY <2>2, <2>3, PlainBegins
  <2>5. v + 1 = 9
    BY <1>9
  <2> QED
    BY <1>9, <2>4, <2>5
<1>10. CASE v = 9
  <2>1. Upgrade(10, tb) = CreateControl
    BY Upgrades
  <2>2. AllPlain(Upgrade(10, tb))
    BY <2>1, PlainRevisions, PlainTuples, Zenon
  <2>3. Harmless(9, 10)
    <3>1. 9 + 1 = 10
      OBVIOUS
    <3> QED
      BY <3>1, HarmlessSteps
  <2>4. Underway(Append(Upgrade(10, tb), Record(10)), 9, 10, tb)
    BY <2>2, <2>3, PlainBegins
  <2>5. v + 1 = 10
    BY <1>10
  <2> QED
    BY <1>10, <2>4, <2>5
<1>11. CASE v = 10
  <2>1. Upgrade(11, tb) = <<AddColumn("user", "is_superuser", FALSE)>>
    BY Upgrades
  <2>2. AllPlain(Upgrade(11, tb))
    BY <2>1, PlainRevisions, PlainTuples, Zenon
  <2>3. Harmless(10, 11)
    <3>1. 10 + 1 = 11
      OBVIOUS
    <3> QED
      BY <3>1, HarmlessSteps
  <2>4. Underway(Append(Upgrade(11, tb), Record(11)), 10, 11, tb)
    BY <2>2, <2>3, PlainBegins
  <2>5. v + 1 = 11
    BY <1>11
  <2> QED
    BY <1>11, <2>4, <2>5
<1>12. v \in {0, 1, 2, 3, 4, 5, 6, 7, 8, 9, 10}
  OBVIOUS
<1> QED
  BY <1>1, <1>2, <1>3, <1>4, <1>5, <1>6, <1>7, <1>8, <1>9, <1>10, <1>11, <1>12

LEMMA DowngradeBegins ==
  ASSUME NEW tb, NEW v \in 5..11
  PROVE  Underway(Append(Downgrade(v), Record(v - 1)), v, v - 1, tb)
<1>1. CASE v = 5
  <2>1. Underway(Append(Downgrade(5), Record(4)), 5, 4, tb)
    BY Downgrades, MovesBegin DEF Underway
  <2>2. v - 1 = 4
    BY <1>1
  <2> QED
    BY <1>1, <2>1, <2>2
<1>2. CASE v = 6
  <2>1. Underway(Append(Downgrade(6), Record(5)), 6, 5, tb)
    BY Downgrades, MovesBegin DEF Underway
  <2>2. v - 1 = 5
    BY <1>2
  <2> QED
    BY <1>2, <2>1, <2>2
<1>3. CASE v = 7
  <2>1. Downgrade(7) = <<Raise>>
    BY Downgrades
  <2>2. AllPlain(Downgrade(7))
    BY <2>1, PlainRevisions, Zenon
  <2>3. Harmless(7, 6)
    <3>1. 7 - 1 = 6
      OBVIOUS
    <3> QED
      BY <3>1, HarmlessSteps
  <2>4. Underway(Append(Downgrade(7), Record(6)), 7, 6, tb)
    BY <2>2, <2>3, PlainBegins
  <2>5. v - 1 = 6
    BY <1>3
  <2> QED
    BY <1>3, <2>4, <2>5
<1>4. CASE v = 8
  <2>1. Downgrade(8) = DropPermissions
    BY Downgrades
  <2>2. AllPlain(Downgrade(8))
    BY <2>1, PlainRevisions, Zenon
  <2>3. Harmless(8, 7)
    <3>1. 8 - 1 = 7
      OBVIOUS
    <3> QED
      BY <3>1, HarmlessSteps
  <2>4. Underway(Append(Downgrade(8), Record(7)), 8, 7, tb)
    BY <2>2, <2>3, PlainBegins
  <2>5. v - 1 = 7
    BY <1>4
  <2> QED
    BY <1>4, <2>4, <2>5
<1>5. CASE v = 9
  <2>1. Downgrade(9) = <<Reflect(SeedTables), Write("unseed")>>
    BY Downgrades
  <2>2. AllPlain(Downgrade(9))
    BY <2>1, PlainRevisions, Zenon
  <2>3. Harmless(9, 8)
    <3>1. 9 - 1 = 8
      OBVIOUS
    <3> QED
      BY <3>1, HarmlessSteps
  <2>4. Underway(Append(Downgrade(9), Record(8)), 9, 8, tb)
    BY <2>2, <2>3, PlainBegins
  <2>5. v - 1 = 8
    BY <1>5
  <2> QED
    BY <1>5, <2>4, <2>5
<1>6. CASE v = 10
  <2>1. Downgrade(10) = DropControl
    BY Downgrades
  <2>2. AllPlain(Downgrade(10))
    BY <2>1, PlainRevisions, Zenon
  <2>3. Harmless(10, 9)
    <3>1. 10 - 1 = 9
      OBVIOUS
    <3> QED
      BY <3>1, HarmlessSteps
  <2>4. Underway(Append(Downgrade(10), Record(9)), 10, 9, tb)
    BY <2>2, <2>3, PlainBegins
  <2>5. v - 1 = 9
    BY <1>6
  <2> QED
    BY <1>6, <2>4, <2>5
<1>7. CASE v = 11
  <2>1. Downgrade(11) = <<DropColumn("user", "is_superuser")>>
    BY Downgrades
  <2>2. AllPlain(Downgrade(11))
    BY <2>1, PlainRevisions, Zenon
  <2>3. Harmless(11, 10)
    <3>1. 11 - 1 = 10
      OBVIOUS
    <3> QED
      BY <3>1, HarmlessSteps
  <2>4. Underway(Append(Downgrade(11), Record(10)), 11, 10, tb)
    BY <2>2, <2>3, PlainBegins
  <2>5. v - 1 = 10
    BY <1>7
  <2> QED
    BY <1>7, <2>4, <2>5
<1>8. v \in {5, 6, 7, 8, 9, 10, 11}
  OBVIOUS
<1> QED
  BY <1>1, <1>2, <1>3, <1>4, <1>5, <1>6, <1>7, <1>8

LEMMA CreateAllPlain == AllPlain(CreateAll)
<1>1. /\ Plain(CreateTable("company", {}, {}))
      /\ Plain(CreateTable("global_permission", {}, {}))
      /\ Plain(CreateTable("role", {"id"}, {}))
      /\ Plain(CreateTable("user", {"is_superuser"}, {}))
  BY OtherTables, PlainStatements
<1>2. /\ Plain(CreateTable(Association, {"role_id"}, {"company", "role", "user"}))
      /\ Plain(CreateTable("company_permission", {}, {"company"}))
      /\ Plain(CreateTable("company_role", {"role_id"}, {"company", "role"}))
  BY OtherTables, PlainStatements
<1>3. /\ Plain(CreateTable("privileged_access_event", {}, {"user"}))
      /\ Plain(CreateTable("role_global_permission", {},
                           {"global_permission", "role"}))
      /\ Plain(CreateTable("superuser_bootstrap_control", {}, {"user"}))
      /\ Plain(CreateTable("user_role", {}, {"role", "user"}))
  BY OtherTables, PlainStatements
<1>4. /\ Plain(CreateTable("company_role_permission", {},
                           {"company_permission", "company_role"}))
      /\ Plain(AddKey("company_role_permission", PermissionIndex, {}))
  BY OtherTables, PlainStatements
<1>5. PICK P :
        P = <<CreateTable("company", {}, {}),
              CreateTable("global_permission", {}, {}),
              CreateTable("role", {"id"}, {}),
              CreateTable("user", {"is_superuser"}, {})>>
  OBVIOUS
<1>6. PICK Q :
        Q = <<CreateTable(Association, {"role_id"}, {"company", "role", "user"}),
              CreateTable("company_permission", {}, {"company"}),
              CreateTable("company_role", {"role_id"}, {"company", "role"})>>
  OBVIOUS
<1>7. PICK R :
        R = <<CreateTable("privileged_access_event", {}, {"user"}),
              CreateTable("role_global_permission", {},
                          {"global_permission", "role"}),
              CreateTable("superuser_bootstrap_control", {}, {"user"}),
              CreateTable("user_role", {}, {"role", "user"})>>
  OBVIOUS
<1>8. PICK T :
        T = <<CreateTable("company_role_permission", {},
                          {"company_permission", "company_role"}),
              AddKey("company_role_permission", PermissionIndex, {})>>
  OBVIOUS
<1>9. AllPlain(P)
  BY <1>1, <1>5, PlainRows, Zenon
<1>10. AllPlain(Q)
  BY <1>2, <1>6, PlainRows, Zenon
<1>11. AllPlain(R)
  BY <1>3, <1>7, PlainRows, Zenon
<1>12. AllPlain(T)
  BY <1>4, <1>8, PlainRows, Zenon
<1>13. CreateAll = (P \o Q) \o (R \o T)
  BY <1>5, <1>6, <1>7, <1>8 DEF CreateAll
<1> QED
  BY <1>9, <1>10, <1>11, <1>12, <1>13, PlainConcat, Zenon

LEMMA AllPlainTail ==
  ASSUME NEW q, AllPlain(q), q # << >>
  PROVE  Plain(Head(q)) /\ AllPlain(Tail(q))
<1>1. PICK S : q \in Seq(S) /\ \A i \in 1..Len(q) : Plain(q[i])
  BY DEF AllPlain
<1>2. /\ Tail(q) \in Seq(S) /\ Len(Tail(q)) = Len(q) - 1 /\ Head(q) = q[1]
      /\ Len(q) \in Nat /\ Len(q) >= 1
      /\ \A i \in 1..Len(Tail(q)) : Tail(q)[i] = q[i + 1]
  BY <1>1
<1>3. \A i \in 1..Len(Tail(q)) : i + 1 \in 1..Len(q)
  BY <1>2
<1>4. 1 \in 1..Len(q)
  BY <1>2
<1> QED
  BY <1>1, <1>2, <1>3, <1>4 DEF AllPlain

\* A database that is empty.
LEMMA SoundEmpty ==
  ASSUME installation = Null
  PROVE  Sound(<< >>, Base)
<1>1. PICK tb : tb = << >> /\ DOMAIN tb = {}
  OBVIOUS
<1>2. Shaped(tb)
  <2>1. tb = [t \in DOMAIN tb |-> tb[t]]
    BY <1>1
  <2> QED
    BY <1>1, <2>1 DEF Shaped
<1>3. AtVersion(tb, Base)
  BY <1>1 DEF AtVersion
<1>4. UsersKept(tb) /\ MembersKept(tb)
  BY DEF UsersKept, MembersKept, Data
<1>5. Sound(tb, Base)
  BY <1>1, <1>2, <1>3, <1>4 DEF Sound
<1> QED
  BY <1>1, <1>5

\* The rows of the older release.
LegacyUser(u) == [id |-> Number(u), email |-> u, is_superuser |-> Null]
LegacyCompany(c) == [id |-> Number(c), email |-> c]
LegacyRole(x) ==
  [id |-> Null, company_id |-> Number(x.company), name |-> x.name,
   closed |-> x.closed]
LegacyMember(m) ==
  [user_id |-> Number(m.user), company_id |-> Number(m.company),
   user_level |-> m.user_level, role_name |-> Null, role_id |-> Null,
   closed |-> m.closed]

HasLegacy(i, tb) ==
  /\ tb = [t \in DOMAIN tb |-> tb[t]] /\ DOMAIN tb = CoreTables
  /\ tb["user"] = Table({}, {}, {LegacyUser(u) : u \in i.users})
  /\ tb["company"] = Table({}, {}, {LegacyCompany(c) : c \in i.companies})
  /\ tb["role"] =
       Table({"company_id"}, {"company"}, {LegacyRole(x) : x \in i.roles})
  /\ tb[Association] = Table({"user_level"}, {"company", "user"},
                             {LegacyMember(m) : m \in i.members})

LEMMA LegacyContent ==
  ASSUME NEW i, NEW tb, tb = LegacyTables(i)
  PROVE  HasLegacy(i, tb)
<1>1. tb = [t \in CoreTables |->
     CASE t = "user" -> Table({}, {}, {LegacyUser(u) : u \in i.users})
       [] t = "company" ->
            Table({}, {}, {LegacyCompany(c) : c \in i.companies})
       [] t = "role" ->
            Table({"company_id"}, {"company"}, {LegacyRole(x) : x \in i.roles})
       [] t = Association ->
            Table({"user_level"}, {"company", "user"},
              {LegacyMember(m) : m \in i.members})]
  BY Zenon DEF LegacyTables, LegacyUser, LegacyCompany, LegacyRole, LegacyMember
<1>2. DOMAIN tb = CoreTables /\ tb = [t \in DOMAIN tb |-> tb[t]]
  BY <1>1, Zenon
<1>3. {"user", "company", "role", Association} \subseteq CoreTables
  BY DEF CoreTables
<1>4. Association # "user" /\ Association # "company" /\ Association # "role"
  BY DEF Association
<1>5. tb["user"] = Table({}, {}, {LegacyUser(u) : u \in i.users})
  BY <1>1, <1>3, <1>4, Zenon
<1>6. tb["company"] = Table({}, {}, {LegacyCompany(c) : c \in i.companies})
  BY <1>1, <1>3, <1>4, Zenon
<1>7. tb["role"] =
        Table({"company_id"}, {"company"}, {LegacyRole(x) : x \in i.roles})
  BY <1>1, <1>3, <1>4, Zenon
<1>8. tb[Association] =
        Table({"user_level"}, {"company", "user"},
              {LegacyMember(m) : m \in i.members})
  BY <1>1, <1>3, <1>4, Zenon
<1> QED
  BY <1>2, <1>5, <1>6, <1>7, <1>8 DEF HasLegacy

LEMMA LegacyRows ==
  /\ \A u : UserRow(LegacyUser(u)) /\ LegacyUser(u).id = Number(u)
            /\ LegacyUser(u).email = u
  /\ \A c : CompanyRow(LegacyCompany(c)) /\ LegacyCompany(c).id = Number(c)
            /\ LegacyCompany(c).email = c
  /\ \A x : x.name # Null => RoleRow(LegacyRole(x))
  /\ \A m : MemberRow(LegacyMember(m))
  /\ \A u, v : Number(u) = Number(v) <=> u = v
  /\ \A u : Number(u) = [uuid |-> Number(u).uuid, n |-> Number(u).n]
            /\ Number(u).uuid = FALSE
BY DEF UserRow, CompanyRow, RoleRow, MemberRow, LegacyUser, LegacyCompany,
       LegacyRole, LegacyMember, Number

\* Each membership of the older release stands for itself.
\* The row a of the memberships stands for the membership m.
Stands(tb, a, m) ==
  /\ UsersOf(tb, Association, a) = {m.user}
  /\ CompaniesOf(tb, Association, a) = {m.company}
  /\ RoleNamesOf(tb, Association, a) = {MemberLevel(m)}
  /\ a.closed = m.closed

LEMMA LegacyStandsFor ==
  ASSUME NEW i, NEW tb, tb = LegacyTables(i), NEW m \in i.members,
         m.user \in i.users, m.company \in i.companies,
         NEW a, a = LegacyMember(m)
  PROVE  Stands(tb, a, m)
<1>1. /\ tb["user"].rows = {LegacyUser(u) : u \in i.users}
      /\ tb["company"].rows = {LegacyCompany(c) : c \in i.companies}
      /\ tb[Association].refs = {"company", "user"}
  <2>1. HasLegacy(i, tb)
    BY LegacyContent
  <2> QED
    BY <2>1 DEF HasLegacy, Table
<1>2. /\ {"company", "user"} \cap UserTables = {"user"}
      /\ {"company", "user"} \cap CompanyTables = {"company"}
  BY DEF UserTables, CompanyTables
<1>3. RowsBehind(tb, Association, UserTables) = {LegacyUser(u) : u \in i.users}
  <2>1. {tb[x].rows : x \in tb[Association].refs \cap UserTables} =
          {tb["user"].rows}
    BY <1>1, <1>2
  <2> QED
    BY <1>1, <2>1 DEF RowsBehind
<1>4. RowsBehind(tb, Association, CompanyTables) =
        {LegacyCompany(c) : c \in i.companies}
  <2>1. {tb[x].rows : x \in tb[Association].refs \cap CompanyTables} =
          {tb["company"].rows}
    BY <1>1, <1>2
  <2> QED
    BY <1>1, <2>1 DEF RowsBehind
<1>5. UsersOf(tb, Association, a) = {m.user}
  <2>0. a.user_id = Number(m.user)
    BY DEF LegacyMember
  <2>1. \A u \in {LegacyUser(w) : w \in i.users} :
          u.id = a.user_id => u = LegacyUser(m.user)
    BY <2>0, LegacyRows
  <2>2. LegacyUser(m.user).id = a.user_id /\ LegacyUser(m.user).email = m.user
    BY <2>0, LegacyRows
  <2>3. {u \in {LegacyUser(w) : w \in i.users} : u.id = a.user_id} =
          {LegacyUser(m.user)}
    BY <2>1, <2>2
  <2> QED
    BY <1>3, <2>2, <2>3 DEF UsersOf
<1>6. CompaniesOf(tb, Association, a) = {m.company}
  <2>0. a.company_id = Number(m.company)
    BY DEF LegacyMember
  <2>1. \A c \in {LegacyCompany(w) : w \in i.companies} :
          c.id = a.company_id => c = LegacyCompany(m.company)
    BY <2>0, LegacyRows
  <2>2. LegacyCompany(m.company).id = a.company_id
        /\ LegacyCompany(m.company).email = m.company
    BY <2>0, LegacyRows
  <2>3. {c \in {LegacyCompany(w) : w \in i.companies} : c.id = a.company_id} =
          {LegacyCompany(m.company)}
    BY <2>1, <2>2
  <2> QED
    BY <1>4, <2>2, <2>3 DEF CompaniesOf
<1>7. RoleNamesOf(tb, Association, a) = {MemberLevel(m)}
  BY DEF RoleNamesOf, LegacyMember, MemberLevel
<1>8. a.closed = m.closed
  BY DEF LegacyMember
<1> QED
  BY <1>5, <1>6, <1>7, <1>8 DEF Stands

LEMMA LegacyComplete ==
  ASSUME NEW i, installation = i, i # Null, i \in Installations,
         NEW tb, tb = LegacyTables(i)
  PROVE  Memberships(tb, Association) = LegacyMemberships
         /\ Complete(tb, Association)
<1>1. \A m \in i.members : m.user \in i.users /\ m.company \in i.companies
  BY InstallationAssumption
<1>2. tb[Association].rows = {LegacyMember(m) : m \in i.members}
  <2>1. HasLegacy(i, tb)
    BY LegacyContent
  <2> QED
    BY <2>1 DEF HasLegacy, Table
<1>3. ASSUME NEW m \in i.members
      PROVE  StandsFor(tb, Association, LegacyMember(m)) =
               {[user |-> m.user, company |-> m.company, role |-> MemberLevel(m),
                 closed |-> m.closed]}
  <2>1. PICK a : a = LegacyMember(m)
    OBVIOUS
  <2>2. Stands(tb, a, m)
    BY <1>1, <2>1, LegacyStandsFor
  <2>3. PICK u, c, n, x :
          u = m.user /\ c = m.company /\ n = MemberLevel(m) /\ x = m.closed
    OBVIOUS
  <2>4. StandsFor(tb, Association, a) =
          [user : {u}, company : {c}, role : {n}, closed : {x}]
    BY <2>2, <2>3 DEF Stands, StandsFor
  <2>5. PICK r : r = [user |-> u, company |-> c, role |-> n, closed |-> x]
    OBVIOUS
  <2>6. StandsFor(tb, Association, a) = {r}
    <3>1. PICK S : S = [user : {u}, company : {c}, role : {n}, closed : {x}]
      OBVIOUS
    <3>2. r \in S
      BY <2>5, <3>1
    <3>3. ASSUME NEW q \in S
          PROVE  q = r
      <4>1. q = [user |-> q.user, company |-> q.company, role |-> q.role,
                 closed |-> q.closed]
        BY <3>1
      <4>2. q.user = u /\ q.company = c /\ q.role = n /\ q.closed = x
        BY <3>1
      <4> QED
        BY <2>5, <4>1, <4>2
    <3> QED
      BY <2>4, <3>1, <3>2, <3>3
  <2> QED
    BY <2>1, <2>3, <2>5, <2>6
<1>4. {StandsFor(tb, Association, a) : a \in tb[Association].rows} =
        {{[user |-> m.user, company |-> m.company, role |-> MemberLevel(m),
           closed |-> m.closed]} : m \in i.members}
  BY <1>2, <1>3
<1>5. UNION {{[user |-> m.user, company |-> m.company, role |-> MemberLevel(m),
               closed |-> m.closed]} : m \in i.members} =
      {[user |-> m.user, company |-> m.company, role |-> MemberLevel(m),
        closed |-> m.closed] : m \in i.members}
  OBVIOUS
<1>6. Memberships(tb, Association) = LegacyMemberships
  BY <1>4, <1>5 DEF Memberships, LegacyMemberships, Data
<1>7. \A a \in tb[Association].rows :
        /\ UsersOf(tb, Association, a) # {} /\ CompaniesOf(tb, Association, a) # {}
        /\ RoleNamesOf(tb, Association, a) # {}
  <2>1. ASSUME NEW a \in tb[Association].rows
        PROVE  /\ UsersOf(tb, Association, a) # {}
               /\ CompaniesOf(tb, Association, a) # {}
               /\ RoleNamesOf(tb, Association, a) # {}
    <3>1. PICK m \in i.members : a = LegacyMember(m)
      BY <1>2
    <3>2. Stands(tb, a, m)
      BY <1>1, <3>1, LegacyStandsFor
    <3> QED
      BY <3>2 DEF Stands
  <2> QED
    BY <2>1
<1> QED
  BY <1>6, <1>7 DEF Complete

\* The database of the older release.
LEMMA SoundLegacy ==
  ASSUME NEW i, installation = i, i # Null, i \in Installations,
         NEW tb, tb = LegacyTables(i)
  PROVE  Sound(tb, Legacy)
<1>1. HasLegacy(i, tb)
  BY LegacyContent
<1>2. /\ DOMAIN tb = {"user", "company", "role", Association}
      /\ tb = [t \in DOMAIN tb |-> tb[t]]
  BY <1>1 DEF HasLegacy, CoreTables
<1>3. /\ tb["user"].rows = {LegacyUser(u) : u \in i.users}
      /\ tb["company"].rows = {LegacyCompany(c) : c \in i.companies}
      /\ tb["role"].rows = {LegacyRole(x) : x \in i.roles}
      /\ tb[Association].rows = {LegacyMember(m) : m \in i.members}
  BY <1>1 DEF HasLegacy, Table
<1>4. /\ tb["user"].refs = {} /\ tb["company"].refs = {}
      /\ tb["role"].refs = {"company"}
      /\ tb[Association].refs = {"company", "user"}
      /\ tb[Association].has = {"user_level"}
  BY <1>1 DEF HasLegacy, Table
<1>5. Shaped(tb)
  <2>1. \A t \in DOMAIN tb : tb[t] = Table(tb[t].has, tb[t].refs, tb[t].rows)
    <3>1. /\ tb["user"] = Table(tb["user"].has, tb["user"].refs, tb["user"].rows)
          /\ tb["company"] =
               Table(tb["company"].has, tb["company"].refs, tb["company"].rows)
          /\ tb["role"] = Table(tb["role"].has, tb["role"].refs, tb["role"].rows)
          /\ tb[Association] = Table(tb[Association].has, tb[Association].refs,
                                     tb[Association].rows)
      BY <1>1 DEF HasLegacy, Table
    <3> QED
      BY <1>2, <3>1
  <2>2. \A t \in DOMAIN tb : tb[t].refs \subseteq DOMAIN tb
    BY <1>2, <1>4
  <2> QED
    BY <1>2, <2>1, <2>2 DEF Shaped
<1>6. Fits("user", tb["user"])
  <2>1. \A r \in tb["user"].rows : UserRow(r)
    BY <1>3, LegacyRows
  <2>2. Keyed(tb["user"].rows)
    <3>1. ASSUME NEW r \in tb["user"].rows, NEW q \in tb["user"].rows
          PROVE  /\ (r.id = q.id) <=> (r.email = q.email)
                 /\ r.id.uuid = q.id.uuid /\ r.id = [uuid |-> r.id.uuid, n |-> r.id.n]
      <4>1. PICK u, w : r = LegacyUser(u) /\ q = LegacyUser(w)
        BY <1>3
      <4>2. /\ r.id = Number(u) /\ r.email = u /\ q.id = Number(w) /\ q.email = w
        BY <4>1, LegacyRows
      <4>3. (Number(u) = Number(w)) <=> (u = w)
        BY LegacyRows
      <4>4. /\ Number(u) = [uuid |-> Number(u).uuid, n |-> Number(u).n]
            /\ Number(u).uuid = FALSE /\ Number(w).uuid = FALSE
        BY LegacyRows
      <4> QED
        BY <4>2, <4>3, <4>4
    <3> QED
      BY <3>1, Zenon DEF Keyed
  <2>3. "user" \notin CompanyTables /\ "user" \notin RoleTables
        /\ "user" \notin AssociationTables
    BY Names DEF CompanyTables, RoleTables
  <2> QED
    BY <2>1, <2>2, <2>3 DEF Fits
<1>7. Fits("company", tb["company"])
  <2>1. \A r \in tb["company"].rows : CompanyRow(r)
    BY <1>3, LegacyRows
  <2>2. Keyed(tb["company"].rows)
    <3>1. ASSUME NEW r \in tb["company"].rows, NEW q \in tb["company"].rows
          PROVE  /\ (r.id = q.id) <=> (r.email = q.email)
                 /\ r.id.uuid = q.id.uuid /\ r.id = [uuid |-> r.id.uuid, n |-> r.id.n]
      <4>1. PICK u, w : r = LegacyCompany(u) /\ q = LegacyCompany(w)
        BY <1>3
      <4>2. /\ r.id = Number(u) /\ r.email = u /\ q.id = Number(w) /\ q.email = w
        BY <4>1, LegacyRows
      <4>3. (Number(u) = Number(w)) <=> (u = w)
        BY LegacyRows
      <4>4. /\ Number(u) = [uuid |-> Number(u).uuid, n |-> Number(u).n]
            /\ Number(u).uuid = FALSE /\ Number(w).uuid = FALSE
        BY LegacyRows
      <4> QED
        BY <4>2, <4>3, <4>4
    <3> QED
      BY <3>1, Zenon DEF Keyed
  <2>3. "company" \notin UserTables /\ "company" \notin RoleTables
        /\ "company" \notin AssociationTables
    BY Names DEF UserTables, RoleTables
  <2> QED
    BY <2>1, <2>2, <2>3 DEF Fits
<1>8. Fits("role", tb["role"])
  <2>1. \A x \in i.roles : x.name # Null
    BY InstallationAssumption
  <2>2. \A r \in tb["role"].rows : RoleRow(r)
    BY <1>3, <2>1, LegacyRows
  <2>3. "role" \notin UserTables /\ "role" \notin CompanyTables
        /\ "role" \notin AssociationTables
    BY Names DEF UserTables, CompanyTables
  <2> QED
    BY <2>2, <2>3 DEF Fits
<1>9. Fits(Association, tb[Association])
  <2>1. \A r \in tb[Association].rows :
          MemberRow(r) /\ r.role_name = Null /\ r.role_id = Null
    <3>1. \A m : LegacyMember(m).role_name = Null /\ LegacyMember(m).role_id = Null
      BY DEF LegacyMember
    <3> QED
      BY <1>3, <3>1, LegacyRows
  <2>2. NullColumns(tb[Association])
    BY <1>4, <2>1 DEF NullColumns
  <2>3. RefersWell(Association, tb[Association])
    <3>1. /\ {"company", "user"} \cap UserTables = {"user"}
          /\ {"company", "user"} \cap CompanyTables = {"company"}
          /\ {"company", "user"} \cap RoleTables = {}
          /\ {"company", "user"} \cap
               {"user_uuid_tmp", "company_uuid_tmp", "role_uuid_tmp"} = {}
          /\ "user" \in UserTables /\ "company" \in CompanyTables
          /\ "role_global_tmp" \notin {"company", "user"}
      BY DEF UserTables, CompanyTables, RoleTables
    <3> QED
      BY <1>4, <3>1, Names DEF RefersWell
  <2>4. Association \notin UserTables /\ Association \notin CompanyTables
        /\ Association \notin RoleTables
    BY DEF Association, UserTables, CompanyTables, RoleTables
  <2> QED
    BY <2>1, <2>2, <2>3, <2>4 DEF Fits
<1>10. Memberships(tb, Association) = LegacyMemberships
       /\ Complete(tb, Association)
  BY LegacyComplete
<1>11. AssociationTables \cap DOMAIN tb = {Association}
  BY <1>2, Names
<1>12. AtVersion(tb, Legacy)
  <2>1. Copied \notin DOMAIN tb
    BY <1>2, Names
  <2>2. ~Late(Legacy)
    BY DEF Late, Legacy
  <2>3. "role_id" \notin tb[Association].has
    BY <1>4
  <2> QED
    BY <2>1, <2>2, <2>3 DEF AtVersion
<1>13. UsersKept(tb)
  <2>1. \A u : LegacyUser(u).email = u
    BY DEF LegacyUser
  <2>2. Emails(tb, "user") = Data.users
    <3>1. {r.email : r \in tb["user"].rows} = i.users
      BY <1>3, <2>1
    <3> QED
      BY <3>1 DEF Emails, Data
  <2>3. "user" \in UserTables \cap DOMAIN tb
    BY <1>2 DEF UserTables
  <2> QED
    BY <2>2, <2>3 DEF UsersKept
<1>14. MembersKept(tb)
  BY <1>10, <1>11 DEF MembersKept
<1>15. \A t \in DOMAIN tb : Fits(t, tb[t])
  BY <1>2, <1>6, <1>7, <1>8, <1>9
<1> QED
  BY <1>5, <1>10, <1>11, <1>12, <1>13, <1>14, <1>15 DEF Sound

-----------------------------------------------------------------------------
(* The inductive invariant.                                                *)

Ranges ==
  /\ installation \in Installations /\ engine \in Engines
  /\ deployment \in Deployments
  /\ proc \in Running \cup {"down", "starting", "up"}
  /\ target \in Legacy..HeadVersion
  /\ crashes \in 0..MaxCrashes /\ commands \in 0..MaxCommands
  /\ live.version \in Base..HeadVersion /\ durable.version \in Base..HeadVersion

Kept ==
  /\ Sound(live.tables, live.version) /\ Sound(durable.tables, durable.version)

\* What is to be done fits what is done: a command has not gone beyond its
\* target, and the rest of its revision may be applied to the tables as they are.
Course ==
  /\ proc \notin Running => todo = << >>
  /\ proc = "creating" => AllPlain(todo)
  /\ proc = "upgrading" =>
       /\ live.version <= target
       /\ todo # << >> =>
            /\ live.version < target
            /\ Underway(todo, live.version, live.version + 1, live.tables)
  /\ proc = "downgrading" =>
       /\ live.version >= target
       /\ todo # << >> =>
            /\ live.version > target
            /\ Underway(todo, live.version, live.version - 1, live.tables)

SchemaInv == Ranges /\ Kept /\ Course

LEMMA SameData ==
  ASSUME installation' = installation
  PROVE  /\ LegacyMemberships' = LegacyMemberships
         /\ Data' = Data
BY DEF LegacyMemberships, Data

LEMMA LiveSound ==
  ASSUME installation' = installation, NEW tb, NEW v, Sound(tb, v),
         live'.tables = tb, live'.version = v
  PROVE  Sound(live.tables, live.version)'
<1>1. LegacyMemberships' = LegacyMemberships /\ Data' = Data
  BY SameData
<1>2. Shaped(live.tables)' /\ AtVersion(live.tables, live.version)'
      /\ (\A t \in DOMAIN live.tables : Fits(t, live.tables[t]))'
  BY DEF Sound
<1>3. (\A t \in AssociationTables \cap DOMAIN live.tables :
         Complete(live.tables, t))'
  BY <1>1 DEF Sound, Complete
<1>4. UsersKept(live.tables)' /\ MembersKept(live.tables)'
  BY <1>1 DEF Sound, UsersKept, MembersKept
<1> QED
  BY <1>2, <1>3, <1>4 DEF Sound

LEMMA DurableSound ==
  ASSUME installation' = installation, NEW tb, NEW v, Sound(tb, v),
         durable'.tables = tb, durable'.version = v
  PROVE  Sound(durable.tables, durable.version)'
<1>1. LegacyMemberships' = LegacyMemberships /\ Data' = Data
  BY SameData
<1>2. Shaped(durable.tables)' /\ AtVersion(durable.tables, durable.version)'
      /\ (\A t \in DOMAIN durable.tables : Fits(t, durable.tables[t]))'
  BY DEF Sound
<1>3. (\A t \in AssociationTables \cap DOMAIN durable.tables :
         Complete(durable.tables, t))'
  BY <1>1 DEF Sound, Complete
<1>4. UsersKept(durable.tables)' /\ MembersKept(durable.tables)'
  BY <1>1 DEF Sound, UsersKept, MembersKept
<1> QED
  BY <1>2, <1>3, <1>4 DEF Sound

LEMMA SchemaStarts == SchemaInit => SchemaInv
<1> SUFFICES ASSUME SchemaInit
             PROVE  SchemaInv
  OBVIOUS
<1>1. /\ installation \in Installations /\ engine \in Engines
      /\ deployment \in Deployments /\ live = durable /\ proc = "down"
      /\ target = HeadVersion /\ todo = << >> /\ crashes = 0 /\ commands = 0
  BY DEF SchemaInit
<1>2. HeadVersion = 11 /\ Base = 0 /\ Legacy = 4
  BY RevisionIds DEF Base, Legacy
<1>3. CASE installation = Null
  <2>1. durable.tables = << >> /\ durable.version = Base
    BY <1>3 DEF SchemaInit
  <2>2. Sound(durable.tables, durable.version)
    BY <1>3, <2>1, SoundEmpty
  <2>3. Ranges
    BY <1>1, <1>2, <2>1, SchemaBounds DEF Ranges
  <2> QED
    BY <1>1, <2>2, <2>3 DEF SchemaInv, Kept, Course, Running, Commands
<1>4. CASE installation # Null
  <2>1. durable.tables = LegacyTables(installation) /\ durable.version = Legacy
    BY <1>4 DEF SchemaInit
  <2>2. PICK i, tb : i = installation /\ tb = durable.tables
    OBVIOUS
  <2>3. installation = i /\ i # Null /\ i \in Installations /\ tb = LegacyTables(i)
    BY <1>1, <1>4, <2>1, <2>2
  <2>4. Sound(tb, Legacy)
    BY <2>3, SoundLegacy
  <2>5. Sound(durable.tables, durable.version)
    BY <2>1, <2>2, <2>4
  <2>6. Ranges
    BY <1>1, <1>2, <2>1, SchemaBounds DEF Ranges
  <2> QED
    BY <1>1, <2>5, <2>6 DEF SchemaInv, Kept, Course, Running, Commands
<1> QED
  BY <1>3, <1>4

LEMMA Heads == HeadVersion = 11 /\ Base = 0 /\ Legacy = 4
BY RevisionIds DEF Base, Legacy

\* Tables that are as the durable ones, or as the live ones, are sound.
LEMMA KeptIsSound ==
  ASSUME Kept, installation' = installation,
         live' = live \/ live' = durable, durable' = durable \/ durable' = live
  PROVE  Kept'
<1>1. ASSUME NEW d \in {live, durable}
      PROVE  Sound(d.tables, d.version)
  BY <1>1 DEF Kept
<1>2. PICK tb, v : live'.tables = tb /\ live'.version = v /\ Sound(tb, v)
  <2>1. CASE live' = live
    BY <2>1 DEF Kept
  <2>2. CASE live' = durable
    BY <2>2 DEF Kept
  <2> QED
    BY <2>1, <2>2
<1>3. PICK tb2, v2 : durable'.tables = tb2 /\ durable'.version = v2 /\ Sound(tb2, v2)
  <2>1. CASE durable' = live
    BY <2>1 DEF Kept
  <2>2. CASE durable' = durable
    BY <2>2 DEF Kept
  <2> QED
    BY <2>1, <2>2
<1>4. Sound(live.tables, live.version)'
  BY <1>2, LiveSound
<1>5. Sound(durable.tables, durable.version)'
  BY <1>3, DurableSound
<1> QED
  BY <1>4, <1>5 DEF Kept

LEMMA StartContainerKeeps ==
  ASSUME SchemaInv, StartContainer
  PROVE  SchemaInv'
<1>1. /\ installation' = installation /\ engine' = engine
      /\ deployment' = deployment /\ durable' = durable /\ live' = durable
      /\ todo' = todo /\ target' = HeadVersion
      /\ crashes' = crashes /\ commands' = commands /\ proc = "down"
      /\ proc' \in {"upgrading", "starting"}
  BY DEF StartContainer, setting
<1>2. Kept'
  BY <1>1, KeptIsSound DEF SchemaInv
<1>3. Ranges'
  BY <1>1, Heads DEF SchemaInv, Ranges, Running, Commands
<1>4. todo' = << >>
  BY <1>1 DEF SchemaInv, Course, Running, Commands
<1>5. live'.version <= target'
  BY <1>1, Heads DEF SchemaInv, Ranges
<1>6. Course'
  BY <1>1, <1>4, <1>5 DEF Course, Running, Commands
<1> QED
  BY <1>2, <1>3, <1>6 DEF SchemaInv

LEMMA RunCommandKeeps ==
  ASSUME SchemaInv, NEW t \in Legacy..HeadVersion, RunCommand(t)
  PROVE  SchemaInv'
<1>1. /\ installation' = installation /\ engine' = engine
      /\ deployment' = deployment /\ durable' = durable /\ live' = durable
      /\ todo' = todo /\ target' = t /\ t # durable.version
      /\ crashes' = crashes /\ commands' = commands + 1 /\ commands < MaxCommands
      /\ proc \in {"down", "up"}
      /\ proc' = IF t > durable.version THEN "upgrading" ELSE "downgrading"
  BY DEF RunCommand, setting
<1>2. Kept'
  BY <1>1, KeptIsSound DEF SchemaInv
<1>3. Ranges'
  BY <1>1, Heads, SchemaBounds DEF SchemaInv, Ranges, Running, Commands
<1>4. todo' = << >>
  BY <1>1 DEF SchemaInv, Course, Running, Commands
<1>5. /\ proc' = "upgrading" => live'.version <= target'
      /\ proc' = "downgrading" => live'.version >= target'
      /\ proc' # "creating"
  BY <1>1, Heads DEF SchemaInv, Ranges
<1>6. Course'
  BY <1>4, <1>5 DEF Course
<1> QED
  BY <1>2, <1>3, <1>6 DEF SchemaInv

LEMMA BeginRevisionKeeps ==
  ASSUME SchemaInv, BeginRevision
  PROVE  SchemaInv'
<1>1. /\ installation' = installation /\ engine' = engine
      /\ deployment' = deployment /\ durable' = durable /\ live' = live
      /\ target' = target /\ proc' = proc
      /\ crashes' = crashes /\ commands' = commands
      /\ proc \in Commands /\ live.version # target
      /\ todo' = IF proc = "upgrading"
                   THEN Append(Upgrade(live.version + 1, live.tables),
                               Record(live.version + 1))
                   ELSE Append(Downgrade(live.version), Record(live.version - 1))
  BY DEF BeginRevision, setting
<1>0. live.version # target
  BY DEF BeginRevision
<1>2. Kept'
  BY <1>1, KeptIsSound DEF SchemaInv
<1>3. Ranges'
  BY <1>1 DEF SchemaInv, Ranges
<1>4. live.version \in 0..11 /\ target \in 4..11
  BY Heads DEF SchemaInv, Ranges
<1>5. CASE proc = "upgrading"
  <2>0. live.version <= target
    BY <1>5 DEF SchemaInv, Course
  <2>1. live.version <= target /\ live.version < target
    BY <1>0, <1>4, <2>0
  <2>2. PICK v, tb : v = live.version /\ tb = live.tables /\ v \in 0..10
    BY <1>4, <2>1
  <2>3. Underway(Append(Upgrade(v + 1, tb), Record(v + 1)), v, v + 1, tb)
    BY <2>2, UpgradeBegins
  <2>4. Underway(todo', live.version, live.version + 1, live.tables)
    BY <1>1, <1>5, <2>2, <2>3
  <2>5. Course'
    BY <1>1, <1>5, <2>1, <2>4 DEF Course, Running, Commands
  <2> QED
    BY <1>2, <1>3, <2>5 DEF SchemaInv
<1>6. CASE proc = "downgrading"
  <2>0. live.version >= target
    BY <1>6 DEF SchemaInv, Course
  <2>1. live.version >= target /\ live.version > target
    BY <1>0, <1>4, <2>0
  <2>2. PICK v, tb : v = live.version /\ tb = live.tables /\ v \in 5..11
    BY <1>4, <2>1
  <2>3. Underway(Append(Downgrade(v), Record(v - 1)), v, v - 1, tb)
    BY <2>2, DowngradeBegins
  <2>4. Underway(todo', live.version, live.version - 1, live.tables)
    BY <1>1, <1>6, <2>2, <2>3
  <2>5. Course'
    BY <1>1, <1>6, <2>1, <2>4 DEF Course, Running, Commands
  <2> QED
    BY <1>2, <1>3, <2>5 DEF SchemaInv
<1> QED
  BY <1>1, <1>5, <1>6 DEF Commands

\* A statement of a command leaves sound tables, and the rest of the revision
\* fits them; the record is the last of it.
LEMMA ExecuteKeeps ==
  ASSUME SchemaInv, Execute
  PROVE  SchemaInv'
<1>1. /\ installation' = installation /\ engine' = engine
      /\ deployment' = deployment /\ target' = target /\ proc' = proc
      /\ crashes' = crashes /\ commands' = commands
      /\ proc \in Running /\ todo # << >> /\ todo' = Tail(todo)
      /\ durable' = live' \/ durable' = durable
  BY DEF Execute, setting
<1>2. PICK tb, v, q, s, tb2 :
        /\ tb = live.tables /\ v = live.version /\ q = todo /\ s = Head(q)
        /\ tb2 \in Outcomes(tb, s)
        /\ live' = [tables |-> tb2,
                    version |-> IF s.do = "record" THEN s.version ELSE v]
  BY DEF Execute
<1>3. Sound(tb, v) /\ Sound(durable.tables, durable.version)
  BY <1>2 DEF SchemaInv, Kept
<1>4. v \in 0..11 /\ target \in 4..11
  BY <1>2, Heads DEF SchemaInv, Ranges
\* The tables and their version afterwards.
<1>5. ASSUME NEW v2 \in 0..11, live'.version = v2, live'.tables = tb2,
             Sound(tb2, v2)
      PROVE  Kept' /\ Ranges'
  <2>1. Sound(live.tables, live.version)'
    BY <1>1, <1>5, LiveSound
  <2>2. Sound(durable.tables, durable.version)'
    <3>1. CASE durable' = live'
      BY <1>1, <1>5, <3>1, DurableSound
    <3>2. CASE durable' = durable
      <4>1. PICK d, w : d = durable.tables /\ w = durable.version
        OBVIOUS
      <4> QED
        BY <1>1, <1>3, <3>2, <4>1, DurableSound
    <3> QED
      BY <1>1, <3>1, <3>2
  <2>3. durable'.version \in 0..11
    BY <1>1, <1>5, Heads DEF SchemaInv, Ranges
  <2>4. Ranges'
    BY <1>1, <1>5, <2>3, Heads DEF SchemaInv, Ranges
  <2> QED
    BY <2>1, <2>2, <2>4 DEF Kept
<1>6. live'.tables = tb2
  BY <1>2
<1>7. Silent(s) => live'.version = v
  BY <1>2 DEF Silent
<1>8. CASE proc = "creating"
  <2>1. AllPlain(q) /\ q # << >>
    BY <1>1, <1>2, <1>8 DEF SchemaInv, Course
  <2>2. Plain(s) /\ AllPlain(Tail(q))
    BY <1>2, <2>1, AllPlainTail
  <2>3. Sound(tb2, v) /\ Silent(s)
    BY <1>2, <1>3, <2>2, SoundPlain DEF Silent
  <2>4. Kept' /\ Ranges'
    BY <1>4, <1>5, <1>6, <1>7, <2>3
  <2>5. Course'
    BY <1>1, <1>2, <1>8, <2>2 DEF Course
  <2> QED
    BY <2>4, <2>5 DEF SchemaInv
<1>9. ASSUME NEW w \in 0..11, Underway(q, v, w, tb)
      PROVE  /\ Kept' /\ Ranges'
             /\ \/ live'.version = v /\ Underway(todo', v, w, live'.tables)
                \/ live'.version = w /\ todo' = << >>
  <2>1. Advances(q, v, w, tb2)
    BY <1>2, <1>3, <1>9, UnderwayAdvances
  <2>2. CASE Silent(Head(q)) /\ Sound(tb2, v) /\ Underway(Tail(q), v, w, tb2)
    <3>1. live'.version = v
      BY <1>2, <1>7, <2>2
    <3>2. Kept' /\ Ranges'
      BY <1>4, <1>5, <1>6, <2>2, <3>1
    <3> QED
      BY <1>1, <1>2, <1>6, <2>2, <3>1, <3>2
  <2>3. CASE Head(q) = Record(w) /\ Sound(tb2, w) /\ Tail(q) = << >>
    <3>1. live'.version = w
      BY <1>2, <2>3 DEF Record
    <3>2. Kept' /\ Ranges'
      BY <1>5, <1>6, <1>9, <2>3, <3>1
    <3> QED
      BY <1>1, <1>2, <2>3, <3>1, <3>2
  <2> QED
    BY <2>1, <2>2, <2>3 DEF Advances
<1>10. CASE proc = "upgrading"
  <2>1. v < target /\ Underway(q, v, v + 1, tb)
    BY <1>1, <1>2, <1>10 DEF SchemaInv, Course
  <2>2. PICK w : w = v + 1 /\ w \in 0..11
    BY <1>4, <2>1
  <2>3. /\ Kept' /\ Ranges'
        /\ \/ live'.version = v /\ Underway(todo', v, w, live'.tables)
           \/ live'.version = w /\ todo' = << >>
    BY <1>9, <2>1, <2>2
  <2>4. Course'
    <3>1. CASE live'.version = v /\ Underway(todo', v, w, live'.tables)
      <4>1. /\ live'.version <= target' /\ live'.version < target'
            /\ Underway(todo', live'.version, live'.version + 1, live'.tables)
        BY <1>1, <1>4, <2>1, <2>2, <3>1
      <4> QED
        BY <1>1, <1>10, <4>1 DEF Course
    <3>2. CASE live'.version = w /\ todo' = << >>
      <4>1. live'.version <= target'
        BY <1>1, <1>4, <2>1, <2>2, <3>2
      <4> QED
        BY <1>1, <1>10, <3>2, <4>1 DEF Course
    <3> QED
      BY <2>3, <3>1, <3>2
  <2> QED
    BY <2>3, <2>4 DEF SchemaInv
<1>11. CASE proc = "downgrading"
  <2>1. v > target /\ Underway(q, v, v - 1, tb)
    BY <1>1, <1>2, <1>11 DEF SchemaInv, Course
  <2>2. PICK w : w = v - 1 /\ w \in 0..11
    BY <1>4, <2>1
  <2>3. /\ Kept' /\ Ranges'
        /\ \/ live'.version = v /\ Underway(todo', v, w, live'.tables)
           \/ live'.version = w /\ todo' = << >>
    BY <1>9, <2>1, <2>2
  <2>4. Course'
    <3>1. CASE live'.version = v /\ Underway(todo', v, w, live'.tables)
      <4>1. /\ live'.version >= target' /\ live'.version > target'
            /\ Underway(todo', live'.version, live'.version - 1, live'.tables)
        BY <1>1, <1>4, <2>1, <2>2, <3>1
      <4> QED
        BY <1>1, <1>11, <4>1 DEF Course
    <3>2. CASE live'.version = w /\ todo' = << >>
      <4>1. live'.version >= target'
        BY <1>1, <1>4, <2>1, <2>2, <3>2
      <4> QED
        BY <1>1, <1>11, <3>2, <4>1 DEF Course
    <3> QED
      BY <2>3, <3>1, <3>2
  <2> QED
    BY <2>3, <2>4 DEF SchemaInv
<1> QED
  BY <1>1, <1>8, <1>10, <1>11 DEF Running, Commands

LEMMA FailStatementKeeps ==
  ASSUME SchemaInv, FailStatement
  PROVE  SchemaInv'
<1>1. /\ installation' = installation /\ engine' = engine
      /\ deployment' = deployment /\ target' = target
      /\ crashes' = crashes /\ commands' = commands
      /\ durable' = live \/ durable' = durable
      /\ live' = durable' /\ todo' = << >> /\ proc' = "down"
  BY DEF FailStatement, setting
<1>2. Kept'
  BY <1>1, KeptIsSound DEF SchemaInv
<1>3. Ranges'
  BY <1>1 DEF SchemaInv, Ranges
<1> QED
  BY <1>1, <1>2, <1>3 DEF SchemaInv, Course

LEMMA FinishKeeps ==
  ASSUME SchemaInv, FinishCommand \/ FinishCreation
  PROVE  SchemaInv'
<1>1. /\ installation' = installation /\ engine' = engine
      /\ deployment' = deployment /\ target' = target
      /\ crashes' = crashes /\ commands' = commands
      /\ durable' = live /\ live' = live /\ todo' = << >>
      /\ proc' \in {"starting", "down", "up"}
  BY DEF FinishCommand, FinishCreation, setting
<1>2. Kept'
  BY <1>1, KeptIsSound DEF SchemaInv
<1>3. Ranges'
  BY <1>1 DEF SchemaInv, Ranges
<1> QED
  BY <1>1, <1>2, <1>3 DEF SchemaInv, Course

LEMMA StartAPIKeeps ==
  ASSUME SchemaInv, StartAPI
  PROVE  SchemaInv'
<1>1. /\ installation' = installation /\ engine' = engine
      /\ deployment' = deployment /\ target' = target
      /\ crashes' = crashes /\ commands' = commands
      /\ durable' = durable /\ live' = live
  BY DEF StartAPI, setting
<1>2. \/ proc' \in {"up", "down"} /\ todo' = << >>
      \/ proc' = "creating" /\ todo' = CreateAll
  BY DEF StartAPI
<1>3. AllPlain(CreateAll)
  BY CreateAllPlain
<1>4. Kept'
  BY <1>1, KeptIsSound DEF SchemaInv
<1>5. Ranges'
  BY <1>1, <1>2 DEF SchemaInv, Ranges, Running, Commands
<1> QED
  BY <1>2, <1>3, <1>4, <1>5 DEF SchemaInv, Course, Running, Commands

LEMMA CrashKeeps ==
  ASSUME SchemaInv, Crash
  PROVE  SchemaInv'
<1>1. /\ installation' = installation /\ engine' = engine
      /\ deployment' = deployment /\ target' = target
      /\ crashes < MaxCrashes /\ crashes' = crashes + 1 /\ commands' = commands
      /\ durable' = durable /\ live' = durable /\ todo' = << >> /\ proc' = "down"
  BY DEF Crash, setting
<1>2. Kept'
  BY <1>1, KeptIsSound DEF SchemaInv
<1>3. Ranges'
  BY <1>1, SchemaBounds DEF SchemaInv, Ranges
<1> QED
  BY <1>1, <1>2, <1>3 DEF SchemaInv, Course

LEMMA SchemaStays ==
  ASSUME SchemaInv, [SchemaNext]_vars
  PROVE  SchemaInv'
<1>1. CASE StartContainer
  BY <1>1, StartContainerKeeps
<1>2. CASE BeginRevision
  BY <1>2, BeginRevisionKeeps
<1>3. CASE Execute
  BY <1>3, ExecuteKeeps
<1>4. CASE FailStatement
  BY <1>4, FailStatementKeeps
<1>5. CASE FinishCommand \/ FinishCreation
  BY <1>5, FinishKeeps
<1>6. CASE StartAPI
  BY <1>6, StartAPIKeeps
<1>7. CASE Crash
  BY <1>7, CrashKeeps
<1>8. CASE \E t \in Legacy..HeadVersion : RunCommand(t)
  BY <1>8, RunCommandKeeps
<1>9. CASE UNCHANGED vars
  <2>1. /\ installation' = installation /\ engine' = engine
        /\ deployment' = deployment /\ live' = live /\ durable' = durable
        /\ proc' = proc /\ target' = target /\ todo' = todo
        /\ crashes' = crashes /\ commands' = commands
    BY <1>9 DEF vars, setting
  <2>2. Kept'
    BY <2>1, KeptIsSound DEF SchemaInv
  <2>3. Ranges'
    BY <2>1 DEF SchemaInv, Ranges
  <2>4. Course'
    BY <2>1 DEF SchemaInv, Course
  <2> QED
    BY <2>2, <2>3, <2>4 DEF SchemaInv
<1> QED
  BY <1>1, <1>2, <1>3, <1>4, <1>5, <1>6, <1>7, <1>8, <1>9
     DEF SchemaNext, CommandStep

\* In every state the tables are sound, as seen by the migrating connection and
\* as committed, and the rest of a revision fits them.
THEOREM SchemaIsSound == FairSchemaSpec => []SchemaInv
<1>1. SchemaInit => SchemaInv
  BY SchemaStarts
<1>2. SchemaInv /\ [SchemaNext]_vars => SchemaInv'
  BY SchemaStays
<1> QED
  BY <1>1, <1>2, PTL DEF FairSchemaSpec

LEMMA SoundResolves ==
  ASSUME NEW tb, NEW v, Sound(tb, v)
  PROVE  Resolves(tb)
BY DEF Sound, Shaped, Complete, Resolves

\* The types, and that foreign keys and the ids in the memberships lead to what
\* is there, after any statement of any revision of alembic/versions, on either
\* engine and wherever one was cut off.
THEOREM SchemaIsTyped == FairSchemaSpec => []SchemaTypeOK
<1>1. SchemaInv => SchemaTypeOK
  <2> SUFFICES ASSUME SchemaInv
               PROVE  SchemaTypeOK
    OBVIOUS
  <2>1. Resolves(live.tables) /\ Resolves(durable.tables)
    BY SoundResolves DEF SchemaInv, Kept
  <2> QED
    BY <2>1 DEF SchemaInv, Ranges, SchemaTypeOK
<1> QED
  BY <1>1, SchemaIsSound, PTL

\* The accounts and the memberships of the older release are in the committed
\* tables, whatever alembic upgrade or downgrade was interrupted or failed.
THEOREM NothingIsLost == FairSchemaSpec => []NothingLost
<1>1. SchemaInv => NothingLost
  BY DEF SchemaInv, Kept, Sound, UsersKept, MembersKept, NothingLost
<1> QED
  BY <1>1, SchemaIsSound, PTL
=============================================================================
