-------------------------- MODULE MCSchemaUpgrade --------------------------
(***************************************************************************)
(* Instances of SchemaUpgrade for TLC.  Users and companies of the older   *)
(* release are the numbers 1 and 2.                                        *)
(***************************************************************************)
EXTENDS SchemaUpgrade, TLC

\* One permission all default roles have and one that only the Owner has.
TwoPermissions ==
  [name \in {"Owner", "Administrator", "Viewer"} |->
     IF name = "Owner" THEN {"company.read", "company.delete"}
                       ELSE {"company.read"}]

Member(u, c, level, closed) ==
  [user |-> u, company |-> c, user_level |-> level, closed |-> closed]

\* A user with a level and one without, in the same or in two companies, or one
\* user in both, one membership ended.
SomeMembers ==
  {{}, {Member(1, 1, "Owner", FALSE), Member(2, 1, Null, FALSE)},
   {Member(1, 1, "Owner", FALSE), Member(2, 2, "Owner", FALSE)},
   {Member(1, 1, "Owner", TRUE), Member(1, 2, Null, FALSE)}}

\* Both companies have an Owner role, one of them closed or not.
SomeRoles ==
  {{}} \cup
  {{[company |-> 1, name |-> "Owner", closed |-> k],
    [company |-> 2, name |-> "Owner", closed |-> FALSE]} : k \in BOOLEAN}

\* No database, one that nobody has used, and ones with rows.
SomeInstallations ==
  {Null, [users |-> {}, companies |-> {}, roles |-> {}, members |-> {}]} \cup
  [users : {{1, 2}}, companies : {{1, 2}}, roles : SomeRoles,
   members : SomeMembers]

\* Where the entrypoint migrates there is never nothing for the API to make.
Migrating == [migrate : {TRUE}, create : {TRUE}]
AnyDeployment == Migrating \cup [migrate : {FALSE}, create : BOOLEAN]
=============================================================================
