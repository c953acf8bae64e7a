# Verification of userverse

userverse is a FastAPI service with a relational database: user accounts and
their sessions, companies with members and roles, permissions, and an offline
command that makes the first superuser. This directory holds TLA+ models of its
core, TLC configurations that check them on small instances, and theorems about
them that TLAPS proves for every instance.

All paths below are relative to the repository; `app/` is the service.

## The system

### How it runs

The endpoints are synchronous functions, so FastAPI runs them in a pool of
threads. Each request gets a session of its own
(`app/repository/database/session_manager.py`, `get_session`), with
`expire_on_commit=False`, which is rolled back when the request fails. No
handler locks a row, and the session keeps objects it has loaded until it
commits or drops them. Requests therefore interleave at every database round
trip, and a request commits what it computed from rows it loaded before. That is
the main difficulty of the system, and the unit of the models: **an action is
one round trip of one request**, from one query or commit up to the next.

### Components

| Component | State | Operations | Hard behaviour |
|---|---|---|---|
| Accounts and sessions: `services/user/*`, `repository/user.py`, `repository/user_password.py`, `repository/base.py`, `api/security/jwt.py` | `user` rows; status, token version and reset record are keys of one JSON column; signed tokens are held by clients | register, verify, resend, log in, refresh, revoke, request a reset, reset by pin or by link, update the profile, delete | lost updates of the JSON column, statuses and versions read before they are used, two commits for one registration |
| Initial superuser: `services/superuser_bootstrap.py`, `cli/admin.py` | `user.is_superuser`, the control row, the audit event | look up, confirm, promote | several operators, the service writing the same user row, the time between prompt and lock |
| Company access: `services/company/{authorization,role,user}.py`, `services/permission.py`, `repository/{company_role,company_user,permission}.py` | seven tables that say who may do what in which company | members, roles of companies, the catalogue of roles, permissions, platform roles | checks in one query and writes in another, rows closed but not deleted, tables that no foreign key ties together |
| Company provisioning: `repository/company.py` | `company` and the default roles | create, update, delete | four commits in a row; default roles made on demand |
| Permission catalogue: `repository/permission.py`, `services/permission.py` | `global_permission` | create, rename, delete, seed | the system's permissions are found by id and by name, in a table superusers write; seeding at the same time as company creation |
| Rate limiters: `utils/rate_limiter.py` | queues of times, under a lock | hit, reset | time read before the lock; three windows hit in turn |
| Mail delivery: `email/sender.py`, `services/mailer.py` | none that lasts | send with retries and backoff | replies that are lost, retries after an unknown outcome, errors while an error is handled |
| Migrations: `alembic/`, `docker-entrypoint.sh` | the schema, its rows and the recorded version | upgrade, downgrade, start | MySQL commits each DDL statement: a crash leaves half a revision, and the container starts again |
| Startup check: `repository/database/session_manager.py` | none | compare tables and columns | sees whatever a migration has committed so far |
| Routers, models, pagination, settings, middleware, logging | none | | |

They interact through the tables and nothing else. The accounts feed company
access through `user._closed_at` and `user.is_superuser`; the command writes the
row that logins and resets write; provisioning calls the repositories of company
access and reads the catalogue of permissions. The entrypoint runs the
migrations before it starts the API. There are no callbacks or queues between
them; background mail is sent after the commit it belongs to.

What makes each correct: a session ends when the service says so, and nobody
gets a token without verification (accounts); one audited superuser, the one
confirmed (superuser); only members and superusers change a company, nothing
crosses from one company to another, and a role taken away leaves nothing behind
(access); a creation that is answered is complete (provisioning); a mail that
was not handed over is reported, and a password goes out encrypted (mail); no
account or membership is lost on the way to the head, whatever dies (migrations).
The hazards behind each are listed with their lines in `PROJECT.json`.

## Modules

### AccountSessions

`account[u]` is the row of the user table for one e-mail address, reduced to
what the properties tell apart: whether it exists and is closed, the password (a
number: the n-th that anybody chose) and whether it is hashed, and the three
keys of `primary_meta_data`. `req[r]` holds the local variables of a request
(the row it loaded among them) and `pc[r]` where it is.

| Actions | Code |
|---|---|
| `CreateCheck`, `Insert`, `Load`, `CommitCreate` | `UserRepository.create_user` and its two commits |
| `VerifyCheck`, `Load`, `CommitVerify` | `verify_user_account`, `update_user_status` |
| `LoginCheck`, or `LegacyCheck`, `Rehash`, `LegacyStatus`; `Load`, `CommitVersion`, `LoginRespond` | `user_login`, `get_user_by_email`, `increment_refresh_token_version`, `sign_jwt` |
| `RefreshCheck`, `RefreshSign` | `refresh_user_token`, `JWTManager.refresh_token` |
| `RevokeCheck`, `Load`, `CommitVersion`, `RevokeRespond` | `revoke_refresh_token` |
| `RequestLoad`, `CommitRequest` | `request_password_reset` |
| `OtpOpen`, `OtpVerify`, `Load`, `CommitReset` | `validate_otp_and_change_password` |
| `MagicScan`, `CommitReset` | `reset_password_with_token` |
| `Authenticated`, `Load`, `CommitProfile` or `CommitDelete` | `update_user`, `delete_user` behind `get_current_user_from_jwt_token` |
| `ResendLink`, `ResetExpires`, `Abort` | mailing the link again, the passing of `expires_at`, a request that dies |

`Flush` is what a commit of the JSON column does to the stored row: SQLAlchemy
sends the columns that changed, and the JSON column is one column. `Load` is
where an object enters the identity map; the magic link keeps the object that
its scan returned, while a login or a pin loads the row again. An access and a
refresh token signed together carry the same claims, so a pair is one record;
`session` in it is the login it descends from, known to the model only, and
`ended` collects the sessions that an answered login or revocation ended.

`SessionStore` is what the account promises about its logins: one is alive at a
time, and one that is over stays over. `AccountRefinement` maps to it: a login
is alive while a pair that descends from it is accepted (`Alive`), so every
commit must open a login, end all of them, or change nothing a token shows.

### SuperuserBootstrap

Extends AccountSessions with the operators. `Candidate`, `Decline` and `Confirm`
are the prompt of `cli/admin.py`; `LockControl`, `ControlMissing`, `Decide`,
`Refuse` and `Promote` are the transaction of `bootstrap`. The UPDATE of the
control row is the lock: `lock` names the transaction that holds it. `Decide`
reads the user row, `Promote` is the commit, and any request of the service may
come between. Addresses that differ only in letter case are distinct in the user
table and equal to the command: `MailboxOf` says which ones. `Demote` is
external: somebody with access to the database clears the flag, which the last
check of a repeated bootstrap is there for. With `CommandMayDie` a command is
killed, or loses its connection, at any step of it: its transaction is rolled
back and the lock with it, and the operator may begin again.

### CompanyAccess

One variable per table. A request is authorised (`Authorise`, with `MayAct` for
`CompanyAuthorizationService.require`), reads what its handler reads (`Check`, or
`Refuse`; one `May...` operator per endpoint), and commits (`Commit...`). The
reads after authorisation are one step: each is of rows that the commit's own
constraints or the other requests' commits decide about, and no property
distinguishes their order. `enabled` is `company_role`, `member` is
`association_user_company`, `granted` is `role_global_permission` restricted to
system permissions, `owner` and `attached` are `company_permission` and
`company_role_permission`, and `platform` is `user_role`. Closed rows keep their
keys, so an insert that meets one fails and changes nothing. `GivenNames` bounds
the names that requests may give to roles. `CommitUpdate` and
`CommitReassign` write only memberships whose role differed when they were
loaded (`Links`), as the mapped objects do.

`TenantRecords` is what the records of the companies promise whatever the
requests have read: a closed record is never opened again, a member is admitted
once and to a role the company knows, a permission never changes its owner, and
a link joins a role and a permission of one company. It has none of the checks,
requests or actors. `AccessRefinement` maps four tables of CompanyAccess to it by
name.

### CompanyProvisioning

Extends CompanyAccess with `POST /company`, one action from each commit to the
next: `InsertCompany`, `FindRoles` and `CommitRoles` (`_ensure_default_roles` and
`seed_new_default_roles`), `EnableRoles`, `AdmitFounder` and `CommitFounder`
(`add_user_to_company`, which looks the Owner role up by its name again).
`draft[k]` holds the local variables of a creation. `CreationFails` is an error in
any of them: the code rolls back the open transaction and nothing before it.
`disturbed` and `halfMade` are history: which creations others got in the way of,
and under which circumstances one failed after its first commit. A company stands
for its e-mail address, whose unique key also covers closed companies (`made`).
The queries for the three default names are one step, as are the inserts of the
one transaction that creates them.

`catalogue` is `global_permission`: the name each id has, or none. `CreatePermission`,
`RenamePermission` and `DeletePermission` are what superusers may do to it, and
`Reserved` is the conflict that `_resolve_definition` looks for before a default
role is seeded: `FindRoles` looks for it (`refused` keeps the answer) and
`CommitRoles` again, as the flush of its inserts meets the unique name. A creation
starts from a migrated database, where the system permissions exist, or from one
that `DB_AUTO_CREATE` made, where they do not (`migrated`). `OwnIds` are the ids
of the superusers' own permissions.

### RateLimiter

The limits on password-reset and verification mails. `events` are the queues of
the three windows that `check` hits in turn, `call[t]` is where a thread is and
the clock it has read. `ReadClock` is the `time.time()` before the lock,
`LetThrough` and `Refuse` are what happens under it, so threads take the lock in
any order. `Pruned` drops the front of a queue as `_prune` does. A missing entry
of the dictionary is an empty queue. `log` is history: all hits let through.

### MailDelivery

One call of `deliver_email`. `Mode` is how the flags and the port decide about TLS;
`Connect`, `StartTLS`, `Login` and `Send` are the stages of an attempt, each of
which may raise; `Leave` is the end of the `with` block, where smtplib sends QUIT
and a bad reply replaces the return or the exception under way; `Catch` is the
`except` clauses, of which `Outcome` says what follows: another attempt after
`Backoff`, the console, or an exception for the caller. Exceptions are reduced to
the clause that takes them. The server is external: what a stage may raise is the
union of what smtplib, ssl and socket raise there, and a mail may be accepted and
its reply lost. `Login` is one call of smtplib's `login()`, which tries CRAM-MD5,
PLAIN and LOGIN, as far as the server offers them, and raises a refusal only when
the last one is refused: the credentials go out up to `Mechanisms` times, `denied`
counts the logins that all of them were refused in. `accepted`, `unlearned`,
`logins` and `badQuits` are history, kept at the server.

### SchemaUpgrade

The eleven revisions as programs: sequences of statements on `tb`, a function from
the names of the tables that exist to the columns and keys some revision cares
about, the tables they refer to, and their rows. `Outcomes` is what a statement
makes of the tables, the empty set if the database refuses it: a table that is
missing or there already, a column that is read and not there, a drop of a table
others refer to. Two refusals are MySQL's own: `DroppingKey` is refused for the two
indexes of the chain, each the only one a foreign key of its table can use, and
`TakesUuidText` is false there where rows get new ids. 4f9d2f8f6c13 and a4e8c1b7d2f9
write `str(uuid4())`, 36 characters, to tables they have reflected; a `sa.Uuid()`
column is `uuid` on PostgreSQL, which takes the text, and `CHAR(32)` on MySQL, which
in its default strict mode does not. The rows are those of the older release
(revision 9e858906b135), users, companies, roles and memberships, with other ids
after 4f9d2f8f6c13 and one role for each name after a4e8c1b7d2f9 (`FoldRoles`; the
read it copies from has no order, so whichever row comes first gives the closing
date). That revision looks up the role of every membership by its company and name
and fails where there is none (`CanFold`).

`live` is what the connection of Alembic sees and `durable` what is committed. On
PostgreSQL the command is one transaction and commits at its end
(`FinishCommand`); on MySQL every DDL statement commits itself and what was
written before it, even if it fails (`Execute`, `FailStatement`), and the version
is recorded after the last statement. `Crash` loses what was not committed;
`StartContainer` is the entrypoint, run again after every end of the container;
`RunCommand` is somebody who runs `alembic upgrade` or `downgrade` to some revision
by hand. `StartAPI` is the comparison of `_table_state`, after which the API
comes up, the container ends, or, with `DB_AUTO_CREATE` and no tables, the API makes
its own (`CreateAll`). `deployment` is `RUN_MIGRATIONS` and `DB_AUTO_CREATE`:
`docs/migrations.md:15` runs the replicas of the API without the former.

### MC modules and proof modules

The modules whose name begins with MC add only the constants and symmetries of
the runs. The modules whose name ends in Proofs hold the theorems about the module
they are named after and the lemmas these rest on. Those about requests that do not
overlap are in `AccountRefinementProofs`, with the refinement of `SessionStore`, and
in the last parts of `CompanyAccessProofs`, with that of `TenantRecords`.

## Runs

| Run | Asks | Bounds |
|---|---|---|
| `account_serial` | Do requests that do not overlap end the sessions they say they end, spend a token once, and implement `SessionStore`? | one thread, one user with an old password, one token of each kind, 4 versions, 3 logins, 3 passwords |
| `account_races` | What holds however two requests overlap? | two threads, one new user, one login, 2 passwords |
| `bootstrap` | Is there one audited superuser, whatever two operators and the service do and whenever a command dies, and does every command and every registration come to its end? | two operators, one thread, two addresses of one mailbox, one of them an old superuser's |
| `access_serial` | Members, roles, permissions and companies without overlap | one company, two users, two roles, one company permission, every operation but renaming and creating a role on its own |
| `access_tenants` | What holds across companies however two requests overlap, and do the tables implement `TenantRecords`? | two companies, two users, two roles, one permission, seven operations |
| `company_creation` | Is an answered creation complete, does one fail only because of others, do the system's permissions keep their names, and is what was taken from a role not given back? | two creations of two companies, one request of a superuser and the catalogue beside them, three roles, one permission of the system's and one id for another |
| `rate_limits` | Does a window keep its limit, and refuse only for hits it let through, whatever the order of clocks and locks? | two threads, one key of each kind with limits 3, 2 and 1, a window and a delay of 1, time up to 3 |
| `mail_delivery` | Is a mail handed over or its failure reported, once, encrypted, and in the end? | 3 attempts, every setting of flags and fields, ports 25, 465, 587 and 2525 |
| `schema_upgrade` | Does the chain keep every account and membership, and does the API come up, and only on a complete database? | both engines, containers that migrate, that make tables, or neither, 2 crashes, 2 commands by hand, no database, one without rows, or 2 users and 2 companies with up to 2 roles and 2 memberships |
| `account_ended` | Violation: does the session guarantee survive overlapping requests? | two threads, one user |
| `access_withdrawn` | Violation: does a member always have an enabled role when two requests overlap? | one company, two threads |
| `schema_crash` | Violation: does a database recorded at the head have the tables of the head? | MySQL, one crash, no commands |

Why the bounds are enough. A request touches the row of one user, so users are
independent in AccountSessions and one is enough; the command compares addresses, so
it gets two. Every property that fails under overlap fails with two requests; a
third adds interleavings of the same pairs. Two companies are enough for something
to cross from one to the other. A version may be incremented as often as the bounds
allow logins and revocations, and the properties compare versions only for equality
with older ones. Three roles are enough for the three default names, as a deleted
role keeps its name and no fresh one can take it: in `company_creation` requests
delete roles, take links away and add members, and none renames or creates a role.
One id is enough for a permission to take a name of the system's, since any one such
name is the conflict. Creations then assign roles to companies of their own, so the
case that a role is already assigned does not occur there; it needs an `assign` that
overtakes the creation. In `rate_limits` time passes the end of the window twice and
a delay is as long as the window. Nothing calls `deliver_email` with more than one
attempt today; three let an attempt in the middle be preceded and followed by
others, and the four ports cover each way the mode is inferred. In `access_tenants`
nothing is closed but permissions: no role is unassigned and no member removed,
since two companies and two threads with those requests do not fit. What holds when
they overlap is proved (`MemberRolesWereEnabled`, `AccessImplementsRecords`), and
what does not is in `access_withdrawn`. Two crashes let the second one hit what the
first one's restart is repairing, and two commands let a downgrade be followed by an
upgrade or another downgrade. Two companies that have a role of one name, open or
closed, are what the folding of roles decides about.

Deadlock is checked in `access_tenants` and `access_withdrawn`. Elsewhere the bounds
on versions, passwords, sessions and tokens, the closing of every account, or the
end of the one call stop the system, which the real one does not.

What they show. The safety that the code intends **for one request at a time**
holds: `EndedStaysEnded`, `ImplementsStore`, `SpentTokenCleared`,
`MemberRoleEnabled`, `OnlyMembersAct`, `NoOrphanLink`, `ClosedRoleIsBare`. Under
overlap the ones that rest on a single commit, a primary key or a foreign key
survive: `VerifiedBeforeToken`, `DeletedStaysDeleted`, `PasswordNeverReverts`,
`LinksWithinTenant`, `MemberRoleWasEnabled`, `StrangersChangeNothing`,
`ImplementsRecords` and all of the bootstrap's record keeping, which commands that
die do not disturb either.

`company_creation` shows that a creation that is **answered** is complete
(`AnsweredIsComplete`) and gives nothing back (`LinksNotRestored`, the promise of
`docs/role-permission-guide.md:138`), and also what the code does not promise: a
creation that fails after its first commit leaves a company without members,
whose address is taken. `FailsOnlyWhenDisturbed` says when: if another request
changed roles or members meanwhile (two first companies at once are enough), or
if a default role was deleted, which `delete_role` lets a superuser do. `NameLost`
is then true for good and no company can be created any more. In a database that
was not migrated the same follows from a superuser's own permission with a name of
the system's, made before the first company (`~migrated /\ h.reserved`). After
the migrations it cannot: their names are taken and protected
(`SystemPermissionsHold`).

`rate_limits` shows that reading the clock before the lock costs no more than
the delay itself: the limit of the last window holds without any bound on the
delay (`InWindow`), and a refusal may be owed to hits older than the window by at
most the delay (`RefusedForCause`; without the delay it is violated).

`mail_delivery` shows that a caller who sees no exception may rely on the mail
having been accepted or shown, and that duplicates are bounded by the replies that
were lost. It shows too where the code is less strict than it looks. Only a login that
every mechanism refused is the last of the call, and it is tried again if the
server then answers QUIT badly, since that error takes the place of the refusal
(`RefusedLoginIsLast` says so). A refusal by one mechanism is no end: the next one
sends the same password, and so does the next attempt if the connection breaks in
that one or, after it was accepted, in `send_message`. With neither flag on another
port than 25, 465 and 587 the password goes out in the clear (the premise of
`PasswordOnlyOverTLS`).

`schema_upgrade` shows that on PostgreSQL nothing can go wrong for good. On MySQL
an installation with a single account or company is never taken over, though
nothing is interrupted: `APIComesUp` states that the API does not come up there,
against `docs/migrations.md:3` ("every schema change must work on both production
engines"). 4f9d2f8f6c13 writes `str(uuid4())`, 36 characters, to the tables it has
just made and reflected, whose columns are `CHAR(32)`; the insert fails, the
temporary tables stay, and each restart fails on the first of them. a4e8c1b7d2f9
writes the ids of roles in the same way. The tests of the chain run on SQLite, and
`.github/workflows/docker-smoke.yml:110` migrates an empty MySQL database. On a
MySQL database without rows a crash may leave tables no restart gets past, as what
an interrupted revision made is in its way (`APIComesUp` excepts that). In all
of this every account and membership stays in some table (`NothingLost`), and the
API, which compares tables and columns and not the version, stays down
(`OkIsComplete`), with one exception that takes a command by hand besides the
crash: where the API may make tables (`DB_AUTO_CREATE`, a setting for development)
and the container does not migrate, a database without accounts whose 4f9d2f8f6c13
died between its drops and its renames looks new, and the API comes up on tables of
its own beside the temporary ones.

Commands by hand can end badly as well. 4f9d2f8f6c13 makes the foreign key of the
roles without its name, so the downgrade of 9552b9fc884a after it always fails;
PostgreSQL takes the whole command back, MySQL only part of it. MySQL refuses the
`drop_index` with which the downgrade of d1e5f7a9b302 begins, so nothing goes below
that revision once it is applied. The downgrade of b7c2d4e6f809 meets the same error
after it has dropped `user_role`; the version stays, and a later upgrade reaches the
head without that table and the API refuses to start.

What they refute. Three statements of the code, the tests and the documents do
not hold:

* `account_ended`: `update_json_field` writes back the whole column, so a token
  version is lost or restored, and tokens that a login or revocation ended are
  accepted again (`tests/api/http/a_user/test_b_user_login_api.py:206` expects
  401). The promotion of the first superuser writes the version in the same way,
  against `docs/superuser-administration.md:85`.
* `access_withdrawn`: a role is unassigned while a member is being given it,
  against the answer at `app/repository/company_role.py:497`.
* `schema_crash`: on MySQL, the container of a new installation that dies between
  the renames of a4e8c1b7d2f9 is started again and passes over that revision, since
  `role` looks normalised already; it goes on to the head and records it, without
  `association_user_company` (`tests/database/test_migration_chain.py:47` lists
  that table), and the API refuses to start. It takes a database without rows,
  since with rows the chain does not get that far on MySQL.

## Fairness

Three runs assume any.

`bootstrap` (`FairBootSpec`): a thread that is not killed goes on to the next line
of its handler: weak fairness of `Continue` for each thread, with
`MayAbort = FALSE`. The prompt is answered and a started transaction goes on: weak
fairness for the operator's steps. The database queues the transactions that wait
for a row lock, so a waiting command gets it if it is given back again and again:
strong fairness of `LockControl`. No request is assumed ever to begin, and none is
killed; commands are. `NoLimboAccount` needs this: if the process dies between the
two commits of `create_user`, the account stays without a status for ever.

`mail_delivery` (`FairMailSpec`): weak fairness of the next step. Every read and
write of the socket has a timeout of three seconds, after which smtplib raises.

`schema_upgrade` (`FairSchemaSpec`): weak fairness of the command's next step and of
`StartContainer`, as `docs/production.md` runs the container with `--restart
unless-stopped`.

## What is proved

For every set of users, threads, tokens, operators, addresses, companies, roles
and permissions and for every bound, from the assumptions the modules state about
their constants (`UserAssumption`, `TokenAssumption`, `SettingAssumption`,
`BoundAssumption`; `OperatorAssumption`, `MailboxAssumption`, `PriorAssumption` of
the bootstrap; `RequestAssumption`, `UserAssumption`, `RoleAssumption`,
`SystemPermissionAssumption` of the companies, and `CreatorAssumption` of their
creation; `LimitAssumption` and `TimeAssumption` of the limiter; `RetryAssumption`
of the mail; `EngineAssumption`, `DeploymentAssumption`, `SchemaBounds`,
`NullAssumption` and `InstallationAssumption` of the migrations). TLC evaluates
each of them in a run. `InstallationAssumption` is what the schema of the older
release enforces: a membership has a user and a company that exist, a role a
company and a name.

### However requests overlap

| Theorem | Property | Argument |
|---|---|---|
| `AccountTypeCorrect` | `AccountTypeOK` | One lemma per group of actions. A request past its first step names a user: the type invariant is strengthened with that, or `account[req[r].user]` would be of no row. |
| `DeletedForGood` | `DeletedStaysDeleted` | No writer takes the flag from its copy: `Flush`, `WriteReset` and `WritePassword` keep the stored one; the only action that writes a whole row, `Insert`, does so where there is none, and a closed row exists. |
| `VerifiedFirst` | `VerifiedBeforeToken` | The status "Active" is kept in the table **and in the copies**: a stored or loaded row with status "Active" belongs to a verified user, and so does a request past the check of a login. Neither half is inductive without the other, as any writer of the column turns a copy into the stored row. |
| `PasswordsStayReplaced` | `PasswordNeverReverts` | `Newest`: the stored password of an account that never had an unhashed one is not newer than `lastPassword`, and a request about to hash one (`rehash`) is of another account. Every other writer keeps the stored column or puts the next number (`CommitPassword`). |
| `BootTypeCorrect` | `BootTypeOK` | With the step of each operator: a decided attempt has a target. |
| `OnePromotion` | `ControlRecordsPromotion` | Who is past the lock is who `lock` names, hence one operator; who has decided found the bootstrap not completed, and nobody else can complete it until he ends. |
| `NoUnauditedSuperuser` | `SuperuserAccounted` | The same invariant: whoever has decided saw no superuser, and only a promotion makes one. |
| `ConfirmedOnly` | `PromotedAsConfirmed` | The target of a decided attempt is the confirmed user. |
| `PromotedVerified` | `PromotedWasVerified` | Adds to the invariant of `VerifiedFirst` that a decided attempt's copy is of a verified user; the promotion is one more writer of the column. |
| `AccessTypeCorrect` | `AccessTypeOK` | With `Wellformed`: a request under way has the company, user, role and permission its endpoint takes, or a commit would write a row of none. |
| `LinksStayWithinTenant` | `LinksWithinTenant` | The foreign keys are checked as the link is inserted; `Persists` says that what they found stays: an assignment of a role is closed but never deleted, and a permission that is deleted takes its links along. |
| `MemberRolesWereEnabled` | `MemberRoleWasEnabled` | No foreign key ties a membership to `company_role`, so what the request has read must do: `Recorded` says that a role found enabled by a request under way is a row of the table still, open or closed. |
| `StrangersNeverChange` | `StrangersChangeNothing` | `Entitled`: the caller of a request past its authorisation is a superuser or has a row in the company's memberships. That outlives any overlap, being a member does not. |
| `AccessImplementsRecords` | `ImplementsRecords` | Commit by commit, from the same invariant: each is a move of `TenantRecords`, or leaves its four tables alone. |
| `ProvisioningTypeCorrect` | `ProvisioningTypeOK` | With the type invariant of CompanyAccess and `DraftsReal`: a creation that has passed a step has found what that step looks for. |
| `LinksStayRemoved` | `LinksNotRestored` | The links of a creation go to the roles its own transaction inserts, and an id that exists is never inserted. |
| `SystemPermissionsAlwaysHold` | `SystemPermissionsHold` | A permission of the system's is protected by its id and by its name, and a creation that finds a name taken is refused before it links anything. |
| `AnsweredAlwaysComplete` | `AnsweredIsComplete` | `RolesApart`: the three roles of a draft are distinct since they are found, or made, under three names; `RolesKnown`: what was enabled for the company stays a row of it (`RolesPersist`). |
| `CreationsFailOnlyWhenDisturbed` | `FailsOnlyWhenDisturbed` | `Undisturbed`: where nobody has got in the way, the roles and members of the company are as its creation left them (`AsLeft`) at each of its four commits. No other creation has its company (`CompaniesApart`) and no request changed it, so each step finds what it needs and the guard of `CreationFails` is false (`AloneComesThrough`). |
| `LimiterTypeCorrect` | `LimiterTypeOK` | With `CallNamed`: a check past its first step has a key. |
| `WindowHolds` | `InWindow` | `QueuesLeft`: a queue is the log of its key without its first entries, and all of those are older than the window. Pruning keeps that, since no thread's clock is ahead of the time (`ReadBefore`); then the recent hits are all in the queue, and it is no longer than the limit. |
| `RefusalsHaveCause` | `RefusedForCause` | `LoggedBefore`: a later entry of a log is not older than an earlier one by more than the delay. The front of a pruned queue is in the window, so all of it is, give or take the delay. |
| `MailTypeCorrect` | `MailTypeOK` | With `PlaceOK` (an exception is under way only on the way to its handler) and `RoomLeft` (what an attempt has not done yet can be counted once more, the credentials once for each mechanism). |
| `HandedOverOnce` | `ReturnMeansDelivered` | Inductive with `PlaceOK`: who returns comes from an accepted mail or has shown it. |
| `PasswordSecured` | `PasswordOnlyOverTLS` | `SecuredOK`: where TLS is wanted, no attempt is past its TLS stage on a plain connection. |
| `RefusalRespected` | `RefusedLoginIsLast` | `RefusalsOK`: a login refused in every mechanism, if no bad QUIT has hidden it, is the exception under way, or the call has raised. |

A step of the service is a step of AccountSessions that leaves the command's
variables alone, so SuperuserBootstrapProofs cites the lemmas of
AccountSessionsProofs and proves anew only what `Promote` does to the user row. In
the same way CompanyProvisioningProofs cites those of CompanyAccessProofs.

### Wherever a migration is cut off

For any set of installations of the older release with any number of rows, both
engines, and any number of crashes and of commands run by hand:

| Theorem | Property | Argument |
|---|---|---|
| `SchemaIsTyped` | `SchemaTypeOK` | From `SchemaIsSound`: what is live and what is durable are `Sound`. |
| `NothingIsLost` | `NothingLost` | The same: `Sound` of the durable tables. |

`SchemaIsSound` is the invariant `SchemaInv`. Its heart is `Sound(tb, v)`, of the
tables and the recorded version: each table of memberships is empty or has all of
them (`Complete`), refers to one table of users, one of companies and at most one of
roles (`RefersWell`), ids and emails determine each other (`Keyed`), and some table
has all the users and some all the memberships. `Sound` is not inductive by itself,
for two reasons. What a membership's columns mean depends on how far the chain is:
`AtVersion` says which of `user_level`, `role_name` and `role_id` there can be at a
recorded version, and that from 9552b9fc884a on every membership names a role that
is in the table. And a drop is harmless only at its place in the revision: the old
tables of 4f9d2f8f6c13 and a4e8c1b7d2f9 may go when what they had is in the new ones
(`Moved`), `user_level` when every membership has the name of its role. So `Underway`
says what is left of the revision at hand and, for the four revisions that move
memberships, what the tables are like after its first k statements (`LinkAt`,
`UnlinkAt`, `ChangeAt`, `NormalizeAt`); the statements of the others touch nothing that
matters (`AllPlain`). It is said of the live tables only: a command that ends, dies or
fails leaves nothing to do, and `Sound` alone carries over to the next, which begins
with whatever tables the last one left. That is why the cut may be anywhere, and why a
failure is no special case.

There is a lemma for each kind of statement and each write (what it does to any
`Sound` tables), one for each revision (its next statement takes `XAt(k)` to
`XAt(k + 1)` and keeps `Sound`), and one for each action. The copies of rows are where
the data matters: `KeyedMoved` and `CopiedMember` say that a copy under new ids, of
which none is given twice, stands for the same memberships, and `SoundFold` that the
catalogue has the role of every membership, which needs that names are not NULL.

### When requests do not overlap

What `account_ended` and `access_withdrawn` refute for requests that overlap is
proved for those that do not, with any number of users, companies and roles. The
hypothesis is part of the theorem.

For the accounts it is `[]OneAtATime`: requests **to one account** do not overlap.
There may be any number of threads, and requests to different accounts overlap as
they like; one thread, as in `account_serial`, is the special case. The invariant is
`AloneInv`.

| Theorem | Property | Argument |
|---|---|---|
| `EndedForGood` | `EndedStaysEnded` | `TokensBehind`: a pair never runs ahead of the version on record, and is behind it once its session is over. A commit of the version (`Follows`) raises what is stored and not an older copy, as `ReadsCurrent` says that a loaded row is the stored one. At the answer every pair of the account is behind, also those that were signed after the request began: there are none. |
| `SpentForGood` | `SpentTokenCleared` | `RecordsApart`: two users never have one reset token on record, and a mailed token is not mailed again, so the record that is cleared is the only one (`ResetMoves`). |
| `AccountImplementsStore` | `ImplementsStore` | A written row ends all logins of its account or is let in by the same tokens (`WritesEndLogins`), and an answered login finds none alive (`AnswerOpensLogin`). Neither a refresh nor a revocation adds anything to it (`RefreshAddsNothing`). |

For the companies it is `Serial`, one thread in all: two requests to one company
overlap through the catalogue of roles as well.

| Theorem | Property | Argument |
|---|---|---|
| `SerialMembersKeepRoles` | `MemberRoleEnabled` | `StillTrue`: what a checked request has found (`Served`) is so when it commits. Then a role is withdrawn only from a company where nobody has it, and given only where it is enabled. |
| `SerialLinksFollowRoles` | `NoOrphanLink` | The commits that close an assignment or a role delete its links in the same transaction. |
| `SerialClosedRolesAreBare` | `ClosedRoleIsBare` | The same of permissions and platform roles; a grant to a role that is closed meanwhile is what needs two requests. |
| `SerialOnlyMembersAct` | `OnlyMembersAct` | `StillEntitled`: who was let act is a member with an enabled role at the commit. |

### Only model-checked

* The liveness properties (`AttemptEnds`, `NoLimboAccount`, `DeliveryEnds`,
  `APIComesUp`), which the prover has no rules for.
* `OkIsComplete` of SchemaUpgrade. It is about everything the chain makes, the roles
  of the companies, the seeded permissions, the row of the control table, at the end
  of every sequence of ups, downs and failures, and its exceptions are about how the
  tables came to be what they are; `Sound` says nothing of those tables. The chain is
  one fixed program of some seventy statements, run through by TLC on both engines;
  what the run leaves open is how many rows an installation has.
* The three violations, which are counterexamples.

## What is left out

* Hashing, JWT encoding, clocks and random generation. Secrets and tokens are
  model values: equal or not, expired or not. Access tokens do not expire by
  themselves, which only makes more of them acceptable.
* Changes of name, phone number and address, and of the description of roles and
  permissions: columns that no property is about.
* Reads that change nothing, with the pagination of the listings.
* Rate limits in AccountSessions: every request is let through there, a superset
  of what happens; the limiter is a module of its own, as nothing else reads it.
* Clocks that are set back, and several processes, each of which has windows of
  its own.
* The address of a new company, `update_company`, and links of roles to permissions
  that are not the system's.
* The repository methods no service calls any more, which still write the tables
  of the schema before the role catalogue.
* Of the migrations: widths (but those of the new ids), defaults and nullability of columns, the collation
  MySQL compares names with, the downgrades below the older release, which drop
  its tables, the error of c9f4a6b8d210 on names that are taken, and the branches
  of one revision for tables a later release made. Several containers that
  migrate one database at once are not modelled; that the API of one may start
  beside the migration of another is, in `OkIsComplete`.
* Of the mail: the templates, the text of the message, and what becomes of the
  exception, which the services log or which ends a background task.
* The connection pool, and `create_database`, which makes a database without tables.
* Isolation inside one statement: a statement is atomic, as it is in the
  databases the service supports. Each sees what was committed before it, as under
  READ COMMITTED, the default of PostgreSQL; `create_engine` sets no level. MySQL's
  default is REPEATABLE READ, where a plain read sees what the first one of its
  transaction saw, so a request may work on reads older than in the models. That is
  not modelled. The transaction of the bootstrap is not affected by it: it begins
  with the locking UPDATE of the control row.

## Plan

The accounts and the access rules came first, as they are what the service is
for, then what is built on them (CompanyProvisioning) and beside them
(RateLimiter), then the abstract specifications, the migrations and the mail, and
with them the theorems above. What is left to prove is `OkIsComplete`: for PostgreSQL,
where only whole commands commit, from what the tables are at each recorded version;
for MySQL that an interrupted or failed revision leaves a table or column missing
until its last statement.

Every module takes its parameters as constants with named assumptions, one
action per operation, and no recursive operator, so that it can be proved about
as it stands.
