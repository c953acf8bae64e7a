-------------------------- MODULE AccountSessions --------------------------
(***************************************************************************)
(* The user table of the service and the HTTP requests that read and write *)
(* it: registration, e-mail verification, login, token refresh and         *)
(* revocation, the two kinds of password reset, the profile update and the *)
(* deletion of the account.                                                *)
(*                                                                         *)
(* FastAPI runs these synchronous endpoints in a thread pool, each with    *)
(* its own SQLAlchemy session, so requests interleave between their        *)
(* database round trips.  One action is one round trip.  The sessions are  *)
(* opened with expire_on_commit=False and the identity map keeps what a    *)
(* local variable still holds, so a request works on the row it loaded     *)
(* (req[r].row) until its commit; a commit sends only the columns the      *)
(* request changed, and the JSON column primary_meta_data is one column.   *)
(***************************************************************************)
EXTENDS Naturals

CONSTANTS
  Users,                \* one per e-mail address (the column is unique)
  Requests,             \* threads of the pool: one of them runs serially
  OtpTokens,            \* one-time pins that may be generated
  MagicTokens,          \* magic-link secrets that may be generated
  NoToken,              \* no password_reset key in the metadata
  NoUser,               \* no user attached to an idle thread
  LegacyUsers,          \* accounts with a password stored before hashing
  RequireVerification,  \* settings.REQUIRE_EMAIL_VERIFICATION
  MayAbort,             \* whether a request may die between two round trips
  MaxVersion,           \* bound on refresh_token_version
  MaxPassword,          \* bound on the number of password changes
  MaxSessions           \* bound on the number of logins

ResetTokens == OtpTokens \cup MagicTokens

ASSUME UserAssumption == LegacyUsers \subseteq Users /\ NoUser \notin Users
ASSUME TokenAssumption ==
  OtpTokens \cap MagicTokens = {} /\ NoToken \notin ResetTokens
ASSUME SettingAssumption ==
  RequireVerification \in BOOLEAN /\ MayAbort \in BOOLEAN
ASSUME BoundAssumption ==
  MaxVersion \in Nat /\ MaxPassword \in Nat /\ MaxSessions \in Nat

VARIABLES
  account,      \* the user table
  pc, req,      \* where each request is, and its local variables
  issued,       \* token pairs signed so far
  ended,        \* sessions a login or a revocation reported as ended
  linkSent,     \* users a verification link was mailed to
  verified,     \* users whose verification link was accepted
  mailed,       \* reset tokens mailed so far
  expired,      \* reset tokens past their expires_at
  spent,        \* reset tokens that changed a password
  lastPassword, \* number of the newest password chosen by anybody
  lastSession   \* number of the newest login

history == <<issued, ended, linkSent, verified, mailed, expired, spent,
             lastPassword, lastSession>>
vars == <<account, pc, req, history>>

-----------------------------------------------------------------------------
(* Types.                                                                  *)

Statuses == {"none", "Awaiting", "Active"}

\* status, version and reset are keys of the one column primary_meta_data.
Row == [exists : BOOLEAN, closed : BOOLEAN, password : Nat, hashed : BOOLEAN,
        status : Statuses, version : Nat, reset : ResetTokens \cup {NoToken}]

\* An access and a refresh token signed together; they carry the same claims.
\* session numbers the login the pair descends from, a ghost of the model.
TokenPair == [user : Users, version : Nat, session : Nat]

Ops == {"none", "create", "verify", "login", "refresh", "revoke", "request",
        "otp", "magic", "profile", "delete"}

Pcs == {"idle", "rehash", "opened", "checked", "inserted", "loaded",
        "committed"}

NoRow == [exists |-> FALSE, closed |-> FALSE, password |-> 0, hashed |-> TRUE,
          status |-> "none", version |-> 0, reset |-> NoToken]

Request == [op : Ops, user : Users \cup {NoUser}, row : Row,
            secret : ResetTokens \cup {NoToken}, session : Nat,
            version : Nat, prior : SUBSET Nat]

NoRequest == [op |-> "none", user |-> NoUser, row |-> NoRow,
              secret |-> NoToken, session |-> 0, version |-> 0, prior |-> {}]

AccountTypeOK ==
  /\ account \in [Users -> Row]
  /\ pc \in [Requests -> Pcs]
  /\ req \in [Requests -> Request]
  /\ issued \subseteq TokenPair
  /\ ended \subseteq Nat
  /\ linkSent \subseteq Users
  /\ verified \subseteq Users
  /\ mailed \subseteq ResetTokens
  /\ expired \subseteq ResetTokens
  /\ spent \subseteq ResetTokens
  /\ lastPassword \in Nat
  /\ lastSession \in Nat

-----------------------------------------------------------------------------
(* Reading the table.                                                      *)

\* The filter of _active_user_query.
IsOpen(u) == account[u].exists /\ ~account[u].closed

StatusAllowed(status) ==
  \/ status = "Active"
  \/ ~RequireVerification /\ status = "Awaiting"

\* get_current_user_from_jwt_token lets the access token of this pair in.
Accepts(t) ==
  /\ IsOpen(t.user)
  /\ t.version = account[t.user].version
  /\ StatusAllowed(account[t.user].status)

\* The stored reset record answers to this secret and has not expired.
ResetMatches(row, secret) ==
  /\ row.reset = secret
  /\ secret \in mailed \ expired

SessionsOf(u) == {t.session : t \in {p \in issued : p.user = u}}

-----------------------------------------------------------------------------
(* Writing the table.  row is the stored row, mine the row as the request  *)
(* loaded it.                                                              *)

\* Mutant of Flush: the UPDATE carries every column of the loaded row.
FlushWholeRow(row, mine) == mine

\* Mutant of Flush: the column is rebuilt without the keys of other handlers.
FlushOneKey(row, mine) ==
  [exists |-> row.exists, closed |-> row.closed, password |-> row.password,
   hashed |-> row.hashed, status |-> row.status, version |-> mine.version]

\* update_json_field: one key was changed in the loaded metadata, the column is
\* written back whole, and no other column is part of the UPDATE statement.
Flush(row, mine) ==
  [row EXCEPT !.status = mine.status, !.version = mine.version,
              !.reset = mine.reset]

\* Mutant of WriteReset: the reset record survives the change of password.
WriteResetKeepsRecord(row, mine, password) ==
  [Flush(row, mine) EXCEPT !.password = password, !.hashed = TRUE]

\* update_password: a new hash, and the metadata without the reset record.
WriteReset(row, mine, password) ==
  [row EXCEPT !.password = password, !.hashed = TRUE, !.status = mine.status,
              !.version = mine.version, !.reset = NoToken]

WritePassword(row, password) ==
  [row EXCEPT !.password = password, !.hashed = TRUE]

WriteClosed(row) == [row EXCEPT !.closed = TRUE]

-----------------------------------------------------------------------------
(* Moving a request along.                                                 *)

Goto(r, label) == pc' = [pc EXCEPT ![r] = label]

Begin(r, label, op, u) ==
  /\ pc[r] = "idle"
  /\ Goto(r, label)
  /\ req' = [req EXCEPT ![r] =
               [NoRequest EXCEPT !.op = op, !.user = u,
                                 !.prior = SessionsOf(u)]]

\* The request answered, failed, or its process died: the session is closed
\* and what was not committed is rolled back.
Finish(r) ==
  /\ Goto(r, "idle")
  /\ req' = [req EXCEPT ![r] = NoRequest]

Abort(r) ==
  /\ MayAbort
  /\ pc[r] # "idle"
  /\ Finish(r)
  /\ UNCHANGED <<account, history>>

-----------------------------------------------------------------------------
(* First round trip of each endpoint.  An endpoint refused here changes    *)
(* nothing, so only the branch that goes on is an action.                  *)

CreateCheck(r, u) ==
  /\ ~IsOpen(u)
  /\ lastPassword < MaxPassword
  /\ Begin(r, "checked", "create", u)
  /\ UNCHANGED <<account, history>>

\* The link names the e-mail address; an Active account is left alone.
VerifyCheck(r, u) ==
  /\ u \in linkSent
  /\ IsOpen(u)
  /\ account[u].status = "Awaiting"
  /\ Begin(r, "checked", "verify", u)
  /\ UNCHANGED <<account, history>>

\* Mutant of LoginCheck: the status is not looked at.
LoginCheckAnyStatus(r, u) ==
  /\ IsOpen(u)
  /\ account[u].hashed
  /\ Begin(r, "checked", "login", u)
  /\ UNCHANGED <<account, history>>

\* The password was right; one stored unhashed is hashed before going on.
LoginCheck(r, u) ==
  /\ IsOpen(u)
  /\ account[u].hashed
  /\ StatusAllowed(account[u].status)
  /\ Begin(r, "checked", "login", u)
  /\ UNCHANGED <<account, history>>

LegacyCheck(r, u) ==
  /\ IsOpen(u)
  /\ ~account[u].hashed
  /\ pc[r] = "idle"
  /\ Goto(r, "rehash")
  /\ req' = [req EXCEPT ![r] =
               [NoRequest EXCEPT !.op = "login", !.user = u,
                                 !.row = account[u], !.prior = SessionsOf(u)]]
  /\ UNCHANGED <<account, history>>

\* A login to an account waiting for verification is refused, but mails the
\* link again, and so does the endpoint made for it.
ResendLink(u) ==
  /\ RequireVerification
  /\ IsOpen(u)
  /\ account[u].status = "Awaiting"
  /\ linkSent' = linkSent \cup {u}
  /\ UNCHANGED <<account, pc, req, issued, ended, verified, mailed, expired,
                 spent, lastPassword, lastSession>>

RefreshCheck(r, t) ==
  /\ IsOpen(t.user)
  /\ StatusAllowed(account[t.user].status)
  /\ pc[r] = "idle"
  /\ Goto(r, "checked")
  /\ req' = [req EXCEPT ![r] =
               [NoRequest EXCEPT !.op = "refresh", !.user = t.user,
                                 !.version = t.version,
                                 !.session = t.session]]
  /\ UNCHANGED <<account, history>>

\* Any refresh token ever signed will do: its version is not compared.
RevokeCheck(r, t) ==
  /\ IsOpen(t.user)
  /\ Begin(r, "checked", "revoke", t.user)
  /\ UNCHANGED <<account, history>>

\* request_password_reset keeps the row it found until the commit.
RequestLoad(r, u, secret) ==
  /\ IsOpen(u)
  /\ secret \in ResetTokens \ mailed
  /\ pc[r] = "idle"
  /\ Goto(r, "loaded")
  /\ req' = [req EXCEPT ![r] =
               [NoRequest EXCEPT !.op = "request", !.user = u,
                                 !.row = account[u], !.secret = secret]]
  /\ UNCHANGED <<account, history>>

OtpOpen(r, u, secret) ==
  /\ IsOpen(u)
  /\ lastPassword < MaxPassword
  /\ pc[r] = "idle"
  /\ Goto(r, "opened")
  /\ req' = [req EXCEPT ![r] =
               [NoRequest EXCEPT !.op = "otp", !.user = u, !.secret = secret]]
  /\ UNCHANGED <<account, history>>

\* The scan over all open users returns the row itself, and the check and the
\* update that follow get the same object back from the identity map.
MagicScan(r, u, secret) ==
  /\ IsOpen(u)
  /\ lastPassword < MaxPassword
  /\ ResetMatches(account[u], secret)
  /\ pc[r] = "idle"
  /\ Goto(r, "loaded")
  /\ req' = [req EXCEPT ![r] =
               [NoRequest EXCEPT !.op = "magic", !.user = u,
                                 !.row = account[u], !.secret = secret]]
  /\ UNCHANGED <<account, history>>

\* PATCH /user/update with a password and DELETE /user/me: the access token
\* is checked, then the handler loads the row again.
Authenticated(r, t, op) ==
  /\ Accepts(t)
  /\ op = "profile" => lastPassword < MaxPassword
  /\ Begin(r, "checked", op, t.user)
  /\ UNCHANGED <<account, history>>

-----------------------------------------------------------------------------
(* Later reads.                                                            *)

\* verify_password_reset_token, on a row loaded for the purpose.
OtpVerify(r) ==
  /\ pc[r] = "opened" /\ req[r].op = "otp"
  /\ IF ResetMatches(account[req[r].user], req[r].secret)
       THEN Goto(r, "checked") /\ UNCHANGED req
       ELSE Finish(r)
  /\ UNCHANGED <<account, history>>

\* After hashing, the row is refreshed and its status looked at.
LegacyStatus(r) ==
  /\ pc[r] = "opened" /\ req[r].op = "login"
  /\ IF StatusAllowed(account[req[r].user].status)
       THEN /\ req' = [req EXCEPT ![r].row = NoRow]
            /\ Goto(r, "checked")
       ELSE Finish(r)
  /\ UNCHANGED <<account, history>>

\* The handler loads the row it will write.  update_password uses a query
\* without the filter on open users.
Load(r) ==
  /\ \/ pc[r] = "checked" /\ req[r].op \notin {"create", "refresh"}
     \/ pc[r] = "inserted"
  /\ IF IsOpen(req[r].user) \/ req[r].op = "otp"
       THEN /\ req' = [req EXCEPT ![r].row = account[req[r].user]]
            /\ Goto(r, "loaded")
       ELSE Finish(r)
  /\ UNCHANGED <<account, history>>

-----------------------------------------------------------------------------
(* Commits.                                                                *)

\* user.password = hash_password(password) for a password stored unhashed.
Rehash(r) ==
  LET u == req[r].user IN
  /\ pc[r] = "rehash"
  /\ account' = [account EXCEPT ![u] =
                   WritePassword(@, req[r].row.password)]
  /\ Goto(r, "opened")
  /\ UNCHANGED <<req, history>>

\* Mutant of Insert: the second commit, which sets the status, is left out.
InsertOnly(r) ==
  LET u == req[r].user IN
  /\ pc[r] = "checked" /\ req[r].op = "create"
  /\ ~account[u].exists /\ lastPassword < MaxPassword
  /\ lastPassword' = lastPassword + 1
  /\ account' = [account EXCEPT ![u] =
       [NoRow EXCEPT !.exists = TRUE, !.password = lastPassword']]
  /\ Finish(r)
  /\ UNCHANGED <<issued, ended, linkSent, verified, mailed, expired, spent,
                 lastSession>>

\* The INSERT of create_user; the unique index on e-mail also sees closed
\* accounts and the row another request inserted meanwhile.
Insert(r) ==
  LET u == req[r].user IN
  /\ pc[r] = "checked" /\ req[r].op = "create"
  /\ IF account[u].exists
       THEN Finish(r) /\ UNCHANGED <<account, lastPassword>>
       ELSE /\ lastPassword < MaxPassword
            /\ lastPassword' = lastPassword + 1
            /\ account' = [account EXCEPT ![u] =
                 [NoRow EXCEPT !.exists = TRUE, !.password = lastPassword']]
            /\ Goto(r, "inserted")
            /\ UNCHANGED req
  /\ UNCHANGED <<issued, ended, linkSent, verified, mailed, expired, spent,
                 lastSession>>

\* Second commit of create_user, then the verification mail.
CommitCreate(r) ==
  LET u == req[r].user
      status == IF RequireVerification THEN "Awaiting" ELSE "Active" IN
  /\ pc[r] = "loaded" /\ req[r].op = "create"
  /\ account' = [account EXCEPT ![u] =
                   Flush(@, [req[r].row EXCEPT !.status = status])]
  /\ linkSent' = IF RequireVerification THEN linkSent \cup {u} ELSE linkSent
  /\ Finish(r)
  /\ UNCHANGED <<issued, ended, verified, mailed, expired, spent,
                 lastPassword, lastSession>>

CommitVerify(r) ==
  LET u == req[r].user IN
  /\ pc[r] = "loaded" /\ req[r].op = "verify"
  /\ account' = [account EXCEPT ![u] =
                   Flush(@, [req[r].row EXCEPT !.status = "Active"])]
  /\ verified' = verified \cup {u}
  /\ Finish(r)
  /\ UNCHANGED <<issued, ended, linkSent, mailed, expired, spent,
                 lastPassword, lastSession>>

\* Mutant of CommitVersion: only a revocation moves the version on.
CommitVersionOfRevoke(r) ==
  LET u == req[r].user
      mine == req[r].row
      next == IF req[r].op = "revoke" THEN mine.version + 1
                                      ELSE mine.version IN
  /\ pc[r] = "loaded" /\ req[r].op \in {"login", "revoke"}
  /\ mine.version < MaxVersion
  /\ account' = [account EXCEPT ![u] = Flush(@, [mine EXCEPT !.version = next])]
  /\ Goto(r, "committed")
  /\ UNCHANGED <<req, history>>

\* increment_refresh_token_version, for a login and for a revocation.
CommitVersion(r) ==
  LET u == req[r].user
      mine == req[r].row IN
  /\ pc[r] = "loaded" /\ req[r].op \in {"login", "revoke"}
  /\ mine.version < MaxVersion
  /\ account' = [account EXCEPT ![u] =
                   Flush(@, [mine EXCEPT !.version = @ + 1])]
  /\ Goto(r, "committed")
  /\ UNCHANGED <<req, history>>

CommitRequest(r) ==
  LET u == req[r].user IN
  /\ pc[r] = "loaded" /\ req[r].op = "request"
  /\ req[r].secret \notin mailed
  /\ account' = [account EXCEPT ![u] =
                   Flush(@, [req[r].row EXCEPT !.reset = req[r].secret])]
  /\ mailed' = mailed \cup {req[r].secret}
  /\ Finish(r)
  /\ UNCHANGED <<issued, ended, linkSent, verified, expired, spent,
                 lastPassword, lastSession>>

CommitReset(r) ==
  LET u == req[r].user IN
  /\ pc[r] = "loaded" /\ req[r].op \in {"otp", "magic"}
  /\ lastPassword < MaxPassword
  /\ lastPassword' = lastPassword + 1
  /\ account' = [account EXCEPT ![u] =
                   WriteReset(@, req[r].row, lastPassword')]
  /\ spent' = spent \cup {req[r].secret}
  /\ Finish(r)
  /\ UNCHANGED <<issued, ended, linkSent, verified, mailed, expired,
                 lastSession>>

CommitProfile(r) ==
  /\ pc[r] = "loaded" /\ req[r].op = "profile"
  /\ lastPassword < MaxPassword
  /\ lastPassword' = lastPassword + 1
  /\ account' = [account EXCEPT ![req[r].user] =
                   WritePassword(@, lastPassword')]
  /\ Finish(r)
  /\ UNCHANGED <<issued, ended, linkSent, verified, mailed, expired, spent,
                 lastSession>>

CommitDelete(r) ==
  /\ pc[r] = "loaded" /\ req[r].op = "delete"
  /\ account' = [account EXCEPT ![req[r].user] = WriteClosed(@)]
  /\ Finish(r)
  /\ UNCHANGED history

-----------------------------------------------------------------------------
(* Answers that carry or end tokens.                                       *)

\* The version signed into the pair is the one session.refresh reads back
\* after the commit.
LoginRespond(r) ==
  LET u == req[r].user IN
  /\ pc[r] = "committed" /\ req[r].op = "login"
  /\ lastSession < MaxSessions
  /\ lastSession' = lastSession + 1
  /\ issued' = issued \cup {[user |-> u, version |-> account[u].version,
                             session |-> lastSession']}
  /\ ended' = ended \cup req[r].prior
  /\ Finish(r)
  /\ UNCHANGED <<account, linkSent, verified, mailed, expired, spent,
                 lastPassword>>

RevokeRespond(r) ==
  /\ pc[r] = "committed" /\ req[r].op = "revoke"
  /\ ended' = ended \cup req[r].prior
  /\ Finish(r)
  /\ UNCHANGED <<account, issued, linkSent, verified, mailed, expired, spent,
                 lastPassword, lastSession>>

\* Mutant of RefreshSign: the presented version is not compared.
RefreshSignAny(r) ==
  LET u == req[r].user IN
  /\ pc[r] = "checked" /\ req[r].op = "refresh"
  /\ issued' = issued \cup {[user |-> u, version |-> account[u].version,
                             session |-> req[r].session]}
  /\ Finish(r)
  /\ UNCHANGED <<account, ended, linkSent, verified, mailed, expired, spent,
                 lastPassword, lastSession>>

\* The stored version is read a second time and must be the presented one.
RefreshSign(r) ==
  LET u == req[r].user
      version == account[u].version IN
  /\ pc[r] = "checked" /\ req[r].op = "refresh"
  /\ issued' = IF IsOpen(u) /\ req[r].version = version
                 THEN issued \cup {[user |-> u, version |-> version,
                                    session |-> req[r].session]}
                 ELSE issued
  /\ Finish(r)
  /\ UNCHANGED <<account, ended, linkSent, verified, mailed, expired, spent,
                 lastPassword, lastSession>>

\* Time passes the expires_at of a mailed token.
ResetExpires(secret) ==
  /\ secret \in mailed \ expired
  /\ expired' = expired \cup {secret}
  /\ UNCHANGED <<account, pc, req, issued, ended, linkSent, verified, mailed,
                 spent, lastPassword, lastSession>>

-----------------------------------------------------------------------------

\* Users exist from the start only when their password predates hashing.
AccountInit ==
  /\ account = [u \in Users |->
       IF u \in LegacyUsers
         THEN [NoRow EXCEPT !.exists = TRUE, !.hashed = FALSE,
                            !.status = "Active"]
         ELSE NoRow]
  /\ pc = [r \in Requests |-> "idle"]
  /\ req = [r \in Requests |-> NoRequest]
  /\ issued = {} /\ ended = {} /\ linkSent = {} /\ verified = LegacyUsers
  /\ mailed = {} /\ expired = {} /\ spent = {}
  /\ lastPassword = 0 /\ lastSession = 0

Start(r) ==
  \/ \E u \in Users :
       \/ CreateCheck(r, u) \/ VerifyCheck(r, u)
       \/ LoginCheck(r, u) \/ LegacyCheck(r, u)
       \/ \E secret \in ResetTokens : RequestLoad(r, u, secret)
       \/ \E secret \in OtpTokens : OtpOpen(r, u, secret)
       \/ \E secret \in MagicTokens : MagicScan(r, u, secret)
  \/ \E t \in issued :
       \/ RefreshCheck(r, t) \/ RevokeCheck(r, t)
       \/ \E op \in {"profile", "delete"} : Authenticated(r, t, op)

Continue(r) ==
  \/ OtpVerify(r) \/ LegacyStatus(r) \/ Load(r) \/ Rehash(r) \/ Insert(r)
  \/ CommitCreate(r) \/ CommitVerify(r) \/ CommitVersion(r)
  \/ CommitRequest(r) \/ CommitReset(r) \/ CommitProfile(r) \/ CommitDelete(r)
  \/ LoginRespond(r) \/ RevokeRespond(r) \/ RefreshSign(r)

AccountNext ==
  \/ \E r \in Requests : Start(r) \/ Continue(r) \/ Abort(r)
  \/ \E u \in Users : ResendLink(u)
  \/ \E secret \in ResetTokens : ResetExpires(secret)

AccountSpec == AccountInit /\ [][AccountNext]_vars

-----------------------------------------------------------------------------
(* What must hold however requests interleave.                             *)

\* A token is only ever signed for a user whose verification link was
\* followed, when the service requires it: login looks at the status in one
\* query and increments the version in others, while other requests write the
\* same column back from older copies.
VerifiedBeforeToken ==
  RequireVerification => \A t \in issued : t.user \in verified

\* No request that loaded the row before DELETE /user/me brings the account
\* back when it commits after it.
DeletedStaysDeleted ==
  [][\A u \in Users : account[u].closed => account'[u].closed]_account

\* A password replaced by a reset or a profile update never becomes the
\* current one again, whatever older copy of the row a request holds.  This is
\* about accounts whose password was never stored unhashed: the login that first
\* hashes an older one (Rehash) writes back the password it compared.
PasswordNeverReverts ==
  [][\A u \in Users \ LegacyUsers :
       account'[u].password >= account[u].password]_account

(* What must hold when requests to one account do not overlap.             *)

\* Once a revocation or a later login was answered, the pairs it ended are
\* refused by every endpoint from then on.
EndedStaysEnded ==
  \A t \in issued : t.session \in ended => ~Accepts(t)

\* A reset token that changed a password is not on record any more, so it
\* cannot change another.
SpentTokenCleared ==
  \A u \in Users : account[u].reset \notin spent

\* Registration takes two commits; unless a request dies between them, an
\* inserted account gets the status without which nobody can log in to it,
\* verify it or register the address again.
NoLimboAccount ==
  \A u \in Users :
    account[u].exists ~> account[u].status # "none"
=============================================================================
