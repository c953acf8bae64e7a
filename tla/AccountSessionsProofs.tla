----------------------- MODULE AccountSessionsProofs -----------------------
(***************************************************************************)
(* Theorems about AccountSessions, for any number of users and threads.    *)
(***************************************************************************)
EXTENDS AccountSessions, TLAPS

(* What the writing operators return.                                      *)

LEMMA NoRowType == NoRow \in Row
BY DEF NoRow, Row, Statuses

LEMMA NoRequestType == NoRequest \in Request
BY NoRowType DEF NoRequest, Request, Ops

LEMMA FlushType ==
  ASSUME NEW row \in Row, NEW mine \in Row
  PROVE  Flush(row, mine) \in Row
BY DEF Flush, Row

LEMMA WriteTypes ==
  ASSUME NEW row \in Row, NEW mine \in Row, NEW password \in Nat
  PROVE  /\ WriteReset(row, mine, password) \in Row
         /\ WritePassword(row, password) \in Row
         /\ WriteClosed(row) \in Row
<1>1. WriteReset(row, mine, password) \in Row
  BY DEF WriteReset, Row
<1>2. WritePassword(row, password) \in Row
  BY DEF WritePassword, Row
<1>3. WriteClosed(row) \in Row
  BY DEF WriteClosed, Row
<1> QED
  BY <1>1, <1>2, <1>3

LEMMA EditTypes ==
  ASSUME NEW mine \in Row
  PROVE  /\ \A s \in Statuses : [mine EXCEPT !.status = s] \in Row
         /\ [mine EXCEPT !.version = @ + 1] \in Row
         /\ \A t \in ResetTokens : [mine EXCEPT !.reset = t] \in Row
<1>1. \A s \in Statuses : [mine EXCEPT !.status = s] \in Row
  BY DEF Row
<1>2. [mine EXCEPT !.version = @ + 1] \in Row
  BY DEF Row
<1>3. \A t \in ResetTokens : [mine EXCEPT !.reset = t] \in Row
  BY DEF Row
<1> QED
  BY <1>1, <1>2, <1>3

-----------------------------------------------------------------------------
(* Type correctness.  It needs to know that a request that is under way has a *)
(* user, and one that resets a password a secret.                          *)

RequestNamed ==
  \A r \in Requests :
    /\ pc[r] # "idle" => req[r].user \in Users
    /\ req[r].op \in {"request", "otp", "magic"} => req[r].secret \in ResetTokens

Typed == AccountTypeOK /\ RequestNamed

LEMMA InitTyped == AccountInit => Typed
<1> SUFFICES ASSUME AccountInit PROVE Typed
  OBVIOUS
<1>1. account \in [Users -> Row]
  <2>1. ASSUME NEW u \in Users PROVE account[u] \in Row
    BY NoRowType DEF AccountInit, Row, Statuses
  <2> QED
    BY <2>1 DEF AccountInit
<1>2. req \in [Requests -> Request] /\ RequestNamed
  BY NoRequestType DEF AccountInit, NoRequest, RequestNamed
<1> QED
  BY <1>1, <1>2, UserAssumption DEF Typed, AccountTypeOK, AccountInit, Pcs

LEMMA FinishTyped ==
  ASSUME Typed, NEW r \in Requests, Finish(r)
  PROVE  /\ pc' \in [Requests -> Pcs]
         /\ req' \in [Requests -> Request]
         /\ RequestNamed'
BY NoRequestType
   DEF Typed, AccountTypeOK, RequestNamed, Finish, Goto, NoRequest, Pcs

LEMMA BeginTyped ==
  ASSUME Typed, NEW r \in Requests, NEW label \in Pcs,
         NEW op \in Ops \ {"request", "otp", "magic"}, NEW u \in Users,
         Begin(r, label, op, u)
  PROVE  /\ pc' \in [Requests -> Pcs]
         /\ req' \in [Requests -> Request]
         /\ RequestNamed'
<1> DEFINE q == [NoRequest EXCEPT !.op = op, !.user = u,
                                  !.prior = SessionsOf(u)]
<1>1. SessionsOf(u) \subseteq Nat
  BY DEF SessionsOf, Typed, AccountTypeOK, TokenPair
<1>2. q \in Request
  BY <1>1, NoRowType DEF NoRequest, Request
<1>3. q.op = op /\ q.user = u
  BY DEF NoRequest
<1>4. req' = [req EXCEPT ![r] = q] /\ pc' = [pc EXCEPT ![r] = label]
  BY DEF Begin, Goto
<1> HIDE DEF q
<1> QED
  BY <1>2, <1>3, <1>4 DEF Typed, AccountTypeOK, RequestNamed

\* The steps that leave the table alone and the history too.
LEMMA StartTyped ==
  ASSUME Typed, NEW r \in Requests, Start(r)
  PROVE  Typed'
<1> DEFINE Moved == /\ pc' \in [Requests -> Pcs]
                    /\ req' \in [Requests -> Request]
                    /\ RequestNamed'
<1>1. ASSUME NEW u \in Users,
             CreateCheck(r, u) \/ VerifyCheck(r, u) \/ LoginCheck(r, u)
      PROVE  Moved /\ UNCHANGED <<account, history>>
  BY <1>1, BeginTyped
     DEF CreateCheck, VerifyCheck, LoginCheck, Pcs, Ops
<1>2. ASSUME NEW t \in issued,
             \/ RevokeCheck(r, t)
             \/ \E op \in {"profile", "delete"} : Authenticated(r, t, op)
      PROVE  Moved /\ UNCHANGED <<account, history>>
  <2>1. t.user \in Users
    BY DEF Typed, AccountTypeOK, TokenPair
  <2> QED
    BY <1>2, <2>1, BeginTyped DEF RevokeCheck, Authenticated, Pcs, Ops
<1>3. ASSUME NEW u \in Users, LegacyCheck(r, u)
      PROVE  Moved /\ UNCHANGED <<account, history>>
  <2> DEFINE q == [NoRequest EXCEPT !.op = "login", !.user = u,
                     !.row = account[u], !.prior = SessionsOf(u)]
  <2>1. SessionsOf(u) \subseteq Nat
    BY DEF SessionsOf, Typed, AccountTypeOK, TokenPair
  <2>2. account[u] \in Row
    BY DEF Typed, AccountTypeOK
  <2>3. q \in Request /\ q.op = "login" /\ q.user = u
    BY <2>1, <2>2 DEF NoRequest, Request, Ops
  <2>4. req' = [req EXCEPT ![r] = q] /\ pc' = [pc EXCEPT ![r] = "rehash"]
    BY <1>3 DEF LegacyCheck, Goto
  <2> HIDE DEF q
  <2> QED
    BY <1>3, <2>3, <2>4
       DEF Typed, AccountTypeOK, RequestNamed, LegacyCheck, Pcs
<1>4. ASSUME NEW t \in issued, RefreshCheck(r, t)
      PROVE  Moved /\ UNCHANGED <<account, history>>
  <2> DEFINE q == [NoRequest EXCEPT !.op = "refresh", !.user = t.user,
                     !.version = t.version, !.session = t.session]
  <2>1. t \in TokenPair
    BY DEF Typed, AccountTypeOK
  <2>2. q \in Request /\ q.op = "refresh" /\ q.user \in Users
    BY <2>1, NoRowType DEF NoRequest, Request, Ops, TokenPair
  <2>3. req' = [req EXCEPT ![r] = q] /\ pc' = [pc EXCEPT ![r] = "checked"]
    BY <1>4 DEF RefreshCheck, Goto
  <2> HIDE DEF q
  <2> QED
    BY <1>4, <2>2, <2>3
       DEF Typed, AccountTypeOK, RequestNamed, RefreshCheck, Pcs
<1>5. ASSUME NEW u \in Users, NEW secret \in ResetTokens,
             RequestLoad(r, u, secret) \/ MagicScan(r, u, secret)
      PROVE  Moved /\ UNCHANGED <<account, history>>
  <2>1. PICK op \in {"request", "magic"} :
          req' = [req EXCEPT ![r] = [NoRequest EXCEPT !.op = op, !.user = u,
                    !.row = account[u], !.secret = secret]]
    BY <1>5 DEF RequestLoad, MagicScan
  <2> DEFINE q == [NoRequest EXCEPT !.op = op, !.user = u,
                     !.row = account[u], !.secret = secret]
  <2>2. account[u] \in Row
    BY DEF Typed, AccountTypeOK
  <2>3. q \in Request /\ q.op = op /\ q.user = u /\ q.secret = secret
    BY <2>2 DEF NoRequest, Request, Ops
  <2>4. req' = [req EXCEPT ![r] = q] /\ pc' = [pc EXCEPT ![r] = "loaded"]
    BY <1>5, <2>1 DEF RequestLoad, MagicScan, Goto
  <2>5. UNCHANGED <<account, history>>
    BY <1>5 DEF RequestLoad, MagicScan
  <2> HIDE DEF q
  <2> QED
    BY <2>3, <2>4, <2>5 DEF Typed, AccountTypeOK, RequestNamed, Pcs
<1>6. ASSUME NEW u \in Users, NEW secret \in OtpTokens, OtpOpen(r, u, secret)
      PROVE  Moved /\ UNCHANGED <<account, history>>
  <2> DEFINE q == [NoRequest EXCEPT !.op = "otp", !.user = u, !.secret = secret]
  <2>1. q \in Request /\ q.op = "otp" /\ q.user = u /\ q.secret = secret
    BY NoRowType DEF NoRequest, Request, Ops, ResetTokens
  <2>2. req' = [req EXCEPT ![r] = q] /\ pc' = [pc EXCEPT ![r] = "opened"]
    BY <1>6 DEF OtpOpen, Goto
  <2> HIDE DEF q
  <2> QED
    BY <1>6, <2>1, <2>2
       DEF Typed, AccountTypeOK, RequestNamed, OtpOpen, Pcs, ResetTokens
<1>7. Moved /\ UNCHANGED <<account, history>>
  <2>1. MagicTokens \subseteq ResetTokens
    BY DEF ResetTokens
  <2> HIDE DEF Moved
  <2> QED
    BY <1>1, <1>2, <1>3, <1>4, <1>5, <1>6, <2>1 DEF Start
<1> QED
  BY <1>7 DEF Typed, AccountTypeOK, history

\* A commit writes one row; the request it belongs to has a user.
LEMMA CommitTyped ==
  ASSUME Typed, NEW r \in Requests, NEW row \in Row,
         account' = [account EXCEPT ![req[r].user] = row]
  PROVE  account' \in [Users -> Row]
BY DEF Typed, AccountTypeOK

LEMMA RequestParts ==
  ASSUME Typed, NEW r \in Requests, pc[r] # "idle"
  PROVE  /\ req[r].user \in Users
         /\ req[r].row \in Row
         /\ account[req[r].user] \in Row
         /\ req[r].prior \subseteq Nat
         /\ req[r].session \in Nat
BY DEF Typed, AccountTypeOK, RequestNamed, Request

LEMMA ReadTyped ==
  ASSUME Typed, NEW r \in Requests,
         OtpVerify(r) \/ LegacyStatus(r) \/ Load(r)
  PROVE  Typed'
<1>1. pc[r] # "idle"
  BY DEF OtpVerify, LegacyStatus, Load
<1>2. CASE Finish(r)
  BY <1>2, FinishTyped
     DEF OtpVerify, LegacyStatus, Load, Typed, AccountTypeOK, history
<1>3. ASSUME NEW label \in Pcs, NEW row \in Row, Goto(r, label),
             req' = [req EXCEPT ![r].row = row] \/ req' = req,
             UNCHANGED <<account, history>>
      PROVE  Typed'
  <2>1. req[r] \in Request
    BY DEF Typed, AccountTypeOK
  <2>2. [req[r] EXCEPT !.row = row] \in Request
    BY <2>1 DEF Request
  <2>3. pc' \in [Requests -> Pcs] /\ req' \in [Requests -> Request]
    BY <1>3, <2>2 DEF Typed, AccountTypeOK, Goto
  <2>4. \A s \in Requests : /\ req'[s].user = req[s].user
                           /\ req'[s].op = req[s].op
                           /\ req'[s].secret = req[s].secret
    BY <1>3, <2>1 DEF Typed, AccountTypeOK, Request
  <2>5. RequestNamed'
    BY <1>1, <1>3, <2>4 DEF Typed, AccountTypeOK, RequestNamed, Goto
  <2> QED
    BY <1>3, <2>3, <2>5 DEF Typed, AccountTypeOK, history
<1>4. CASE OtpVerify(r)
  BY <1>2, <1>3, <1>4, NoRowType DEF OtpVerify, Pcs
<1>5. CASE LegacyStatus(r)
  BY <1>2, <1>3, <1>5, NoRowType DEF LegacyStatus, Pcs
<1>6. CASE Load(r)
  BY <1>1, <1>2, <1>3, <1>6, RequestParts DEF Load, Pcs
<1> QED
  BY <1>4, <1>5, <1>6

LEMMA RehashTyped ==
  ASSUME Typed, NEW r \in Requests, Rehash(r)
  PROVE  Typed'
<1>1. pc[r] # "idle"
  BY DEF Rehash
<1>2. req[r].row.password \in Nat
  BY <1>1, RequestParts DEF Row
<1>3. account' \in [Users -> Row]
  BY <1>1, <1>2, RequestParts, WriteTypes, CommitTyped, ZenonT(30) DEF Rehash
<1>4. pc' \in [Requests -> Pcs] /\ req' = req
  BY DEF Rehash, Goto, Typed, AccountTypeOK, Pcs
<1>5. RequestNamed'
  BY <1>1, <1>4 DEF Rehash, Goto, Typed, AccountTypeOK, RequestNamed
<1> QED
  BY <1>3, <1>4, <1>5 DEF Rehash, Typed, AccountTypeOK, history

LEMMA InsertTyped ==
  ASSUME Typed, NEW r \in Requests, Insert(r)
  PROVE  Typed'
<1>1. pc[r] # "idle"
  BY DEF Insert
<1>2. CASE Finish(r) /\ UNCHANGED <<account, lastPassword>>
  BY <1>2, FinishTyped DEF Insert, Typed, AccountTypeOK
<1>3. CASE Goto(r, "inserted") /\ UNCHANGED req
  <2> DEFINE row == [NoRow EXCEPT !.exists = TRUE, !.password = lastPassword']
  <2>1. lastPassword' \in Nat
    BY <1>3 DEF Insert, Finish, Typed, AccountTypeOK
  <2>2. row \in Row
    BY <2>1, NoRowType DEF Row
  <2>3. account' = [account EXCEPT ![req[r].user] = row] \/ account' = account
    BY DEF Insert
  <2>4. account' \in [Users -> Row]
    <3> HIDE DEF row
    <3> QED
      BY <2>2, <2>3, CommitTyped DEF Typed, AccountTypeOK
  <2>5. pc' \in [Requests -> Pcs] /\ RequestNamed'
    BY <1>1, <1>3 DEF Goto, Typed, AccountTypeOK, RequestNamed, Pcs
  <2> QED
    BY <1>3, <2>1, <2>4, <2>5 DEF Insert, Typed, AccountTypeOK
<1> QED
  BY <1>2, <1>3 DEF Insert

\* The commits that write back the metadata column.
LEMMA MetadataTyped ==
  ASSUME Typed, NEW r \in Requests,
         CommitCreate(r) \/ CommitVerify(r) \/ CommitVersion(r)
           \/ CommitRequest(r)
  PROVE  Typed'
<1>1. pc[r] # "idle" /\ req[r].user \in Users
  BY RequestParts DEF CommitCreate, CommitVerify, CommitVersion, CommitRequest
<1> DEFINE mine == req[r].row
           stored == account[req[r].user]
<1>2. mine \in Row /\ stored \in Row
  BY <1>1, RequestParts
<1>3. ASSUME NEW new \in Row,
             account' = [account EXCEPT ![req[r].user] = Flush(@, new)]
      PROVE  account' \in [Users -> Row]
  <2>1. Flush(stored, new) \in Row
    BY <1>2, <1>3, FlushType
  <2> QED
    BY <1>3, <2>1, CommitTyped
<1> HIDE DEF mine, stored
<1>4. CASE CommitCreate(r)
  <2>1. account' \in [Users -> Row]
    <3>1. \A s \in Statuses : [mine EXCEPT !.status = s] \in Row
      BY <1>2, EditTypes
    <3>2. (IF RequireVerification THEN "Awaiting" ELSE "Active") \in Statuses
      BY DEF Statuses
    <3> QED
      BY <1>3, <1>4, <3>1, <3>2 DEF CommitCreate, mine
  <2> QED
    BY <1>1, <1>4, <2>1, FinishTyped DEF CommitCreate, Typed, AccountTypeOK
<1>5. CASE CommitVerify(r)
  <2>1. account' \in [Users -> Row]
    <3>1. [mine EXCEPT !.status = "Active"] \in Row
      BY <1>2, EditTypes DEF Statuses
    <3> QED
      BY <1>3, <1>5, <3>1 DEF CommitVerify, mine
  <2> QED
    BY <1>1, <1>5, <2>1, FinishTyped DEF CommitVerify, Typed, AccountTypeOK
<1>6. CASE CommitVersion(r)
  <2>1. account' \in [Users -> Row]
    <3>1. [mine EXCEPT !.version = @ + 1] \in Row
      BY <1>2, EditTypes
    <3> QED
      BY <1>3, <1>6, <3>1 DEF CommitVersion, mine
  <2>2. pc' \in [Requests -> Pcs] /\ req' = req /\ RequestNamed'
    BY <1>1, <1>6
       DEF CommitVersion, Goto, Typed, AccountTypeOK, RequestNamed, Pcs
  <2> QED
    BY <1>6, <2>1, <2>2 DEF CommitVersion, Typed, AccountTypeOK, history
<1>7. CASE CommitRequest(r)
  <2>1. req[r].secret \in ResetTokens
    BY <1>7 DEF CommitRequest, Typed, RequestNamed
  <2>2. account' \in [Users -> Row]
    <3>1. [mine EXCEPT !.reset = req[r].secret] \in Row
      BY <1>2, <2>1, EditTypes
    <3> QED
      BY <1>3, <1>7, <3>1 DEF CommitRequest, mine
  <2> QED
    BY <1>7, <2>1, <2>2, FinishTyped DEF CommitRequest, Typed, AccountTypeOK
<1> QED
  BY <1>4, <1>5, <1>6, <1>7

\* The commits that write another column, or that and the metadata.
LEMMA ColumnTyped ==
  ASSUME Typed, NEW r \in Requests,
         CommitReset(r) \/ CommitProfile(r) \/ CommitDelete(r)
  PROVE  Typed'
<1>1. pc[r] # "idle"
  BY DEF CommitReset, CommitProfile, CommitDelete
<1>2. req[r].row \in Row /\ account[req[r].user] \in Row
  BY <1>1, RequestParts
<1>3. lastPassword' \in Nat
  BY DEF CommitReset, CommitProfile, CommitDelete, history, Typed,
         AccountTypeOK
<1>4. account' \in [Users -> Row]
  BY <1>2, <1>3, WriteTypes, CommitTyped
     DEF CommitReset, CommitProfile, CommitDelete
<1>5. spent' \subseteq ResetTokens
  BY DEF CommitReset, CommitProfile, CommitDelete, history, Typed,
         AccountTypeOK, RequestNamed
<1>6. Finish(r) /\ UNCHANGED <<issued, ended, linkSent, verified, mailed,
                               expired, lastSession>>
  BY DEF CommitReset, CommitProfile, CommitDelete, history
<1> QED
  BY <1>3, <1>4, <1>5, <1>6, FinishTyped DEF Typed, AccountTypeOK

\* The answers that sign a pair or end some.
LEMMA AnswerTyped ==
  ASSUME Typed, NEW r \in Requests,
         LoginRespond(r) \/ RevokeRespond(r) \/ RefreshSign(r)
  PROVE  Typed'
<1>1. pc[r] # "idle"
  BY DEF LoginRespond, RevokeRespond, RefreshSign
<1>2. /\ req[r].user \in Users /\ account[req[r].user].version \in Nat
      /\ req[r].session \in Nat /\ req[r].prior \subseteq Nat
  BY <1>1, RequestParts DEF Row
<1>3. lastSession' \in Nat
  BY DEF LoginRespond, RevokeRespond, RefreshSign, Typed, AccountTypeOK
<1>4. issued' \subseteq TokenPair
  BY <1>2, <1>3 DEF LoginRespond, RevokeRespond, RefreshSign, Typed,
                    AccountTypeOK, TokenPair
<1>5. ended' \subseteq Nat
  BY <1>2 DEF LoginRespond, RevokeRespond, RefreshSign, Typed, AccountTypeOK
<1>6. Finish(r) /\ UNCHANGED <<account, linkSent, verified, mailed, expired,
                               spent, lastPassword>>
  BY DEF LoginRespond, RevokeRespond, RefreshSign
<1> QED
  BY <1>3, <1>4, <1>5, <1>6, FinishTyped DEF Typed, AccountTypeOK

LEMMA NextTyped ==
  ASSUME Typed, [AccountNext]_vars
  PROVE  Typed'
<1>1. ASSUME NEW r \in Requests, Continue(r)
      PROVE  Typed'
  BY <1>1, ReadTyped, RehashTyped, InsertTyped, MetadataTyped, ColumnTyped,
     AnswerTyped DEF Continue
<1>2. ASSUME NEW r \in Requests, Abort(r)
      PROVE  Typed'
  BY <1>2, FinishTyped DEF Abort, Typed, AccountTypeOK, history
<1>3. ASSUME NEW u \in Users, ResendLink(u)
      PROVE  Typed'
  BY <1>3 DEF ResendLink, Typed, AccountTypeOK, RequestNamed
<1>4. ASSUME NEW secret \in ResetTokens, ResetExpires(secret)
      PROVE  Typed'
  BY <1>4 DEF ResetExpires, Typed, AccountTypeOK, RequestNamed
<1>5. CASE UNCHANGED vars
  BY <1>5 DEF vars, history, Typed, AccountTypeOK, RequestNamed
<1> QED
  BY <1>1, <1>2, <1>3, <1>4, <1>5, StartTyped DEF AccountNext

\* However many users, threads and secrets there are, the table and the local
\* variables of the requests keep their types: every request under way has a
\* user, and what it writes back is a whole row.
THEOREM AccountTypeCorrect == AccountSpec => []AccountTypeOK
<1>1. AccountSpec => []Typed
  BY InitTyped, NextTyped, PTL DEF AccountSpec
<1>2. Typed => AccountTypeOK
  BY DEF Typed
<1> QED
  BY <1>1, <1>2, PTL

-----------------------------------------------------------------------------
(* A deleted account stays deleted.                                        *)

\* What a step may do to a row; closed is set by a deletion alone.
RowKept(old, new) ==
  /\ old.exists => new.exists
  /\ old.exists /\ old.closed => new.closed

\* The writes of everything but registration and deletion.
LEMMA WritesKeep ==
  ASSUME NEW row \in Row, NEW mine \in Row, NEW password \in Nat
  PROVE  /\ Flush(row, mine).exists = row.exists
         /\ Flush(row, mine).closed = row.closed
         /\ WriteReset(row, mine, password).exists = row.exists
         /\ WriteReset(row, mine, password).closed = row.closed
         /\ WritePassword(row, password).exists = row.exists
         /\ WritePassword(row, password).closed = row.closed
         /\ WriteClosed(row).exists = row.exists
         /\ WriteClosed(row).closed = TRUE
<1>1. /\ Flush(row, mine).exists = row.exists
      /\ Flush(row, mine).closed = row.closed
  BY DEF Flush, Row
<1>2. /\ WriteReset(row, mine, password).exists = row.exists
      /\ WriteReset(row, mine, password).closed = row.closed
  BY DEF WriteReset, Row
<1>3. /\ WritePassword(row, password).exists = row.exists
      /\ WritePassword(row, password).closed = row.closed
  BY DEF WritePassword, Row
<1>4. WriteClosed(row).exists = row.exists /\ WriteClosed(row).closed = TRUE
  BY DEF WriteClosed, Row
<1> QED
  BY <1>1, <1>2, <1>3, <1>4

Deleting(r) == pc[r] = "loaded" /\ req[r].op = "delete"

LEMMA StepKeepsRows ==
  ASSUME Typed, [AccountNext]_vars, NEW u \in Users
  PROVE  /\ RowKept(account[u], account'[u])
         /\ account'[u].closed =>
              \/ account[u].closed
              \/ \E r \in Requests : Deleting(r) /\ req[r].user = u
<1> DEFINE Kept == /\ RowKept(account[u], account'[u])
                   /\ account'[u].closed =>
                        \/ account[u].closed
                        \/ \E r \in Requests : Deleting(r) /\ req[r].user = u
<1>1. CASE UNCHANGED account
  BY <1>1 DEF RowKept
<1>2. ASSUME NEW r \in Requests, Continue(r), account' # account
      PROVE  Kept
  <2>1. pc[r] # "idle"
    BY <1>2 DEF Continue, OtpVerify, LegacyStatus, Load, Rehash, Insert,
         CommitCreate, CommitVerify, CommitVersion, CommitRequest,
         CommitReset, CommitProfile, CommitDelete, LoginRespond,
         RevokeRespond, RefreshSign
  <2> DEFINE v == req[r].user
             mine == req[r].row
             stored == account[v]
  <2>2. v \in Users /\ mine \in Row /\ stored \in Row /\ mine.password \in Nat
    BY <2>1, RequestParts DEF Row
  <2>3. ASSUME NEW row, account' = [account EXCEPT ![v] = row],
               row.exists = stored.exists, row.closed = stored.closed
        PROVE  Kept
    BY <2>2, <2>3 DEF RowKept, Typed, AccountTypeOK
  <2>4. ASSUME NEW new \in Row, account' = [account EXCEPT ![v] = Flush(@, new)]
        PROVE  Kept
    <3>1. Flush(stored, new).exists = stored.exists
          /\ Flush(stored, new).closed = stored.closed
      BY <2>2, WritesKeep
    <3> QED
      BY <2>3, <2>4, <3>1
  <2> HIDE DEF mine, stored, v
  <2>5. CASE Rehash(r)
    <3>1. WritePassword(stored, mine.password).exists = stored.exists
          /\ WritePassword(stored, mine.password).closed = stored.closed
      BY <2>2, WritesKeep
    <3> QED
      BY <2>3, <2>5, <3>1 DEF Rehash, mine, stored, v
  <2>6. CASE Insert(r)
    <3>1. ~stored.exists
      BY <1>2, <2>6 DEF Insert, stored, v
    <3>2. account' = [account EXCEPT ![v] =
            [NoRow EXCEPT !.exists = TRUE, !.password = lastPassword']]
      BY <1>2, <2>6 DEF Insert, v
    <3>3. /\ [NoRow EXCEPT !.exists = TRUE, !.password = lastPassword'].exists
          /\ ~[NoRow EXCEPT !.exists = TRUE, !.password = lastPassword'].closed
      BY DEF NoRow
    <3> QED
      BY <2>2, <3>1, <3>2, <3>3 DEF RowKept, Typed, AccountTypeOK, stored
  <2>7. CASE CommitCreate(r)
    <3> DEFINE status == IF RequireVerification THEN "Awaiting" ELSE "Active"
    <3>1. status \in Statuses
      BY DEF Statuses
    <3> HIDE DEF status
    <3>2. [mine EXCEPT !.status = status] \in Row
      BY <2>2, <3>1, EditTypes
    <3> QED
      BY <2>4, <2>7, <3>2 DEF CommitCreate, mine, v, status
  <2>8. CASE CommitVerify(r)
    <3>1. [mine EXCEPT !.status = "Active"] \in Row
      BY <2>2, EditTypes DEF Statuses
    <3> QED
      BY <2>4, <2>8, <3>1 DEF CommitVerify, mine, v
  <2>9. CASE CommitVersion(r)
    <3>1. [mine EXCEPT !.version = @ + 1] \in Row
      BY <2>2, EditTypes
    <3> QED
      BY <2>4, <2>9, <3>1 DEF CommitVersion, mine, v
  <2>10. CASE CommitRequest(r)
    <3>1. [mine EXCEPT !.reset = req[r].secret] \in Row
      BY <2>2, <2>10, EditTypes DEF CommitRequest, Typed, RequestNamed
    <3> QED
      BY <2>4, <2>10, <3>1 DEF CommitRequest, mine, v
  <2>11. CASE CommitReset(r)
    <3>1. lastPassword' \in Nat
      BY <2>11 DEF CommitReset, Typed, AccountTypeOK
    <3>2. WriteReset(stored, mine, lastPassword').exists = stored.exists
          /\ WriteReset(stored, mine, lastPassword').closed = stored.closed
      BY <2>2, <3>1, WritesKeep
    <3> QED
      BY <2>3, <2>11, <3>2 DEF CommitReset, mine, stored, v
  <2>12. CASE CommitProfile(r)
    <3>1. lastPassword' \in Nat
      BY <2>12 DEF CommitProfile, Typed, AccountTypeOK
    <3>2. WritePassword(stored, lastPassword').exists = stored.exists
          /\ WritePassword(stored, lastPassword').closed = stored.closed
      BY <2>2, <3>1, WritesKeep
    <3> QED
      BY <2>3, <2>12, <3>2 DEF CommitProfile, stored, v
  <2>13. CASE CommitDelete(r)
    <3>1. WriteClosed(stored).exists = stored.exists
          /\ WriteClosed(stored).closed = TRUE
      BY <2>2, WritesKeep
    <3>2. account' = [account EXCEPT ![v] = WriteClosed(stored)] /\ Deleting(r)
      BY <2>13 DEF CommitDelete, Deleting, stored, v
    <3>3. u # v => account'[u] = account[u]
      BY <3>2 DEF Typed, AccountTypeOK
    <3>4. u = v => account'[u] = WriteClosed(stored)
      BY <3>2 DEF Typed, AccountTypeOK
    <3> QED
      BY <3>1, <3>2, <3>3, <3>4 DEF RowKept, stored, v
  <2>14. CASE \/ OtpVerify(r) \/ LegacyStatus(r) \/ Load(r)
              \/ LoginRespond(r) \/ RevokeRespond(r) \/ RefreshSign(r)
    BY <1>2, <2>14 DEF OtpVerify, LegacyStatus, Load, LoginRespond,
                       RevokeRespond, RefreshSign
  <2> QED
    BY <1>2, <2>5, <2>6, <2>7, <2>8, <2>9, <2>10, <2>11, <2>12, <2>13, <2>14
       DEF Continue
<1>3. ASSUME account' # account
      PROVE  \E r \in Requests : Continue(r)
  BY <1>3, ZenonT(30)
     DEF AccountNext, vars, Start, CreateCheck, VerifyCheck, LoginCheck,
       LegacyCheck, RequestLoad, OtpOpen, MagicScan, RefreshCheck, RevokeCheck,
       Authenticated, Abort, ResendLink, ResetExpires
<1> QED
  BY <1>1, <1>2, <1>3

\* Only rows that exist are closed, now or by a deletion about to commit.
ClosedExists ==
  /\ \A u \in Users : account[u].closed => account[u].exists
  /\ \A r \in Requests : Deleting(r) => account[req[r].user].exists

LEMMA FinishMoves ==
  ASSUME Typed, NEW r \in Requests, Finish(r), NEW s \in Requests
  PROVE  /\ s = r => pc'[s] = "idle" /\ req'[s] = NoRequest
         /\ s # r => pc'[s] = pc[s] /\ req'[s] = req[s]
BY DEF Finish, Goto, Typed, AccountTypeOK

\* A deletion about to commit was about to commit before, or has just loaded
\* the row it found open.
LEMMA StepDeletes ==
  ASSUME Typed, [AccountNext]_vars, NEW s \in Requests, Deleting(s)'
  PROVE  \/ Deleting(s) /\ req'[s].user = req[s].user
         \/ req'[s].user \in Users /\ account[req'[s].user].exists
<1> DEFINE Same == pc'[s] = pc[s] /\ req'[s] = req[s]
           Known == \/ Deleting(s) /\ req'[s].user = req[s].user
                    \/ req'[s].user \in Users /\ account[req'[s].user].exists
<1>1. CASE Same
  BY <1>1 DEF Deleting
<1>2. ASSUME NEW r \in Requests, Finish(r)
      PROVE  Same
  BY <1>2, FinishMoves DEF Deleting
<1>3. ASSUME NEW r \in Requests, Start(r)
      PROVE  Same
  <2>1. ASSUME NEW label \in Pcs \ {"loaded"}, Goto(r, label),
               \A q \in Requests \ {r} : req'[q] = req[q]
        PROVE  Same
    BY <2>1 DEF Goto, Deleting, Typed, AccountTypeOK
  <2>2. ASSUME NEW label \in Pcs \ {"loaded"}, NEW op, NEW u,
               Begin(r, label, op, u)
        PROVE  Same
    BY <2>1, <2>2 DEF Begin, Typed, AccountTypeOK
  <2>3. ASSUME NEW u \in Users,
               CreateCheck(r, u) \/ VerifyCheck(r, u) \/ LoginCheck(r, u)
        PROVE  Same
    BY <2>2, <2>3 DEF CreateCheck, VerifyCheck, LoginCheck, Pcs
  <2>4. ASSUME NEW t \in issued,
               \/ RevokeCheck(r, t)
               \/ \E op \in {"profile", "delete"} : Authenticated(r, t, op)
        PROVE  Same
    BY <2>2, <2>4 DEF RevokeCheck, Authenticated, Pcs
  <2>5. ASSUME NEW u \in Users, LegacyCheck(r, u)
        PROVE  Same
    BY <2>1, <2>5 DEF LegacyCheck, Typed, AccountTypeOK, Pcs
  <2>6. ASSUME NEW t \in issued, RefreshCheck(r, t)
        PROVE  Same
    BY <2>1, <2>6 DEF RefreshCheck, Typed, AccountTypeOK, Pcs
  <2>7. ASSUME NEW u \in Users, NEW secret \in OtpTokens, OtpOpen(r, u, secret)
        PROVE  Same
    BY <2>1, <2>7 DEF OtpOpen, Typed, AccountTypeOK, Pcs
  <2>8. ASSUME NEW u \in Users, NEW secret \in ResetTokens,
               RequestLoad(r, u, secret) \/ MagicScan(r, u, secret)
        PROVE  Same
    <3>1. PICK op \in {"request", "magic"} :
            req' = [req EXCEPT ![r] = [NoRequest EXCEPT !.op = op, !.user = u,
                      !.row = account[u], !.secret = secret]]
      BY <2>8 DEF RequestLoad, MagicScan
    <3>2. [NoRequest EXCEPT !.op = op, !.user = u, !.row = account[u],
                            !.secret = secret].op = op
      BY DEF NoRequest
    <3>3. s # r
      BY <3>1, <3>2 DEF Deleting, Typed, AccountTypeOK
    <3>4. Goto(r, "loaded")
      BY <2>8 DEF RequestLoad, MagicScan
    <3> QED
      BY <3>1, <3>3, <3>4 DEF Goto, Typed, AccountTypeOK
  <2>9. MagicTokens \subseteq ResetTokens
    BY DEF ResetTokens
  <2> HIDE DEF Same
  <2> QED
    BY <1>3, <2>3, <2>4, <2>5, <2>6, <2>7, <2>8, <2>9 DEF Start
<1>4. ASSUME NEW r \in Requests, Load(r), ~Finish(r)
      PROVE  Known
  <2>1. /\ IsOpen(req[r].user) \/ req[r].op = "otp"
        /\ req' = [req EXCEPT ![r].row = account[req[r].user]]
        /\ Goto(r, "loaded")
        /\ pc[r] # "idle"
    BY <1>4 DEF Load
  <2>2. CASE s = r
    <3>1. req'[s].op = req[s].op /\ req'[s].user = req[s].user
      BY <2>1, <2>2 DEF Typed, AccountTypeOK, Request
    <3>2. req[s].user \in Users
      BY <2>1, <2>2, RequestParts
    <3> QED
      BY <2>1, <2>2, <3>1, <3>2 DEF Deleting, IsOpen
  <2>3. CASE s # r
    BY <1>1, <2>1, <2>3 DEF Goto, Typed, AccountTypeOK
  <2> QED
    BY <2>2, <2>3
<1>5. ASSUME NEW r \in Requests, NEW label \in Pcs \ {"loaded"},
             Goto(r, label),
             req' = req \/ req' = [req EXCEPT ![r].row = NoRow]
      PROVE  Same
  BY <1>5 DEF Goto, Deleting, Typed, AccountTypeOK
<1>6. ASSUME NEW r \in Requests, Continue(r), ~Load(r)
      PROVE  Same
  BY <1>2, <1>5, <1>6
     DEF Continue, OtpVerify, LegacyStatus, Rehash, Insert, CommitCreate,
         CommitVerify, CommitVersion, CommitRequest, CommitReset,
         CommitProfile, CommitDelete, LoginRespond, RevokeRespond,
         RefreshSign, Pcs
<1>7. CASE UNCHANGED <<pc, req>>
  BY <1>7, <1>1
<1>8. ASSUME NEW r \in Requests, Abort(r)
      PROVE  Same
  BY <1>2, <1>8 DEF Abort
<1> HIDE DEF Same, Known
<1>9. Known
  BY <1>1, <1>2, <1>3, <1>4, <1>6, <1>7, <1>8
     DEF AccountNext, ResendLink, ResetExpires, vars, Known, Same, Deleting
<1> QED
  BY <1>9 DEF Known

LEMMA NextClosedExists ==
  ASSUME Typed, ClosedExists, [AccountNext]_vars
  PROVE  ClosedExists'
<1>1. ASSUME NEW u \in Users, account'[u].closed
      PROVE  account'[u].exists
  BY <1>1, StepKeepsRows DEF ClosedExists, RowKept
<1>2. ASSUME NEW s \in Requests, Deleting(s)'
      PROVE  account'[req'[s].user].exists
  <2>1. req'[s].user \in Users /\ account[req'[s].user].exists
    BY <1>2, StepDeletes, RequestParts DEF ClosedExists, Deleting
  <2> QED
    BY <2>1, StepKeepsRows DEF RowKept
<1> QED
  BY <1>1, <1>2 DEF ClosedExists

\* Whatever older copy of the row a request holds, and however many hold one,
\* no commit brings a deleted account back: not a reset, which loads closed
\* rows too, and not a registration of the same address.
THEOREM DeletedForGood == AccountSpec => DeletedStaysDeleted
<1>1. AccountInit => ClosedExists
  BY DEF AccountInit, ClosedExists, Deleting, NoRow
<1>2. AccountSpec => [](Typed /\ ClosedExists)
  BY <1>1, InitTyped, NextTyped, NextClosedExists, PTL DEF AccountSpec
<1>3. ASSUME Typed, ClosedExists, [AccountNext]_vars
      PROVE  [\A u \in Users : account[u].closed => account'[u].closed]_account
  BY <1>3, StepKeepsRows DEF ClosedExists, RowKept
<1> QED
  BY <1>2, <1>3, PTL DEF AccountSpec, DeletedStaysDeleted

-----------------------------------------------------------------------------
(* No token without verification.  The status is written back by every        *)
(* request that changes the metadata column, so the invariant follows it   *)
(* through the copies the requests hold.                                   *)

AttestedRequest(q, label) ==
  /\ q.row.status = "Active" => q.user \in verified
  /\ q.op = "login" /\ label \notin {"idle", "rehash", "opened"}
       => q.user \in verified
  /\ q.op = "refresh" => q.user \in verified

Attested ==
  /\ \A u \in Users : account[u].status = "Active" => u \in verified
  /\ \A r \in Requests : AttestedRequest(req[r], pc[r])
  /\ \A t \in issued : t.user \in verified

LEMMA WritesStatus ==
  ASSUME NEW row \in Row, NEW mine \in Row, NEW password \in Nat
  PROVE  /\ Flush(row, mine).status = mine.status
         /\ WriteReset(row, mine, password).status = mine.status
         /\ WritePassword(row, password).status = row.status
         /\ WriteClosed(row).status = row.status
<1>1. Flush(row, mine).status = mine.status
  BY DEF Flush, Row
<1>2. WriteReset(row, mine, password).status = mine.status
  BY DEF WriteReset, Row
<1>3. /\ WritePassword(row, password).status = row.status
      /\ WriteClosed(row).status = row.status
  BY DEF WritePassword, WriteClosed, Row
<1> QED
  BY <1>1, <1>2, <1>3

LEMMA VerifiedGrows ==
  ASSUME [AccountNext]_vars
  PROVE  verified \subseteq verified'
<1>1. ASSUME NEW r \in Requests, Start(r) PROVE UNCHANGED verified
  BY <1>1 DEF Start, CreateCheck, VerifyCheck, LoginCheck, LegacyCheck,
       RequestLoad, OtpOpen, MagicScan, RefreshCheck, RevokeCheck,
       Authenticated, history
<1>2. ASSUME NEW r \in Requests, Continue(r) PROVE verified \subseteq verified'
  BY <1>2 DEF Continue, OtpVerify, LegacyStatus, Load, Rehash, Insert,
       CommitCreate, CommitVerify, CommitVersion, CommitRequest, CommitReset,
       CommitProfile, CommitDelete, LoginRespond, RevokeRespond, RefreshSign,
       history
<1> QED
  BY <1>1, <1>2 DEF AccountNext, Abort, ResendLink, ResetExpires, vars, history

\* What becomes Active was Active in the table, or is being verified.
LEMMA StepStatus ==
  ASSUME RequireVerification, Typed, Attested, [AccountNext]_vars,
         NEW u \in Users, account'[u].status = "Active"
  PROVE  u \in verified'
<1>1. CASE account'[u] = account[u]
  BY <1>1, VerifiedGrows DEF Attested
<1>2. ASSUME NEW r \in Requests, Continue(r), account'[u] # account[u]
      PROVE  u \in verified'
  <2>1. pc[r] # "idle"
    BY <1>2 DEF Continue, OtpVerify, LegacyStatus, Load, Rehash, Insert,
         CommitCreate, CommitVerify, CommitVersion, CommitRequest,
         CommitReset, CommitProfile, CommitDelete, LoginRespond,
         RevokeRespond, RefreshSign
  <2> DEFINE v == req[r].user
             mine == req[r].row
             stored == account[v]
  <2>2. v \in Users /\ mine \in Row /\ stored \in Row /\ mine.password \in Nat
    BY <2>1, RequestParts DEF Row
  <2>3. /\ mine.status = "Active" => v \in verified
        /\ stored.status = "Active" => v \in verified
    BY <2>2 DEF Attested, AttestedRequest
  <2>4. ASSUME NEW row, account' = [account EXCEPT ![v] = row],
               row.status = "Active" => v \in verified'
        PROVE  u \in verified'
    BY <1>2, <2>2, <2>4 DEF Typed, AccountTypeOK
  <2>5. verified \subseteq verified'
    BY VerifiedGrows
  <2>6. ASSUME NEW new \in Row, account' = [account EXCEPT ![v] = Flush(@, new)],
               new.status = "Active" => v \in verified'
        PROVE  u \in verified'
    <3>1. Flush(stored, new).status = new.status
      BY <2>2, WritesStatus
    <3> QED
      BY <2>4, <2>6, <3>1
  <2> HIDE DEF mine, stored, v
  <2>7. CASE Rehash(r)
    <3>1. WritePassword(stored, mine.password).status = stored.status
      BY <2>2, WritesStatus
    <3> QED
      BY <2>3, <2>4, <2>5, <2>7, <3>1 DEF Rehash, mine, stored, v
  <2>8. CASE Insert(r)
    <3>1. account' = [account EXCEPT ![v] =
            [NoRow EXCEPT !.exists = TRUE, !.password = lastPassword']]
      BY <1>2, <2>8 DEF Insert, v
    <3>2. [NoRow EXCEPT !.exists = TRUE, !.password = lastPassword'].status
            = "none"
      BY DEF NoRow
    <3> QED
      BY <2>4, <3>1, <3>2
  <2>9. CASE CommitCreate(r)
    <3>1. account' = [account EXCEPT ![v] =
            Flush(@, [mine EXCEPT !.status = "Awaiting"])]
      BY <2>9 DEF CommitCreate, mine, v
    <3>2. [mine EXCEPT !.status = "Awaiting"] \in Row
      BY <2>2, EditTypes DEF Statuses
    <3>3. [mine EXCEPT !.status = "Awaiting"].status = "Awaiting"
      BY <2>2 DEF Row
    <3> QED
      BY <2>6, <3>1, <3>2, <3>3
  <2>10. CASE CommitVerify(r)
    <3>1. [mine EXCEPT !.status = "Active"] \in Row
      BY <2>2, EditTypes DEF Statuses
    <3> QED
      BY <2>6, <2>10, <3>1 DEF CommitVerify, mine, v
  <2>11. CASE CommitVersion(r)
    <3>1. [mine EXCEPT !.version = @ + 1] \in Row
      BY <2>2, EditTypes
    <3>2. [mine EXCEPT !.version = @ + 1].status = mine.status
      BY <2>2 DEF Row
    <3> QED
      BY <2>3, <2>5, <2>6, <2>11, <3>1, <3>2 DEF CommitVersion, mine, v
  <2>12. CASE CommitRequest(r)
    <3>1. [mine EXCEPT !.reset = req[r].secret] \in Row
      BY <2>2, <2>12, EditTypes DEF CommitRequest, Typed, RequestNamed
    <3>2. [mine EXCEPT !.reset = req[r].secret].status = mine.status
      BY <2>2 DEF Row
    <3> QED
      BY <2>3, <2>5, <2>6, <2>12, <3>1, <3>2 DEF CommitRequest, mine, v
  <2>13. CASE CommitReset(r)
    <3>1. lastPassword' \in Nat
      BY <2>13 DEF CommitReset, Typed, AccountTypeOK
    <3>2. WriteReset(stored, mine, lastPassword').status = mine.status
      BY <2>2, <3>1, WritesStatus
    <3> QED
      BY <2>3, <2>4, <2>5, <2>13, <3>2 DEF CommitReset, mine, stored, v
  <2>14. CASE CommitProfile(r)
    <3>1. lastPassword' \in Nat
      BY <2>14 DEF CommitProfile, Typed, AccountTypeOK
    <3>2. WritePassword(stored, lastPassword').status = stored.status
      BY <2>2, <3>1, WritesStatus
    <3> QED
      BY <2>3, <2>4, <2>5, <2>14, <3>2 DEF CommitProfile, stored, v
  <2>15. CASE CommitDelete(r)
    <3>1. WriteClosed(stored).status = stored.status
      BY <2>2, WritesStatus
    <3> QED
      BY <2>3, <2>4, <2>5, <2>15, <3>1 DEF CommitDelete, stored, v
  <2>16. CASE \/ OtpVerify(r) \/ LegacyStatus(r) \/ Load(r)
              \/ LoginRespond(r) \/ RevokeRespond(r) \/ RefreshSign(r)
    BY <1>2, <2>16 DEF OtpVerify, LegacyStatus, Load, LoginRespond,
                       RevokeRespond, RefreshSign
  <2> QED
    BY <1>2, <2>7, <2>8, <2>9, <2>10, <2>11, <2>12, <2>13, <2>14, <2>15, <2>16
       DEF Continue
<1>3. ASSUME account' # account
      PROVE  \E r \in Requests : Continue(r)
  BY <1>3, ZenonT(30)
     DEF AccountNext, vars, Start, CreateCheck, VerifyCheck, LoginCheck,
       LegacyCheck, RequestLoad, OtpOpen, MagicScan, RefreshCheck, RevokeCheck,
       Authenticated, Abort, ResendLink, ResetExpires
<1> QED
  BY <1>1, <1>2, <1>3

\* What a request holds stays attested, and a step that gives it a new row or
\* a new label has found the row in the table.
LEMMA StepRequests ==
  ASSUME RequireVerification, Typed, Attested, [AccountNext]_vars,
         NEW s \in Requests
  PROVE  AttestedRequest(req[s], pc[s])'
<1> DEFINE Good == AttestedRequest(req[s], pc[s])'
<1>1. verified \subseteq verified'
  BY VerifiedGrows
<1>2. ASSUME pc'[s] = pc[s] /\ req'[s] = req[s]
      PROVE  Good
  BY <1>1, <1>2 DEF Attested, AttestedRequest
<1>3. ASSUME NEW r \in Requests, Finish(r)
      PROVE  Good
  <2>1. CASE s # r
    BY <1>2, <1>3, <2>1, FinishMoves
  <2>2. CASE s = r
    BY <1>3, <2>2, FinishMoves DEF AttestedRequest, NoRequest, NoRow
  <2> QED
    BY <2>1, <2>2
<1>4. ASSUME NEW r \in Requests, NEW q, NEW label,
             req' = [req EXCEPT ![r] = q], Goto(r, label),
             AttestedRequest(q, label)
      PROVE  Good
  <2>1. CASE s # r
    BY <1>2, <1>4, <2>1 DEF Goto, Typed, AccountTypeOK
  <2>2. CASE s = r
    <3>1. req'[s] = q /\ pc'[s] = label
      BY <1>4, <2>2 DEF Goto, Typed, AccountTypeOK
    <3> QED
      BY <1>1, <1>4, <3>1 DEF AttestedRequest
  <2> QED
    BY <2>1, <2>2
<1>5. \A u \in Users :
        /\ account[u].status = "Active" => u \in verified
        /\ StatusAllowed(account[u].status) => u \in verified
  BY DEF Attested, StatusAllowed
<1>6. \A t \in issued : t.user \in Users /\ t.user \in verified
  BY DEF Attested, Typed, AccountTypeOK, TokenPair
<1>7. ASSUME NEW r \in Requests, Start(r)
      PROVE  Good
  <2>1. ASSUME NEW label, NEW op, NEW u, Begin(r, label, op, u),
               op \in {"login", "refresh"} => u \in verified
        PROVE  Good
    <3> DEFINE q == [NoRequest EXCEPT !.op = op, !.user = u,
                                      !.prior = SessionsOf(u)]
    <3>1. q.op = op /\ q.user = u /\ q.row = NoRow
      BY DEF NoRequest
    <3>2. req' = [req EXCEPT ![r] = q] /\ Goto(r, label)
      BY <2>1 DEF Begin
    <3> HIDE DEF q
    <3>3. AttestedRequest(q, label)
      BY <2>1, <3>1 DEF AttestedRequest, NoRow
    <3> QED
      BY <1>4, <3>2, <3>3
  <2>2. ASSUME NEW u \in Users,
               CreateCheck(r, u) \/ VerifyCheck(r, u) \/ LoginCheck(r, u)
        PROVE  Good
    BY <1>5, <2>1, <2>2 DEF CreateCheck, VerifyCheck, LoginCheck
  <2>3. ASSUME NEW t \in issued,
               \/ RevokeCheck(r, t)
               \/ \E op \in {"profile", "delete"} : Authenticated(r, t, op)
        PROVE  Good
    BY <2>1, <2>3 DEF RevokeCheck, Authenticated
  <2>4. ASSUME NEW u \in Users, LegacyCheck(r, u)
        PROVE  Good
    <3> DEFINE q == [NoRequest EXCEPT !.op = "login", !.user = u,
                       !.row = account[u], !.prior = SessionsOf(u)]
    <3>1. q.op = "login" /\ q.user = u /\ q.row = account[u]
      BY DEF NoRequest
    <3>2. req' = [req EXCEPT ![r] = q] /\ Goto(r, "rehash")
      BY <2>4 DEF LegacyCheck
    <3> HIDE DEF q
    <3>3. AttestedRequest(q, "rehash")
      BY <1>5, <3>1 DEF AttestedRequest
    <3> QED
      BY <1>4, <3>2, <3>3
  <2>5. ASSUME NEW t \in issued, RefreshCheck(r, t)
        PROVE  Good
    <3> DEFINE q == [NoRequest EXCEPT !.op = "refresh", !.user = t.user,
                       !.version = t.version, !.session = t.session]
    <3>1. q.op = "refresh" /\ q.user = t.user /\ q.row = NoRow
      BY DEF NoRequest
    <3>2. req' = [req EXCEPT ![r] = q] /\ Goto(r, "checked")
      BY <2>5 DEF RefreshCheck
    <3> HIDE DEF q
    <3>3. AttestedRequest(q, "checked")
      BY <1>6, <3>1 DEF AttestedRequest, NoRow
    <3> QED
      BY <1>4, <3>2, <3>3
  <2>6. ASSUME NEW u \in Users, NEW secret \in ResetTokens,
               RequestLoad(r, u, secret) \/ MagicScan(r, u, secret)
        PROVE  Good
    <3>1. PICK op \in {"request", "magic"} :
            req' = [req EXCEPT ![r] = [NoRequest EXCEPT !.op = op, !.user = u,
                      !.row = account[u], !.secret = secret]]
      BY <2>6 DEF RequestLoad, MagicScan
    <3> DEFINE q == [NoRequest EXCEPT !.op = op, !.user = u,
                       !.row = account[u], !.secret = secret]
    <3>2. q.op = op /\ q.user = u /\ q.row = account[u]
      BY DEF NoRequest
    <3>3. req' = [req EXCEPT ![r] = q] /\ Goto(r, "loaded")
      BY <2>6, <3>1 DEF RequestLoad, MagicScan
    <3> HIDE DEF q
    <3>4. AttestedRequest(q, "loaded")
      BY <1>5, <3>2 DEF AttestedRequest
    <3> QED
      BY <1>4, <3>3, <3>4
  <2>7. ASSUME NEW u \in Users, NEW secret \in OtpTokens, OtpOpen(r, u, secret)
        PROVE  Good
    <3> DEFINE q == [NoRequest EXCEPT !.op = "otp", !.user = u,
                                      !.secret = secret]
    <3>1. q.op = "otp" /\ q.user = u /\ q.row = NoRow
      BY DEF NoRequest
    <3>2. req' = [req EXCEPT ![r] = q] /\ Goto(r, "opened")
      BY <2>7 DEF OtpOpen
    <3> HIDE DEF q
    <3>3. AttestedRequest(q, "opened")
      BY <3>1 DEF AttestedRequest, NoRow
    <3> QED
      BY <1>4, <3>2, <3>3
  <2>8. MagicTokens \subseteq ResetTokens
    BY DEF ResetTokens
  <2> HIDE DEF Good
  <2> QED
    BY <1>7, <2>2, <2>3, <2>4, <2>5, <2>6, <2>7, <2>8 DEF Start
<1>8. ASSUME NEW r \in Requests, Continue(r)
      PROVE  Good
  <2>1. ASSUME NEW label, Goto(r, label), req' = req,
               \/ req[r].op \notin {"login", "refresh"}
               \/ label = "opened" /\ req[r].op # "refresh"
               \/ pc[r] \notin {"idle", "rehash", "opened"}
        PROVE  Good
    <3>1. AttestedRequest(req[r], label)
      BY <2>1 DEF Attested, AttestedRequest
    <3>2. req' = [req EXCEPT ![r] = req[r]]
      BY <2>1 DEF Typed, AccountTypeOK
    <3> QED
      BY <1>4, <2>1, <3>1, <3>2
  <2>2. ASSUME NEW label, NEW row, Goto(r, label),
               req' = [req EXCEPT ![r].row = row],
               row.status = "Active" => req[r].user \in verified,
               req[r].op \in {"login", "refresh"} => req[r].user \in verified
        PROVE  Good
    <3> DEFINE q == [req[r] EXCEPT !.row = row]
    <3>1. q.op = req[r].op /\ q.user = req[r].user /\ q.row = row
      BY DEF Typed, AccountTypeOK, Request
    <3>2. req' = [req EXCEPT ![r] = q]
      BY <2>2 DEF Typed, AccountTypeOK
    <3> HIDE DEF q
    <3>3. AttestedRequest(q, label)
      BY <2>2, <3>1 DEF AttestedRequest
    <3> QED
      BY <1>4, <2>2, <3>2, <3>3
  <2>3. CASE Finish(r)
    BY <1>3, <2>3
  <2>4. CASE OtpVerify(r)
    BY <1>3, <2>1, <2>4 DEF OtpVerify
  <2>5. CASE LegacyStatus(r)
    <3>1. req[r].user \in Users /\ NoRow.status = "none"
      BY <2>5, RequestParts DEF LegacyStatus, NoRow
    <3> QED
      BY <1>3, <1>5, <2>2, <2>5, <3>1 DEF LegacyStatus
  <2>6. CASE Load(r)
    <3>1. /\ req[r].user \in Users
          /\ pc[r] \notin {"idle", "rehash", "opened"}
      BY <2>6, RequestParts DEF Load
    <3>2. /\ req[r].op \in {"login", "refresh"} => req[r].user \in verified
          /\ account[req[r].user].status = "Active"
                => req[r].user \in verified
      BY <3>1 DEF Attested, AttestedRequest
    <3> QED
      BY <1>3, <2>2, <2>6, <3>2 DEF Load
  <2>7. CASE Rehash(r)
    <3>1. Goto(r, "opened") /\ req' = req
      BY <2>7 DEF Rehash
    <3>2. AttestedRequest(req[r], "opened")
      BY DEF Attested, AttestedRequest
    <3>3. req' = [req EXCEPT ![r] = req[r]]
      BY <3>1 DEF Typed, AccountTypeOK
    <3> QED
      BY <1>4, <3>1, <3>2, <3>3
  <2>8. CASE Insert(r)
    BY <1>3, <2>1, <2>8 DEF Insert
  <2>9. CASE CommitVersion(r)
    BY <2>1, <2>9 DEF CommitVersion
  <2>10. CASE \/ CommitCreate(r) \/ CommitVerify(r) \/ CommitRequest(r)
              \/ CommitReset(r) \/ CommitProfile(r) \/ CommitDelete(r)
              \/ LoginRespond(r) \/ RevokeRespond(r) \/ RefreshSign(r)
    BY <2>3, <2>10
       DEF CommitCreate, CommitVerify, CommitRequest, CommitReset,
           CommitProfile, CommitDelete, LoginRespond, RevokeRespond,
           RefreshSign
  <2> HIDE DEF Good
  <2> QED
    BY <1>8, <2>4, <2>5, <2>6, <2>7, <2>8, <2>9, <2>10 DEF Continue
<1>9. ASSUME NEW r \in Requests, Abort(r)
      PROVE  Good
  BY <1>3, <1>9 DEF Abort
<1>10. ASSUME UNCHANGED <<pc, req>>
       PROVE  Good
  BY <1>2, <1>10
<1> HIDE DEF Good
<1>11. Good
  BY <1>7, <1>8, <1>9, <1>10 DEF AccountNext, ResendLink, ResetExpires, vars
<1> QED
  BY <1>11 DEF Good

\* A pair is signed for a login whose status was allowed, or for the user of
\* another pair.
LEMMA StepIssued ==
  ASSUME Typed, Attested, [AccountNext]_vars, NEW t \in issued'
  PROVE  t.user \in verified'
<1>1. verified \subseteq verified'
  BY VerifiedGrows
<1>2. CASE t \in issued
  BY <1>1, <1>2 DEF Attested
<1>3. ASSUME NEW r \in Requests, LoginRespond(r) \/ RefreshSign(r),
             t \notin issued
      PROVE  t.user \in verified'
  <2>1. t.user = req[r].user
    BY <1>3 DEF LoginRespond, RefreshSign
  <2>2. \/ req[r].op = "login" /\ pc[r] = "committed"
        \/ req[r].op = "refresh"
    BY <1>3 DEF LoginRespond, RefreshSign
  <2>3. req[r].user \in verified
    BY <2>2 DEF Attested, AttestedRequest
  <2> QED
    BY <1>1, <2>1, <2>3
<1>4. ASSUME NEW r \in Requests, Start(r)
      PROVE  issued' = issued
  BY <1>4 DEF Start, CreateCheck, VerifyCheck, LoginCheck, LegacyCheck,
       RequestLoad, OtpOpen, MagicScan, RefreshCheck, RevokeCheck,
       Authenticated, history
<1>5. ASSUME NEW r \in Requests, Continue(r), ~LoginRespond(r),
             ~RefreshSign(r)
      PROVE  issued' = issued
  BY <1>5 DEF Continue, OtpVerify, LegacyStatus, Load, Rehash, Insert,
       CommitCreate, CommitVerify, CommitVersion, CommitRequest, CommitReset,
       CommitProfile, CommitDelete, RevokeRespond, history
<1> QED
  BY <1>2, <1>3, <1>4, <1>5
     DEF AccountNext, Abort, ResendLink, ResetExpires, vars, history

\* With verification required, every pair was signed for a user who followed
\* a verification link: no interleaving of requests that write the metadata
\* column from older copies activates an account by the way.
THEOREM VerifiedFirst == AccountSpec => []VerifiedBeforeToken
<1>1. CASE ~RequireVerification
  <2>1. VerifiedBeforeToken
    BY <1>1 DEF VerifiedBeforeToken
  <2> QED
    BY <2>1, PTL
<1>2. CASE RequireVerification
  <2>1. AccountInit => Attested
    BY DEF AccountInit, Attested, AttestedRequest, NoRequest, NoRow
  <2>2. Typed /\ Attested /\ [AccountNext]_vars => Attested'
    BY <1>2, StepStatus, StepRequests, StepIssued DEF Attested
  <2>3. AccountSpec => [](Typed /\ Attested)
    BY <2>1, <2>2, InitTyped, NextTyped, PTL DEF AccountSpec
  <2>4. Attested => VerifiedBeforeToken
    BY DEF Attested, VerifiedBeforeToken
  <2> QED
    BY <2>3, <2>4, PTL
<1> QED
  BY <1>1, <1>2

-----------------------------------------------------------------------------
(* A replaced password stays replaced.                                     *)

\* The users whose password was never stored unhashed.
HashedUsers == Users \ LegacyUsers

\* No copy of a request is ever the password column of such a user, and the
\* stored one is not newer than the newest that was chosen.
Newest ==
  /\ \A u \in HashedUsers :
       account[u].hashed /\ account[u].password <= lastPassword
  /\ \A r \in Requests : pc[r] = "rehash" => req[r].user \in LegacyUsers

\* The writes of the metadata column and of the flag leave the password alone.
LEMMA WritesPassword ==
  ASSUME NEW row \in Row, NEW mine \in Row
  PROVE  /\ Flush(row, mine).password = row.password
         /\ Flush(row, mine).hashed = row.hashed
         /\ WriteClosed(row).password = row.password
         /\ WriteClosed(row).hashed = row.hashed
BY DEF Flush, WriteClosed, Row

\* A commit keeps the password of such a user or puts the next number.
LEMMA CommitPassword ==
  ASSUME Typed, Newest, NEW r \in Requests, Continue(r), NEW u \in HashedUsers,
         account' # account
  PROVE  /\ account'[u].hashed
         /\ \/ account'[u].password = account[u].password
            \/ /\ account'[u].password = lastPassword + 1
               /\ lastPassword' = lastPassword + 1
         /\ lastPassword' \in {lastPassword, lastPassword + 1}
<1> DEFINE Kept ==
      /\ account'[u].hashed
      /\ \/ account'[u].password = account[u].password
         \/ /\ account'[u].password = lastPassword + 1
            /\ lastPassword' = lastPassword + 1
      /\ lastPassword' \in {lastPassword, lastPassword + 1}
<1>1. pc[r] # "idle"
  BY DEF Continue, OtpVerify, LegacyStatus, Load, Rehash, Insert,
       CommitCreate, CommitVerify, CommitVersion, CommitRequest,
       CommitReset, CommitProfile, CommitDelete, LoginRespond,
       RevokeRespond, RefreshSign
<1>2. PICK v \in Users : v = req[r].user
  BY <1>1, RequestParts
<1>3. PICK mine \in Row : mine = req[r].row
  BY <1>1, RequestParts
<1>4. /\ account[u] \in Row /\ account[v] \in Row /\ u \in Users
      /\ account \in [Users -> Row] /\ lastPassword + 1 \in Nat
  BY <1>2 DEF Typed, AccountTypeOK, HashedUsers
<1>5. account[u].hashed
  BY DEF Newest
<1>6. ASSUME NEW row, account' = [account EXCEPT ![v] = row], u # v,
             lastPassword' \in {lastPassword, lastPassword + 1}
      PROVE  Kept
  BY <1>4, <1>5, <1>6
<1>7. ASSUME NEW new \in Row, account' = [account EXCEPT ![v] = Flush(@, new)],
             lastPassword' = lastPassword
      PROVE  Kept
  <2>1. CASE u = v
    <3>1. account'[u] = Flush(account[u], new)
      BY <1>4, <1>7, <2>1
    <3>2. /\ Flush(account[u], new).password = account[u].password
          /\ Flush(account[u], new).hashed = account[u].hashed
      BY <1>4, <1>7, WritesPassword
    <3> QED
      BY <1>5, <1>7, <3>1, <3>2
  <2> QED
    BY <1>6, <1>7, <2>1
<1>8. CASE Rehash(r)
  <2>1. v # u
    BY <1>2, <1>8 DEF Rehash, Newest, HashedUsers
  <2> QED
    BY <1>2, <1>6, <1>8, <2>1 DEF Rehash, history
<1>9. CASE Insert(r)
  <2>1. account' = [account EXCEPT ![v] =
          [NoRow EXCEPT !.exists = TRUE, !.password = lastPassword + 1]]
        /\ lastPassword' = lastPassword + 1
    BY <1>2, <1>9 DEF Insert
  <2>2. CASE u = v
    BY <1>4, <2>1, <2>2 DEF NoRow
  <2> QED
    BY <1>6, <2>1, <2>2
<1>10. CASE \/ CommitCreate(r) \/ CommitVerify(r) \/ CommitVersion(r)
            \/ CommitRequest(r)
  <2>1. \E new \in Row : account' = [account EXCEPT ![v] = Flush(@, new)]
    <3>1. CASE CommitCreate(r)
      <4>1. PICK s \in Statuses :
              s = IF RequireVerification THEN "Awaiting" ELSE "Active"
        BY DEF Statuses
      <4> QED
        BY <1>2, <1>3, <3>1, <4>1, EditTypes DEF CommitCreate
    <3>2. CASE CommitVerify(r)
      BY <1>2, <1>3, <3>2, EditTypes DEF CommitVerify, Statuses
    <3>3. CASE CommitVersion(r)
      BY <1>2, <1>3, <3>3, EditTypes DEF CommitVersion
    <3>4. CASE CommitRequest(r)
      <4>1. req[r].secret \in ResetTokens
        BY <3>4 DEF CommitRequest, Typed, RequestNamed
      <4> QED
        BY <1>2, <1>3, <3>4, <4>1, EditTypes DEF CommitRequest
    <3> QED
      BY <1>10, <3>1, <3>2, <3>3, <3>4
  <2>2. lastPassword' = lastPassword
    BY <1>10 DEF CommitCreate, CommitVerify, CommitVersion, CommitRequest,
                 history
  <2> QED
    BY <1>7, <2>1, <2>2
<1>11. CASE CommitReset(r) \/ CommitProfile(r)
  <2>1. lastPassword' = lastPassword + 1
    BY <1>11 DEF CommitReset, CommitProfile
  <2>2. \/ account' = [account EXCEPT ![v] =
                         WriteReset(@, mine, lastPassword + 1)]
        \/ account' = [account EXCEPT ![v] =
                         WritePassword(@, lastPassword + 1)]
    BY <1>2, <1>3, <1>11 DEF CommitReset, CommitProfile
  <2>3. CASE u = v
    <3>1. PICK n \in Nat : n = lastPassword + 1
      BY <1>4
    <3>2. \/ account'[u] = WriteReset(account[u], mine, n)
          \/ account'[u] = WritePassword(account[u], n)
      BY <1>4, <2>2, <2>3, <3>1
    <3>3. account'[u].hashed /\ account'[u].password = n
      BY <1>4, <3>2 DEF WriteReset, WritePassword, Row
    <3> QED
      BY <2>1, <3>1, <3>3
  <2> QED
    BY <1>6, <2>1, <2>2, <2>3
<1>12. CASE CommitDelete(r)
  <2>1. account' = [account EXCEPT ![v] = WriteClosed(@)]
    BY <1>2, <1>12 DEF CommitDelete
  <2>2. lastPassword' = lastPassword
    BY <1>12 DEF CommitDelete, history
  <2>3. CASE u = v
    BY <1>3, <1>4, <1>5, <2>1, <2>2, <2>3, WritesPassword
  <2> QED
    BY <1>6, <2>1, <2>2, <2>3
<1>13. CASE \/ OtpVerify(r) \/ LegacyStatus(r) \/ Load(r) \/ LoginRespond(r)
            \/ RevokeRespond(r) \/ RefreshSign(r)
  BY <1>13 DEF OtpVerify, LegacyStatus, Load, LoginRespond, RevokeRespond,
               RefreshSign
<1> HIDE DEF Kept
<1> QED
  BY <1>8, <1>9, <1>10, <1>11, <1>12, <1>13 DEF Continue

\* Only the login of a user whose password is stored unhashed gets to hash it.
LEMMA RehashOfLegacy ==
  ASSUME Typed, Newest, [AccountNext]_vars, NEW q \in Requests,
         pc'[q] = "rehash"
  PROVE  req'[q].user \in LegacyUsers
<1>1. CASE UNCHANGED <<pc, req>>
  BY <1>1 DEF Newest
<1>2. pc \in [Requests -> Pcs] /\ req \in [Requests -> Request]
  BY DEF Typed, AccountTypeOK
<1>3. ASSUME NEW r \in Requests, r # q,
             \/ Start(r) \/ Continue(r) \/ Abort(r)
      PROVE  pc'[q] = pc[q] /\ req'[q] = req[q]
  <2>1. CASE Start(r)
    BY <1>2, <1>3, <2>1, ZenonT(30)
       DEF Start, CreateCheck, VerifyCheck, LoginCheck, LegacyCheck,
           RequestLoad, OtpOpen, MagicScan, RefreshCheck, RevokeCheck,
           Authenticated, Begin, Goto
  <2>2. CASE Continue(r) \/ Abort(r)
    BY <1>2, <1>3, <2>2, ZenonT(30)
       DEF Continue, Abort, Finish, Goto, OtpVerify, LegacyStatus, Load,
           Rehash, Insert, CommitCreate, CommitVerify, CommitVersion,
           CommitRequest, CommitReset, CommitProfile, CommitDelete,
           LoginRespond, RevokeRespond, RefreshSign
  <2> QED
    BY <1>3, <2>1, <2>2
<1>4. CASE Continue(q) \/ Abort(q)
  <2>1. pc'[q] # "rehash"
    BY <1>2, <1>4
       DEF Continue, Abort, Finish, Goto, OtpVerify, LegacyStatus, Load,
           Rehash, Insert, CommitCreate, CommitVerify, CommitVersion,
           CommitRequest, CommitReset, CommitProfile, CommitDelete,
           LoginRespond, RevokeRespond, RefreshSign
  <2> QED
    BY <2>1
<1>5. CASE Start(q)
  <2>1. PICK u \in Users : LegacyCheck(q, u)
    BY <1>2, <1>5
       DEF Start, CreateCheck, VerifyCheck, LoginCheck,
           RequestLoad, OtpOpen, MagicScan, RefreshCheck, RevokeCheck,
           Authenticated, Begin, Goto
  <2>2. req'[q].user = u
    BY <1>2, <2>1 DEF LegacyCheck, NoRequest
  <2> QED
    BY <2>1, <2>2 DEF LegacyCheck, Newest, HashedUsers
<1> QED
  BY <1>1, <1>3, <1>4, <1>5
     DEF AccountNext, ResendLink, ResetExpires, vars, Newest

\* A step writes the password of such a user only by choosing a newer one.
LEMMA StepPassword ==
  ASSUME Typed, Newest, [AccountNext]_vars, NEW u \in HashedUsers
  PROVE  /\ account'[u].hashed
         /\ account'[u].password >= account[u].password
         /\ account'[u].password <= lastPassword'
<1>1. /\ account[u].hashed /\ account[u].password <= lastPassword
      /\ account[u].password \in Nat /\ lastPassword \in Nat
  BY DEF Newest, Typed, AccountTypeOK, HashedUsers, Row
<1>2. CASE /\ UNCHANGED account
           /\ lastPassword' \in {lastPassword, lastPassword + 1}
  BY <1>1, <1>2
<1>3. ASSUME NEW r \in Requests, Continue(r), account' # account
      PROVE  /\ account'[u].hashed
             /\ \/ account'[u].password = account[u].password
                \/ /\ account'[u].password = lastPassword + 1
                   /\ lastPassword' = lastPassword + 1
             /\ lastPassword' \in {lastPassword, lastPassword + 1}
  BY <1>3, CommitPassword
<1>4. ASSUME NEW r \in Requests, Continue(r), account' = account
      PROVE  lastPassword' \in {lastPassword, lastPassword + 1}
  BY <1>4 DEF Continue, OtpVerify, LegacyStatus, Load, Rehash, Insert,
       CommitCreate, CommitVerify, CommitVersion, CommitRequest, CommitReset,
       CommitProfile, CommitDelete, LoginRespond, RevokeRespond, RefreshSign,
       history
<1>5. ASSUME NEW r \in Requests, Start(r) \/ Abort(r)
      PROVE  UNCHANGED <<account, lastPassword>>
  BY <1>5, ZenonT(30)
     DEF Start, CreateCheck, VerifyCheck, LoginCheck, LegacyCheck,
         RequestLoad, OtpOpen, MagicScan, RefreshCheck, RevokeCheck,
         Authenticated, Abort, history
<1>6. CASE UNCHANGED <<account, lastPassword>>
  BY <1>1, <1>6
<1>7. ASSUME NEW r \in Requests, Continue(r)
      PROVE  /\ account'[u].hashed
             /\ account'[u].password >= account[u].password
             /\ account'[u].password <= lastPassword'
  BY <1>1, <1>2, <1>3, <1>4, <1>7
<1> QED
  BY <1>5, <1>6, <1>7
     DEF AccountNext, ResendLink, ResetExpires, vars, history

\* A password that was replaced, by a reset or by the profile, stays replaced
\* however the requests overlap.  Only the password of an account from before
\* hashing can come back, as its first login writes the one it compared.
THEOREM PasswordsStayReplaced == AccountSpec => PasswordNeverReverts
<1>1. AccountInit => Newest
  BY DEF AccountInit, Newest, HashedUsers, NoRow
<1>2. Typed /\ Newest /\ [AccountNext]_vars => Newest'
  BY StepPassword, RehashOfLegacy DEF Newest
<1>3. Typed /\ Newest /\ [AccountNext]_vars =>
        [\A u \in Users \ LegacyUsers :
           account'[u].password >= account[u].password]_account
  BY StepPassword DEF HashedUsers
<1> QED
  BY <1>1, <1>2, <1>3, InitTyped, NextTyped, PTL
     DEF AccountSpec, PasswordNeverReverts
=============================================================================
