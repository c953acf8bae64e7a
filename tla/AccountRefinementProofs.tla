---------------------- MODULE AccountRefinementProofs ----------------------
(***************************************************************************)
(* Theorems about AccountSessions when requests to one account do not      *)
(* overlap: what ended stays ended, a reset token works once, and the      *)
(* endpoints implement SessionStore.  Requests to different accounts       *)
(* overlap as they like.                                                   *)
(***************************************************************************)
EXTENDS AccountRefinement, AccountSessionsProofs

OneAtATime ==
  \A r, s \in Requests :
    pc[r] # "idle" /\ pc[s] # "idle" /\ req[r].user = req[s].user => r = s

-----------------------------------------------------------------------------
(* The inductive invariant.                                                *)

\* A pair never runs ahead of the version on record, falls behind it when its
\* session is over, and belongs to an account that may log in.
TokensBehind ==
  /\ ended \subseteq 1..lastSession
  /\ \A t \in issued :
       /\ t.version <= account[t.user].version
       /\ t.session \in ended => t.version < account[t.user].version
       /\ StatusAllowed(account[t.user].status)
       /\ t.session \in 1..lastSession
       /\ \A p \in issued : p.session = t.session => p.user = t.user

\* A reset token is on record for one user only, and not once it was used.
RecordsApart ==
  /\ spent \subseteq mailed
  /\ \A u \in Users :
       /\ ~account[u].exists => account[u].version = 0 /\ account[u].status = "none"
       /\ account[u].reset \in mailed \cup {NoToken}
       /\ account[u].reset \notin spent
       /\ \A v \in Users : account[u].reset = account[v].reset =>
                             u = v \/ account[u].reset = NoToken

\* What a request with these local variables read at this label still holds.
Current(q, label) ==
  label # "idle" =>
    /\ label = "loaded" => q.row = account[q.user]
    /\ label = "inserted" => q.op = "create"
    /\ q.op # "create" \/ label # "checked" => account[q.user].exists
    /\ q.prior \subseteq 1..lastSession
    /\ \A t \in issued : t.session \in q.prior => t.user = q.user
    /\ q.op = "refresh" =>
         \E t \in issued : /\ t.user = q.user /\ t.version = q.version
                           /\ t.session = q.session
    /\ q.op = "login" => IsOpen(q.user)
    /\ q.op = "login" /\ label \notin {"rehash", "opened"} =>
         StatusAllowed(account[q.user].status)
    /\ label = "committed" =>
         \A t \in issued : t.user = q.user => t.version < account[q.user].version
    /\ q.op = "create" /\ label \in {"inserted", "loaded"} =>
         account[q.user].status = "none"
    /\ q.op \in {"otp", "magic"} /\ label \in {"checked", "loaded"} =>
         account[q.user].reset = q.secret /\ q.secret \in mailed

ReadsCurrent == \A r \in Requests : Current(req[r], pc[r])

AloneInv == Typed /\ TokensBehind /\ RecordsApart /\ ReadsCurrent

-----------------------------------------------------------------------------
(* What the commits write, when the row they were loaded with is current.  *)

Becomes(row, new, status, version, reset) ==
  /\ new \in Row
  /\ new.exists = row.exists /\ new.closed = row.closed
  /\ new.status = status /\ new.version = version /\ new.reset = reset

LEMMA StatusWrites ==
  ASSUME NEW row \in Row, NEW s \in Statuses
  PROVE  Becomes(row, Flush(row, [row EXCEPT !.status = s]),
                 s, row.version, row.reset)
BY DEF Becomes, Flush, Row

LEMMA VersionWrites ==
  ASSUME NEW row \in Row
  PROVE  Becomes(row, Flush(row, [row EXCEPT !.version = @ + 1]),
                 row.status, row.version + 1, row.reset)
<1> DEFINE mine == [row EXCEPT !.version = @ + 1]
<1>1. mine \in Row
  BY EditTypes
<1>2. mine.status = row.status /\ mine.reset = row.reset
  BY DEF Row
<1>3. mine.version = row.version + 1
  BY DEF Row
<1> HIDE DEF mine
<1>4. Flush(row, mine) \in Row
  BY <1>1, FlushType
<1>5. /\ Flush(row, mine).exists = row.exists
      /\ Flush(row, mine).closed = row.closed
      /\ Flush(row, mine).status = row.status
      /\ Flush(row, mine).version = row.version + 1
      /\ Flush(row, mine).reset = row.reset
  BY <1>2, <1>3 DEF Flush, Row
<1>6. Becomes(row, Flush(row, mine), row.status, row.version + 1, row.reset)
  BY <1>4, <1>5 DEF Becomes
<1> QED
  BY <1>6 DEF mine

LEMMA ResetWrites ==
  ASSUME NEW row \in Row, NEW t \in ResetTokens
  PROVE  Becomes(row, Flush(row, [row EXCEPT !.reset = t]),
                 row.status, row.version, t)
BY DEF Becomes, Flush, Row

LEMMA PasswordWrites ==
  ASSUME NEW row \in Row, NEW p \in Nat
  PROVE  /\ Becomes(row, WriteReset(row, row, p), row.status, row.version, NoToken)
         /\ Becomes(row, WritePassword(row, p), row.status, row.version, row.reset)
<1>1. Becomes(row, WriteReset(row, row, p), row.status, row.version, NoToken)
  BY DEF Becomes, WriteReset, Row
<1>2. Becomes(row, WritePassword(row, p), row.status, row.version, row.reset)
  BY DEF Becomes, WritePassword, Row
<1> QED
  BY <1>1, <1>2

LEMMA ClosingWrites ==
  ASSUME NEW row \in Row
  PROVE  /\ WriteClosed(row) \in Row /\ WriteClosed(row).closed
         /\ WriteClosed(row).exists = row.exists
         /\ WriteClosed(row).status = row.status
         /\ WriteClosed(row).version = row.version
         /\ WriteClosed(row).reset = row.reset
BY DEF WriteClosed, Row

\* A row that replaces another: its version does not go back, who may log in
\* still may, and unless nobody ever could, or this ends all logins, the same
\* tokens are let in.
Follows(stored, row) ==
  /\ row \in Row
  /\ stored.exists => row.exists
  /\ ~row.exists => row.version = 0 /\ row.status = "none"
  /\ row.version >= stored.version
  /\ StatusAllowed(stored.status) => StatusAllowed(row.status)
  /\ \/ stored.status = "none"
     \/ row.version > stored.version
     \/ row.closed
     \/ /\ row.version = stored.version
        /\ row.exists = stored.exists /\ row.closed = stored.closed

\* What the same commit does to the reset tokens.
ResetMoves(stored, row) ==
  \/ row.reset = stored.reset /\ UNCHANGED <<mailed, spent>>
  \/ row.reset = NoToken /\ UNCHANGED <<mailed, spent>>
  \/ /\ row.reset = NoToken /\ UNCHANGED mailed
     /\ stored.reset \in mailed /\ spent' = spent \cup {stored.reset}
  \/ /\ row.reset \in ResetTokens \ mailed /\ UNCHANGED spent
     /\ mailed' = mailed \cup {row.reset}

Logins == <<issued, ended, lastSession>>

Writes(r) ==
  \/ Rehash(r) \/ (Insert(r) /\ ~account[req[r].user].exists)
  \/ CommitCreate(r) \/ CommitVerify(r) \/ CommitVersion(r)
  \/ CommitRequest(r) \/ CommitReset(r) \/ CommitProfile(r) \/ CommitDelete(r)

LEMMA CommitWrites ==
  ASSUME AloneInv, NEW r \in Requests, Writes(r)
  PROVE  /\ UNCHANGED Logins
         /\ \E row \in Row : /\ account' = [account EXCEPT ![req[r].user] = row]
                             /\ Follows(account[req[r].user], row)
                             /\ ResetMoves(account[req[r].user], row)
<1> DEFINE u == req[r].user
           stored == account[u]
           mine == req[r].row
           Goal(row) == /\ account' = [account EXCEPT ![u] = row]
                        /\ Follows(stored, row) /\ ResetMoves(stored, row)
<1>1. pc[r] # "idle"
  BY DEF Writes, Rehash, Insert, CommitCreate, CommitVerify, CommitVersion,
         CommitRequest, CommitReset, CommitProfile, CommitDelete
<1>2. /\ u \in Users /\ mine \in Row /\ stored \in Row /\ mine.password \in Nat
      /\ stored.version \in Nat /\ account \in [Users -> Row]
  BY <1>1, RequestParts DEF AloneInv, Typed, AccountTypeOK, Row
<1>3. ~stored.exists => stored.version = 0 /\ stored.status = "none"
  BY <1>2 DEF AloneInv, RecordsApart
<1>4. pc[r] = "loaded" => mine = stored
  BY DEF AloneInv, ReadsCurrent, Current
<1>5. Current(req[r], pc[r])
  BY DEF AloneInv, ReadsCurrent
<1>6. UNCHANGED Logins
  BY DEF Writes, Rehash, Insert, CommitCreate, CommitVerify, CommitVersion,
         CommitRequest, CommitReset, CommitProfile, CommitDelete, history, Logins
<1> HIDE DEF stored, mine
<1>7. ASSUME NEW row, NEW status, NEW version, NEW reset,
             Becomes(stored, row, status, version, reset),
             account' = [account EXCEPT ![u] = row],
             stored.exists \/ (status = stored.status /\ version = stored.version),
             status = stored.status \/ status = "Active" \/ stored.status = "none",
             version \in {stored.version, stored.version + 1},
             ResetMoves(stored, row)
      PROVE  Goal(row) /\ row \in Row
  <2>1. StatusAllowed("Active") /\ ~StatusAllowed("none")
    BY DEF StatusAllowed
  <2> QED
    BY <1>2, <1>3, <1>7, <2>1 DEF Becomes, Follows
<1>8. CASE Rehash(r) \/ CommitProfile(r)
  <2>1. PICK p \in Nat : account' = [account EXCEPT ![u] = WritePassword(stored, p)]
    BY <1>2, <1>8
       DEF Rehash, CommitProfile, Typed, AccountTypeOK, AloneInv, stored, mine
  <2> DEFINE row == WritePassword(stored, p)
  <2>2. Becomes(stored, row, stored.status, stored.version, stored.reset)
    BY <1>2, PasswordWrites
  <2>3. UNCHANGED <<mailed, spent>>
    BY <1>8 DEF Rehash, CommitProfile, history
  <2> HIDE DEF row
  <2>4. ResetMoves(stored, row)
    BY <2>2, <2>3 DEF Becomes, ResetMoves
  <2>5. account' = [account EXCEPT ![u] = row]
    BY <2>1 DEF row
  <2>6. Goal(row) /\ row \in Row
    BY <1>2, <1>7, <2>2, <2>4, <2>5
  <2> QED
    BY <1>6, <2>6 DEF stored
<1>9. CASE Insert(r) /\ ~stored.exists
  <2> DEFINE row == [NoRow EXCEPT !.exists = TRUE, !.password = lastPassword']
  <2>1. account' = [account EXCEPT ![u] = row] /\ UNCHANGED <<mailed, spent>>
    BY <1>9 DEF Insert, stored
  <2>2. lastPassword' \in Nat
    BY <1>9 DEF Insert, AloneInv, Typed, AccountTypeOK, stored
  <2>3. /\ row \in Row /\ row.exists /\ row.version = 0 /\ row.reset = NoToken
    BY <2>2, NoRowType DEF NoRow, Row
  <2> HIDE DEF row
  <2>4. stored.status = "none" /\ stored.version = 0
    BY <1>3, <1>9
  <2>5. ~StatusAllowed(stored.status)
    BY <2>4 DEF StatusAllowed
  <2>6. Follows(stored, row)
    BY <1>9, <2>3, <2>4, <2>5 DEF Follows
  <2>7. Goal(row)
    BY <2>1, <2>3, <2>6 DEF ResetMoves
  <2> QED
    BY <1>6, <2>3, <2>7 DEF stored
<1>10. CASE CommitCreate(r) \/ CommitVerify(r)
  <2>1. stored.exists
    BY <1>5, <1>10 DEF CommitCreate, CommitVerify, Current, stored
  <2>2. PICK s \in Statuses :
          /\ account' = [account EXCEPT ![u] =
                           Flush(stored, [stored EXCEPT !.status = s])]
          /\ stored.status = "none" \/ s = "Active"
    <3>1. CASE CommitCreate(r)
      <4>1. stored.status = "none"
        BY <1>5, <3>1 DEF CommitCreate, Current, stored
      <4> QED
        BY <1>4, <3>1, <4>1 DEF CommitCreate, Statuses, stored, mine
    <3>2. CASE CommitVerify(r)
      BY <1>4, <3>2 DEF CommitVerify, Statuses, stored, mine
    <3> QED
      BY <1>10, <3>1, <3>2
  <2> DEFINE row == Flush(stored, [stored EXCEPT !.status = s])
  <2>3. Becomes(stored, row, s, stored.version, stored.reset)
    BY <1>2, StatusWrites
  <2>4. UNCHANGED <<mailed, spent>>
    BY <1>10 DEF CommitCreate, CommitVerify
  <2>5. account' = [account EXCEPT ![u] = row]
    BY <2>2
  <2> HIDE DEF row
  <2>6. ResetMoves(stored, row)
    BY <2>3, <2>4 DEF Becomes, ResetMoves
  <2>7. Goal(row) /\ row \in Row
    BY <1>2, <1>7, <2>1, <2>2, <2>3, <2>5, <2>6
  <2> QED
    BY <1>6, <2>7 DEF stored
<1>11. CASE CommitVersion(r)
  <2>1. stored.exists
    BY <1>5, <1>11 DEF CommitVersion, Current, stored
  <2> DEFINE row == Flush(stored, [stored EXCEPT !.version = @ + 1])
  <2>2. account' = [account EXCEPT ![u] = row]
    BY <1>4, <1>11 DEF CommitVersion, stored, mine
  <2>3. Becomes(stored, row, stored.status, stored.version + 1, stored.reset)
    BY <1>2, VersionWrites
  <2>4. UNCHANGED <<mailed, spent>>
    BY <1>11 DEF CommitVersion, history
  <2> HIDE DEF row
  <2>5. ResetMoves(stored, row)
    BY <2>3, <2>4 DEF Becomes, ResetMoves
  <2>6. Goal(row) /\ row \in Row
    BY <1>2, <1>7, <2>1, <2>2, <2>3, <2>5
  <2> QED
    BY <1>6, <2>6 DEF stored
<1>12. CASE CommitRequest(r)
  <2>1. stored.exists
    BY <1>5, <1>12 DEF CommitRequest, Current, stored
  <2>2. PICK t \in ResetTokens \ mailed : t = req[r].secret
    BY <1>12 DEF CommitRequest, AloneInv, Typed, RequestNamed
  <2> DEFINE row == Flush(stored, [stored EXCEPT !.reset = t])
  <2>3. account' = [account EXCEPT ![u] = row]
    BY <1>4, <1>12, <2>2 DEF CommitRequest, stored, mine
  <2>4. Becomes(stored, row, stored.status, stored.version, t)
    BY <1>2, ResetWrites
  <2>5. mailed' = mailed \cup {t} /\ spent' = spent
    BY <1>12, <2>2 DEF CommitRequest
  <2> HIDE DEF row
  <2>6. ResetMoves(stored, row)
    BY <2>4, <2>5 DEF Becomes, ResetMoves
  <2>7. Goal(row) /\ row \in Row
    BY <1>2, <1>7, <2>1, <2>3, <2>4, <2>6
  <2> QED
    BY <1>6, <2>7 DEF stored
<1>13. CASE CommitReset(r)
  <2>1. stored.exists /\ stored.reset = req[r].secret /\ stored.reset \in mailed
    BY <1>5, <1>13 DEF CommitReset, Current, stored
  <2>2. PICK p \in Nat : p = lastPassword'
    BY <1>13 DEF CommitReset, AloneInv, Typed, AccountTypeOK
  <2> DEFINE row == WriteReset(stored, stored, p)
  <2>3. account' = [account EXCEPT ![u] = row]
    BY <1>4, <1>13, <2>2 DEF CommitReset, stored, mine
  <2>4. Becomes(stored, row, stored.status, stored.version, NoToken)
    BY <1>2, PasswordWrites
  <2>5. mailed' = mailed /\ spent' = spent \cup {stored.reset}
    BY <1>13, <2>1 DEF CommitReset
  <2> HIDE DEF row
  <2>6. ResetMoves(stored, row)
    BY <2>1, <2>4, <2>5 DEF Becomes, ResetMoves
  <2>7. Goal(row) /\ row \in Row
    BY <1>2, <1>7, <2>1, <2>3, <2>4, <2>6
  <2> QED
    BY <1>6, <2>7 DEF stored
<1>14. CASE CommitDelete(r)
  <2> DEFINE row == WriteClosed(stored)
  <2>1. account' = [account EXCEPT ![u] = row] /\ UNCHANGED <<mailed, spent>>
    BY <1>14 DEF CommitDelete, history, stored
  <2>2. /\ row \in Row /\ row.closed /\ row.exists = stored.exists
        /\ row.status = stored.status /\ row.version = stored.version
        /\ row.reset = stored.reset
    BY <1>2, ClosingWrites
  <2> HIDE DEF row
  <2>3. Goal(row)
    BY <1>2, <1>3, <2>1, <2>2 DEF Follows, ResetMoves
  <2> QED
    BY <1>6, <2>2, <2>3 DEF stored
<1> QED
  BY <1>8, <1>9, <1>10, <1>11, <1>12, <1>13, <1>14 DEF Writes, stored

-----------------------------------------------------------------------------
(* What every other step leaves alone.                                     *)

Quiet == UNCHANGED <<account, Logins, mailed, spent>>

\* A refresh signs the pair it was given once more, or none.
LEMMA RefreshAddsNothing ==
  ASSUME AloneInv, NEW r \in Requests, RefreshSign(r)
  PROVE  Quiet
<1> DEFINE new == [user |-> req[r].user,
                   version |-> account[req[r].user].version,
                   session |-> req[r].session]
<1>1. Current(req[r], pc[r]) /\ pc[r] = "checked" /\ req[r].op = "refresh"
  BY DEF AloneInv, ReadsCurrent, RefreshSign
<1>2. PICK t \in issued : /\ t.user = req[r].user /\ t.version = req[r].version
                          /\ t.session = req[r].session
  BY <1>1 DEF Current
<1>3. t \in TokenPair
  BY DEF AloneInv, Typed, AccountTypeOK
<1>4. req[r].version = account[req[r].user].version => t = new
  BY <1>2, <1>3 DEF TokenPair
<1>5. issued' = issued \/ (t = new /\ issued' = issued \cup {new})
  BY <1>4 DEF RefreshSign
<1>6. issued' = issued
  BY <1>2, <1>5
<1> QED
  BY <1>6 DEF RefreshSign, Quiet, Logins

LEMMA StepEffects ==
  ASSUME AloneInv, [AccountNext]_vars
  PROVE  \/ Quiet
         \/ \E r \in Requests : Writes(r) \/ LoginRespond(r) \/ RevokeRespond(r)
<1>1. ASSUME NEW r \in Requests, Start(r) \/ Abort(r) PROVE Quiet
  BY <1>1, ZenonT(30)
     DEF Start, CreateCheck, VerifyCheck, LoginCheck, LegacyCheck,
       RequestLoad, OtpOpen, MagicScan, RefreshCheck, RevokeCheck,
       Authenticated, Abort, history, Quiet, Logins
<1>2. ASSUME NEW r \in Requests, OtpVerify(r) \/ LegacyStatus(r) \/ Load(r)
      PROVE  Quiet
  BY <1>2 DEF OtpVerify, LegacyStatus, Load, history, Quiet, Logins
<1>3. ASSUME NEW r \in Requests, Insert(r), account[req[r].user].exists
      PROVE  Quiet
  BY <1>3 DEF Insert, Quiet, Logins
<1>4. ASSUME NEW r \in Requests, Continue(r)
      PROVE  Quiet \/ Writes(r) \/ LoginRespond(r) \/ RevokeRespond(r)
  BY <1>2, <1>3, <1>4, RefreshAddsNothing DEF Continue, Writes
<1>5. ASSUME \/ \E u \in Users : ResendLink(u)
             \/ \E secret \in ResetTokens : ResetExpires(secret)
             \/ UNCHANGED vars
      PROVE  Quiet
  BY <1>5 DEF ResendLink, ResetExpires, vars, history, Quiet, Logins
<1> QED
  BY <1>1, <1>4, <1>5 DEF AccountNext

LEMMA NextTokens ==
  ASSUME AloneInv, [AccountNext]_vars
  PROVE  TokensBehind'
<1>1. CASE Quiet
  BY <1>1 DEF Quiet, Logins, AloneInv, TokensBehind
<1>2. ASSUME NEW r \in Requests, Writes(r)
      PROVE  TokensBehind'
  <2>1. UNCHANGED Logins
    BY <1>2, CommitWrites
  <2>2. PICK row \in Row :
          /\ account' = [account EXCEPT ![req[r].user] = row]
          /\ Follows(account[req[r].user], row)
    BY <1>2, CommitWrites
  <2>3. ASSUME NEW t \in issued
        PROVE  /\ account[t.user].version \in Nat /\ account'[t.user].version \in Nat
               /\ account'[t.user].version >= account[t.user].version
               /\ StatusAllowed(account[t.user].status)
                     => StatusAllowed(account'[t.user].status)
    <3>1. t.user \in Users /\ account[t.user] \in Row
      BY DEF AloneInv, Typed, AccountTypeOK, TokenPair
    <3>2. CASE t.user = req[r].user
      BY <2>2, <3>1, <3>2 DEF Follows, Row, AloneInv, Typed, AccountTypeOK
    <3>3. CASE t.user # req[r].user
      BY <2>2, <3>1, <3>3 DEF Row, AloneInv, Typed, AccountTypeOK
    <3> QED
      BY <3>2, <3>3
  <2>4. \A t \in issued : t.version \in Nat
    BY DEF AloneInv, Typed, AccountTypeOK, TokenPair
  <2>5. ASSUME NEW t \in issued
        PROVE  /\ t.version <= account'[t.user].version
               /\ t.session \in ended => t.version < account'[t.user].version
               /\ StatusAllowed(account'[t.user].status)
               /\ t.session \in 1..lastSession
               /\ \A p \in issued : p.session = t.session => p.user = t.user
    BY <2>3, <2>4 DEF AloneInv, TokensBehind
  <2>6. issued' = issued /\ ended' = ended /\ lastSession' = lastSession
    BY <2>1 DEF Logins
  <2>7. ended \subseteq 1..lastSession
    BY DEF AloneInv, TokensBehind
  <2> QED
    BY <2>5, <2>6, <2>7 DEF TokensBehind
<1>3. ASSUME NEW r \in Requests, LoginRespond(r)
      PROVE  TokensBehind'
  <2> DEFINE u == req[r].user
             new == [user |-> u, version |-> account[u].version,
                     session |-> lastSession + 1]
  <2>1. /\ account' = account /\ lastSession' = lastSession + 1
        /\ issued' = issued \cup {new} /\ ended' = ended \cup req[r].prior
    BY <1>3 DEF LoginRespond
  <2>2. Current(req[r], pc[r]) /\ pc[r] = "committed" /\ req[r].op = "login"
    BY <1>3 DEF AloneInv, ReadsCurrent, LoginRespond
  <2>3. /\ u \in Users /\ account[u].version \in Nat
        /\ lastSession \in Nat /\ issued \subseteq TokenPair
    BY <2>2, RequestParts DEF AloneInv, Typed, AccountTypeOK, Row
  <2>4. /\ StatusAllowed(account[u].status)
        /\ req[r].prior \subseteq 1..lastSession
        /\ \A t \in issued : t.session \in req[r].prior => t.user = u
        /\ \A t \in issued : t.user = u => t.version < account[u].version
    BY <2>2 DEF Current
  <2>5. ended' \subseteq 1..lastSession
    BY <2>1, <2>4 DEF AloneInv, TokensBehind
  <2>6. /\ new.user = u /\ new.version = account[u].version
        /\ new.session = lastSession + 1
    OBVIOUS
  <2> HIDE DEF new, u
  <2>7. ASSUME NEW t \in issued
        PROVE  /\ t.version <= account[t.user].version
               /\ t.session \in ended \cup req[r].prior
                     => t.version < account[t.user].version
               /\ StatusAllowed(account[t.user].status)
               /\ t.session \in 1..(lastSession + 1)
               /\ t.session # new.session
    BY <2>3, <2>4, <2>6 DEF AloneInv, TokensBehind
  <2>8. /\ new.version <= account[new.user].version
        /\ StatusAllowed(account[new.user].status)
        /\ new.session \in 1..(lastSession + 1)
        /\ new.session \notin ended'
    BY <2>3, <2>4, <2>5, <2>6
  <2>9. /\ ended' \subseteq 1..lastSession'
        /\ lastSession' = lastSession + 1 /\ account' = account
        /\ issued' = issued \cup {new} /\ ended' = ended \cup req[r].prior
    BY <2>1, <2>3, <2>5 DEF new
  <2>10. \A t \in issued, p \in issued : p.session = t.session => p.user = t.user
    BY DEF AloneInv, TokensBehind
  <2>11. \A t \in issued' :
           /\ t.version <= account'[t.user].version
           /\ t.session \in ended' => t.version < account'[t.user].version
           /\ StatusAllowed(account'[t.user].status)
           /\ t.session \in 1..lastSession'
    BY <2>7, <2>8, <2>9
  <2>12. \A t \in issued', p \in issued' : p.session = t.session => p.user = t.user
    BY <2>7, <2>9, <2>10
  <2> QED
    BY <2>9, <2>11, <2>12 DEF TokensBehind
<1>4. ASSUME NEW r \in Requests, RevokeRespond(r)
      PROVE  TokensBehind'
  <2>1. /\ Current(req[r], pc[r]) /\ pc[r] = "committed"
        /\ UNCHANGED <<account, issued, lastSession>>
        /\ ended' = ended \cup req[r].prior
    BY <1>4 DEF AloneInv, ReadsCurrent, RevokeRespond
  <2>2. /\ \A t \in issued : t.session \in req[r].prior
                                => t.version < account[t.user].version
        /\ req[r].prior \subseteq 1..lastSession
    BY <2>1 DEF Current
  <2> QED
    BY <2>1, <2>2 DEF TokensBehind, AloneInv
<1> QED
  BY <1>1, <1>2, <1>3, <1>4, StepEffects

LEMMA NextRecords ==
  ASSUME AloneInv, [AccountNext]_vars
  PROVE  RecordsApart'
<1>1. CASE UNCHANGED <<account, mailed, spent>>
  BY <1>1 DEF AloneInv, RecordsApart
<1>2. ASSUME NEW r \in Requests, LoginRespond(r) \/ RevokeRespond(r)
      PROVE  UNCHANGED <<account, mailed, spent>>
  BY <1>2 DEF LoginRespond, RevokeRespond
<1>3. ASSUME NEW r \in Requests, Writes(r)
      PROVE  RecordsApart'
  <2>1. PICK row \in Row :
          /\ account' = [account EXCEPT ![req[r].user] = row]
          /\ Follows(account[req[r].user], row)
          /\ ResetMoves(account[req[r].user], row)
    BY <1>3, CommitWrites
  <2>2. \A v \in Users : /\ v = req[r].user => account'[v] = row
                         /\ v # req[r].user => account'[v] = account[v]
    BY <2>1 DEF AloneInv, Typed, AccountTypeOK
  <2>3. \A v \in Users :
          ~account'[v].exists =>
             account'[v].version = 0 /\ account'[v].status = "none"
    BY <2>1, <2>2 DEF Follows, AloneInv, RecordsApart
  <2>4. NoToken \notin mailed /\ NoToken \notin spent
    BY TokenAssumption DEF AloneInv, Typed, AccountTypeOK
  <2>5. CASE UNCHANGED <<mailed, spent>> /\ row.reset = NoToken
    BY <2>2, <2>3, <2>4, <2>5 DEF AloneInv, RecordsApart
  <2>6. CASE UNCHANGED <<mailed, spent>> /\ row.reset = account[req[r].user].reset
    <3>1. \A v \in Users : account'[v].reset = account[v].reset
      BY <2>2, <2>6
    <3> QED
      BY <2>3, <2>6, <3>1 DEF AloneInv, RecordsApart
  <2>7. CASE /\ row.reset = NoToken /\ UNCHANGED mailed
             /\ account[req[r].user].reset \in mailed
             /\ spent' = spent \cup {account[req[r].user].reset}
    <3>1. CASE req[r].user \in Users
      BY <2>2, <2>3, <2>4, <2>7, <3>1 DEF AloneInv, RecordsApart
    <3>2. CASE req[r].user \notin Users
      <4>1. pc[r] # "idle"
        BY <1>3 DEF Writes, Rehash, Insert, CommitCreate, CommitVerify,
             CommitVersion, CommitRequest, CommitReset, CommitProfile,
             CommitDelete
      <4> QED
        BY <3>2, <4>1 DEF AloneInv, Typed, RequestNamed
    <3> QED
      BY <3>1, <3>2
  <2>8. CASE /\ row.reset \in ResetTokens \ mailed /\ UNCHANGED spent
             /\ mailed' = mailed \cup {row.reset}
    <3>1. row.reset # NoToken /\ row.reset \notin spent
      BY <2>8, TokenAssumption DEF AloneInv, RecordsApart
    <3>2. \A v \in Users : account[v].reset # row.reset
      BY <2>8, <3>1 DEF AloneInv, RecordsApart
    <3> QED
      BY <2>2, <2>3, <2>8, <3>1, <3>2 DEF AloneInv, RecordsApart
  <2> QED
    BY <2>1, <2>5, <2>6, <2>7, <2>8 DEF ResetMoves
<1> QED
  BY <1>1, <1>2, <1>3, StepEffects DEF Quiet

-----------------------------------------------------------------------------
(* What a request holds stays current: its own steps find the row in the   *)
(* table, and nobody else writes it.                                       *)

LEMMA OthersStayCurrent ==
  ASSUME AloneInv, OneAtATime, [AccountNext]_vars, NEW s \in Requests,
         pc'[s] = pc[s], req'[s] = req[s]
  PROVE  Current(req[s], pc[s])'
<1>1. PICK q, label : q = req[s] /\ label = pc[s]
  OBVIOUS
<1>2. q = req'[s] /\ label = pc'[s]
  BY <1>1
<1>3. Current(q, label)
  BY <1>1 DEF AloneInv, ReadsCurrent
<1> SUFFICES ASSUME label # "idle"
             PROVE  Current(q, label)'
  BY <1>2 DEF Current
<1>4. /\ q.user \in Users /\ lastSession \in Nat
      /\ account \in [Users -> Row]
  BY <1>1, RequestParts DEF AloneInv, Typed, AccountTypeOK
<1>5. CASE Quiet
  BY <1>3, <1>5 DEF Current, Quiet, Logins, IsOpen
<1>6. ASSUME NEW r \in Requests, r # s, pc[r] # "idle"
      PROVE  req[r].user \in Users /\ req[r].user # q.user
  BY <1>1, <1>6, RequestParts DEF OneAtATime, AloneInv
<1>7. ASSUME NEW r \in Requests, Writes(r)
      PROVE  Current(q, label)'
  <2>1. pc[r] # "idle" /\ pc'[r] # pc[r]
    BY <1>7 DEF Writes, Rehash, Insert, CommitCreate, CommitVerify,
         CommitVersion, CommitRequest, CommitReset, CommitProfile,
         CommitDelete, Finish, Goto, AloneInv, Typed, AccountTypeOK
  <2>2. req[r].user # q.user
    BY <1>6, <2>1
  <2>3. PICK row \in Row :
          /\ account' = [account EXCEPT ![req[r].user] = row]
          /\ ResetMoves(account[req[r].user], row)
          /\ UNCHANGED Logins
    BY <1>7, CommitWrites
  <2>4. account'[q.user] = account[q.user]
    BY <1>4, <2>2, <2>3
  <2>5. mailed \subseteq mailed'
    BY <2>3 DEF ResetMoves
  <2> QED
    BY <1>3, <2>3, <2>4, <2>5 DEF Current, Logins, IsOpen
<1>8. ASSUME NEW r \in Requests, LoginRespond(r)
      PROVE  Current(q, label)'
  <2>1. pc[r] # "idle" /\ pc'[r] # pc[r]
    BY <1>8 DEF LoginRespond, Finish, Goto, AloneInv, Typed, AccountTypeOK
  <2>2. req[r].user # q.user
    BY <1>6, <2>1
  <2> DEFINE new == [user |-> req[r].user, version |-> account[req[r].user].version,
                     session |-> lastSession + 1]
  <2>3. /\ UNCHANGED <<account, mailed>>
        /\ issued' = issued \cup {new} /\ lastSession' = lastSession + 1
    BY <1>8 DEF LoginRespond
  <2>4. new.user # q.user /\ new.session = lastSession + 1
    BY <2>2
  <2> HIDE DEF new
  <2>5. q.prior \subseteq 1..lastSession
    BY <1>3 DEF Current
  <2>6. /\ q.prior \subseteq 1..lastSession'
        /\ new.session \notin q.prior
    BY <1>4, <2>3, <2>4, <2>5
  <2> QED
    BY <1>3, <2>3, <2>4, <2>6 DEF Current, IsOpen
<1>9. ASSUME NEW r \in Requests, RevokeRespond(r)
      PROVE  Current(q, label)'
  <2>1. UNCHANGED <<account, mailed, issued, lastSession>>
    BY <1>9 DEF RevokeRespond
  <2> QED
    BY <1>3, <2>1 DEF Current, IsOpen
<1> QED
  BY <1>5, <1>7, <1>8, <1>9, StepEffects

\* A step that leaves the table and the logins alone, taken by s itself.
LEMMA QuietMove ==
  ASSUME AloneInv, Quiet, NEW s \in Requests, NEW q, NEW label,
         req' = [req EXCEPT ![s] = q], Goto(s, label), Current(q, label)
  PROVE  Current(req[s], pc[s])'
<1>1. req'[s] = q /\ pc'[s] = label
  BY DEF AloneInv, Typed, AccountTypeOK, Goto
<1> QED
  BY <1>1 DEF Current, Quiet, Logins, IsOpen

LEMMA StartsCurrent ==
  ASSUME AloneInv, NEW s \in Requests, Start(s)
  PROVE  Current(req[s], pc[s])'
<1> DEFINE Good == Current(req[s], pc[s])'
<1>1. Quiet
  BY ZenonT(30) DEF Start, CreateCheck, VerifyCheck, LoginCheck, LegacyCheck,
       RequestLoad, OtpOpen, MagicScan, RefreshCheck, RevokeCheck,
       Authenticated, history, Quiet, Logins
<1>2. \A u \in Users : /\ SessionsOf(u) \subseteq 1..lastSession
                       /\ \A t \in issued : t.session \in SessionsOf(u)
                                               => t.user = u
  BY DEF SessionsOf, AloneInv, TokensBehind
<1>3. ASSUME NEW label \in {"checked", "rehash"}, NEW u \in Users, NEW q,
             req' = [req EXCEPT ![s] = q], Goto(s, label),
             q.op # "refresh", q.user = u, q.prior = SessionsOf(u),
             q.op \notin {"otp", "magic"},
             label = "rehash" => q.op = "login",
             q.op # "create" => IsOpen(u),
             q.op = "login" /\ label = "checked" =>
               StatusAllowed(account[u].status)
      PROVE  Good
  <2>1. Current(q, label)
    BY <1>2, <1>3 DEF Current, IsOpen
  <2> QED
    BY <1>1, <1>3, <2>1, QuietMove
<1>4. ASSUME NEW op, NEW u \in Users, Begin(s, "checked", op, u),
             op \notin {"refresh", "otp", "magic"},
             op # "create" => IsOpen(u),
             op = "login" => StatusAllowed(account[u].status)
      PROVE  Good
  <2> DEFINE q == [NoRequest EXCEPT !.op = op, !.user = u,
                                    !.prior = SessionsOf(u)]
  <2>1. q.op = op /\ q.user = u /\ q.prior = SessionsOf(u)
    BY DEF NoRequest
  <2>2. req' = [req EXCEPT ![s] = q] /\ Goto(s, "checked")
    BY <1>4 DEF Begin
  <2> HIDE DEF q, Good
  <2> QED
    BY <1>3, <1>4, <2>1, <2>2
<1>5. ASSUME NEW u \in Users,
             CreateCheck(s, u) \/ VerifyCheck(s, u) \/ LoginCheck(s, u)
      PROVE  Good
  <2> HIDE DEF Good
  <2> QED
    BY <1>4, <1>5 DEF CreateCheck, VerifyCheck, LoginCheck
<1>6. \A t \in issued : t.user \in Users
  BY DEF AloneInv, Typed, AccountTypeOK, TokenPair
<1>7. ASSUME NEW t \in issued,
             \/ RevokeCheck(s, t)
             \/ \E op \in {"profile", "delete"} : Authenticated(s, t, op)
      PROVE  Good
  <2> HIDE DEF Good
  <2> QED
    BY <1>4, <1>6, <1>7 DEF RevokeCheck, Authenticated, Accepts
<1>8. ASSUME NEW u \in Users, LegacyCheck(s, u)
      PROVE  Good
  <2> DEFINE q == [NoRequest EXCEPT !.op = "login", !.user = u,
                     !.row = account[u], !.prior = SessionsOf(u)]
  <2>1. q.op = "login" /\ q.user = u /\ q.prior = SessionsOf(u)
    BY DEF NoRequest
  <2>2. req' = [req EXCEPT ![s] = q] /\ Goto(s, "rehash") /\ IsOpen(u)
    BY <1>8 DEF LegacyCheck
  <2> HIDE DEF q, Good
  <2> QED
    BY <1>3, <2>1, <2>2
<1>9. ASSUME NEW t \in issued, RefreshCheck(s, t)
      PROVE  Good
  <2> DEFINE q == [NoRequest EXCEPT !.op = "refresh", !.user = t.user,
                     !.version = t.version, !.session = t.session]
  <2>1. /\ q.op = "refresh" /\ q.user = t.user /\ q.version = t.version
        /\ q.session = t.session /\ q.prior = {}
    BY DEF NoRequest
  <2>2. /\ req' = [req EXCEPT ![s] = q] /\ Goto(s, "checked")
        /\ account[t.user].exists
    BY <1>9 DEF RefreshCheck, IsOpen
  <2> HIDE DEF q
  <2>3. Current(q, "checked")
    BY <2>1, <2>2 DEF Current
  <2> QED
    BY <1>1, <2>2, <2>3, QuietMove
<1>10. ASSUME NEW u \in Users, NEW secret \in ResetTokens,
              RequestLoad(s, u, secret) \/ MagicScan(s, u, secret)
       PROVE  Good
  <2>1. PICK op \in {"request", "magic"} :
          /\ req' = [req EXCEPT ![s] = [NoRequest EXCEPT !.op = op, !.user = u,
                       !.row = account[u], !.secret = secret]]
          /\ op = "magic" => account[u].reset = secret /\ secret \in mailed
    BY <1>10 DEF RequestLoad, MagicScan, ResetMatches
  <2> DEFINE q == [NoRequest EXCEPT !.op = op, !.user = u,
                     !.row = account[u], !.secret = secret]
  <2>2. /\ q.op = op /\ q.user = u /\ q.row = account[u] /\ q.secret = secret
        /\ q.prior = {}
    BY DEF NoRequest
  <2>3. req' = [req EXCEPT ![s] = q] /\ Goto(s, "loaded") /\ IsOpen(u)
    BY <1>10, <2>1 DEF RequestLoad, MagicScan
  <2> HIDE DEF q
  <2>4. Current(q, "loaded")
    BY <2>1, <2>2, <2>3 DEF Current, IsOpen
  <2> QED
    BY <1>1, <2>3, <2>4, QuietMove
<1>11. ASSUME NEW u \in Users, NEW secret \in OtpTokens, OtpOpen(s, u, secret)
       PROVE  Good
  <2> DEFINE q == [NoRequest EXCEPT !.op = "otp", !.user = u, !.secret = secret]
  <2>1. q.op = "otp" /\ q.user = u /\ q.prior = {}
    BY DEF NoRequest
  <2>2. req' = [req EXCEPT ![s] = q] /\ Goto(s, "opened") /\ IsOpen(u)
    BY <1>11 DEF OtpOpen
  <2> HIDE DEF q
  <2>3. Current(q, "opened")
    BY <2>1, <2>2 DEF Current, IsOpen
  <2> QED
    BY <1>1, <2>2, <2>3, QuietMove
<1>12. MagicTokens \subseteq ResetTokens
  BY DEF ResetTokens
<1> HIDE DEF Good
<1>13. Good
  BY <1>5, <1>7, <1>8, <1>9, <1>10, <1>11, <1>12 DEF Start
<1> QED
  BY <1>13 DEF Good

LEMMA ReadsStayCurrent ==
  ASSUME AloneInv, NEW s \in Requests,
         OtpVerify(s) \/ LegacyStatus(s) \/ Load(s)
  PROVE  Current(req[s], pc[s])'
<1> DEFINE Good == Current(req[s], pc[s])'
<1>1. Quiet
  BY DEF OtpVerify, LegacyStatus, Load, history, Quiet, Logins
<1>2. CASE Finish(s)
  <2>1. pc'[s] = "idle"
    BY <1>2, FinishMoves DEF AloneInv
  <2> QED
    BY <2>1 DEF Current
<1>3. PICK old : old = req[s]
  OBVIOUS
<1>4. /\ Current(old, pc[s]) /\ pc[s] # "idle"
      /\ old \in Request /\ req[s] = old
  BY <1>3 DEF AloneInv, ReadsCurrent, Typed, AccountTypeOK, OtpVerify,
              LegacyStatus, Load
<1>5. ASSUME NEW row, NEW label, req' = [req EXCEPT ![s].row = row],
             Goto(s, label),
             \A q : /\ q.op = old.op /\ q.user = old.user /\ q.row = row
                    /\ q.secret = old.secret /\ q.prior = old.prior
                    /\ q.session = old.session /\ q.version = old.version
                    => Current(q, label)
      PROVE  Good
  <2> DEFINE q == [old EXCEPT !.row = row]
  <2>1. /\ q.op = old.op /\ q.user = old.user /\ q.row = row
        /\ q.secret = old.secret /\ q.prior = old.prior
        /\ q.session = old.session /\ q.version = old.version
    BY <1>4 DEF Request
  <2>2. req' = [req EXCEPT ![s] = q]
    BY <1>4, <1>5 DEF AloneInv, Typed, AccountTypeOK
  <2> HIDE DEF q
  <2>3. Current(q, label)
    BY <1>5, <2>1
  <2> QED
    BY <1>1, <1>5, <2>2, <2>3, QuietMove
<1>6. ASSUME OtpVerify(s), ~Finish(s)
      PROVE  Good
  <2>1. /\ pc[s] = "opened" /\ old.op = "otp" /\ UNCHANGED req
        /\ Goto(s, "checked") /\ ResetMatches(account[old.user], old.secret)
    BY <1>4, <1>6 DEF OtpVerify
  <2>2. Current(old, "checked")
    BY <1>4, <2>1 DEF Current, ResetMatches
  <2>3. req' = [req EXCEPT ![s] = old]
    BY <1>4, <2>1 DEF AloneInv, Typed, AccountTypeOK
  <2> QED
    BY <1>1, <2>1, <2>2, <2>3, QuietMove
<1>7. ASSUME LegacyStatus(s), ~Finish(s)
      PROVE  Good
  <2>1. /\ pc[s] = "opened" /\ old.op = "login"
        /\ req' = [req EXCEPT ![s].row = NoRow]
        /\ Goto(s, "checked") /\ StatusAllowed(account[old.user].status)
    BY <1>4, <1>7 DEF LegacyStatus
  <2>2. ASSUME NEW q, q.op = old.op, q.user = old.user,
               q.secret = old.secret, q.prior = old.prior,
               q.session = old.session, q.version = old.version
        PROVE  Current(q, "checked")
    BY <1>4, <2>1, <2>2 DEF Current
  <2> HIDE DEF Good
  <2> QED
    BY <1>5, <2>1, <2>2
<1>8. ASSUME Load(s), ~Finish(s)
      PROVE  Good
  <2>1. /\ \/ pc[s] = "checked" /\ old.op \notin {"create", "refresh"}
           \/ pc[s] = "inserted"
        /\ req' = [req EXCEPT ![s].row = account[old.user]]
        /\ Goto(s, "loaded")
    BY <1>4, <1>8 DEF Load
  <2>2. ASSUME NEW q, q.op = old.op, q.user = old.user,
               q.row = account[old.user],
               q.secret = old.secret, q.prior = old.prior,
               q.session = old.session, q.version = old.version
        PROVE  Current(q, "loaded")
    BY <1>4, <2>1, <2>2 DEF Current
  <2> HIDE DEF Good
  <2> QED
    BY <1>5, <2>1, <2>2
<1> HIDE DEF Good
<1>9. Good
  <2>1. Finish(s) => Good
    BY <1>2 DEF Good
  <2> QED
    BY <1>6, <1>7, <1>8, <2>1
<1> QED
  BY <1>9 DEF Good

LEMMA WritesStayCurrent ==
  ASSUME AloneInv, NEW s \in Requests,
         Rehash(s) \/ Insert(s) \/ CommitVersion(s)
  PROVE  Current(req[s], pc[s])'
<1>1. PICK q : q = req[s]
  OBVIOUS
<1>2. Current(q, pc[s]) /\ pc[s] # "idle"
  BY <1>1 DEF AloneInv, ReadsCurrent, Rehash, Insert, CommitVersion
<1>3. /\ q.user \in Users /\ account \in [Users -> Row]
      /\ account[q.user] \in Row /\ q.row \in Row /\ q.row.password \in Nat
  BY <1>1, <1>2, RequestParts DEF AloneInv, Typed, AccountTypeOK, Row
<1>4. ASSUME NEW label, Goto(s, label), req' = req, Current(q, label)'
      PROVE  Current(req[s], pc[s])'
  <2>1. pc'[s] = label /\ req'[s] = q
    BY <1>1, <1>4 DEF AloneInv, Typed, AccountTypeOK, Goto
  <2> QED
    BY <1>4, <2>1 DEF Current
<1>5. CASE Rehash(s)
  <2> DEFINE row == WritePassword(account[q.user], q.row.password)
  <2>1. /\ account' = [account EXCEPT ![q.user] = row]
        /\ Goto(s, "opened") /\ UNCHANGED <<req, Logins, mailed, spent>>
        /\ pc[s] = "rehash"
    BY <1>1, <1>5 DEF Rehash, history, Logins
  <2>2. Becomes(account[q.user], row, account[q.user].status,
                account[q.user].version, account[q.user].reset)
    BY <1>3, PasswordWrites
  <2>3. account'[q.user] = row
    BY <1>3, <2>1
  <2> HIDE DEF row
  <2>4. Current(q, "opened")'
    BY <1>2, <2>1, <2>2, <2>3 DEF Current, Becomes, Logins, IsOpen
  <2> QED
    BY <1>4, <2>1, <2>4
<1>6. CASE Insert(s) /\ account[q.user].exists
  <2>1. pc'[s] = "idle"
    BY <1>1, <1>6, FinishMoves DEF Insert, AloneInv
  <2> QED
    BY <2>1 DEF Current
<1>7. CASE Insert(s) /\ ~account[q.user].exists
  <2> DEFINE row == [NoRow EXCEPT !.exists = TRUE, !.password = lastPassword']
  <2>1. /\ account' = [account EXCEPT ![q.user] = row]
        /\ Goto(s, "inserted") /\ UNCHANGED <<req, Logins, mailed, spent>>
        /\ pc[s] = "checked" /\ q.op = "create"
    BY <1>1, <1>7 DEF Insert, Logins
  <2>2. row.exists /\ row.status = "none"
    BY DEF NoRow
  <2>3. account'[q.user] = row
    BY <1>3, <2>1
  <2> HIDE DEF row
  <2>4. Current(q, "inserted")'
    BY <1>2, <2>1, <2>2, <2>3 DEF Current, Logins
  <2> QED
    BY <1>4, <2>1, <2>4
<1>8. CASE CommitVersion(s)
  <2>1. /\ q.row = account[q.user] /\ pc[s] = "loaded"
        /\ q.op \in {"login", "revoke"}
    BY <1>1, <1>2, <1>8 DEF CommitVersion, Current
  <2> DEFINE row == Flush(account[q.user],
                          [account[q.user] EXCEPT !.version = @ + 1])
  <2>2. /\ account' = [account EXCEPT ![q.user] = row]
        /\ Goto(s, "committed") /\ UNCHANGED <<req, Logins, mailed, spent>>
    BY <1>1, <1>8, <2>1 DEF CommitVersion, history, Logins
  <2>3. Becomes(account[q.user], row, account[q.user].status,
                account[q.user].version + 1, account[q.user].reset)
    BY <1>3, VersionWrites
  <2>4. account'[q.user] = row
    BY <1>3, <2>2
  <2> HIDE DEF row
  <2>5. ASSUME NEW t \in issued, t.user = q.user
        PROVE  t.version < row.version
    <3>1. /\ t.version <= account[q.user].version /\ t.version \in Nat
          /\ account[q.user].version \in Nat
      BY <1>3, <2>5 DEF AloneInv, TokensBehind, Typed, AccountTypeOK,
                        TokenPair, Row
    <3> QED
      BY <2>3, <3>1 DEF Becomes
  <2>6. /\ row.status = account[q.user].status
        /\ row.exists = account[q.user].exists
        /\ row.closed = account[q.user].closed
    BY <2>3 DEF Becomes
  <2>7. Current(q, "committed")'
    BY <1>2, <2>1, <2>2, <2>4, <2>5, <2>6 DEF Current, Logins, IsOpen
  <2> QED
    BY <1>4, <2>2, <2>7
<1> QED
  BY <1>5, <1>6, <1>7, <1>8

LEMMA NextCurrent ==
  ASSUME AloneInv, OneAtATime, [AccountNext]_vars
  PROVE  ReadsCurrent'
<1> SUFFICES ASSUME NEW s \in Requests
             PROVE  Current(req[s], pc[s])'
  BY DEF ReadsCurrent
<1> DEFINE Good == Current(req[s], pc[s])'
           Mine == /\ Start(s) \/ Continue(s) \/ Abort(s)
<1>1. CASE pc'[s] = pc[s] /\ req'[s] = req[s]
  BY <1>1, OthersStayCurrent
<1>2. CASE Finish(s)
  <2>1. pc'[s] = "idle"
    BY <1>2, FinishMoves DEF AloneInv
  <2> QED
    BY <2>1 DEF Current
<1>3. CASE Start(s)
  BY <1>3, StartsCurrent
<1> HIDE DEF Good
<1>4. CASE Continue(s) \/ Abort(s)
  <2>1. Finish(s) => Good
    BY <1>2 DEF Good
  <2>2. OtpVerify(s) \/ LegacyStatus(s) \/ Load(s) => Good
    BY ReadsStayCurrent DEF Good
  <2>3. Rehash(s) \/ Insert(s) \/ CommitVersion(s) => Good
    BY WritesStayCurrent DEF Good
  <2> QED
    BY <1>4, <2>1, <2>2, <2>3
       DEF Continue, Abort, CommitCreate, CommitVerify, CommitRequest,
           CommitReset, CommitProfile, CommitDelete, LoginRespond,
           RevokeRespond, RefreshSign, Good
<1>5. ASSUME NEW r \in Requests, r # s, Start(r) \/ Continue(r) \/ Abort(r)
      PROVE  pc'[s] = pc[s] /\ req'[s] = req[s]
  <2>1. CASE Start(r)
    BY <1>5, <2>1, ZenonT(30)
       DEF Start, CreateCheck, VerifyCheck, LoginCheck, LegacyCheck,
           RequestLoad, OtpOpen, MagicScan, RefreshCheck, RevokeCheck,
           Authenticated, Begin, Goto, AloneInv, Typed, AccountTypeOK
  <2>2. CASE Continue(r) \/ Abort(r)
    BY <1>5, <2>2
       DEF Continue, Abort, OtpVerify, LegacyStatus, Load, Rehash, Insert,
           CommitCreate, CommitVerify, CommitVersion, CommitRequest,
           CommitReset, CommitProfile, CommitDelete, LoginRespond,
           RevokeRespond, RefreshSign, Finish, Goto, AloneInv, Typed,
           AccountTypeOK
  <2> QED
    BY <1>5, <2>1, <2>2
<1>6. CASE UNCHANGED <<pc, req>>
  BY <1>1, <1>6
<1> QED
  BY <1>1, <1>3, <1>4, <1>5, <1>6
     DEF AccountNext, ResendLink, ResetExpires, vars

LEMMA NextAlone == AloneInv /\ OneAtATime /\ [AccountNext]_vars => AloneInv'
BY NextTyped, NextTokens, NextRecords, NextCurrent DEF AloneInv

LEMMA InitAlone == AccountInit => AloneInv
<1> SUFFICES ASSUME AccountInit
             PROVE  AloneInv
  OBVIOUS
<1>1. TokensBehind
  BY DEF AccountInit, TokensBehind
<1>2. \A u \in Users : /\ account[u].reset = NoToken
                       /\ ~account[u].exists =>
                            account[u].version = 0 /\ account[u].status = "none"
  BY DEF AccountInit, NoRow
<1>3. RecordsApart
  BY <1>2 DEF AccountInit, RecordsApart
<1>4. ReadsCurrent
  BY DEF AccountInit, ReadsCurrent, Current
<1> QED
  BY <1>1, <1>3, <1>4, InitTyped DEF AloneInv

\* As long as requests to one account do not overlap, a pair that a later login
\* or a revocation has answered for is refused from then on, by every endpoint
\* and whatever is read and written afterwards.
THEOREM EndedForGood == AccountSpec /\ []OneAtATime => []EndedStaysEnded
<1>1. AloneInv => EndedStaysEnded
  <2> SUFFICES ASSUME AloneInv, NEW t \in issued, t.session \in ended
               PROVE  ~Accepts(t)
    BY DEF EndedStaysEnded
  <2>1. /\ t.version < account[t.user].version
        /\ t.version \in Nat /\ account[t.user].version \in Nat
    BY DEF AloneInv, TokensBehind, Typed, AccountTypeOK, TokenPair, Row
  <2> QED
    BY <2>1 DEF Accepts
<1> QED
  BY <1>1, InitAlone, NextAlone, PTL DEF AccountSpec

\* As long as requests to one account do not overlap, a reset token that has
\* changed a password is on record for nobody, so it changes no other.
THEOREM SpentForGood == AccountSpec /\ []OneAtATime => []SpentTokenCleared
<1>1. AloneInv => SpentTokenCleared
  BY DEF AloneInv, RecordsApart, SpentTokenCleared
<1> QED
  BY <1>1, InitAlone, NextAlone, PTL DEF AccountSpec

-----------------------------------------------------------------------------
(* The refinement.                                                         *)

\* An account that is written ends the logins it had, or keeps them.
LEMMA WritesEndLogins ==
  ASSUME AloneInv, NEW r \in Requests, Writes(r)
  PROVE  /\ req[r].user \in Users
         /\ \/ Alive' = Alive
            \/ Alive' = [Alive EXCEPT ![req[r].user] = {}]
<1>0. PICK u : u = req[r].user
  OBVIOUS
<1> DEFINE stored == account[u]
<1>1. u \in Users /\ stored \in Row /\ account \in [Users -> Row]
  <2>1. pc[r] # "idle"
    BY DEF Writes, Rehash, Insert, CommitCreate, CommitVerify, CommitVersion,
           CommitRequest, CommitReset, CommitProfile, CommitDelete
  <2> QED
    BY <1>0, <2>1, RequestParts DEF AloneInv, Typed, AccountTypeOK
<1>2. PICK row \in Row : /\ account' = [account EXCEPT ![u] = row]
                         /\ Follows(stored, row)
                         /\ UNCHANGED Logins
  BY <1>0, CommitWrites
<1>3. issued' = issued
  BY <1>2 DEF Logins
<1>4. \A t \in issued :
        t.user # u => (Accepts(t)' <=> Accepts(t))
  BY <1>2 DEF Accepts, IsOpen, AloneInv, Typed, AccountTypeOK, TokenPair
<1>5. \A t \in issued : t.user = u =>
        /\ StatusAllowed(stored.status) /\ StatusAllowed(row.status)
        /\ t.version <= stored.version /\ t.version \in Nat
  BY <1>2 DEF Follows, AloneInv, TokensBehind, Typed, AccountTypeOK, TokenPair
<1>6. account'[u] = row
  BY <1>1, <1>2
<1>7. CASE \A t \in issued : t.user = u => (Accepts(t)' <=> Accepts(t))
  <2>1. \A v \in Users :
          {p \in issued : p.user = v /\ Accepts(p)}' =
            {p \in issued : p.user = v /\ Accepts(p)}
    BY <1>3, <1>4, <1>7
  <2>2. Alive' = Alive
    BY <2>1 DEF Alive
  <2> QED
    BY <1>0, <1>1, <2>2
<1>8. CASE \A t \in issued : t.user = u => ~Accepts(t)'
  <2>1. \A v \in Users \ {u} :
          {p \in issued : p.user = v /\ Accepts(p)}' =
            {p \in issued : p.user = v /\ Accepts(p)}
    BY <1>3, <1>4
  <2>2. {p \in issued : p.user = u /\ Accepts(p)}' = {}
    BY <1>3, <1>8
  <2>3. /\ \A v \in Users \ {u} : Alive'[v] = Alive[v]
        /\ Alive'[u] = {}
    BY <1>1, <2>1, <2>2 DEF Alive
  <2>4. /\ Alive = [v \in Users |-> Alive[v]]
        /\ Alive' = [v \in Users |-> Alive'[v]]
    BY DEF Alive
  <2>5. Alive' = [Alive EXCEPT ![u] = {}]
    <3> DEFINE before == Alive
               after == Alive'
    <3> HIDE DEF before, after
    <3>1. /\ before = [v \in Users |-> before[v]]
          /\ after = [v \in Users |-> after[v]]
          /\ \A v \in Users \ {u} : after[v] = before[v]
          /\ after[u] = {}
      BY <2>3, <2>4 DEF before, after
    <3>2. after = [before EXCEPT ![u] = {}]
      BY <3>1
    <3> QED
      BY <3>2 DEF before, after
  <2> QED
    BY <1>0, <1>1, <2>5
<1>9. CASE stored.status = "none"
  BY <1>5, <1>8, <1>9 DEF StatusAllowed
<1>10. CASE row.version > stored.version
  BY <1>1, <1>5, <1>6, <1>8, <1>10 DEF Accepts, Row
<1>11. CASE row.closed
  BY <1>6, <1>8, <1>11 DEF Accepts, IsOpen
<1>12. CASE /\ row.version = stored.version
            /\ row.exists = stored.exists /\ row.closed = stored.closed
  BY <1>5, <1>6, <1>7, <1>12 DEF Accepts, IsOpen
<1> QED
  BY <1>1, <1>2, <1>7, <1>8, <1>9, <1>10, <1>11, <1>12 DEF Follows

\* A login that was answered is the only one alive.
LEMMA AnswerOpensLogin ==
  ASSUME AloneInv, NEW r \in Requests, LoginRespond(r)
  PROVE  /\ req[r].user \in Users
         /\ Alive[req[r].user] = {}
         /\ Alive' = [Alive EXCEPT ![req[r].user] = {lastSession + 1}]
<1>0. PICK u, version : u = req[r].user /\ version = account[req[r].user].version
  OBVIOUS
<1> DEFINE new == [user |-> u, version |-> version, session |-> lastSession + 1]
<1>1. /\ UNCHANGED account /\ issued' = issued \cup {new}
      /\ pc[r] = "committed" /\ req[r].op = "login"
  BY <1>0 DEF LoginRespond
<1>2. u \in Users /\ Current(req[r], pc[r])
  BY <1>0, <1>1, RequestParts DEF AloneInv, ReadsCurrent
<1>3. /\ \A t \in issued : t.user = u => t.version < version
      /\ IsOpen(u) /\ StatusAllowed(account[u].status)
  BY <1>0, <1>1, <1>2 DEF Current
<1>4. /\ new.user = u /\ new.version = version
      /\ new.session = lastSession + 1
  OBVIOUS
<1> HIDE DEF new
<1>5. Accepts(new)
  BY <1>0, <1>3, <1>4 DEF Accepts
<1>6. \A t \in issued : t.user = u => ~Accepts(t)
  <2> SUFFICES ASSUME NEW t \in issued, t.user = u
               PROVE  ~Accepts(t)
    OBVIOUS
  <2>1. t.version < version /\ t.version \in Nat /\ version \in Nat
    BY <1>0, <1>2, <1>3
       DEF AloneInv, Typed, AccountTypeOK, TokenPair, Row
  <2> QED
    BY <1>0, <2>1 DEF Accepts
<1>7. \A t : Accepts(t)' <=> Accepts(t)
  BY <1>1 DEF Accepts, IsOpen
<1>8. \A v \in Users \ {u} :
        {p \in issued' : p.user = v /\ Accepts(p)'} =
          {p \in issued : p.user = v /\ Accepts(p)}
  BY <1>1, <1>4, <1>7
<1>9. /\ {p \in issued' : p.user = u /\ Accepts(p)'} = {new}
      /\ {p \in issued : p.user = u /\ Accepts(p)} = {}
  BY <1>1, <1>4, <1>5, <1>6, <1>7
<1>10. /\ \A v \in Users \ {u} : Alive'[v] = Alive[v]
       /\ Alive[u] = {}
  BY <1>2, <1>8, <1>9 DEF Alive
<1>11. Alive'[u] = {lastSession + 1}
  <2>1. Alive'[u] = {t.session : t \in {new}}
    BY <1>2, <1>9 DEF Alive
  <2> QED
    BY <1>4, <2>1
<1>12. /\ Alive = [v \in Users |-> Alive[v]]
       /\ Alive' = [v \in Users |-> Alive'[v]]
  BY DEF Alive
<1>13. Alive' = [Alive EXCEPT ![u] = {lastSession + 1}]
  <2> DEFINE before == Alive
             after == Alive'
  <2> HIDE DEF before, after
  <2>1. /\ before = [v \in Users |-> before[v]]
        /\ after = [v \in Users |-> after[v]]
        /\ \A v \in Users \ {u} : after[v] = before[v]
        /\ after[u] = {lastSession + 1}
    BY <1>10, <1>11, <1>12 DEF before, after
  <2>2. after = [before EXCEPT ![u] = {lastSession + 1}]
    BY <2>1
  <2> QED
    BY <2>2 DEF before, after
<1> QED
  BY <1>0, <1>2, <1>10, <1>13

LEMMA StepRefinesStore ==
  ASSUME AloneInv, [AccountNext]_vars
  PROVE  [Store!StoreNext]_(Store!storeVars)
<1>1. ASSUME UNCHANGED <<account, issued, lastSession>>
      PROVE  UNCHANGED Store!storeVars
  <2>1. \A t : Accepts(t)' <=> Accepts(t)
    BY <1>1 DEF Accepts, IsOpen
  <2>2. Alive' = Alive
    BY <1>1, <2>1 DEF Alive
  <2> QED
    BY <1>1, <2>2 DEF Store!storeVars
<1>2. CASE Quiet
  BY <1>1, <1>2 DEF Quiet, Logins
<1>3. ASSUME NEW r \in Requests, RevokeRespond(r)
      PROVE  UNCHANGED Store!storeVars
  BY <1>1, <1>3 DEF RevokeRespond
<1>4. ASSUME NEW r \in Requests, Writes(r)
      PROVE  [Store!StoreNext]_(Store!storeVars)
  <2>1. (1..lastSession)' = 1..lastSession
    BY <1>4, CommitWrites DEF Logins
  <2>2. PICK u \in Users : Alive' = Alive \/ Alive' = [Alive EXCEPT ![u] = {}]
    BY <1>4, WritesEndLogins
  <2>3. CASE Alive' = Alive
    BY <2>1, <2>3 DEF Store!storeVars
  <2>4. CASE Alive' = [Alive EXCEPT ![u] = {}] /\ Alive[u] # {}
    <3>1. Store!EndAll(u)
      BY <2>1, <2>4 DEF Store!EndAll
    <3> QED
      BY <3>1 DEF Store!StoreNext
  <2>5. CASE Alive' = [Alive EXCEPT ![u] = {}] /\ Alive[u] = {}
    <3>1. [Alive EXCEPT ![u] = {}] = Alive
      BY <2>5 DEF Alive
    <3> QED
      BY <2>1, <2>5, <3>1 DEF Store!storeVars
  <2> QED
    BY <2>2, <2>3, <2>4, <2>5
<1>5. ASSUME NEW r \in Requests, LoginRespond(r)
      PROVE  Store!StoreNext
  <2>1. PICK u \in Users : /\ Alive[u] = {}
                           /\ Alive' = [Alive EXCEPT ![u] = {lastSession + 1}]
    BY <1>5, AnswerOpensLogin
  <2>2. PICK n \in Nat : n = lastSession /\ lastSession' = n + 1 /\ n < MaxSessions
    BY <1>5 DEF LoginRespond, AloneInv, Typed, AccountTypeOK
  <2>3. /\ n + 1 \in 1..MaxSessions /\ n + 1 \notin 1..n
        /\ 1..(n + 1) = (1..n) \cup {n + 1}
    BY <2>2, BoundAssumption
  <2>4. Store!Open(u, n + 1)
    BY <2>1, <2>2, <2>3 DEF Store!Open
  <2> QED
    BY <2>3, <2>4 DEF Store!StoreNext
<1> QED
  BY <1>2, <1>3, <1>4, <1>5, StepEffects

\* As long as requests to one account do not overlap, every commit and every
\* answer opens a login where none is alive, ends those there are, or changes
\* nothing that a token shows: no two logins of one account are ever alive
\* together and one that ended never comes back.
THEOREM AccountImplementsStore ==
  AccountSpec /\ []OneAtATime => ImplementsStore
<1>1. AccountInit => Store!StoreInit
  <2> SUFFICES ASSUME AccountInit
               PROVE  Store!StoreInit
    OBVIOUS
  <2>1. Alive = [u \in Users |-> {}]
    BY DEF AccountInit, Alive
  <2>2. 1..lastSession = {}
    BY DEF AccountInit
  <2> QED
    BY <2>1, <2>2 DEF Store!StoreInit
<1>2. AloneInv /\ [AccountNext]_vars => [Store!StoreNext]_(Store!storeVars)
  BY StepRefinesStore
<1> QED
  BY <1>1, <1>2, InitAlone, NextAlone, PTL
     DEF AccountSpec, ImplementsStore, Store!StoreSpec
=============================================================================
