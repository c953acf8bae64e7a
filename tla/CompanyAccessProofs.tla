------------------------ MODULE CompanyAccessProofs ------------------------
(***************************************************************************)
(* Theorems about CompanyAccess, for any number of users, companies, roles *)
(* and permissions.  The first part holds however requests overlap, the    *)
(* second when there is one thread to serve them.  The third, again for    *)
(* any overlap, is that CompanyAccess implements TenantRecords.            *)
(***************************************************************************)
EXTENDS AccessRefinement, TLAPS

-----------------------------------------------------------------------------
(* Type correctness.  A request under way has the fields its endpoint uses;  *)
(* without that a commit might write a row of no company, user or role.    *)

Wellformed(q) ==
  /\ q.op \in Ops /\ q.caller \in Users
  /\ q.op \in CompanyOps => q.company \in Companies
  /\ q.op \in UserOps => q.user \in Users
  /\ q.op \in RoleOps => q.role \in Roles
  /\ q.op = "reassign" => q.other \in Roles
  /\ q.op \in PermissionOps => q.permission \in Permissions
  /\ q.op \in {"grant", "revoke"} => q.permission \in SystemPermissions
  /\ q.op = "createRole" => q.name \in Names

RequestsReal == \A r \in Requests : pc[r] # "idle" => Wellformed(req[r])

Typed == AccessTypeOK /\ RequestsReal

LEMMA NoRequestType == NoRequest \in Request
BY DEF NoRequest, Request

LEMMA AskedWellformed ==
  ASSUME NEW k \in Users, NEW op \in Ops, NEW q \in Asked(k, op)
  PROVE  /\ q \in Request /\ Wellformed(q)
         /\ q.op = op /\ q.caller = k /\ q.links = {}
<1>1. GivenNames \subseteq Names
  BY RequestAssumption
<1>2. q \in Request
  BY <1>1 DEF Asked, Request
<1>3. q.op = op /\ q.caller = k /\ q.links = {}
  BY DEF Asked
<1>4. Wellformed(q)
  BY <1>1, <1>3
     DEF Asked, Wellformed, TenantOps, SuperuserOps, MemberOps, PermissionOps,
         CompanyOps, UserOps, RoleOps
<1> QED
  BY <1>2, <1>3, <1>4

\* What a step of a commit leaves to a request that it does not end.
Resumes(r) ==
  /\ \/ req[r].op = "createFor" /\ pc' = [pc EXCEPT ![r] = "authorised"]
     \/ req[r].op = "assignMany" /\ pc' = pc
  /\ req' \in [Requests -> Request]
  /\ \A s \in Requests \ {r} : req'[s] = req[s]
  /\ Wellformed(req'[r])
  /\ req'[r].op = req[r].op /\ req'[r].caller = req[r].caller
  /\ req'[r].role = req[r].role /\ req'[r].links = req[r].links
  /\ req[r].op = "createFor" =>
       req'[r].company = req[r].company /\ req'[r].name = None

LEMMA CommitMoves ==
  ASSUME Typed, NEW r \in Requests, Commit(r)
  PROVE  pc[r] = "checked" /\ (Finish(r) \/ Resumes(r))
<1>1. /\ req \in [Requests -> Request] /\ req[r] \in Request
      /\ pc[r] # "idle" => Wellformed(req[r])
  BY DEF Typed, AccessTypeOK, RequestsReal
<1>2. CASE AssignNext(r)
  <2>1. pc[r] = "checked" /\ req[r].op = "assignMany"
    BY <1>2 DEF AssignNext, Committing
  <2>2. CASE req[r].rest = {}
    BY <1>2, <2>1, <2>2 DEF AssignNext
  <2>3. CASE req[r].rest # {}
    <3>1. PICK c \in req[r].rest :
            /\ req' = [req EXCEPT ![r].rest = @ \ {c}, ![r].company =
                        IF enabled[c, req[r].role] = "open" THEN None ELSE c]
            /\ pc' = pc
      BY <1>2, <2>3 DEF AssignNext
    <3> DEFINE cs == req[r].rest \ {c}
               d == IF enabled[c, req[r].role] = "open" THEN None ELSE c
               q == [req[r] EXCEPT !.rest = cs, !.company = d]
    <3>2. cs \in SUBSET Companies /\ d \in Companies \cup {None}
      BY <1>1 DEF Request
    <3>3. req' = [req EXCEPT ![r] = q]
      BY <1>1, <3>1
    <3>4. q \in Request
      <4> HIDE DEF cs, d
      <4> QED
        BY <1>1, <3>2, Zenon DEF Request
    <3>5. q.op = req[r].op /\ q.caller = req[r].caller /\ q.role = req[r].role
          /\ q.links = req[r].links
      BY <1>1 DEF Request
    <3>6. Wellformed(q)
      BY <1>1, <2>1, <3>5
         DEF Wellformed, CompanyOps, TenantOps, MemberOps, PermissionOps, UserOps
    <3> HIDE DEF q
    <3> QED
      BY <1>1, <2>1, <3>1, <3>3, <3>4, <3>5, <3>6 DEF Resumes
  <2> QED
    BY <2>2, <2>3
<1>3. CASE CommitAssignNext(r)
  <2>1. pc[r] = "checked" /\ req[r].op = "assignMany"
    BY <1>3 DEF CommitAssignNext, Committing
  <2>2. ASSUME ~Finish(r) PROVE Resumes(r)
    <3> DEFINE q == [req[r] EXCEPT !.company = None]
    <3>1. req' = [req EXCEPT ![r] = q] /\ pc' = pc
      BY <1>1, <1>3, <2>2 DEF CommitAssignNext
    <3>2. /\ q \in Request /\ q.op = req[r].op /\ q.caller = req[r].caller
          /\ q.role = req[r].role /\ q.links = req[r].links
      BY <1>1 DEF Request
    <3>3. Wellformed(q)
      BY <1>1, <2>1, <3>2
         DEF Wellformed, CompanyOps, TenantOps, MemberOps, PermissionOps, UserOps
    <3> HIDE DEF q
    <3> QED
      BY <1>1, <2>1, <3>1, <3>2, <3>3 DEF Resumes
  <2> QED
    BY <2>1, <2>2
<1>4. CASE CommitRole(r)
  <2>1. pc[r] = "checked"
    BY <1>4 DEF CommitRole, Committing
  <2>2. ASSUME ~Finish(r) PROVE Resumes(r)
    <3> DEFINE q == [req[r] EXCEPT !.name = None]
    <3>1. /\ req' = [req EXCEPT ![r] = q] /\ pc' = [pc EXCEPT ![r] = "authorised"]
          /\ req[r].op = "createFor"
      BY <1>1, <1>4, <2>2 DEF CommitRole
    <3>2. /\ q \in Request /\ q.op = req[r].op /\ q.caller = req[r].caller
          /\ q.company = req[r].company /\ q.role = req[r].role
          /\ q.links = req[r].links /\ q.name = None
      BY <1>1 DEF Request
    <3>3. Wellformed(q)
      BY <1>1, <2>1, <3>1, <3>2
         DEF Wellformed, UserOps, MemberOps, PermissionOps
    <3> HIDE DEF q
    <3> QED
      BY <1>1, <3>1, <3>2, <3>3 DEF Resumes
  <2> QED
    BY <2>1, <2>2
<1>5. CASE CommitAdd(r) \/ CommitUpdate(r) \/ CommitRemove(r) \/ CommitAssign(r)
  BY <1>5 DEF CommitAdd, CommitUpdate, CommitRemove, CommitAssign, Committing
<1>6. CASE \/ CommitUnassign(r) \/ CommitReassign(r)
           \/ CommitRename(r) \/ CommitDeleteRole(r)
  BY <1>6 DEF CommitUnassign, CommitReassign, CommitRename, CommitDeleteRole,
              Committing
<1>7. CASE CommitGrant(r) \/ CommitPlatform(r) \/ CommitNewPermission(r)
             \/ CommitDropPermission(r)
  BY <1>7 DEF CommitGrant, CommitPlatform, CommitNewPermission,
              CommitDropPermission, Committing
<1>8. CASE CommitAttach(r) \/ CommitDetach(r) \/ CommitDeleteCompany(r)
  BY <1>8 DEF CommitAttach, CommitDetach, CommitDeleteCompany, Committing
<1> QED
  BY <1>2, <1>3, <1>4, <1>5, <1>6, <1>7, <1>8 DEF Commit

RequestsTyped ==
  pc \in [Requests -> Pcs] /\ req \in [Requests -> Request] /\ RequestsReal

LEMMA CheckTypes ==
  ASSUME Typed, NEW r \in Requests, pc[r] = "authorised"
  PROVE  /\ Links(req[r]) \in SUBSET Users
         /\ NewName(req[r]) \in Names \cup {None}
         /\ req[r].op = "createRole" => NewName(req[r]) = req[r].name
<1>1. req[r] \in Request /\ Wellformed(req[r])
  BY DEF Typed, AccessTypeOK, RequestsReal
<1>2. req[r].op = "update" => req[r].user \in Users
  BY <1>1 DEF Wellformed, UserOps, MemberOps
<1>3. \A c, x : MembersWith(c, x) \subseteq Users
  BY DEF MembersWith
<1>4. Links(req[r]) \in SUBSET Users
  BY <1>2, <1>3 DEF Links
<1>5. "custom" \in Names /\ req[r].name \in Names \cup {None}
  BY <1>1 DEF Names, Request
<1> QED
  BY <1>4, <1>5 DEF NewName

LEMMA CheckMoves ==
  ASSUME Typed, NEW r \in Requests, Check(r)
  PROVE  /\ pc' = [pc EXCEPT ![r] = "checked"]
         /\ req' \in [Requests -> Request]
         /\ \A s \in Requests \ {r} : req'[s] = req[s]
         /\ Wellformed(req'[r])
         /\ req'[r].links = Links(req[r])
         /\ req'[r].op = req[r].op /\ req'[r].caller = req[r].caller
         /\ req'[r].company = req[r].company /\ req'[r].user = req[r].user
         /\ req'[r].role = req[r].role /\ req'[r].other = req[r].other
         /\ req'[r].permission = req[r].permission
         /\ req'[r].name = NewName(req[r])
<1> DEFINE q == [req[r] EXCEPT !.links = Links(req[r]), !.name = NewName(req[r])]
<1>1. req \in [Requests -> Request] /\ req[r] \in Request /\ Wellformed(req[r])
  BY DEF Typed, AccessTypeOK, RequestsReal, Check
<1>2. req' = [req EXCEPT ![r] = q] /\ pc' = [pc EXCEPT ![r] = "checked"]
  BY <1>1 DEF Check
<1>3. q \in Request
  BY <1>1, CheckTypes, Zenon DEF Request, Check
<1>4. /\ q.links = Links(req[r]) /\ q.name = NewName(req[r])
      /\ q.op = req[r].op /\ q.caller = req[r].caller
      /\ q.company = req[r].company /\ q.user = req[r].user
      /\ q.role = req[r].role /\ q.other = req[r].other
      /\ q.permission = req[r].permission
  BY <1>1 DEF Request
<1>5. Wellformed(q)
  BY <1>1, <1>4, CheckTypes DEF Wellformed, Check
<1> HIDE DEF q
<1> QED
  BY <1>1, <1>2, <1>3, <1>4, <1>5

LEMMA FinishTyped ==
  ASSUME Typed, NEW r \in Requests, Finish(r)
  PROVE  RequestsTyped'
BY NoRequestType
   DEF Typed, AccessTypeOK, RequestsTyped, RequestsReal, Finish, Pcs

LEMMA RequestsStayTyped ==
  ASSUME Typed, AccessNext
  PROVE  RequestsTyped'
<1> USE DEF Typed, AccessTypeOK, RequestsTyped, RequestsReal
<1>1. ASSUME NEW r \in Requests, NEW k \in Users, NEW op \in Offered \cap Ops,
             NEW q \in Asked(k, op), Authorise(r, q)
      PROVE  RequestsTyped'
  BY <1>1, AskedWellformed DEF Authorise, Pcs
<1>2. ASSUME NEW r \in Requests, Check(r)
      PROVE  RequestsTyped'
  BY <1>2, CheckMoves DEF Pcs
<1>3. ASSUME NEW r \in Requests, Refuse(r) \/ Abort(r)
      PROVE  RequestsTyped'
  BY <1>3, FinishTyped DEF Refuse, Abort
<1>4. ASSUME NEW r \in Requests, Commit(r)
      PROVE  RequestsTyped'
  <2>1. CASE Finish(r)
    BY <2>1, FinishTyped
  <2>2. CASE Resumes(r)
    BY <2>2, CommitMoves, <1>4, SMTT(30) DEF Resumes, Pcs
  <2> QED
    BY <1>4, <2>1, <2>2, CommitMoves
<1>5. ASSUME NEW u \in Users, CloseAccount(u)
      PROVE  RequestsTyped'
  BY <1>5 DEF CloseAccount
<1> QED
  BY <1>1, <1>2, <1>3, <1>4, <1>5 DEF AccessNext

\* The tables.
TablesTyped ==
  /\ openUser \subseteq Users
  /\ openCompany \subseteq Companies
  /\ role \in [Roles -> [state : RowStates, name : Names]]
  /\ enabled \in [Companies \X Roles -> RowStates]
  /\ member \in [Users \X Companies -> [state : RowStates, role : Roles]]
  /\ granted \subseteq Roles \X SystemPermissions
  /\ owner \in [Permissions -> Companies \cup {None, "gone"}]
  /\ attached \subseteq Companies \X Roles \X Permissions
  /\ platform \subseteq Users \X Roles

LEMMA TypedMeans == Typed <=> TablesTyped /\ RequestsTyped
BY DEF Typed, AccessTypeOK, TablesTyped, RequestsTyped

\* What a commit may rely on: the request is checked and its fields are real.
LEMMA CommitReads ==
  ASSUME Typed, NEW r \in Requests, pc[r] = "checked"
  PROVE  req[r] \in Request /\ Wellformed(req[r])
BY DEF Typed, AccessTypeOK, RequestsReal

\* The role that an update or a reassignment gives.
NewRole(q) == IF q.op = "update" THEN q.role ELSE q.other

LEMMA MembersWritten ==
  ASSUME Typed, NEW r \in Requests, CommitUpdate(r) \/ CommitReassign(r)
  PROVE  /\ NewRole(req[r]) \in Roles
         /\ member' \in [Users \X Companies -> [state : RowStates, role : Roles]]
         /\ \A u \in Users, d \in Companies :
              /\ member'[u, d].state = member[u, d].state
              /\ member'[u, d].role =
                   IF u \in req[r].links /\ d = req[r].company
                     THEN NewRole(req[r]) ELSE member[u, d].role
              /\ ~(u \in req[r].links /\ d = req[r].company) =>
                   member'[u, d] = member[u, d]
<1> DEFINE M == [state : RowStates, role : Roles]
           x == NewRole(req[r])
           us == req[r].links
           c == req[r].company
<1>1. x \in Roles
  BY CommitReads
     DEF CommitUpdate, CommitReassign, Committing, Wellformed, NewRole, RoleOps,
         SuperuserOps
<1>2. member \in [Users \X Companies -> M]
  BY DEF Typed, AccessTypeOK
<1>3. member' = [uc \in DOMAIN member |->
        IF uc[1] \in us /\ uc[2] = c THEN [member[uc] EXCEPT !.role = x]
                                     ELSE member[uc]]
  BY DEF CommitUpdate, CommitReassign, Committing, NewRole
<1> HIDE DEF x, us, c
<1>4. ASSUME NEW u \in Users, NEW d \in Companies
      PROVE  /\ member'[u, d] = IF u \in us /\ d = c
                                  THEN [member[u, d] EXCEPT !.role = x]
                                  ELSE member[u, d]
             /\ member[u, d] \in M /\ member'[u, d] \in M
  <2>1. <<u, d>> \in DOMAIN member /\ member[u, d] \in M
    BY <1>2
  <2> QED
    BY <1>1, <1>3, <2>1
<1>5. member' \in [Users \X Companies -> M]
  <2>1. member' = [uc \in Users \X Companies |-> member'[uc]]
    BY <1>2, <1>3
  <2>2. ASSUME NEW uc \in Users \X Companies PROVE member'[uc] \in M
    <3>1. PICK u \in Users, d \in Companies : uc = <<u, d>>
      OBVIOUS
    <3> QED
      BY <1>4, <3>1
  <2> HIDE DEF M
  <2> QED
    BY <2>1, <2>2
<1>6. ASSUME NEW u \in Users, NEW d \in Companies
      PROVE  /\ member'[u, d].state = member[u, d].state
             /\ member'[u, d].role =
                  IF u \in us /\ d = c THEN x ELSE member[u, d].role
             /\ ~(u \in us /\ d = c) => member'[u, d] = member[u, d]
  BY <1>4
<1> QED
  BY <1>1, <1>5, <1>6 DEF x, us, c

LEMMA CommitTablesTyped ==
  ASSUME Typed, NEW r \in Requests, Commit(r)
  PROVE  TablesTyped'
<1> DEFINE q == req[r]
<1>0. TablesTyped /\ q \in Request /\ Wellformed(q)
  BY CommitReads, CommitMoves, TypedMeans
<1> USE DEF CompanyOps, TenantOps, MemberOps, PermissionOps, UserOps, RoleOps,
            SuperuserOps
<1>1. CASE CommitAdd(r)
  <2>1. q.user \in Users /\ q.company \in Companies /\ q.role \in Roles
    BY <1>0, <1>1 DEF CommitAdd, Committing, Wellformed
  <2> QED
    BY <1>0, <1>1, <2>1 DEF CommitAdd, TablesTyped, RowStates
<1>2. CASE CommitUpdate(r)
  BY <1>0, <1>2, MembersWritten DEF CommitUpdate, TablesTyped
<1>3. CASE CommitRemove(r)
  <2>1. q.company \in Companies /\ q.user \in Users
    BY <1>0, <1>3 DEF CommitRemove, Committing, Wellformed
  <2> QED
    BY <1>0, <1>3, <2>1, SMTT(30) DEF CommitRemove, TablesTyped, RowStates
<1>4. CASE CommitAssign(r)
  <2>1. q.company \in Companies /\ q.role \in Roles
    BY <1>0, <1>4 DEF CommitAssign, Committing, Wellformed
  <2> QED
    BY <1>0, <1>4, <2>1 DEF CommitAssign, TablesTyped, RowStates
<1>5. CASE AssignNext(r)
  BY <1>0, <1>5 DEF AssignNext, TablesTyped, tables
<1>6. CASE CommitAssignNext(r)
  <2>1. q.company \in Companies /\ q.role \in Roles
    BY <1>0, <1>6 DEF CommitAssignNext, Committing, Wellformed, Request
  <2> QED
    BY <1>0, <1>6, <2>1 DEF CommitAssignNext, TablesTyped, RowStates
<1>7. CASE CommitUnassign(r)
  <2>1. q.company \in Companies /\ q.role \in Roles
    BY <1>0, <1>7 DEF CommitUnassign, Committing, Wellformed
  <2> QED
    BY <1>0, <1>7, <2>1 DEF CommitUnassign, Withdrawn, TablesTyped, RowStates
<1>8. CASE CommitReassign(r)
  <2>1. q.company \in Companies /\ q.role \in Roles /\ q.other \in Roles
    BY <1>0, <1>8 DEF CommitReassign, Committing, Wellformed
  <2>2. member' \in [Users \X Companies -> [state : RowStates, role : Roles]]
    BY <1>8, MembersWritten
  <2> QED
    BY <1>0, <1>8, <2>1, <2>2
       DEF CommitReassign, Withdrawn, TablesTyped, RowStates
<1>9. CASE CommitRole(r)
  <2>1. q.role \in Roles /\ q.name \in Names
    BY <1>0, <1>9 DEF CommitRole, Committing, Wellformed, Request
  <2> QED
    BY <1>0, <1>9, <2>1 DEF CommitRole, TablesTyped, RowStates
<1>10. CASE CommitRename(r)
  <2>1. q.role \in Roles /\ q.name \in Names \cup {None}
    BY <1>0, <1>10 DEF CommitRename, Committing, Wellformed, Request
  <2> QED
    BY <1>0, <1>10, <2>1, SMTT(30) DEF CommitRename, TablesTyped, RowStates
<1>11. CASE CommitDeleteRole(r)
  <2>1. q.role \in Roles
    BY <1>0, <1>11 DEF CommitDeleteRole, Committing, Wellformed
  <2> QED
    BY <1>0, <1>11, <2>1, ZenonT(30) DEF CommitDeleteRole, TablesTyped, RowStates
<1>12. CASE CommitGrant(r)
  <2>1. q.role \in Roles /\ q.permission \in SystemPermissions
    BY <1>0, <1>12 DEF CommitGrant, Committing, Wellformed
  <2> QED
    BY <1>0, <1>12, <2>1 DEF CommitGrant, TablesTyped
<1>13. CASE CommitPlatform(r)
  <2>1. q.role \in Roles /\ q.user \in Users
    BY <1>0, <1>13 DEF CommitPlatform, Committing, Wellformed
  <2> QED
    BY <1>0, <1>13, <2>1 DEF CommitPlatform, TablesTyped
<1>14. CASE CommitNewPermission(r)
  <2>1. q.company \in Companies /\ q.permission \in Permissions
    BY <1>0, <1>14 DEF CommitNewPermission, Committing, Wellformed
  <2> QED
    BY <1>0, <1>14, <2>1 DEF CommitNewPermission, TablesTyped
<1>15. CASE CommitDropPermission(r)
  <2>1. q.permission \in Permissions
    BY <1>0, <1>15 DEF CommitDropPermission, Committing, Wellformed
  <2> QED
    BY <1>0, <1>15, <2>1 DEF CommitDropPermission, TablesTyped
<1>16. CASE CommitAttach(r) \/ CommitDetach(r)
  <2>1. q.company \in Companies /\ q.role \in Roles /\ q.permission \in Permissions
    BY <1>0, <1>16 DEF CommitAttach, CommitDetach, Committing, Wellformed
  <2> QED
    BY <1>0, <1>16, <2>1 DEF CommitAttach, CommitDetach, TablesTyped
<1>17. CASE CommitDeleteCompany(r)
  BY <1>0, <1>17 DEF CommitDeleteCompany, TablesTyped
<1> QED
  BY <1>1, <1>2, <1>3, <1>4, <1>5, <1>6, <1>7, <1>8, <1>9, <1>10, <1>11, <1>12,
     <1>13, <1>14, <1>15, <1>16, <1>17 DEF Commit

\* The tables change by a commit or by the end of an account.
LEMMA StepMoves ==
  ASSUME AccessNext
  PROVE  \/ \E r \in Requests : Commit(r)
         \/ \E u \in Users : CloseAccount(u)
         \/ UNCHANGED tables
BY DEF AccessNext, Authorise, Check, Refuse, Abort

LEMMA StepTyped ==
  ASSUME Typed, [AccessNext]_vars
  PROVE  Typed'
<1>1. CASE AccessNext
  <2>1. RequestsTyped'
    BY <1>1, RequestsStayTyped
  <2>2. TablesTyped'
    <3>1. ASSUME NEW u \in Users, CloseAccount(u) PROVE TablesTyped'
      BY <3>1, TypedMeans DEF CloseAccount, TablesTyped
    <3>2. CASE UNCHANGED tables
      BY <3>2, TypedMeans DEF tables, TablesTyped
    <3> QED
      BY <1>1, <3>1, <3>2, StepMoves, CommitTablesTyped
  <2> QED
    BY <2>1, <2>2, TypedMeans DEF Typed, AccessTypeOK, TablesTyped, RequestsTyped
<1>2. CASE UNCHANGED vars
  BY <1>2 DEF vars, tables, Typed, AccessTypeOK, RequestsReal
<1> QED
  BY <1>1, <1>2

LEMMA InitTyped == AccessInit => Typed
<1> SUFFICES ASSUME AccessInit PROVE Typed
  OBVIOUS
<1> DEFINE owns == CHOOSE x \in Roles : BuiltinName[x] = "Owner"
<1>1. owns \in Roles
  BY RoleAssumption
<1>2. role \in [Roles -> [state : RowStates, name : Names]]
  BY RoleAssumption DEF AccessInit, RowStates, Names, DefaultNames
<1>3. member \in [Users \X Companies -> [state : RowStates, role : Roles]]
  BY <1>1 DEF AccessInit, RowStates
<1>4. granted \subseteq Roles \X SystemPermissions
  BY SystemPermissionAssumption DEF AccessInit, SystemPermissions
<1>5. enabled \in [Companies \X Roles -> RowStates]
  BY DEF AccessInit, RowStates
<1>6. TablesTyped
  BY <1>2, <1>3, <1>4, <1>5 DEF AccessInit, TablesTyped
<1>7. RequestsTyped
  BY NoRequestType DEF AccessInit, RequestsTyped, RequestsReal, Pcs
<1> QED
  BY <1>6, <1>7, TypedMeans

\* Every variable of CompanyAccess keeps its type.
THEOREM AccessTypeCorrect == AccessSpec => []AccessTypeOK
<1>1. Typed => AccessTypeOK
  BY DEF Typed
<1> QED
  BY <1>1, InitTyped, StepTyped, PTL DEF AccessSpec

-----------------------------------------------------------------------------
(* What a request has read and no commit of another takes back: records are  *)
(* closed but stay, and a permission that leaves its owner is gone.        *)

Recorded(q) ==
  /\ q.op \in {"add", "update", "unassign", "reassign"} =>
       enabled[q.company, q.role] # "absent"
  /\ q.op = "reassign" => enabled[q.company, q.other] # "absent"
  /\ q.op = "remove" => member[q.user, q.company].state # "absent"
  /\ q.op \in {"update", "reassign"} =>
       \A u \in q.links : member[u, q.company].state # "absent"
  /\ q.op = "dropPermission" => owner[q.permission] \in {q.company, "gone"}

\* Who is served: a superuser, or somebody who is or was a member of the
\* company the request is about.
Entitled(q) ==
  \/ q.caller \in Superusers
  \/ q.op \in TenantOps /\ member[q.caller, q.company].state # "absent"

ReadsLast ==
  \A r \in Requests : /\ pc[r] = "checked" => Recorded(req[r])
                      /\ pc[r] # "idle" => Entitled(req[r])

AccessInv == Typed /\ ReadsLast /\ LinksWithinTenant /\ MemberRoleWasEnabled

\* What every commit leaves in place.
Persists ==
  /\ \A c \in Companies, x \in Roles :
       enabled[c, x] # "absent" => enabled'[c, x] # "absent"
  /\ \A u \in Users, c \in Companies :
       member[u, c].state # "absent" => member'[u, c].state # "absent"
  /\ \A p \in Permissions : owner[p] # None => owner'[p] \in {owner[p], "gone"}

LEMMA RecordsUntouched ==
  ASSUME UNCHANGED <<enabled, member, owner>>
  PROVE  Persists
BY DEF Persists

LEMMA CommitPersists ==
  ASSUME Typed, NEW r \in Requests, Commit(r)
  PROVE  Persists
<1> DEFINE q == req[r]
<1>0. TablesTyped /\ q \in Request /\ Wellformed(q)
  BY CommitReads, CommitMoves, TypedMeans
<1> USE DEF CompanyOps, TenantOps, MemberOps, PermissionOps, UserOps, RoleOps,
            SuperuserOps
<1>1. CASE CommitAdd(r)
  BY <1>0, <1>1 DEF CommitAdd, TablesTyped, Persists
<1>2. CASE CommitUpdate(r)
  <2>1. \A u \in Users, c \in Companies : member'[u, c].state = member[u, c].state
    BY <1>2, MembersWritten
  <2> QED
    BY <1>2, <2>1, ZenonT(30) DEF CommitUpdate, Persists
<1>3. CASE CommitRemove(r)
  BY <1>0, <1>3 DEF CommitRemove, TablesTyped, Persists
<1>4. CASE CommitAssign(r)
  BY <1>0, <1>4 DEF CommitAssign, TablesTyped, Persists
<1>5. CASE CommitAssignNext(r)
  BY <1>0, <1>5 DEF CommitAssignNext, TablesTyped, Persists
<1>6. CASE CommitUnassign(r)
  BY <1>0, <1>6 DEF CommitUnassign, TablesTyped, Persists
<1>7. CASE CommitReassign(r)
  <2>1. \A u \in Users, c \in Companies : member'[u, c].state = member[u, c].state
    BY <1>7, MembersWritten
  <2> QED
    BY <1>0, <1>7, <2>1, ZenonT(30) DEF CommitReassign, TablesTyped, Persists
<1>8. CASE CommitNewPermission(r)
  BY <1>0, <1>8 DEF CommitNewPermission, TablesTyped, Persists
<1>9. CASE CommitDropPermission(r)
  BY <1>0, <1>9 DEF CommitDropPermission, TablesTyped, Persists
<1>10. CASE \/ AssignNext(r) \/ CommitRole(r) \/ CommitRename(r)
            \/ CommitDeleteRole(r) \/ CommitGrant(r) \/ CommitPlatform(r)
            \/ CommitAttach(r) \/ CommitDetach(r) \/ CommitDeleteCompany(r)
  BY <1>10, RecordsUntouched
     DEF AssignNext, CommitRole, CommitRename, CommitDeleteRole, CommitGrant,
         CommitPlatform, CommitAttach, CommitDetach, CommitDeleteCompany, tables
<1> QED
  BY <1>1, <1>2, <1>3, <1>4, <1>5, <1>6, <1>7, <1>8, <1>9, <1>10 DEF Commit

LEMMA StepPersists ==
  ASSUME Typed, AccessNext
  PROVE  Persists
BY StepMoves, CommitPersists, RecordsUntouched DEF CloseAccount, tables

\* What is recorded for a request stays so while it waits.
LEMMA ReadsKept ==
  ASSUME TablesTyped, Persists, NEW q \in Request, Wellformed(q)
  PROVE  /\ Recorded(q) => Recorded(q)'
         /\ Entitled(q) => Entitled(q)'
<1> USE DEF Wellformed, CompanyOps, TenantOps, MemberOps, PermissionOps, UserOps,
            RoleOps, SuperuserOps
<1>1. q.op \in {"add", "update", "unassign", "reassign"} =>
        q.company \in Companies /\ q.role \in Roles
  OBVIOUS
<1>2. q.op = "reassign" => q.company \in Companies /\ q.other \in Roles
  OBVIOUS
<1>3. q.op = "remove" => q.company \in Companies /\ q.user \in Users
  OBVIOUS
<1>4. q.links \subseteq Users
  BY DEF Request
<1>5. q.op = "dropPermission" =>
        q.company \in Companies /\ q.permission \in Permissions
  OBVIOUS
<1>6. q.op \in TenantOps => q.company \in Companies /\ q.caller \in Users
  OBVIOUS
<1> HIDE DEF Wellformed, CompanyOps, TenantOps, MemberOps, PermissionOps, UserOps,
            RoleOps, SuperuserOps
<1>7. None \notin Companies \cup {"gone"}
  BY RequestAssumption
<1>8. Recorded(q) => Recorded(q)'
  BY <1>1, <1>2, <1>3, <1>4, <1>5, <1>7 DEF Recorded, Persists
<1>9. Entitled(q) => Entitled(q)'
  BY <1>6 DEF Entitled, Persists
<1> QED
  BY <1>8, <1>9

\* The request was let through, and its caller was a member just then.
LEMMA AuthorisedEntitled ==
  ASSUME NEW r \in Requests, NEW k \in Users, NEW op \in Ops,
         NEW q \in Asked(k, op), Authorise(r, q)
  PROVE  Entitled(q)
BY AskedWellformed DEF Authorise, MayAct, Entitled

\* What a handler reads before it commits.
LEMMA CheckedRecorded ==
  ASSUME Typed, NEW r \in Requests, Check(r)
  PROVE  Recorded(req'[r])
<1> DEFINE q == req[r]
<1>1. /\ q \in Request /\ Wellformed(q) /\ Passes(q)
      /\ req'[r].op = q.op /\ req'[r].company = q.company
      /\ req'[r].user = q.user /\ req'[r].role = q.role
      /\ req'[r].other = q.other /\ req'[r].permission = q.permission
      /\ req'[r].links = Links(q)
  BY CheckMoves DEF Check, Typed, AccessTypeOK, RequestsReal
<1>2. \A u \in MembersWith(q.company, q.role) : member[u, q.company].state = "open"
  BY DEF MembersWith
<1>3. q.op = "update" => MayUpdate(q) /\ Links(q) \subseteq {q.user}
  BY <1>1 DEF Passes, Links
<1>4. q.op = "reassign" => MayReassign(q) /\ Links(q) = MembersWith(q.company, q.role)
  BY <1>1 DEF Passes, Links
<1>5. /\ q.op = "add" => MayAdd(q)
      /\ q.op = "unassign" => MayUnassign(q)
      /\ q.op = "remove" => MayRemove(q)
      /\ q.op = "dropPermission" => owner[q.permission] = q.company
  BY <1>1 DEF Passes
<1> HIDE DEF q
<1> QED
  BY <1>1, <1>2, <1>3, <1>4, <1>5
     DEF Recorded, MayAdd, MayUpdate, MayUnassign, MayRemove, MayReassign, RoleEnabled

LEMMA StepReads ==
  ASSUME Typed, ReadsLast, AccessNext
  PROVE  ReadsLast'
<1> DEFINE Kept(s) == /\ pc[s] = "checked" => Recorded(req[s])
                      /\ pc[s] # "idle" => Entitled(req[s])
<1>0. /\ TablesTyped /\ Persists
      /\ pc \in [Requests -> Pcs] /\ req \in [Requests -> Request]
  BY StepPersists, TypedMeans DEF Typed, AccessTypeOK
<1>1. ASSUME NEW s \in Requests, pc'[s] = pc[s], req'[s] = req[s] PROVE Kept(s)'
  BY <1>0, <1>1, ReadsKept
     DEF ReadsLast, Typed, RequestsReal, Recorded, Entitled
<1>2. ASSUME NEW r \in Requests, NEW k \in Users, NEW op \in Offered \cap Ops,
             NEW q \in Asked(k, op), Authorise(r, q)
      PROVE  ReadsLast'
  <2>1. pc'[r] = "authorised" /\ req'[r] = q
    BY <1>0, <1>2 DEF Authorise
  <2>2. Kept(r)'
    <3>1. q \in Request /\ Wellformed(q) /\ Entitled(q)
      BY <1>2, AuthorisedEntitled, AskedWellformed
    <3> QED
      BY <1>0, <2>1, <3>1, ReadsKept DEF Recorded, Entitled
  <2> QED
    BY <1>0, <1>1, <1>2, <2>2 DEF Authorise, ReadsLast
<1>3. ASSUME NEW r \in Requests, Check(r) PROVE ReadsLast'
  <2>1. Kept(r)'
    <3>1. req'[r] \in Request /\ Wellformed(req'[r]) /\ Recorded(req'[r])
      BY <1>3, CheckMoves, CheckedRecorded
    <3>2. Entitled(req[r])
      BY <1>3 DEF Check, ReadsLast
    <3>3. Entitled(req'[r])
      BY <1>3, <3>2, CheckMoves DEF Entitled
    <3> QED
      BY <1>0, <3>1, <3>3, ReadsKept DEF Recorded, Entitled
  <2> QED
    BY <1>0, <1>1, <1>3, <2>1, CheckMoves DEF ReadsLast
<1>4. ASSUME NEW r \in Requests, Finish(r) PROVE ReadsLast'
  BY <1>0, <1>1, <1>4 DEF Finish, ReadsLast
<1>5. ASSUME NEW r \in Requests, Commit(r), Resumes(r) PROVE ReadsLast'
  <2>1. Kept(r)'
    <3>1. /\ req[r].op \in {"createFor", "assignMany"}
          /\ req'[r].op = req[r].op /\ req'[r].caller = req[r].caller
      BY <1>5 DEF Resumes
    <3>2. req[r].caller \in Superusers
      BY <1>5, <3>1, CommitMoves
         DEF ReadsLast, Entitled, TenantOps, MemberOps, PermissionOps
    <3> QED
      BY <3>1, <3>2 DEF Recorded, Entitled
  <2> QED
    BY <1>0, <1>1, <1>5, <2>1 DEF Resumes, ReadsLast
<1>6. ASSUME NEW u \in Users, CloseAccount(u) PROVE ReadsLast'
  BY <1>0, <1>1, <1>6 DEF CloseAccount, ReadsLast
<1> QED
  BY <1>2, <1>3, <1>4, <1>5, <1>6, CommitMoves DEF AccessNext, Refuse, Abort

LEMMA StepLinks ==
  ASSUME Typed, LinksWithinTenant, AccessNext
  PROVE  LinksWithinTenant'
<1>0. TablesTyped /\ Persists /\ None \notin Companies
  BY StepPersists, TypedMeans, RequestAssumption
<1>1. ASSUME NEW g \in attached, g \in attached', owner'[g[3]] # "gone"
      PROVE  owner'[g[3]] = g[1] /\ enabled'[g[1], g[2]] # "absent"
  <2>1. PICK c \in Companies, x \in Roles, p \in Permissions : g = <<c, x, p>>
    BY <1>0 DEF TablesTyped
  <2>2. owner[p] = c /\ enabled[c, x] # "absent"
    BY <2>1 DEF LinksWithinTenant
  <2> QED
    BY <1>0, <1>1, <2>1, <2>2 DEF Persists
<1>2. ASSUME NEW r \in Requests, CommitDropPermission(r) PROVE LinksWithinTenant'
  <2>1. req[r].permission \in Permissions
    BY <1>2, CommitReads
       DEF CommitDropPermission, Committing, Wellformed, PermissionOps
  <2>2. ASSUME NEW g \in attached' PROVE g \in attached /\ owner'[g[3]] # "gone"
    <3>1. g \in attached /\ g[3] # req[r].permission
      BY <1>2 DEF CommitDropPermission
    <3>2. PICK c \in Companies, x \in Roles, p \in Permissions : g = <<c, x, p>>
      BY <1>0, <3>1 DEF TablesTyped
    <3>3. owner[p] \in Companies
      BY <3>1, <3>2 DEF LinksWithinTenant
    <3>4. owner'[p] = owner[p]
      BY <1>0, <1>2, <3>1, <3>2 DEF CommitDropPermission, TablesTyped
    <3> QED
      BY <3>1, <3>2, <3>3, <3>4, RequestAssumption
  <2> QED
    BY <1>1, <2>2 DEF LinksWithinTenant
<1>3. ASSUME NEW r \in Requests, CommitAttach(r) PROVE LinksWithinTenant'
  BY <1>3 DEF CommitAttach, ForeignKeys, LinksWithinTenant
<1>4. ASSUME attached' \subseteq attached, owner' = owner PROVE LinksWithinTenant'
  <2>1. ASSUME NEW g \in attached' PROVE g \in attached /\ owner'[g[3]] # "gone"
    <3>1. PICK c \in Companies, x \in Roles, p \in Permissions : g = <<c, x, p>>
      BY <1>0, <1>4 DEF TablesTyped
    <3> QED
      BY <1>4, <3>1, RequestAssumption DEF LinksWithinTenant
  <2> QED
    BY <1>1, <2>1 DEF LinksWithinTenant
<1>5. ASSUME NEW r \in Requests, CommitNewPermission(r) PROVE LinksWithinTenant'
  <2>1. ASSUME NEW g \in attached' PROVE g \in attached /\ owner'[g[3]] # "gone"
    <3>1. g \in attached
      BY <1>5 DEF CommitNewPermission
    <3>2. PICK c \in Companies, x \in Roles, p \in Permissions : g = <<c, x, p>>
      BY <1>0, <3>1 DEF TablesTyped
    <3>3. owner[p] = c
      BY <3>1, <3>2 DEF LinksWithinTenant
    <3>4. owner'[p] = owner[p]
      BY <1>0, <1>5, <3>2, <3>3 DEF CommitNewPermission, TablesTyped
    <3> QED
      BY <3>1, <3>2, <3>3, <3>4, RequestAssumption
  <2> QED
    BY <1>1, <2>1 DEF LinksWithinTenant
<1>6. ASSUME NEW r \in Requests, Commit(r),
             ~CommitAttach(r), ~CommitDropPermission(r), ~CommitNewPermission(r)
      PROVE  attached' \subseteq attached /\ owner' = owner
  BY <1>6
     DEF Commit, CommitAdd, CommitUpdate, CommitRemove, CommitAssign, AssignNext,
         CommitAssignNext, CommitUnassign, CommitReassign, Withdrawn, CommitRole,
         CommitRename, CommitDeleteRole, CommitGrant, CommitPlatform, CommitDetach,
         CommitDeleteCompany, tables
<1>7. ASSUME NEW u \in Users, CloseAccount(u)
      PROVE  attached' \subseteq attached /\ owner' = owner
  BY <1>7 DEF CloseAccount
<1> QED
  BY <1>2, <1>3, <1>4, <1>5, <1>6, <1>7, StepMoves DEF tables

LEMMA StepMemberRoles ==
  ASSUME Typed, ReadsLast, MemberRoleWasEnabled, AccessNext
  PROVE  MemberRoleWasEnabled'
<1>0. TablesTyped /\ Persists
  BY StepPersists, TypedMeans
<1>1. ASSUME NEW u \in Users, NEW c \in Companies, member'[u, c].state # "absent",
             member'[u, c] = member[u, c]
      PROVE  enabled'[c, member'[u, c].role] # "absent"
  BY <1>0, <1>1 DEF MemberRoleWasEnabled, Persists, TablesTyped
<1>2. ASSUME member' = member PROVE MemberRoleWasEnabled'
  BY <1>1, <1>2 DEF MemberRoleWasEnabled
<1>3. ASSUME NEW r \in Requests, CommitAdd(r) PROVE MemberRoleWasEnabled'
  <2>1. /\ req[r].user \in Users /\ req[r].company \in Companies
        /\ req[r].role \in Roles /\ enabled[req[r].company, req[r].role] # "absent"
    BY <1>3, CommitReads
       DEF CommitAdd, Committing, Wellformed, ReadsLast, Recorded, CompanyOps,
           TenantOps, UserOps, MemberOps, RoleOps
  <2>2. ASSUME NEW u \in Users, NEW c \in Companies, member'[u, c] # member[u, c]
        PROVE  enabled'[c, member'[u, c].role] # "absent"
    BY <1>0, <1>3, <2>1, <2>2 DEF CommitAdd, TablesTyped
  <2> QED
    BY <1>1, <2>2 DEF MemberRoleWasEnabled
<1>4. ASSUME NEW r \in Requests, CommitRemove(r) PROVE MemberRoleWasEnabled'
  <2>1. /\ req[r].user \in Users /\ req[r].company \in Companies
        /\ member[req[r].user, req[r].company].state # "absent"
    BY <1>4, CommitReads
       DEF CommitRemove, Committing, Wellformed, ReadsLast, Recorded, CompanyOps,
           TenantOps, UserOps, MemberOps
  <2>2. ASSUME NEW u \in Users, NEW c \in Companies, member'[u, c] # member[u, c]
        PROVE  enabled'[c, member'[u, c].role] # "absent"
    <3>1. u = req[r].user /\ c = req[r].company
      BY <1>0, <1>4, <2>1, <2>2 DEF CommitRemove, TablesTyped
    <3>2. member'[u, c].role = member[u, c].role /\ enabled' = enabled
      BY <1>0, <1>4, <2>1, <3>1 DEF CommitRemove, TablesTyped
    <3> QED
      BY <2>1, <3>1, <3>2 DEF MemberRoleWasEnabled
  <2> QED
    BY <1>1, <2>2 DEF MemberRoleWasEnabled
<1>5. ASSUME NEW r \in Requests, CommitUpdate(r) \/ CommitReassign(r)
      PROVE  MemberRoleWasEnabled'
  <2>1. /\ req[r].company \in Companies /\ NewRole(req[r]) \in Roles
        /\ enabled[req[r].company, NewRole(req[r])] # "absent"
    BY <1>5, CommitReads, MembersWritten
       DEF CommitUpdate, CommitReassign, Committing, Wellformed, ReadsLast, Recorded,
           CompanyOps, TenantOps, MemberOps, NewRole
  <2>2. ASSUME NEW u \in Users, NEW c \in Companies, member'[u, c].state # "absent"
        PROVE  enabled'[c, member'[u, c].role] # "absent"
    <3>1. member[u, c].role \in Roles
      BY <1>0 DEF TablesTyped
    <3>2. /\ member'[u, c].state = member[u, c].state
          /\ member'[u, c].role = IF u \in req[r].links /\ c = req[r].company
                                   THEN NewRole(req[r]) ELSE member[u, c].role
      BY <1>5, MembersWritten
    <3>3. enabled[c, member'[u, c].role] # "absent" /\ member'[u, c].role \in Roles
      BY <2>1, <2>2, <3>1, <3>2 DEF MemberRoleWasEnabled
    <3> QED
      BY <1>0, <3>3 DEF Persists
  <2> QED
    BY <2>2 DEF MemberRoleWasEnabled
<1>6. ASSUME NEW r \in Requests, Commit(r),
             ~(CommitAdd(r) \/ CommitRemove(r) \/ CommitUpdate(r) \/ CommitReassign(r))
      PROVE  member' = member
  BY <1>6
     DEF Commit, CommitAssign, AssignNext, CommitAssignNext, CommitUnassign,
         CommitRole, CommitRename, CommitDeleteRole, CommitGrant, CommitPlatform,
         CommitNewPermission, CommitDropPermission, CommitAttach, CommitDetach,
         CommitDeleteCompany, tables
<1>7. ASSUME NEW u \in Users, CloseAccount(u) PROVE member' = member
  BY <1>7 DEF CloseAccount
<1> QED
  BY <1>2, <1>3, <1>4, <1>5, <1>6, <1>7, StepMoves DEF tables

LEMMA InitReads == AccessInit => AccessInv
<1> SUFFICES ASSUME AccessInit PROVE AccessInv
  OBVIOUS
<1> DEFINE owns == CHOOSE x \in Roles : BuiltinName[x] = "Owner"
<1>1. owns \in Roles /\ BuiltinName[owns] = "Owner"
  BY RoleAssumption
<1>2. BuiltinName[owns] # None
  BY <1>1, RequestAssumption DEF Names, DefaultNames
<1>3. ASSUME NEW u \in Users, NEW c \in Companies
      PROVE  member[u, c].role = owns /\ enabled[c, owns] = "open"
  BY <1>1, <1>2 DEF AccessInit
<1>4. MemberRoleWasEnabled
  BY <1>3 DEF MemberRoleWasEnabled
<1>5. ReadsLast /\ LinksWithinTenant
  BY DEF AccessInit, ReadsLast, LinksWithinTenant
<1> QED
  BY <1>4, <1>5, InitTyped DEF AccessInv

LEMMA StepReadsInv ==
  ASSUME AccessInv, [AccessNext]_vars
  PROVE  AccessInv'
<1>1. CASE AccessNext
  BY <1>1, StepTyped, StepReads, StepLinks, StepMemberRoles DEF AccessInv
<1>2. CASE UNCHANGED vars
  BY <1>2, StepTyped
     DEF vars, tables, AccessInv, ReadsLast, Recorded, Entitled, LinksWithinTenant,
         MemberRoleWasEnabled
<1> QED
  BY <1>1, <1>2

\* A permission of a company is never found on a role of another, although its
\* owner is read in an earlier query than the link is written in.
THEOREM LinksStayWithinTenant == AccessSpec => []LinksWithinTenant
<1>1. AccessInv => LinksWithinTenant
  BY DEF AccessInv
<1> QED
  BY <1>1, InitReads, StepReadsInv, PTL DEF AccessSpec

\* A member has a role its company has or had enabled, although the table of
\* memberships references the role alone and it was looked up beforehand.
THEOREM MemberRolesWereEnabled == AccessSpec => []MemberRoleWasEnabled
<1>1. AccessInv => MemberRoleWasEnabled
  BY DEF AccessInv
<1> QED
  BY <1>1, InitReads, StepReadsInv, PTL DEF AccessSpec

\* What a company sees of the tables.
LEMMA TenantSame ==
  ASSUME NEW c \in Companies,
         (c \in openCompany') = (c \in openCompany),
         \A x \in Roles : enabled'[c, x] = enabled[c, x],
         \A u \in Users : member'[u, c] = member[u, c],
         \A p \in Permissions : owner'[p] = c <=> owner[p] = c,
         \A g : g[1] = c => (g \in attached' <=> g \in attached)
  PROVE  Tenant(c)' = Tenant(c)
<1>1. [x \in Roles |-> enabled[c, x]]' = [x \in Roles |-> enabled[c, x]]
  OBVIOUS
<1>2. [u \in Users |-> member[u, c]]' = [u \in Users |-> member[u, c]]
  OBVIOUS
<1>3. {p \in Permissions : owner[p] = c}' = {p \in Permissions : owner[p] = c}
  OBVIOUS
<1>4. {g \in attached : g[1] = c}' = {g \in attached : g[1] = c}
  OBVIOUS
<1>5. (c \in openCompany)' = (c \in openCompany)
  BY Zenon
<1> QED
  BY <1>1, <1>2, <1>3, <1>4, <1>5 DEF Tenant

LEMMA OthersUntouched ==
  ASSUME AccessInv, NEW r \in Requests, Commit(r), req[r].op \in TenantOps,
         NEW c \in Companies, c # req[r].company
  PROVE  Tenant(c)' = Tenant(c)
<1> DEFINE q == req[r]
<1>0. TablesTyped /\ q \in Request /\ Wellformed(q) /\ Recorded(q)
  BY CommitReads, CommitMoves, TypedMeans DEF AccessInv, ReadsLast
<1>a. q.company \in Companies
  BY <1>0 DEF Wellformed, CompanyOps
<1>1. CASE CommitAdd(r)
  <2>1. q.user \in Users
    BY <1>0, <1>1 DEF CommitAdd, Committing, Wellformed, UserOps, MemberOps
  <2>2. \A u \in Users : member'[u, c] = member[u, c]
    BY <1>0, <1>1, <1>a, <2>1 DEF CommitAdd, TablesTyped
  <2> QED
    BY <1>1, <2>2, TenantSame DEF CommitAdd
<1>2. CASE CommitUpdate(r)
  <2>2. \A u \in Users : member'[u, c] = member[u, c]
    BY <1>0, <1>2, MembersWritten DEF AccessInv
  <2> QED
    BY <1>2, <2>2, TenantSame DEF CommitUpdate
<1>3. CASE CommitRemove(r)
  <2>1. q.user \in Users
    BY <1>0, <1>3 DEF CommitRemove, Committing, Wellformed, UserOps, MemberOps
  <2>2. \A u \in Users : member'[u, c] = member[u, c]
    BY <1>0, <1>3, <1>a, <2>1 DEF CommitRemove, TablesTyped
  <2> QED
    BY <1>3, <2>2, TenantSame DEF CommitRemove
<1>4. CASE CommitAssign(r)
  <2>1. q.role \in Roles
    BY <1>0, <1>4 DEF CommitAssign, Committing, Wellformed, RoleOps, SuperuserOps
  <2>2. \A x \in Roles : enabled'[c, x] = enabled[c, x]
    BY <1>0, <1>4, <1>a, <2>1 DEF CommitAssign, TablesTyped
  <2> QED
    BY <1>4, <2>2, TenantSame DEF CommitAssign
<1>5. CASE CommitUnassign(r)
  <2>1. q.role \in Roles
    BY <1>0, <1>5 DEF CommitUnassign, Committing, Wellformed, RoleOps
  <2>2. \A x \in Roles : enabled'[c, x] = enabled[c, x]
    BY <1>0, <1>5, <1>a, <2>1 DEF CommitUnassign, TablesTyped
  <2> QED
    BY <1>5, <2>2, TenantSame DEF CommitUnassign, Withdrawn
<1>6. CASE CommitNewPermission(r)
  <2>1. \A p \in Permissions : owner'[p] = c <=> owner[p] = c
    BY <1>0, <1>6, RequestAssumption DEF CommitNewPermission, TablesTyped
  <2> QED
    BY <1>6, <2>1, TenantSame DEF CommitNewPermission
<1>7. CASE CommitDropPermission(r)
  <2>1. owner[q.permission] # c
    BY <1>0, <1>7, RequestAssumption
       DEF CommitDropPermission, Committing, Recorded
  <2>2. \A p \in Permissions : owner'[p] = c <=> owner[p] = c
    BY <1>0, <1>7, <2>1, RequestAssumption DEF CommitDropPermission, TablesTyped
  <2>3. \A g : g[1] = c => (g \in attached' <=> g \in attached)
    BY <1>7, <2>1 DEF CommitDropPermission, AccessInv, LinksWithinTenant
  <2> QED
    BY <1>7, <2>2, <2>3, TenantSame DEF CommitDropPermission
<1>8. CASE CommitAttach(r) \/ CommitDetach(r)
  <2>1. \A g : g[1] = c => (g \in attached' <=> g \in attached)
    BY <1>8 DEF CommitAttach, CommitDetach
  <2> QED
    BY <1>8, <2>1, TenantSame DEF CommitAttach, CommitDetach
<1>9. CASE CommitDeleteCompany(r)
  BY <1>9, TenantSame DEF CommitDeleteCompany
<1>10. /\ ~AssignNext(r) /\ ~CommitAssignNext(r) /\ ~CommitReassign(r)
       /\ ~CommitRole(r) /\ ~CommitRename(r) /\ ~CommitDeleteRole(r)
       /\ ~CommitGrant(r) /\ ~CommitPlatform(r)
  BY DEF AssignNext, CommitAssignNext, CommitReassign, CommitRole, CommitRename,
         CommitDeleteRole, CommitGrant, CommitPlatform, Committing, TenantOps,
         MemberOps, PermissionOps
<1> QED
  BY <1>1, <1>2, <1>3, <1>4, <1>5, <1>6, <1>7, <1>8, <1>9, <1>10 DEF Commit

LEMMA StepStrangers ==
  ASSUME AccessInv, AccessNext, NEW c \in Companies, Tenant(c)' # Tenant(c)
  PROVE  \E r \in Requests :
           /\ pc[r] = "checked"
           /\ \/ req[r].caller \in Superusers
              \/ req[r].company = c /\ member[req[r].caller, c].state # "absent"
<1>1. UNCHANGED <<openCompany, enabled, member, owner, attached>> =>
        Tenant(c)' = Tenant(c)
  BY TenantSame
<1>2. PICK r \in Requests : Commit(r)
  BY <1>1, StepMoves DEF CloseAccount, tables
<1>3. pc[r] = "checked" /\ Entitled(req[r])
  BY <1>2, CommitMoves DEF AccessInv, ReadsLast
<1>4. CASE req[r].caller \in Superusers
  BY <1>3, <1>4
<1>5. CASE req[r].caller \notin Superusers
  <2>1. /\ req[r].op \in TenantOps
        /\ member[req[r].caller, req[r].company].state # "absent"
    BY <1>3, <1>5 DEF Entitled
  <2> QED
    BY <1>2, <1>3, <2>1, OthersUntouched
<1> QED
  BY <1>4, <1>5

\* Nothing in a company changes but by a superuser or by somebody who is or was
\* a member of it, whatever was changed since the request was authorised.
THEOREM StrangersNeverChange == AccessSpec => StrangersChangeNothing
<1>1. AccessInv /\ [AccessNext]_vars =>
        [\A c \in Companies : Tenant(c)' # Tenant(c) =>
           \E r \in Requests :
             /\ pc[r] = "checked"
             /\ \/ req[r].caller \in Superusers
                \/ /\ req[r].company = c
                   /\ member[req[r].caller, c].state # "absent"]_tables
  BY StepStrangers DEF vars
<1> QED
  BY <1>1, InitReads, StepReadsInv, PTL DEF AccessSpec, StrangersChangeNothing

-----------------------------------------------------------------------------
(* One thread.  What a request has read is still true when it commits: the   *)
(* handlers are right on their own, and what the first part does not say is  *)
(* lost to overlapping requests alone.                                     *)

Serial == \A r, s \in Requests : r = s

\* What the commit of a checked request relies on.
Served(q) ==
  /\ q.op = "add" => MayAdd(q)
  /\ q.op = "update" => MayUpdate(q)
  /\ q.op = "unassign" => MayUnassign(q)
  /\ q.op = "reassign" =>
       MayReassign(q) /\ q.links = MembersWith(q.company, q.role)
  /\ q.op = "deleteRole" =>
       \A c \in Companies : MembersWith(c, q.role) = {}
  /\ q.op \in {"grant", "platform"} => RoleOpen(q.role)
  /\ q.op = "attach" => MayAttach(q)

StillEntitled(q) ==
  IF q.op \in TenantOps THEN MayAct(q.caller, q.company, q.op)
                        ELSE q.caller \in Superusers

StillTrue ==
  \A r \in Requests : /\ pc[r] = "checked" => Served(req[r])
                      /\ pc[r] # "idle" => StillEntitled(req[r])

LEMMA CheckedServed ==
  ASSUME Typed, NEW r \in Requests, Check(r)
  PROVE  Served(req[r])'
<1> DEFINE q == req[r]
           p == req'[r]
<1>1. /\ p.op = q.op /\ p.company = q.company /\ p.user = q.user
      /\ p.role = q.role /\ p.other = q.other /\ p.permission = q.permission
      /\ p.links = Links(q)
  BY CheckMoves
<1>2. Passes(q) /\ UNCHANGED tables
  BY DEF Check
<1> HIDE DEF p, q
<1>3. /\ q.op = "add" => MayAdd(q)
      /\ q.op = "update" => MayUpdate(q)
      /\ q.op = "unassign" => MayUnassign(q)
      /\ q.op = "reassign" =>
           MayReassign(q) /\ Links(q) = MembersWith(q.company, q.role)
      /\ q.op = "deleteRole" =>
           \A c \in Companies : MembersWith(c, q.role) = {}
      /\ q.op \in {"grant", "platform"} => RoleOpen(q.role)
      /\ q.op = "attach" => MayAttach(q)
  BY <1>2 DEF Passes, MayDeleteRole, Links
<1>4. /\ p.op = "add" => MayAdd(p)
      /\ p.op = "update" => MayUpdate(p)
      /\ p.op = "unassign" => MayUnassign(p)
      /\ p.op = "attach" => MayAttach(p)
  BY <1>1, <1>3 DEF MayAdd, MayUpdate, MayUnassign, MayAttach
<1>5. p.op = "reassign" => MayReassign(p) /\ p.links = MembersWith(p.company, p.role)
  BY <1>1, <1>3 DEF MayReassign
<1>6. /\ p.op = "deleteRole" =>
           \A c \in Companies : MembersWith(c, p.role) = {}
      /\ p.op \in {"grant", "platform"} => RoleOpen(p.role)
  BY <1>1, <1>3
<1>7. Served(p)
  BY <1>4, <1>5, <1>6 DEF Served
<1> QED
  BY <1>2, <1>7
     DEF p, tables, Served, MayAdd, MayUpdate, MayUnassign, MayReassign, MayAttach,
         MembersWith, RoleEnabled, RoleOpen

LEMMA StepServed ==
  ASSUME Serial, Typed, StillTrue, AccessNext
  PROVE  StillTrue'
<1> DEFINE Kept(s) == /\ pc[s] = "checked" => Served(req[s])
                      /\ pc[s] # "idle" => StillEntitled(req[s])
<1>0. pc \in [Requests -> Pcs] /\ req \in [Requests -> Request]
  BY DEF Typed, AccessTypeOK
<1>1. ASSUME NEW r \in Requests, Kept(r)' PROVE StillTrue'
  BY <1>1 DEF Serial, StillTrue
<1>2. ASSUME NEW r \in Requests, NEW k \in Users, NEW op \in Offered \cap Ops,
             NEW q \in Asked(k, op), Authorise(r, q)
      PROVE  Kept(r)'
  <2>1. pc'[r] = "authorised" /\ req'[r] = q /\ UNCHANGED tables
    BY <1>0, <1>2 DEF Authorise
  <2>2. StillEntitled(q)
    BY <1>2 DEF Authorise, StillEntitled
  <2> QED
    BY <2>1, <2>2
       DEF StillEntitled, MayAct, RoleEnabled, RoleOpen, tables
<1>3. ASSUME NEW r \in Requests, Check(r) PROVE Kept(r)'
  <2>1. Served(req[r])'
    BY <1>3, CheckedServed
  <2>2. StillEntitled(req[r]) /\ UNCHANGED tables
    BY <1>3 DEF StillTrue, Check
  <2>3. /\ req'[r].op = req[r].op /\ req'[r].caller = req[r].caller
        /\ req'[r].company = req[r].company
    BY <1>3, CheckMoves
  <2>4. StillEntitled(req[r])'
    BY <2>2, <2>3 DEF StillEntitled, MayAct, RoleEnabled, RoleOpen, tables
  <2> QED
    BY <2>1, <2>4
<1>4. ASSUME NEW r \in Requests, Finish(r) PROVE Kept(r)'
  BY <1>0, <1>4 DEF Finish
<1>5. ASSUME NEW r \in Requests, Commit(r), Resumes(r) PROVE Kept(r)'
  <2>1. /\ req[r].op \in {"createFor", "assignMany"}
        /\ req'[r].op = req[r].op /\ req'[r].caller = req[r].caller
    BY <1>5 DEF Resumes
  <2>2. StillEntitled(req[r])
    BY <1>5, CommitMoves DEF StillTrue
  <2> QED
    BY <2>1, <2>2 DEF Served, StillEntitled, TenantOps, MemberOps, PermissionOps
<1>6. ASSUME NEW u \in Users, CloseAccount(u), NEW r \in Requests PROVE Kept(r)'
  <2>1. /\ UNCHANGED <<openCompany, role, enabled, member, granted, owner,
                       attached, platform, pc, req>>
        /\ Kept(r)
    BY <1>6 DEF CloseAccount, StillTrue
  <2>2. (pc[r] = "checked" => Served(req[r]))'
    BY <2>1
       DEF Served, MayAdd, MayUpdate, MayUnassign, MayReassign, MayAttach,
           MembersWith, RoleEnabled, RoleOpen
  <2>3. (pc[r] # "idle" => StillEntitled(req[r]))'
    BY <2>1 DEF StillEntitled, MayAct, RoleEnabled, RoleOpen
  <2> QED
    BY <2>2, <2>3
<1> HIDE DEF Kept
<1>7. ASSUME NEW u \in Users, CloseAccount(u) PROVE StillTrue'
  BY <1>6, <1>7 DEF StillTrue, Kept
<1> QED
  BY <1>1, <1>2, <1>3, <1>4, <1>5, <1>7, CommitMoves DEF AccessNext, Refuse, Abort

SerialInv ==
  Typed /\ StillTrue /\ MemberRoleEnabled /\ NoOrphanLink /\ ClosedRoleIsBare

LEMMA CommitKeepsMemberRoles ==
  ASSUME SerialInv, NEW r \in Requests, Commit(r)
  PROVE  MemberRoleEnabled'
<1> DEFINE q == req[r]
<1>0. /\ TablesTyped /\ MemberRoleEnabled
      /\ q \in Request /\ Wellformed(q) /\ Served(q)
  BY CommitReads, CommitMoves, TypedMeans DEF SerialInv, StillTrue
<1> USE DEF CompanyOps, TenantOps, MemberOps, UserOps, RoleOps, SuperuserOps
<1>1. ASSUME member' = member,
             \A c \in Companies, x \in Roles :
               enabled[c, x] = "open" => enabled'[c, x] = "open",
             \A x \in Roles : RoleOpen(x) => RoleOpen(x)'
      PROVE  MemberRoleEnabled'
  BY <1>0, <1>1 DEF MemberRoleEnabled, RoleEnabled, TablesTyped
<1>2. CASE CommitAdd(r)
  <2>1. /\ q.user \in Users /\ q.company \in Companies /\ q.role \in Roles
        /\ RoleEnabled(q.company, q.role)
    BY <1>0, <1>2 DEF CommitAdd, Committing, Wellformed, Served, MayAdd
  <2>2. ASSUME NEW u \in Users, NEW c \in Companies, member'[u, c].state = "open"
        PROVE  RoleEnabled(c, member'[u, c].role)
    BY <1>0, <1>2, <2>1, <2>2 DEF CommitAdd, TablesTyped, MemberRoleEnabled
  <2> QED
    BY <1>2, <2>2 DEF CommitAdd, MemberRoleEnabled, RoleEnabled, RoleOpen
<1>3. CASE CommitRemove(r)
  <2>1. q.user \in Users /\ q.company \in Companies
    BY <1>0, <1>3 DEF CommitRemove, Committing, Wellformed
  <2>2. ASSUME NEW u \in Users, NEW c \in Companies, member'[u, c].state = "open"
        PROVE  RoleEnabled(c, member'[u, c].role)
    <3>1. /\ member' = [member EXCEPT ![<<q.user, q.company>>].state = "closed"]
          /\ member \in [Users \X Companies -> [state : RowStates, role : Roles]]
      BY <1>0, <1>3 DEF CommitRemove, TablesTyped
    <3>2. member'[u, c] = member[u, c]
      BY <2>1, <2>2, <3>1
    <3>3. RoleEnabled(c, member[u, c].role)
      BY <1>0, <2>2, <3>2 DEF MemberRoleEnabled
    <3> QED
      BY <3>2, <3>3
  <2> QED
    BY <1>3, <2>2 DEF CommitRemove, MemberRoleEnabled, RoleEnabled, RoleOpen
<1>4. CASE CommitUpdate(r)
  <2>1. q.op = "update" /\ RoleEnabled(q.company, q.role)
    BY <1>0, <1>4 DEF CommitUpdate, Committing, Served, MayUpdate
  <2>2. ASSUME NEW u \in Users, NEW c \in Companies, member'[u, c].state = "open"
        PROVE  RoleEnabled(c, member'[u, c].role)
    <3>1. /\ member[u, c].state = "open"
          /\ member'[u, c].role =
               IF u \in q.links /\ c = q.company THEN q.role ELSE member[u, c].role
      <4>1. NewRole(q) = q.role /\ Typed
        BY <2>1 DEF NewRole, SerialInv
      <4> QED
        BY <1>4, <2>2, <4>1, MembersWritten
    <3> QED
      BY <1>0, <2>1, <3>1 DEF MemberRoleEnabled
  <2> QED
    BY <1>4, <2>2 DEF CommitUpdate, MemberRoleEnabled, RoleEnabled, RoleOpen
<1>5. CASE CommitReassign(r)
  <2>1. /\ q.op = "reassign" /\ q.company \in Companies
        /\ q.role \in Roles /\ q.other \in Roles /\ q.role # q.other
        /\ RoleEnabled(q.company, q.other)
        /\ q.links = MembersWith(q.company, q.role)
    BY <1>0, <1>5 DEF CommitReassign, Committing, Wellformed, Served, MayReassign
  <2>2. ASSUME NEW u \in Users, NEW c \in Companies, member'[u, c].state = "open"
        PROVE  /\ RoleEnabled(c, member'[u, c].role)
               /\ member'[u, c].role \in Roles
               /\ ~(c = q.company /\ member'[u, c].role = q.role)
    <3>1. /\ member[u, c].state = "open"
          /\ member'[u, c].role =
               IF u \in q.links /\ c = q.company THEN q.other ELSE member[u, c].role
      BY <1>5, <2>1, <2>2, MembersWritten, ZenonT(30) DEF NewRole, SerialInv
    <3>2. member[u, c].role \in Roles
      BY <1>0 DEF TablesTyped
    <3> QED
      BY <1>0, <2>1, <3>1, <3>2 DEF MemberRoleEnabled, MembersWith
  <2>3. /\ role' = role
        /\ \A c \in Companies, x \in Roles :
             ~(c = q.company /\ x = q.role) => enabled'[c, x] = enabled[c, x]
    BY <1>0, <1>5, <2>1 DEF CommitReassign, TablesTyped
  <2>4. ASSUME NEW u \in Users, NEW c \in Companies, member'[u, c].state = "open"
        PROVE  RoleEnabled(c, member[u, c].role)'
    <3>1. PICK x \in Roles : x = member'[u, c].role
      BY <2>2, <2>4
    <3>2. RoleEnabled(c, x) /\ ~(c = q.company /\ x = q.role)
      BY <2>2, <2>4, <3>1
    <3>3. enabled'[c, x] = enabled[c, x]
      BY <2>3, <3>2
    <3> QED
      BY <2>3, <3>1, <3>2, <3>3 DEF RoleEnabled, RoleOpen
  <2> QED
    BY <2>4 DEF MemberRoleEnabled
<1>6. CASE CommitAssign(r)
  <2>1. q.company \in Companies /\ q.role \in Roles
    BY <1>0, <1>6 DEF CommitAssign, Committing, Wellformed
  <2> QED
    BY <1>0, <1>1, <1>6, <2>1 DEF CommitAssign, TablesTyped, RoleOpen
<1>7. CASE CommitAssignNext(r)
  <2>1. q.company \in Companies /\ q.role \in Roles
    BY <1>0, <1>7 DEF CommitAssignNext, Committing, Wellformed, Request
  <2> QED
    BY <1>0, <1>1, <1>7, <2>1 DEF CommitAssignNext, TablesTyped, RoleOpen
<1>8. CASE CommitUnassign(r)
  <2>1. /\ q.company \in Companies /\ q.role \in Roles
        /\ MembersWith(q.company, q.role) = {}
    BY <1>0, <1>8 DEF CommitUnassign, Committing, Wellformed, Served, MayUnassign
  <2>2. /\ role' = role /\ member' = member
        /\ \A c \in Companies, x \in Roles :
             ~(c = q.company /\ x = q.role) => enabled'[c, x] = enabled[c, x]
    BY <1>0, <1>8, <2>1 DEF CommitUnassign, TablesTyped
  <2>3. ASSUME NEW u \in Users, NEW c \in Companies, member[u, c].state = "open"
        PROVE  /\ RoleEnabled(c, member[u, c].role)
               /\ member[u, c].role \in Roles
               /\ ~(c = q.company /\ member[u, c].role = q.role)
    BY <1>0, <2>1, <2>3 DEF MemberRoleEnabled, MembersWith, TablesTyped
  <2>4. ASSUME NEW u \in Users, NEW c \in Companies, member'[u, c].state = "open"
        PROVE  RoleEnabled(c, member[u, c].role)'
    <3>1. PICK x \in Roles : x = member[u, c].role /\ x = member'[u, c].role
      BY <2>2, <2>3, <2>4
    <3>2. RoleEnabled(c, x) /\ ~(c = q.company /\ x = q.role)
      BY <2>2, <2>3, <2>4, <3>1
    <3>3. enabled'[c, x] = enabled[c, x]
      BY <2>2, <3>2
    <3> QED
      BY <2>2, <3>1, <3>2, <3>3 DEF RoleEnabled, RoleOpen
  <2> QED
    BY <2>4 DEF MemberRoleEnabled
<1>9. CASE CommitRole(r)
  <2>1. q.role \in Roles
    BY <1>0, <1>9 DEF CommitRole, Committing, Wellformed
  <2>2. \A x \in Roles : RoleOpen(x) => RoleOpen(x)'
    BY <1>0, <1>9, <2>1 DEF CommitRole, TablesTyped, RoleOpen
  <2> QED
    BY <1>1, <1>9, <2>2 DEF CommitRole
<1>10. CASE CommitRename(r)
  <2>2. \A x \in Roles : RoleOpen(x) => RoleOpen(x)'
    BY <1>0, <1>10 DEF CommitRename, TablesTyped, RoleOpen
  <2> QED
    BY <1>1, <1>10, <2>2 DEF CommitRename
<1>11. CASE CommitDeleteRole(r)
  <2>1. \A c \in Companies : MembersWith(c, q.role) = {}
    BY <1>0, <1>11 DEF CommitDeleteRole, Committing, Served
  <2>2. \A x \in Roles : x # q.role /\ RoleOpen(x) => RoleOpen(x)'
    BY <1>0, <1>11 DEF CommitDeleteRole, TablesTyped, RoleOpen
  <2>3. ASSUME NEW u \in Users, NEW c \in Companies, member[u, c].state = "open"
        PROVE  RoleEnabled(c, member[u, c].role)'
    <3>1. member[u, c].role \in Roles /\ member[u, c].role # q.role
      BY <1>0, <2>1, <2>3 DEF MembersWith, TablesTyped
    <3> QED
      BY <1>0, <1>11, <2>2, <2>3, <3>1
         DEF MemberRoleEnabled, RoleEnabled, CommitDeleteRole
  <2> QED
    BY <1>11, <2>3 DEF MemberRoleEnabled, CommitDeleteRole, RoleEnabled
<1>12. CASE \/ AssignNext(r) \/ CommitGrant(r) \/ CommitPlatform(r)
            \/ CommitNewPermission(r) \/ CommitDropPermission(r)
            \/ CommitAttach(r) \/ CommitDetach(r) \/ CommitDeleteCompany(r)
  <2>1. UNCHANGED <<role, enabled, member>>
    BY <1>12
       DEF AssignNext, CommitGrant, CommitPlatform, CommitNewPermission,
           CommitDropPermission, CommitAttach, CommitDetach, CommitDeleteCompany,
           tables
  <2> QED
    BY <1>1, <2>1 DEF RoleOpen
<1> QED
  BY <1>2, <1>3, <1>4, <1>5, <1>6, <1>7, <1>8, <1>9, <1>10, <1>11, <1>12 DEF Commit

LEMMA CommitKeepsLinks ==
  ASSUME SerialInv, NEW r \in Requests, Commit(r)
  PROVE  NoOrphanLink'
<1> DEFINE q == req[r]
<1>0. /\ TablesTyped /\ NoOrphanLink
      /\ q \in Request /\ Wellformed(q) /\ Served(q)
  BY CommitReads, CommitMoves, TypedMeans DEF SerialInv, StillTrue
<1> USE DEF CompanyOps, TenantOps, MemberOps, PermissionOps, RoleOps, SuperuserOps
<1>1. ASSUME NEW g \in attached
      PROVE  /\ g[1] \in Companies /\ g[2] \in Roles
             /\ enabled[g[1], g[2]] = "open" /\ role[g[2]].state = "open"
  BY <1>0 DEF TablesTyped, NoOrphanLink, RoleEnabled, RoleOpen
<1>2. ASSUME attached' \subseteq attached,
             \A c \in Companies, x \in Roles :
               enabled[c, x] = "open" => enabled'[c, x] = "open",
             \A x \in Roles : role[x].state = "open" => role'[x].state = "open"
      PROVE  NoOrphanLink'
  BY <1>1, <1>2 DEF NoOrphanLink, RoleEnabled, RoleOpen
<1>3. CASE CommitAssign(r)
  <2>1. q.company \in Companies /\ q.role \in Roles
    BY <1>0, <1>3 DEF CommitAssign, Committing, Wellformed
  <2> QED
    BY <1>0, <1>2, <1>3, <2>1 DEF CommitAssign, TablesTyped
<1>4. CASE CommitAssignNext(r)
  <2>1. q.company \in Companies /\ q.role \in Roles
    BY <1>0, <1>4 DEF CommitAssignNext, Committing, Wellformed, Request
  <2> QED
    BY <1>0, <1>2, <1>4, <2>1 DEF CommitAssignNext, TablesTyped
<1>5. CASE CommitUnassign(r) \/ CommitReassign(r)
  <2>1. q.company \in Companies /\ q.role \in Roles
    BY <1>0, <1>5 DEF CommitUnassign, CommitReassign, Committing, Wellformed
  <2>2. /\ role' = role
        /\ attached' = {g \in attached : ~(g[1] = q.company /\ g[2] = q.role)}
        /\ \A c \in Companies, x \in Roles :
             ~(c = q.company /\ x = q.role) => enabled'[c, x] = enabled[c, x]
    BY <1>0, <1>5, <2>1 DEF CommitUnassign, CommitReassign, Withdrawn, TablesTyped
  <2> QED
    BY <1>1, <2>2 DEF NoOrphanLink, RoleEnabled, RoleOpen
<1>6. CASE CommitRole(r)
  <2>1. q.role \in Roles
    BY <1>0, <1>6 DEF CommitRole, Committing, Wellformed
  <2>2. \A x \in Roles : role[x].state = "open" => role'[x].state = "open"
    BY <1>0, <1>6, <2>1 DEF CommitRole, TablesTyped
  <2> QED
    BY <1>2, <1>6, <2>2 DEF CommitRole
<1>7. CASE CommitRename(r)
  <2>1. \A x \in Roles : role[x].state = "open" => role'[x].state = "open"
    BY <1>0, <1>7 DEF CommitRename, TablesTyped
  <2> QED
    BY <1>2, <1>7, <2>1 DEF CommitRename
<1>8. CASE CommitDeleteRole(r)
  <2>1. /\ attached' = {g \in attached : g[2] # q.role} /\ enabled' = enabled
        /\ \A x \in Roles : x # q.role => role'[x] = role[x]
    BY <1>0, <1>8 DEF CommitDeleteRole, TablesTyped
  <2> QED
    BY <1>1, <2>1 DEF NoOrphanLink, RoleEnabled, RoleOpen
<1>9. CASE CommitAttach(r)
  <2>1. RoleEnabled(q.company, q.role) /\ role' = role /\ enabled' = enabled
    BY <1>0, <1>9 DEF CommitAttach, Committing, Served, MayAttach
  <2>2. attached' \subseteq attached \cup {<<q.company, q.role, q.permission>>}
    BY <1>9 DEF CommitAttach
  <2>3. \A g \in attached' : RoleEnabled(g[1], g[2])
    BY <1>0, <2>1, <2>2 DEF NoOrphanLink
  <2> QED
    BY <2>1, <2>3 DEF NoOrphanLink, RoleEnabled, RoleOpen
<1>10. CASE \/ CommitAdd(r) \/ CommitUpdate(r) \/ CommitRemove(r)
            \/ AssignNext(r) \/ CommitGrant(r) \/ CommitPlatform(r)
            \/ CommitNewPermission(r) \/ CommitDropPermission(r)
            \/ CommitDetach(r) \/ CommitDeleteCompany(r)
  <2>1. UNCHANGED <<role, enabled>> /\ attached' \subseteq attached
    BY <1>10
       DEF CommitAdd, CommitUpdate, CommitRemove, AssignNext, CommitGrant,
           CommitPlatform, CommitNewPermission, CommitDropPermission, CommitDetach,
           CommitDeleteCompany, tables
  <2> QED
    BY <1>2, <2>1
<1> QED
  BY <1>3, <1>4, <1>5, <1>6, <1>7, <1>8, <1>9, <1>10 DEF Commit

LEMMA CommitKeepsBare ==
  ASSUME SerialInv, NEW r \in Requests, Commit(r)
  PROVE  ClosedRoleIsBare'
<1> DEFINE q == req[r]
<1>0. /\ TablesTyped /\ ClosedRoleIsBare
      /\ q \in Request /\ Wellformed(q) /\ Served(q)
  BY CommitReads, CommitMoves, TypedMeans DEF SerialInv, StillTrue
<1>1. q.op \in RoleOps => q.role \in Roles
  BY <1>0 DEF Wellformed
<1>2. ASSUME granted' \subseteq granted, platform' \subseteq platform,
             \A x \in Roles : role'[x].state = "closed" => role[x].state = "closed"
      PROVE  ClosedRoleIsBare'
  BY <1>0, <1>2 DEF ClosedRoleIsBare
<1>3. CASE CommitRole(r)
  <2>1. q.role \in Roles
    BY <1>1, <1>3 DEF CommitRole, Committing, RoleOps, SuperuserOps
  <2>2. \A x \in Roles : role'[x].state = "closed" => role[x].state = "closed"
    BY <1>0, <1>3, <2>1 DEF CommitRole, TablesTyped
  <2> QED
    BY <1>2, <1>3, <2>2 DEF CommitRole
<1>4. CASE CommitRename(r)
  <2>1. \A x \in Roles : role'[x].state = "closed" => role[x].state = "closed"
    BY <1>0, <1>4 DEF CommitRename, TablesTyped
  <2> QED
    BY <1>2, <1>4, <2>1 DEF CommitRename
<1>5. CASE CommitDeleteRole(r)
  <2>1. /\ granted' = {g \in granted : g[1] # q.role}
        /\ platform' = {g \in platform : g[2] # q.role}
        /\ \A x \in Roles : x # q.role => role'[x] = role[x]
    BY <1>0, <1>5 DEF CommitDeleteRole, TablesTyped
  <2> QED
    BY <1>0, <2>1 DEF ClosedRoleIsBare
<1>6. CASE CommitGrant(r)
  <2>1. /\ q.op = "grant" => RoleOpen(q.role)
        /\ role' = role /\ platform' = platform
        /\ \/ q.op = "grant" /\ granted' = granted \cup {<<q.role, q.permission>>}
           \/ granted' \subseteq granted
    BY <1>0, <1>6 DEF CommitGrant, Committing, Served
  <2> QED
    BY <1>0, <2>1 DEF ClosedRoleIsBare, RoleOpen
<1>7. CASE CommitPlatform(r)
  <2>1. /\ q.op = "platform" => RoleOpen(q.role)
        /\ role' = role /\ granted' = granted
        /\ \/ q.op = "platform" /\ platform' = platform \cup {<<q.user, q.role>>}
           \/ platform' \subseteq platform
    BY <1>0, <1>7 DEF CommitPlatform, Committing, Served
  <2> QED
    BY <1>0, <2>1 DEF ClosedRoleIsBare, RoleOpen
<1>8. CASE \/ CommitAdd(r) \/ CommitUpdate(r) \/ CommitRemove(r)
           \/ CommitAssign(r) \/ AssignNext(r) \/ CommitAssignNext(r)
           \/ CommitUnassign(r) \/ CommitReassign(r)
           \/ CommitNewPermission(r) \/ CommitDropPermission(r)
           \/ CommitAttach(r) \/ CommitDetach(r) \/ CommitDeleteCompany(r)
  <2>1. UNCHANGED <<role, granted, platform>>
    BY <1>8
       DEF CommitAdd, CommitUpdate, CommitRemove, CommitAssign, AssignNext,
           CommitAssignNext, CommitUnassign, CommitReassign, CommitNewPermission,
           CommitDropPermission, CommitAttach, CommitDetach, CommitDeleteCompany,
           tables
  <2> QED
    BY <1>2, <2>1
<1> QED
  BY <1>3, <1>4, <1>5, <1>6, <1>7, <1>8 DEF Commit

LEMMA InitSerial == AccessInit => SerialInv
<1> SUFFICES ASSUME AccessInit PROVE SerialInv
  OBVIOUS
<1> DEFINE owns == CHOOSE x \in Roles : BuiltinName[x] = "Owner"
<1>1. owns \in Roles /\ BuiltinName[owns] = "Owner"
  BY RoleAssumption
<1>2. BuiltinName[owns] # None
  BY <1>1, RequestAssumption DEF Names, DefaultNames
<1>3. ASSUME NEW u \in Users, NEW c \in Companies
      PROVE  /\ member[u, c].role = owns /\ enabled[c, owns] = "open"
             /\ role[owns].state = "open"
  BY <1>1, <1>2 DEF AccessInit
<1>4. MemberRoleEnabled
  BY <1>3 DEF MemberRoleEnabled, RoleEnabled, RoleOpen
<1>5. ClosedRoleIsBare
  BY DEF AccessInit, ClosedRoleIsBare
<1>6. StillTrue /\ NoOrphanLink
  BY DEF AccessInit, StillTrue, NoOrphanLink
<1> QED
  BY <1>4, <1>5, <1>6, InitTyped DEF SerialInv

LEMMA StepSerial ==
  ASSUME Serial, SerialInv, [AccessNext]_vars
  PROVE  SerialInv'
<1>1. ASSUME UNCHANGED <<role, enabled, member, granted, attached, platform>>
      PROVE  (MemberRoleEnabled /\ NoOrphanLink /\ ClosedRoleIsBare)'
  BY <1>1
     DEF SerialInv, MemberRoleEnabled, NoOrphanLink, ClosedRoleIsBare, RoleEnabled,
         RoleOpen
<1>2. CASE AccessNext
  <2>1. Typed' /\ StillTrue'
    BY <1>2, StepTyped, StepServed DEF SerialInv
  <2>2. ASSUME NEW r \in Requests, Commit(r)
        PROVE  (MemberRoleEnabled /\ NoOrphanLink /\ ClosedRoleIsBare)'
    BY <2>2, CommitKeepsMemberRoles, CommitKeepsLinks, CommitKeepsBare
  <2>3. (MemberRoleEnabled /\ NoOrphanLink /\ ClosedRoleIsBare)'
    BY <1>1, <1>2, <2>2, StepMoves DEF CloseAccount, tables
  <2> QED
    BY <2>1, <2>3 DEF SerialInv
<1>3. CASE UNCHANGED vars
  <2>1. ASSUME NEW r \in Requests PROVE Served(req[r])' = Served(req[r])
    BY <1>3, Zenon
       DEF vars, tables, Served, MayAdd, MayUpdate, MayUnassign, MayReassign,
           MayAttach, MembersWith, RoleEnabled, RoleOpen
  <2>2. ASSUME NEW r \in Requests
        PROVE  StillEntitled(req[r])' = StillEntitled(req[r])
    BY <1>3, Zenon DEF vars, tables, StillEntitled, MayAct, RoleEnabled, RoleOpen
  <2>3. StillTrue'
    BY <1>3, <2>1, <2>2, Zenon DEF vars, SerialInv, StillTrue
  <2> QED
    BY <1>1, <1>3, <2>3, StepTyped DEF vars, tables, SerialInv
<1> QED
  BY <1>2, <1>3

\* Handlers that do not overlap leave every member with an enabled role.
THEOREM SerialMembersKeepRoles ==
  ASSUME Serial
  PROVE  AccessSpec => []MemberRoleEnabled
<1>1. SerialInv => MemberRoleEnabled
  BY DEF SerialInv
<1>2. SerialInv /\ [AccessNext]_vars => SerialInv'
  BY StepSerial
<1> QED
  BY <1>1, <1>2, InitSerial, PTL DEF AccessSpec

\* They withdraw and delete no role without its permission links.
THEOREM SerialLinksFollowRoles ==
  ASSUME Serial
  PROVE  AccessSpec => []NoOrphanLink
<1>1. SerialInv => NoOrphanLink
  BY DEF SerialInv
<1>2. SerialInv /\ [AccessNext]_vars => SerialInv'
  BY StepSerial
<1> QED
  BY <1>1, <1>2, InitSerial, PTL DEF AccessSpec

\* They leave a deleted role without permissions and without platform users.
THEOREM SerialClosedRolesAreBare ==
  ASSUME Serial
  PROVE  AccessSpec => []ClosedRoleIsBare
<1>1. SerialInv => ClosedRoleIsBare
  BY DEF SerialInv
<1>2. SerialInv /\ [AccessNext]_vars => SerialInv'
  BY StepSerial
<1> QED
  BY <1>1, <1>2, InitSerial, PTL DEF AccessSpec

LEMMA StepOnlyMembers ==
  ASSUME AccessInv, StillTrue, AccessNext,
         NEW c \in Companies, Tenant(c)' # Tenant(c)
  PROVE  \E r \in Requests :
           /\ pc[r] = "checked"
           /\ \/ req[r].caller \in Superusers
              \/ /\ req[r].company = c
                 /\ c \in openCompany
                 /\ member[req[r].caller, c].state = "open"
                 /\ RoleEnabled(c, member[req[r].caller, c].role)
<1>1. UNCHANGED <<openCompany, enabled, member, owner, attached>> =>
        Tenant(c)' = Tenant(c)
  BY TenantSame
<1>2. PICK r \in Requests : Commit(r)
  BY <1>1, StepMoves DEF CloseAccount, tables
<1>3. pc[r] = "checked" /\ StillEntitled(req[r])
  BY <1>2, CommitMoves DEF AccessInv, StillTrue
<1>4. CASE req[r].caller \in Superusers
  BY <1>3, <1>4
<1>5. CASE req[r].caller \notin Superusers
  <2>1. /\ req[r].op \in TenantOps
        /\ MayAct(req[r].caller, req[r].company, req[r].op)
    BY <1>3, <1>5 DEF StillEntitled
  <2>2. req[r].company = c
    BY <1>2, <2>1, OthersUntouched
  <2> QED
    BY <1>3, <1>5, <2>1, <2>2 DEF MayAct
<1> QED
  BY <1>4, <1>5

\* With one thread, whoever changes something in a company is a superuser or a
\* member of it at that moment, by a role that is enabled there.
THEOREM SerialOnlyMembersAct ==
  ASSUME Serial
  PROVE  AccessSpec => OnlyMembersAct
<1>1. AccessInv /\ SerialInv /\ [AccessNext]_vars =>
        [\A c \in Companies : Tenant(c)' # Tenant(c) =>
           \E r \in Requests :
             /\ pc[r] = "checked"
             /\ \/ req[r].caller \in Superusers
                \/ /\ req[r].company = c
                   /\ c \in openCompany
                   /\ member[req[r].caller, c].state = "open"
                   /\ RoleEnabled(c, member[req[r].caller, c].role)]_tables
  BY StepOnlyMembers DEF vars, SerialInv
<1>2. SerialInv /\ [AccessNext]_vars => SerialInv'
  BY StepSerial
<1> QED
  BY <1>1, <1>2, InitReads, StepReadsInv, InitSerial, PTL
     DEF AccessSpec, OnlyMembersAct

-----------------------------------------------------------------------------
(* CompanyAccess implements TenantRecords: each commit is one move of the  *)
(* records or leaves them alone, by what the request has recorded          *)
(* (AccessInv) and nothing else it has read.                               *)

LEMMA InitRefines == AccessInit => Records!RecordsInit
<1> SUFFICES ASSUME AccessInit PROVE Records!RecordsInit
  OBVIOUS
<1> DEFINE owns == CHOOSE x \in Roles : BuiltinName[x] = "Owner"
<1>1. owns \in Roles /\ BuiltinName[owns] = "Owner"
  BY RoleAssumption
<1>2. BuiltinName[owns] # None
  BY <1>1, RequestAssumption DEF Names, DefaultNames
<1>3. ASSUME NEW u \in Users, NEW c \in Companies
      PROVE  member[u, c].role = owns /\ enabled[c, owns] = "open"
  BY <1>1, <1>2 DEF AccessInit
<1>4. \A u \in Users, c \in Companies :
        member[u, c].state = "open" => Records!Known(c, member[u, c].role)
  BY <1>3 DEF Records!Known
<1>5. enabled \in [Companies \X Roles -> {"absent", "open"}]
  BY DEF AccessInit
<1>6. member \in [Users \X Companies -> [state : {"absent", "open"}, role : Roles]]
  BY <1>1 DEF AccessInit
<1>7. owner = [p \in Permissions |-> None] /\ attached = {}
  BY DEF AccessInit
<1> QED
  BY <1>4, <1>5, <1>6, <1>7 DEF Records!RecordsInit

LEMMA CommitRefines ==
  ASSUME AccessInv, NEW r \in Requests, Commit(r)
  PROVE  Records!RecordsNext \/ UNCHANGED Records!records
<1> DEFINE q == req[r]
           c == q.company
           x == q.role
           p == q.permission
<1>0. TablesTyped /\ q \in Request /\ Wellformed(q) /\ Recorded(q)
  BY CommitReads, CommitMoves, TypedMeans DEF AccessInv, ReadsLast
<1>1. /\ q.op \in CompanyOps => c \in Companies
      /\ q.op \in RoleOps => x \in Roles
      /\ q.op \in UserOps => q.user \in Users
      /\ q.op \in PermissionOps => p \in Permissions
      /\ q.op = "reassign" => q.other \in Roles
      /\ q.links \in SUBSET Users
  BY <1>0 DEF Wellformed, Request
<1>2. PICK anyRole \in Roles : TRUE
  BY RoleAssumption
<1> USE DEF CompanyOps, TenantOps, MemberOps, PermissionOps, UserOps, RoleOps,
            SuperuserOps
<1>3. CASE CommitAdd(r)
  <2>1. c \in Companies /\ x \in Roles /\ q.user \in Users /\ Records!Known(c, x)
    BY <1>0, <1>1, <1>3 DEF CommitAdd, Committing, Recorded, Records!Known
  <2>2. UNCHANGED <<enabled, owner, attached>>
    BY <1>3 DEF CommitAdd
  <2>3. Records!Admit(q.user, c, x) \/ UNCHANGED member
    BY <1>3, <2>1 DEF CommitAdd, Records!Admit
  <2> QED
    BY <2>1, <2>2, <2>3 DEF Records!RecordsNext, Records!records
<1>4. CASE CommitUpdate(r)
  <2>1. q.op = "update" /\ c \in Companies /\ x \in Roles /\ Records!Known(c, x)
    BY <1>0, <1>1, <1>4 DEF CommitUpdate, Committing, Recorded, Records!Known
  <2>2. Records!Assign(q.links, c, x)
    BY <1>0, <1>4, <2>1 DEF CommitUpdate, Records!Assign, Recorded
  <2>3. UNCHANGED <<enabled, owner, attached>>
    BY <1>4 DEF CommitUpdate
  <2> QED
    BY <1>1, <2>1, <2>2, <2>3 DEF Records!RecordsNext
<1>5. CASE CommitRemove(r)
  <2>1. c \in Companies /\ q.user \in Users /\ member[q.user, c].state # "absent"
    BY <1>0, <1>1, <1>5 DEF CommitRemove, Committing, Recorded
  <2>2. Records!Expel(q.user, c) /\ UNCHANGED <<enabled, owner, attached>>
    BY <1>5, <2>1 DEF CommitRemove, Records!Expel
  <2> QED
    BY <1>2, <2>1, <2>2 DEF Records!RecordsNext
<1>6. CASE CommitAssign(r)
  <2>1. c \in Companies /\ x \in Roles
    BY <1>1, <1>6 DEF CommitAssign, Committing
  <2>2. Records!Enable(c, x) \/ UNCHANGED Records!records
    BY <1>6 DEF CommitAssign, Records!Enable, Records!records
  <2> QED
    BY <2>1, <2>2 DEF Records!RecordsNext
<1>7. CASE CommitAssignNext(r)
  <2>1. c \in Companies /\ x \in Roles
    BY <1>0, <1>1, <1>7 DEF CommitAssignNext, Committing, Request
  <2>2. Records!Enable(c, x) \/ UNCHANGED Records!records
    BY <1>7 DEF CommitAssignNext, Records!Enable, Records!records
  <2> QED
    BY <2>1, <2>2 DEF Records!RecordsNext
<1>8. CASE CommitUnassign(r)
  <2>1. c \in Companies /\ x \in Roles /\ Records!Known(c, x)
    BY <1>0, <1>1, <1>8 DEF CommitUnassign, Committing, Recorded, Records!Known
  <2>2. Records!Disable(c, x) /\ UNCHANGED member
    BY <1>8, <2>1
       DEF CommitUnassign, Withdrawn, Records!Disable, Records!LinksOf
  <2> QED
    BY <2>1, <2>2 DEF Records!RecordsNext
<1>9. CASE CommitReassign(r)
  <2>1. /\ q.op = "reassign" /\ c \in Companies /\ x \in Roles /\ q.other \in Roles
        /\ Records!Known(c, x) /\ Records!Known(c, q.other)
    BY <1>0, <1>1, <1>9 DEF CommitReassign, Committing, Recorded, Records!Known
  <2>2. Records!Disable(c, x)
    BY <1>9, <2>1 DEF CommitReassign, Withdrawn, Records!Disable, Records!LinksOf
  <2>3. Records!Assign(q.links, c, q.other)
    BY <1>0, <1>9, <2>1 DEF CommitReassign, Records!Assign, Recorded
  <2> QED
    BY <1>1, <2>1, <2>2, <2>3 DEF Records!RecordsNext
<1>10. CASE CommitDeleteRole(r)
  <2>1. x \in Roles
    BY <1>1, <1>10 DEF CommitDeleteRole, Committing
  <2>2. /\ Records!Detach({g \in attached : g[2] = x})
        /\ UNCHANGED <<enabled, member, owner>>
    BY <1>10 DEF CommitDeleteRole, Records!Detach
  <2> QED
    BY <2>1, <2>2 DEF Records!RecordsNext
<1>11. CASE CommitNewPermission(r)
  <2>1. c \in Companies /\ p \in Permissions
    BY <1>1, <1>11 DEF CommitNewPermission, Committing
  <2>2. Records!Found(c, p) \/ UNCHANGED Records!records
    BY <1>11 DEF CommitNewPermission, Records!Found, Records!records
  <2> QED
    BY <1>2, <2>1, <2>2 DEF Records!RecordsNext
<1>12. CASE CommitDropPermission(r)
  <2>1. c \in Companies /\ p \in Permissions /\ owner[p] # None
    BY <1>0, <1>1, <1>12, RequestAssumption
       DEF CommitDropPermission, Committing, Recorded
  <2>2. Records!Discard(p)
    BY <1>12, <2>1 DEF CommitDropPermission, Records!Discard
  <2> QED
    BY <1>2, <2>1, <2>2 DEF Records!RecordsNext
<1>13. CASE CommitAttach(r)
  <2>1. c \in Companies /\ x \in Roles /\ p \in Permissions
    BY <1>1, <1>13 DEF CommitAttach, Committing
  <2>2. UNCHANGED <<enabled, member, owner>>
    BY <1>13 DEF CommitAttach
  <2>3. Records!Attach(c, x, p) \/ UNCHANGED attached
    BY <1>13 DEF CommitAttach, ForeignKeys, Records!Attach, Records!Known
  <2> QED
    BY <2>1, <2>2, <2>3 DEF Records!RecordsNext, Records!records
<1>14. CASE CommitDetach(r)
  <2>1. c \in Companies /\ x \in Roles /\ p \in Permissions
    BY <1>1, <1>14 DEF CommitDetach, Committing
  <2>2. Records!Detach({<<c, x, p>>}) /\ UNCHANGED <<enabled, member, owner>>
    BY <1>14 DEF CommitDetach, Records!Detach
  <2> QED
    BY <2>1, <2>2 DEF Records!RecordsNext
<1>15. CASE \/ AssignNext(r) \/ CommitRole(r) \/ CommitRename(r) \/ CommitGrant(r)
            \/ CommitPlatform(r) \/ CommitDeleteCompany(r)
  BY <1>15
     DEF AssignNext, CommitRole, CommitRename, CommitGrant, CommitPlatform,
         CommitDeleteCompany, tables, Records!records
<1> QED
  BY <1>3, <1>4, <1>5, <1>6, <1>7, <1>8, <1>9, <1>10, <1>11, <1>12, <1>13, <1>14,
     <1>15 DEF Commit

LEMMA StepRefines ==
  ASSUME AccessInv, [AccessNext]_vars
  PROVE  [Records!RecordsNext]_(Records!records)
BY CommitRefines, StepMoves DEF vars, tables, CloseAccount, Records!records

\* However requests overlap, what is written to the records of the companies is
\* always one of the moves TenantRecords allows.
THEOREM AccessImplementsRecords == AccessSpec => ImplementsRecords
<1>1. AccessInv /\ [AccessNext]_vars => [Records!RecordsNext]_(Records!records)
  BY StepRefines
<1> QED
  BY <1>1, InitRefines, InitReads, StepReadsInv, PTL
     DEF AccessSpec, ImplementsRecords, Records!RecordsSpec
=============================================================================
