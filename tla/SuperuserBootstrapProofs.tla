--------------------- MODULE SuperuserBootstrapProofs ---------------------
(***************************************************************************)
(* Theorems about SuperuserBootstrap, for any number of operators racing   *)
(* each other and any number of requests.                                  *)
(***************************************************************************)
EXTENDS SuperuserBootstrap, AccountSessionsProofs

(* Type correctness, of the service and of the command together.           *)

BootTyped == Typed /\ BootTypeOK

LEMMA BootInitTyped == BootInit => BootTyped
<1> SUFFICES ASSUME BootInit PROVE BootTyped
  OBVIOUS
<1>1. Typed
  BY InitTyped DEF BootInit
<1>2. superuser \subseteq Users
  BY UserAssumption, PriorAssumption DEF BootInit
<1>3. attempt \in [Operators -> Attempt]
  BY NoRowType DEF BootInit, NoAttempt, Attempt
<1>4. control \in [present : BOOLEAN, completed : BOOLEAN,
                   user : Users \cup {NoUser}]
  BY DEF BootInit
<1> QED
  BY <1>1, <1>2, <1>3, <1>4 DEF BootTyped, BootTypeOK, BootInit, Steps

LEMMA RollbackTyped ==
  ASSUME BootTyped, NEW o \in Operators, Rollback(o)
  PROVE  BootTyped'
<1>1. NoAttempt \in Attempt
  BY NoRowType DEF NoAttempt, Attempt
<1>2. Typed'
  BY DEF Rollback, BootTyped, Typed, AccountTypeOK, RequestNamed, vars, history
<1> QED
  BY <1>1, <1>2 DEF Rollback, BootTyped, BootTypeOK, Steps

LEMMA PromoteTyped ==
  ASSUME BootTyped, NEW o \in Operators, Promote(o), attempt[o].target \in Users
  PROVE  BootTyped'
<1> DEFINE u == attempt[o].target
           next == [attempt[o].row EXCEPT !.version = @ + 1]
<1>1. attempt[o].row \in Row /\ account[u] \in Row
  BY DEF BootTyped, BootTypeOK, Attempt, Typed, AccountTypeOK
<1>2. next \in Row
  BY <1>1, EditTypes
<1>3. Flush(account[u], next) \in Row
  BY <1>1, <1>2, FlushType
<1>4. account' = [account EXCEPT ![u] = Flush(account[u], next)]
  BY DEF Promote
<1> HIDE DEF next
<1>5. account' \in [Users -> Row]
  BY <1>3, <1>4 DEF BootTyped, Typed, AccountTypeOK
<1>6. ended' \subseteq Nat
  BY DEF Promote, SessionsOf, BootTyped, Typed, AccountTypeOK, TokenPair
<1>7. Typed'
  BY <1>5, <1>6 DEF Promote, BootTyped, Typed, AccountTypeOK, RequestNamed
<1>8. attempt' \in [Operators -> Attempt] /\ step' \in [Operators -> Steps]
  BY NoRowType DEF Promote, BootTyped, BootTypeOK, NoAttempt, Attempt, Steps
<1>9. /\ control' \in [present : BOOLEAN, completed : BOOLEAN,
                       user : Users \cup {NoUser}]
      /\ superuser' \subseteq Users
      /\ lock' \in Operators \cup {NoOperator}
  BY DEF Promote, BootTyped, BootTypeOK
<1>10. events' \in Seq(Users)
  BY DEF Promote, BootTyped, BootTypeOK
<1> QED
  BY <1>7, <1>8, <1>9, <1>10 DEF BootTyped, BootTypeOK

\* The steps of the command before its commit.
LEMMA CommandTyped ==
  ASSUME BootTyped, NEW o \in Operators,
         \/ \E m \in Mailboxes : Candidate(o, m)
         \/ Confirm(o) \/ LockControl(o) \/ Decide(o)
  PROVE  BootTyped'
<1>1. Typed' /\ UNCHANGED <<superuser, control, events>>
  BY DEF Candidate, Confirm, LockControl, Decide, BootTyped, Typed,
         AccountTypeOK, RequestNamed, vars, history
<1>2. /\ step' \in [Operators -> Steps]
      /\ lock' \in Operators \cup {NoOperator}
  BY DEF Candidate, Confirm, LockControl, Decide, BootTyped, BootTypeOK, Steps
<1>3. attempt' \in [Operators -> Attempt]
  <2>1. CASE attempt' = attempt
    BY <2>1 DEF BootTyped, BootTypeOK
  <2>2. ASSUME NEW m \in Mailboxes, Candidate(o, m)
        PROVE  attempt' \in [Operators -> Attempt]
    <3>1. PICK u \in Users : attempt' = [attempt EXCEPT ![o] =
            [NoAttempt EXCEPT !.mailbox = m, !.confirmed = u]]
      BY <2>2 DEF Candidate
    <3>2. [NoAttempt EXCEPT !.mailbox = m, !.confirmed = u] \in Attempt
      BY NoRowType DEF NoAttempt, Attempt
    <3> QED
      BY <3>1, <3>2 DEF BootTyped, BootTypeOK
  <2>3. CASE Decide(o)
    <3>1. PICK u \in Users : attempt' =
            [attempt EXCEPT ![o].target = u, ![o].row = account[u]]
      BY <2>3 DEF Decide
    <3>2. account[u] \in Row
      BY DEF BootTyped, Typed, AccountTypeOK
    <3> QED
      BY <3>1, <3>2, ZenonT(30) DEF BootTyped, BootTypeOK, Attempt
  <2> QED
    BY <2>1, <2>2, <2>3 DEF Confirm, LockControl
<1> QED
  BY <1>1, <1>2, <1>3 DEF BootTyped, BootTypeOK

-----------------------------------------------------------------------------
(* One promotion.  Whoever is past the lock holds the control row, and who *)
(* has decided found no superuser and no completed bootstrap under it; no  *)
(* other operator can change that before the commit.                       *)

Exclusive ==
  \A o \in Operators : step[o] \in {"locked", "decided"} => lock = o

Decided ==
  \A o \in Operators : step[o] = "decided" =>
    /\ ~control.completed
    /\ superuser = {}
    /\ attempt[o].target \in Users
    /\ attempt[o].target = attempt[o].confirmed

BootInv == Exclusive /\ Decided /\ ControlRecordsPromotion /\ SuperuserAccounted

LEMMA RollbackKeeps ==
  ASSUME BootTyped, BootInv, NEW o \in Operators, Rollback(o)
  PROVE  BootInv'
<1>1. Exclusive'
  BY DEF Rollback, BootInv, Exclusive, BootTyped, BootTypeOK
<1>2. Decided'
  BY DEF Rollback, BootInv, Decided, BootTyped, BootTypeOK
<1> QED
  BY <1>1, <1>2
     DEF Rollback, BootInv, ControlRecordsPromotion, SuperuserAccounted

LEMMA PromoteKeeps ==
  ASSUME BootTyped, BootInv, NEW o \in Operators, Promote(o)
  PROVE  BootInv'
<1> DEFINE u == attempt[o].target
<1>1. /\ u \in Users /\ superuser = {} /\ ~control.completed
      /\ lock = o /\ events = << >>
  BY DEF Promote, BootInv, Decided, Exclusive, ControlRecordsPromotion
<1>2. \A q \in Operators : step'[q] \in {"locked", "decided"} => FALSE
  BY <1>1, OperatorAssumption
     DEF Promote, BootInv, Exclusive, BootTyped, BootTypeOK
<1>3. Exclusive' /\ Decided'
  BY <1>2 DEF Exclusive, Decided
<1>4. events' = <<u>> /\ superuser' = {u}
  BY <1>1 DEF Promote
<1>5. control'.completed /\ control'.user = u
  BY DEF Promote, BootTyped, BootTypeOK
<1> QED
  BY <1>1, <1>3, <1>4, <1>5
     DEF BootInv, ControlRecordsPromotion, SuperuserAccounted

LEMMA CommandKeeps ==
  ASSUME BootTyped, BootInv, NEW o \in Operators,
         \/ \E m \in Mailboxes : Candidate(o, m)
         \/ Confirm(o) \/ LockControl(o) \/ Decide(o)
  PROVE  BootInv'
<1>1. Exclusive'
  BY OperatorAssumption DEF Candidate, Confirm, LockControl, Decide, BootInv,
     Exclusive, BootTyped, BootTypeOK
<1>2. Decided'
  <2>1. ASSUME NEW m \in Mailboxes, Candidate(o, m) PROVE Decided'
    BY <2>1 DEF Candidate, BootInv, Decided, BootTyped, BootTypeOK
  <2>2. CASE Confirm(o) \/ LockControl(o)
    BY <2>2 DEF Confirm, LockControl, BootInv, Decided, BootTyped, BootTypeOK
  <2>3. CASE Decide(o)
    <3>1. PICK u \in Users :
            /\ MayPromote(o, u)
            /\ attempt' = [attempt EXCEPT ![o].target = u, ![o].row = account[u]]
      BY <2>3 DEF Decide
    <3>2. /\ attempt'[o].target = u
          /\ attempt'[o].confirmed = attempt[o].confirmed
          /\ \A q \in Operators \ {o} : attempt'[q] = attempt[q]
      BY <3>1 DEF BootTyped, BootTypeOK, Attempt
    <3> QED
      BY <2>3, <3>1, <3>2
         DEF Decide, MayPromote, BootInv, Decided, BootTyped, BootTypeOK
  <2> QED
    BY <2>1, <2>2, <2>3
<1>3. UNCHANGED <<control, events, superuser>>
  BY DEF Candidate, Confirm, LockControl, Decide
<1> QED
  BY <1>1, <1>2, <1>3
     DEF BootInv, ControlRecordsPromotion, SuperuserAccounted

LEMMA DemoteKeeps ==
  ASSUME BootTyped, BootInv, NEW u \in Users, Demote(u)
  PROVE  BootTyped' /\ BootInv'
<1>1. BootTyped'
  BY DEF Demote, BootTyped, BootTypeOK, Typed, AccountTypeOK, RequestNamed,
         vars, history
<1>2. Exclusive' /\ Decided'
  BY DEF Demote, BootInv, Exclusive, Decided
<1>3. ControlRecordsPromotion' /\ SuperuserAccounted'
  BY DEF Demote, BootInv, ControlRecordsPromotion, SuperuserAccounted
<1> QED
  BY <1>1, <1>2, <1>3 DEF BootInv

LEMMA BootNextKeeps ==
  ASSUME BootTyped, BootInv, [BootNext]_allVars
  PROVE  BootTyped' /\ BootInv'
<1>1. CASE [AccountNext]_vars /\ UNCHANGED bootVars
  <2>1. Typed'
    BY <1>1, NextTyped DEF BootTyped
  <2>2. BootTypeOK'
    BY <1>1 DEF BootTyped, BootTypeOK, bootVars
  <2>3. BootInv'
    BY <1>1 DEF bootVars, BootInv, Exclusive, Decided, ControlRecordsPromotion,
       SuperuserAccounted
  <2> QED
    BY <2>1, <2>2, <2>3 DEF BootTyped
<1>2. ASSUME NEW o \in Operators,
             \/ \E m \in Mailboxes : Candidate(o, m)
             \/ Confirm(o) \/ LockControl(o) \/ Decide(o)
      PROVE  BootTyped' /\ BootInv'
  BY <1>2, CommandTyped, CommandKeeps
<1>3. ASSUME NEW o \in Operators,
             Decline(o) \/ CommandDies(o) \/ ControlMissing(o) \/ Refuse(o)
      PROVE  BootTyped' /\ BootInv'
  <2>1. Rollback(o)
    BY <1>3 DEF Decline, CommandDies, ControlMissing, Refuse
  <2> QED
    BY <2>1, RollbackTyped, RollbackKeeps
<1>4. ASSUME NEW o \in Operators, Promote(o)
      PROVE  BootTyped' /\ BootInv'
  <2>1. attempt[o].target \in Users
    BY <1>4 DEF Promote, BootInv, Decided
  <2> QED
    BY <1>4, <2>1, PromoteTyped, PromoteKeeps
<1>5. ASSUME NEW u \in Users, Demote(u)
      PROVE  BootTyped' /\ BootInv'
  BY <1>5, DemoteKeeps
<1> QED
  BY <1>1, <1>2, <1>3, <1>4, <1>5 DEF BootNext, OperatorStep, allVars

LEMMA BootAlways == BootSpec => [](BootTyped /\ BootInv)
<1>1. BootInit => BootInv
  BY DEF BootInit, BootInv, Exclusive, Decided, ControlRecordsPromotion,
         SuperuserAccounted
<1> QED
  BY <1>1, BootInitTyped, BootNextKeeps, PTL DEF BootSpec

\* The variables of the command and of the service keep their types.
THEOREM BootTypeCorrect == BootSpec => []BootTypeOK
<1>1. BootTyped => BootTypeOK
  BY DEF BootTyped
<1> QED
  BY <1>1, BootAlways, PTL

\* However many operators run the command, at most one bootstrap completes, and
\* the audit log and the control row tell the same story about it.
THEOREM OnePromotion == BootSpec => []ControlRecordsPromotion
<1>1. BootInv => ControlRecordsPromotion
  BY DEF BootInv
<1> QED
  BY <1>1, BootAlways, PTL

\* No superuser the audit log does not account for.
THEOREM NoUnauditedSuperuser == BootSpec => []SuperuserAccounted
<1>1. BootInv => SuperuserAccounted
  BY DEF BootInv
<1> QED
  BY <1>1, BootAlways, PTL

\* Only the confirmed account is promoted: the target found again under the
\* lock is compared with it, and neither changes before the commit.
THEOREM ConfirmedOnly == BootSpec => PromotedAsConfirmed
<1>1. ASSUME BootTyped, BootInv, [BootNext]_allVars
      PROVE  [\A u \in superuser' \ superuser : \E o \in Operators :
                step[o] = "decided" /\ attempt[o].confirmed = u]_superuser
  <2>1. ASSUME NEW o \in Operators, Promote(o), NEW u \in superuser' \ superuser
        PROVE  step[o] = "decided" /\ attempt[o].confirmed = u
    <3>1. u = attempt[o].target /\ step[o] = "decided"
      BY <2>1 DEF Promote
    <3> QED
      BY <1>1, <3>1 DEF BootInv, Decided
  <2>2. ASSUME \A o \in Operators : ~Promote(o)
        PROVE  superuser' \subseteq superuser
    BY <1>1, <2>2 DEF BootNext, bootVars, OperatorStep, Candidate, Decline,
       Confirm, CommandDies, ControlMissing, LockControl, Decide, Refuse,
       Rollback, Demote, allVars
  <2>3. CASE \E o \in Operators : Promote(o)
    <3>1. PICK o \in Operators : Promote(o)
      BY <2>3
    <3> QED
      BY <2>1, <3>1
  <2>4. CASE \A o \in Operators : ~Promote(o)
    <3>1. superuser' \ superuser = {}
      BY <2>2, <2>4
    <3> QED
      BY <3>1
  <2> QED
    BY <2>3, <2>4
<1> QED
  BY <1>1, BootAlways, PTL DEF BootSpec, PromotedAsConfirmed

-----------------------------------------------------------------------------
(* The promoted user was verified.  The command is one more writer of the  *)
(* metadata column, so its loaded row joins the copies Attested follows.   *)

DecidedVerified ==
  \A o \in Operators :
    step[o] = "decided" => attempt[o].target \in verified

EventsVerified == \A i \in DOMAIN events : events[i] \in verified

VerifiedInv == Attested /\ DecidedVerified /\ EventsVerified

LEMMA PromoteVerified ==
  ASSUME BootTyped, BootInv, VerifiedInv, NEW o \in Operators, Promote(o)
  PROVE  VerifiedInv'
<1> DEFINE u == attempt[o].target
           next == [attempt[o].row EXCEPT !.version = @ + 1]
<1>1. /\ u \in Users /\ u \in verified
      /\ attempt[o].row \in Row /\ account[u] \in Row
      /\ events = << >>
  BY DEF Promote, BootInv, Decided, ControlRecordsPromotion, VerifiedInv,
         DecidedVerified, BootTyped, BootTypeOK, Attempt, Typed, AccountTypeOK
<1>2. account' = [account EXCEPT ![u] = Flush(account[u], next)]
  BY DEF Promote
<1>3. \A v \in Users : account'[v].status = "Active" => v \in verified'
  <2>1. \A v \in Users \ {u} : account'[v] = account[v]
    BY <1>2 DEF BootTyped, Typed, AccountTypeOK
  <2> QED
    BY <1>1, <2>1 DEF Promote, VerifiedInv, Attested
<1>4. Attested'
  <2>1. UNCHANGED <<pc, req, issued, verified>>
    BY DEF Promote
  <2> QED
    BY <1>3, <2>1 DEF VerifiedInv, Attested, AttestedRequest
<1>5. DecidedVerified'
  <2>1. UNCHANGED verified /\ step' = [step EXCEPT ![o] = "idle"]
        /\ attempt' = [attempt EXCEPT ![o] = NoAttempt]
    BY DEF Promote
  <2> QED
    BY <2>1 DEF VerifiedInv, DecidedVerified, BootTyped, BootTypeOK
<1>6. EventsVerified'
  <2>1. events' = <<u>> /\ UNCHANGED verified
    BY <1>1 DEF Promote
  <2> QED
    BY <1>1, <2>1 DEF EventsVerified
<1> QED
  BY <1>4, <1>5, <1>6 DEF VerifiedInv

\* The steps of the command that leave the service's variables alone.
LEMMA CommandVerified ==
  ASSUME BootTyped, BootInv, VerifiedInv, NEW o \in Operators,
         \/ \E m \in Mailboxes : Candidate(o, m)
         \/ Confirm(o) \/ LockControl(o) \/ Decide(o) \/ Rollback(o)
  PROVE  VerifiedInv'
<1>1. UNCHANGED <<vars, events>>
  BY DEF Candidate, Confirm, LockControl, Decide, Rollback
<1>2. Attested' /\ EventsVerified'
  BY <1>1 DEF vars, history, VerifiedInv, Attested, AttestedRequest,
              EventsVerified
<1>3. UNCHANGED verified
  BY <1>1 DEF vars, history
<1>4. CASE Decide(o)
  <2>1. PICK u \in Users :
          /\ account[u].status = "Active"
          /\ attempt' = [attempt EXCEPT ![o].target = u, ![o].row = account[u]]
    BY <1>4 DEF Decide, IsTarget
  <2>2. attempt'[o].target = u
    BY <2>1 DEF BootTyped, BootTypeOK, Attempt
  <2>3. u \in verified
    BY <2>1 DEF VerifiedInv, Attested
  <2>4. \A q \in Operators \ {o} : attempt'[q] = attempt[q] /\ step'[q] = step[q]
    BY <1>4, <2>1 DEF Decide, BootTyped, BootTypeOK
  <2>5. DecidedVerified'
    BY <1>3, <2>2, <2>3, <2>4 DEF VerifiedInv, DecidedVerified
  <2> QED
    BY <1>2, <2>5 DEF VerifiedInv
<1>5. CASE ~Decide(o)
  <2>1. \A q \in Operators : step'[q] = "decided" =>
          step[q] = "decided" /\ attempt'[q] = attempt[q]
    BY <1>5 DEF Candidate, Confirm, LockControl, Rollback, BootTyped,
                BootTypeOK
  <2> QED
    BY <1>2, <1>3, <2>1 DEF VerifiedInv, DecidedVerified
<1> QED
  BY <1>4, <1>5

LEMMA ServiceVerified ==
  ASSUME RequireVerification, BootTyped, VerifiedInv,
         [AccountNext]_vars, UNCHANGED bootVars
  PROVE  VerifiedInv'
<1>1. Attested'
  BY StepStatus, StepRequests, StepIssued
     DEF BootTyped, VerifiedInv, Attested
<1>2. DecidedVerified' /\ EventsVerified'
  BY VerifiedGrows DEF bootVars, VerifiedInv, DecidedVerified, EventsVerified
<1> QED
  BY <1>1, <1>2 DEF VerifiedInv

LEMMA BootNextVerified ==
  ASSUME RequireVerification, BootTyped, BootInv, VerifiedInv,
         [BootNext]_allVars
  PROVE  VerifiedInv'
<1>1. CASE [AccountNext]_vars /\ UNCHANGED bootVars
  BY <1>1, ServiceVerified
<1>2. ASSUME NEW o \in Operators, OperatorStep(o)
      PROVE  VerifiedInv'
  BY <1>2, CommandVerified, PromoteVerified
     DEF OperatorStep, Decline, CommandDies, ControlMissing, Refuse
<1>3. ASSUME NEW u \in Users, Demote(u)
      PROVE  VerifiedInv'
  BY <1>3 DEF Demote, vars, history, VerifiedInv, Attested, AttestedRequest,
              DecidedVerified, EventsVerified
<1> QED
  BY <1>1, <1>2, <1>3 DEF BootNext, allVars

\* With verification required, no interleaving of the command with requests
\* promotes a user whose verification link was never followed.
THEOREM PromotedVerified == BootSpec => []PromotedWasVerified
<1>1. CASE ~RequireVerification
  <2>1. PromotedWasVerified
    BY <1>1 DEF PromotedWasVerified
  <2> QED
    BY <2>1, PTL
<1>2. CASE RequireVerification
  <2>1. BootInit => VerifiedInv
    BY DEF BootInit, AccountInit, VerifiedInv, Attested, AttestedRequest,
           NoRequest, NoRow, DecidedVerified, EventsVerified
  <2>2. BootTyped /\ BootInv /\ VerifiedInv /\ [BootNext]_allVars
          => VerifiedInv'
    BY <1>2, BootNextVerified
  <2>3. BootSpec => []VerifiedInv
    BY <2>1, <2>2, BootAlways, PTL DEF BootSpec
  <2>4. VerifiedInv => PromotedWasVerified
    BY DEF VerifiedInv, EventsVerified, PromotedWasVerified
  <2> QED
    BY <2>3, <2>4, PTL
<1> QED
  BY <1>1, <1>2
=============================================================================
