------------------------- MODULE SuperuserBootstrap -------------------------
(***************************************************************************)
(* The offline command that promotes the one initial superuser             *)
(* (userverse-admin bootstrap-superuser), run against the database the     *)
(* service is using: operators race each other for the control row and     *)
(* race the requests of AccountSessions for the user row, which the        *)
(* command reads and writes without locking it.                            *)
(***************************************************************************)
EXTENDS AccountSessions, Sequences

CONSTANTS
  Operators,        \* processes running the command
  NoOperator,       \* nobody holds the control row
  Mailboxes,        \* e-mail addresses without regard to case
  MailboxOf,        \* the mailbox each address of the user table reads as
  PriorSuperusers,  \* superusers that predate the control row
  CommandMayDie     \* whether a command may be killed, or lose its connection

ASSUME OperatorAssumption == NoOperator \notin Operators
ASSUME MailboxAssumption == MailboxOf \in [Users -> Mailboxes]
ASSUME PriorAssumption ==
  PriorSuperusers \subseteq LegacyUsers /\ CommandMayDie \in BOOLEAN

VARIABLES
  superuser,   \* users with is_superuser
  control,     \* the row of superuser_bootstrap_control
  lock,        \* operator whose transaction locked that row
  events,      \* privileged_access_event: the target of each, in order
  step,        \* where each operator is
  attempt      \* what the operator typed, confirmed and loaded

bootVars == <<superuser, control, lock, events, step, attempt>>
allVars == <<vars, bootVars>>

Attempt == [mailbox : Mailboxes \cup {NoOperator},
            confirmed : Users \cup {NoUser},
            target : Users \cup {NoUser}, row : Row]

NoAttempt == [mailbox |-> NoOperator, confirmed |-> NoUser,
              target |-> NoUser, row |-> NoRow]

Steps == {"idle", "asked", "waiting", "locked", "decided"}

BootTypeOK ==
  /\ superuser \subseteq Users
  /\ control \in [present : BOOLEAN, completed : BOOLEAN,
                  user : Users \cup {NoUser}]
  /\ lock \in Operators \cup {NoOperator}
  /\ events \in Seq(Users)
  /\ step \in [Operators -> Steps]
  /\ attempt \in [Operators -> Attempt]

-----------------------------------------------------------------------------

\* Mutant of IsTarget: the status of the account is not looked at.
IsTargetAnyStatus(m, u) ==
  \A v \in Users : (MailboxOf[v] = m /\ IsOpen(v)) <=> (v = u)

\* _get_target: exactly one open user reads as this mailbox, and is Active.
IsTarget(m, u) ==
  /\ \A v \in Users : (MailboxOf[v] = m /\ IsOpen(v)) <=> (v = u)
  /\ account[u].status = "Active"

\* Mutant of Candidate: the address is kept in place of the user's id.
CandidateByMailbox(o, m) ==
  /\ step[o] = "idle"
  /\ \E u \in Users : IsTarget(m, u)
  /\ attempt' = [attempt EXCEPT ![o] =
       [NoAttempt EXCEPT !.mailbox = m, !.confirmed = m]]
  /\ step' = [step EXCEPT ![o] = "asked"]
  /\ UNCHANGED <<vars, superuser, control, lock, events>>

\* get_candidate, in a session of its own.
Candidate(o, m) ==
  /\ step[o] = "idle"
  /\ \E u \in Users :
       /\ IsTarget(m, u)
       /\ attempt' = [attempt EXCEPT ![o] =
            [NoAttempt EXCEPT !.mailbox = m, !.confirmed = u]]
  /\ step' = [step EXCEPT ![o] = "asked"]
  /\ UNCHANGED <<vars, superuser, control, lock, events>>

\* Mutant of Rollback: the connection goes back with its transaction open.
RollbackKeepsLock(o) ==
  /\ step' = [step EXCEPT ![o] = "idle"]
  /\ attempt' = [attempt EXCEPT ![o] = NoAttempt]
  /\ UNCHANGED <<vars, superuser, control, lock, events>>

\* The transaction ends without a commit: refused, declined, or killed.
Rollback(o) ==
  /\ step' = [step EXCEPT ![o] = "idle"]
  /\ attempt' = [attempt EXCEPT ![o] = NoAttempt]
  /\ lock' = IF lock = o THEN NoOperator ELSE lock
  /\ UNCHANGED <<vars, superuser, control, events>>

\* The prompt is declined, or the UUID on the command line differs.
Decline(o) == step[o] = "asked" /\ Rollback(o)

\* Confirmed; bootstrap starts with the reason, which may still be refused.
Confirm(o) ==
  /\ step[o] = "asked"
  /\ step' = [step EXCEPT ![o] = "waiting"]
  /\ UNCHANGED <<vars, superuser, control, lock, events, attempt>>

CommandDies(o) == CommandMayDie /\ step[o] # "idle" /\ Rollback(o)

\* The UPDATE of the control row finds no row, or waits for the row lock.
ControlMissing(o) ==
  /\ step[o] = "waiting"
  /\ ~control.present
  /\ Rollback(o)

LockControl(o) ==
  /\ step[o] = "waiting"
  /\ control.present
  /\ lock = NoOperator
  /\ lock' = o
  /\ step' = [step EXCEPT ![o] = "locked"]
  /\ UNCHANGED <<vars, superuser, control, events, attempt>>

\* Mutant of MayPromote: a superuser whose account is closed is overlooked.
MayPromoteIfNoneOpen(o, u) ==
  /\ u = attempt[o].confirmed
  /\ ~control.completed
  /\ \A v \in superuser : ~IsOpen(v)

\* Mutant of MayPromote: the confirmed user is not compared.
MayPromoteUnconfirmed(o, u) == ~control.completed /\ superuser = {}

\* Mutant of MayPromote: the record of the first bootstrap is not consulted.
MayPromoteAgain(o, u) == u = attempt[o].confirmed /\ superuser = {}

\* The checks under the lock.  A completed bootstrap is either reported again
\* for the same, still privileged user or refused; both only roll back.
MayPromote(o, u) ==
  /\ u = attempt[o].confirmed
  /\ ~control.completed
  /\ superuser = {}

Decide(o) ==
  /\ step[o] = "locked"
  /\ \E u \in Users :
       /\ IsTarget(attempt[o].mailbox, u)
       /\ MayPromote(o, u)
       /\ attempt' = [attempt EXCEPT ![o].target = u, ![o].row = account[u]]
  /\ step' = [step EXCEPT ![o] = "decided"]
  /\ UNCHANGED <<vars, superuser, control, lock, events>>

Refuse(o) ==
  /\ step[o] = "locked"
  /\ ~ \E u \in Users : IsTarget(attempt[o].mailbox, u) /\ MayPromote(o, u)
  /\ Rollback(o)

\* One commit: the metadata column with the next token version, the flag, the
\* control row and the event.  The sessions the promotion is documented to end
\* are noted in ended.
Promote(o) ==
  LET u == attempt[o].target
      mine == attempt[o].row IN
  /\ step[o] = "decided"
  /\ account' = [account EXCEPT ![u] =
                   Flush(@, [mine EXCEPT !.version = @ + 1])]
  /\ superuser' = superuser \cup {u}
  /\ control' = [control EXCEPT !.completed = TRUE, !.user = u]
  /\ events' = Append(events, u)
  /\ ended' = ended \cup SessionsOf(u)
  /\ lock' = NoOperator
  /\ step' = [step EXCEPT ![o] = "idle"]
  /\ attempt' = [attempt EXCEPT ![o] = NoAttempt]
  /\ UNCHANGED <<pc, req, issued, linkSent, verified, mailed, expired, spent,
                 lastPassword, lastSession>>

\* Nothing in the service clears the flag; somebody with database access may.
Demote(u) ==
  /\ u \in superuser
  /\ superuser' = superuser \ {u}
  /\ UNCHANGED <<vars, control, lock, events, step, attempt>>

-----------------------------------------------------------------------------

BootInit ==
  /\ AccountInit
  /\ superuser \in {{}, PriorSuperusers}
  /\ control \in [present : BOOLEAN, completed : {FALSE}, user : {NoUser}]
  /\ lock = NoOperator
  /\ events = << >>
  /\ step = [o \in Operators |-> "idle"]
  /\ attempt = [o \in Operators |-> NoAttempt]

OperatorStep(o) ==
  \/ \E m \in Mailboxes : Candidate(o, m)
  \/ Decline(o) \/ Confirm(o) \/ CommandDies(o)
  \/ ControlMissing(o) \/ LockControl(o)
  \/ Decide(o) \/ Refuse(o) \/ Promote(o)

BootNext ==
  \/ AccountNext /\ UNCHANGED bootVars
  \/ \E o \in Operators : OperatorStep(o)
  \/ \E u \in Users : Demote(u)

BootSpec == BootInit /\ [][BootNext]_allVars

\* A thread that is not killed goes on to the next line of its handler, and the
\* command by itself once it has the lock; the prompt is answered, and the
\* database queues the transactions that wait for a row lock.
FairBootSpec ==
  /\ BootSpec
  /\ \A r \in Requests : WF_allVars(Continue(r) /\ UNCHANGED bootVars)
  /\ \A o \in Operators :
       /\ WF_allVars(Decline(o) \/ Confirm(o) \/ ControlMissing(o))
       /\ WF_allVars(Decide(o) \/ Refuse(o) \/ Promote(o))
       /\ SF_allVars(LockControl(o))

-----------------------------------------------------------------------------

\* However many operators run the command and however it interleaves with the
\* service, there is one event per completed bootstrap and at most one of them,
\* and the control row names the user the event is about.
ControlRecordsPromotion ==
  events = IF control.completed THEN <<control.user>> ELSE << >>

\* Nobody is a superuser except those who were before, or the one user the
\* only event names: never two, and never one of each.
SuperuserAccounted ==
  \/ superuser \subseteq PriorSuperusers
  \/ \E u \in Users : events = <<u>> /\ superuser \subseteq {u}

\* The promoted user followed a verification link at some time, although the
\* status the command reads shares its column with what requests write back.
PromotedWasVerified ==
  RequireVerification => \A i \in DOMAIN events : events[i] \in verified

\* Who becomes superuser is who the operator confirmed, also when the account
\* behind the address was closed and registered again in other letter case
\* between the prompt and the lock.
PromotedAsConfirmed ==
  [][\A u \in superuser' \ superuser :
       \E o \in Operators : step[o] = "decided" /\ attempt[o].confirmed = u]_superuser

\* A command that was confirmed comes to an end: whoever had the control row
\* gives it back, on every way out.
AttemptEnds ==
  \A o \in Operators : step[o] = "waiting" ~> step[o] = "idle"
=============================================================================
