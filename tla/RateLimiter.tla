---------------------------- MODULE RateLimiter ----------------------------
(***************************************************************************)
(* The limits on mails a stranger can cause: three sliding windows that    *)
(* every request for a password reset (or for a verification mail) has to  *)
(* pass in turn.  The threads of the pool share them.  Each window is under*)
(* a lock, but a thread reads the clock before it takes the lock, so hits  *)
(* enter a queue in another order than their times.                        *)
(***************************************************************************)
EXTENDS Integers, Sequences, FiniteSets

CONSTANTS
  Threads,      \* threads that serve requests
  Emails,       \* e-mail addresses without regard to case
  Addresses,    \* IP addresses, "unknown" among them
  NoOwner,      \* the part of a key its window does not look at
  Limit,        \* hits a window lets through: 5 of an address, 20 of an IP,
                \* 5 of a pair
  Window,       \* seconds for which a hit counts
  MaxDelay,     \* bound: seconds a thread waits between clock and lock
  MaxClock,     \* bound: seconds that pass
  MaxHits       \* bound: hits let through in one window since its reset

Limiters == {"email", "ip", "pair"}

ASSUME LimitAssumption == Limit \in [Limiters -> Nat \ {0}]
ASSUME TimeAssumption == Window \in Nat /\ MaxDelay \in Nat /\ MaxClock \in Nat
ASSUME OwnerAssumption == NoOwner \notin Emails \cup Addresses
ASSUME HitsAssumption == MaxHits \in Nat

NotRead == -1

VARIABLES
  clock,    \* time.time()
  events,   \* the queue of each key, oldest entry first
  call,     \* the check each thread is at
  log       \* history: the times of the hits each queue let through

vars == <<clock, events, call, log>>

Key(limiter, e, i) ==
  <<limiter, IF limiter = "ip" THEN NoOwner ELSE e,
             IF limiter = "email" THEN NoOwner ELSE i>>

Keys == {Key(l, e, i) : l \in Limiters, e \in Emails, i \in Addresses}

Call == [at : Limiters \cup {"idle"}, email : Emails \cup {NoOwner},
         ip : Addresses \cup {NoOwner}, now : Nat \cup {NotRead}]

NoCall == [at |-> "idle", email |-> NoOwner, ip |-> NoOwner, now |-> NotRead]

\* No queue is ever longer than its limit.
LimiterTypeOK ==
  /\ clock \in Nat
  /\ events \in [Keys -> Seq(Nat)]
  /\ log \in [Keys -> Seq(Nat)]
  /\ call \in [Threads -> Call]
  /\ \A k \in Keys : Len(events[k]) <= Limit[k[1]]

-----------------------------------------------------------------------------

\* Mutant of Counts: a hit exactly one window old is dropped.
CountsBeforeBoundary(stamp, now) == now - stamp < Window

Counts(stamp, now) == now - stamp <= Window

\* _prune drops from the front as long as the front is too old; what is behind
\* a younger entry stays.
Pruned(q, now) ==
  LET young == {n \in DOMAIN q : Counts(q[n], now)} IN
  IF young = {} THEN <<>>
  ELSE SubSeq(q, CHOOSE n \in young : \A m \in young : n <= m, Len(q))

\* The queue a thread is about to hit, and what it is after the pruning.
KeyOf(t) == Key(call[t].at, call[t].email, call[t].ip)
Queue(t) == Pruned(events[KeyOf(t)], call[t].now)

\* Mutant of HasRoom: the hit is compared with the limit before it is counted.
HasRoomForOneMore(t) == Len(Queue(t)) <= Limit[call[t].at]

HasRoom(t) == Len(Queue(t)) < Limit[call[t].at]

\* check hits the three windows in this order.
After(limiter) == CASE limiter = "email" -> "ip"
                    [] limiter = "ip" -> "pair"
                    [] limiter = "pair" -> "idle"

NextCall(t) == IF call[t].at = "pair" THEN NoCall
               ELSE [call[t] EXCEPT !.at = After(@), !.now = NotRead]

-----------------------------------------------------------------------------

BeginCheck(t, e, i) ==
  /\ call[t].at = "idle"
  /\ call' = [call EXCEPT ![t] =
                [at |-> "email", email |-> e, ip |-> i, now |-> NotRead]]
  /\ UNCHANGED <<clock, events, log>>

\* time.time() in hit, before the lock.
ReadClock(t) ==
  /\ call[t].at # "idle" /\ call[t].now = NotRead
  /\ call' = [call EXCEPT ![t].now = clock]
  /\ UNCHANGED <<clock, events, log>>

\* The rest of hit, under the lock: there is room for the hit ...
LetThrough(t) ==
  LET k == KeyOf(t) IN
  /\ call[t].at # "idle" /\ call[t].now # NotRead
  /\ HasRoom(t)
  /\ Len(log[k]) < MaxHits
  /\ events' = [events EXCEPT ![k] = Append(Queue(t), call[t].now)]
  /\ log' = [log EXCEPT ![k] = Append(@, call[t].now)]
  /\ call' = [call EXCEPT ![t] = NextCall(t)]
  /\ UNCHANGED clock

\* Mutant of Refuse: the refused hit takes the place of the oldest one.
RefuseAndCount(t) ==
  LET k == KeyOf(t) IN
  /\ call[t].at # "idle" /\ call[t].now # NotRead
  /\ ~HasRoom(t)
  /\ events' = [events EXCEPT ![k] = Append(Tail(Queue(t)), call[t].now)]
  /\ call' = [call EXCEPT ![t] = NoCall]
  /\ UNCHANGED <<clock, log>>

\* ... or there is not, and what the check has hit before stays counted.
Refuse(t) ==
  LET k == KeyOf(t) IN
  /\ call[t].at # "idle" /\ call[t].now # NotRead
  /\ ~HasRoom(t)
  /\ events' = [events EXCEPT ![k] = Queue(t)]
  /\ call' = [call EXCEPT ![t] = NoCall]
  /\ UNCHANGED <<clock, log>>

Reset(limiter) ==
  /\ events' = [k \in Keys |-> IF k[1] = limiter THEN <<>> ELSE events[k]]
  /\ log' = [k \in Keys |-> IF k[1] = limiter THEN <<>> ELSE log[k]]
  /\ UNCHANGED <<clock, call>>

\* No thread is held up for longer than MaxDelay on its way to a lock.
Tick ==
  /\ clock < MaxClock
  /\ \A t \in Threads : call[t].now # NotRead => clock - call[t].now < MaxDelay
  /\ clock' = clock + 1
  /\ UNCHANGED <<events, call, log>>

LimiterInit ==
  /\ clock = 0
  /\ events = [k \in Keys |-> <<>>]
  /\ log = [k \in Keys |-> <<>>]
  /\ call = [t \in Threads |-> NoCall]

LimiterNext ==
  \/ Tick
  \/ \E limiter \in Limiters : Reset(limiter)
  \/ \E t \in Threads :
       \/ \E e \in Emails, i \in Addresses : BeginCheck(t, e, i)
       \/ ReadClock(t) \/ LetThrough(t) \/ Refuse(t)

LimiterSpec == LimiterInit /\ [][LimiterNext]_vars

-----------------------------------------------------------------------------

\* At any moment, no more hits than the limit bear a time within the window
\* that ends now: pruning with the clock of one thread never drops a hit that
\* still counts for another, however late a thread gets the lock.
InWindow ==
  \A k \in Keys :
    Cardinality({n \in DOMAIN log[k] : clock - log[k][n] <= Window})
      <= Limit[k[1]]

\* A check is refused for hits that were let through in the last window, give
\* or take the delay of a thread; refused hits keep nobody out.
RefusedForCause ==
  [][\A t \in Threads : Refuse(t) =>
       Cardinality({n \in DOMAIN log[KeyOf(t)] :
         log[KeyOf(t)][n] >= call[t].now - Window - MaxDelay})
           >= Limit[call[t].at]]_vars
=============================================================================
