------------------------- MODULE RateLimiterProofs -------------------------
(***************************************************************************)
(* Theorems about RateLimiter, for any threads, keys, limits and times.    *)
(* A queue is what is left of the log of its key when everything up to some*)
(* position, all of it older than the window, is taken away.               *)
(***************************************************************************)
EXTENDS RateLimiter, FiniteSetTheorems, TLAPS

-----------------------------------------------------------------------------

\* By the intervals below the members, the smallest of which has no other one
\* inside it.
LEMMA LeastMember ==
  ASSUME NEW S \in SUBSET Nat, S # {}
  PROVE  \E n \in S : \A m \in S : n <= m
<1> DEFINE below == {1 .. n : n \in S}
<1>1. IsWellFoundedOn(StrictSubsetOrdering(Nat), FiniteSubsetsOf(Nat))
  BY FS_StrictSubsetOrderingWellFounded
<1>2. below \subseteq FiniteSubsetsOf(Nat) /\ below # {}
  <2>1. ASSUME NEW n \in S PROVE 1 .. n \in SUBSET Nat /\ IsFiniteSet(1 .. n)
    <3>1. n \in Int /\ 1 \in Int /\ 1 .. n \subseteq Nat
      OBVIOUS
    <3> QED
      BY <3>1, FS_Interval
  <2>2. \A x \in below : x \in FiniteSubsetsOf(Nat)
    BY <2>1, Zenon DEF FiniteSubsetsOf
  <2> QED
    BY <2>2
<1>3. \E x \in below : \A y \in below : ~(<<y, x>> \in StrictSubsetOrdering(Nat))
  <2> HIDE DEF below
  <2> QED
    BY <1>1, <1>2, WFMin
<1>4. PICK n \in S :
        \A m \in S : ~(<<1 .. m, 1 .. n>> \in StrictSubsetOrdering(Nat))
  BY <1>3
<1>5. ASSUME NEW m \in S, m < n
      PROVE  <<1 .. m, 1 .. n>> \in StrictSubsetOrdering(Nat)
  <2>1. 1 .. m \subseteq 1 .. n /\ 1 .. n \subseteq Nat
    BY <1>5
  <2>2. n \in 1 .. n /\ n \notin 1 .. m
    BY <1>5
  <2> QED
    BY <2>1, <2>2 DEF StrictSubsetOrdering
<1>6. \A m \in S : ~(m < n)
  BY <1>4, <1>5
<1>7. n \in Nat /\ \A m \in S : m \in Nat
  OBVIOUS
<1>8. \A m \in S : n <= m
  BY <1>6, <1>7
<1> QED
  BY <1>8

(* What _prune leaves of a queue.                                          *)

\* The first d entries are gone, all of them too old, and the next one counts.
PrunedUpTo(q, now, d) ==
  /\ Pruned(q, now) \in Seq(Nat)
  /\ Len(Pruned(q, now)) = Len(q) - d
  /\ \A n \in 1 .. Len(q) - d : Pruned(q, now)[n] = q[d + n]
  /\ \A n \in 1 .. d : q[n] < now - Window
  /\ d < Len(q) => q[d + 1] >= now - Window

LEMMA PrunedSuffix ==
  ASSUME NEW q \in Seq(Nat), NEW now \in Nat
  PROVE  \E d \in 0 .. Len(q) : PrunedUpTo(q, now, d)
<1> DEFINE young == {n \in DOMAIN q : Counts(q[n], now)}
<1> USE TimeAssumption
<1>1. DOMAIN q = 1 .. Len(q) /\ Len(q) \in Nat
  OBVIOUS
<1>2. \A n \in 1 .. Len(q) : q[n] \in Nat
  OBVIOUS
<1>3. CASE young = {}
  <2>1. Pruned(q, now) = <<>>
    BY <1>3 DEF Pruned
  <2>2. \A n \in 1 .. Len(q) : q[n] < now - Window
    BY <1>1, <1>2, <1>3 DEF Counts
  <2>3. PrunedUpTo(q, now, Len(q))
    BY <1>1, <2>1, <2>2 DEF PrunedUpTo
  <2> QED
    BY <1>1, <2>3
<1>4. CASE young # {}
  <2>1. young \in SUBSET Nat
    BY <1>1
  <2>2. \E n \in young : \A m \in young : n <= m
    BY <1>4, <2>1, LeastMember
  <2> DEFINE first == CHOOSE n \in young : \A m \in young : n <= m
  <2>3. first \in young /\ \A m \in young : first <= m
    BY <2>2
  <2>4. Pruned(q, now) = SubSeq(q, first, Len(q))
    BY <1>4 DEF Pruned
  <2> HIDE DEF first
  <2>5. first \in 1 .. Len(q) /\ q[first] >= now - Window
    BY <1>1, <1>2, <2>3 DEF Counts
  <2>6. \A n \in 1 .. first - 1 : q[n] < now - Window
    <3> SUFFICES ASSUME NEW n \in 1 .. first - 1, ~(q[n] < now - Window)
                 PROVE  FALSE
      OBVIOUS
    <3>1. n \in 1 .. Len(q) /\ n < first
      BY <1>1, <2>5
    <3>2. q[n] \in Nat
      BY <1>2, <3>1
    <3>3. n \in young
      BY <1>1, <3>1, <3>2 DEF Counts
    <3> QED
      BY <1>1, <2>3, <2>5, <3>1, <3>3
  <2>7. /\ SubSeq(q, first, Len(q)) \in Seq(Nat)
        /\ Len(SubSeq(q, first, Len(q))) = Len(q) - (first - 1)
        /\ \A n \in 1 .. Len(q) - (first - 1) :
             SubSeq(q, first, Len(q))[n] = q[(first - 1) + n]
    BY <1>1, <2>5
  <2>8. PrunedUpTo(q, now, first - 1)
    BY <2>4, <2>5, <2>6, <2>7 DEF PrunedUpTo
  <2> QED
    BY <1>1, <2>5, <2>8
<1> QED
  BY <1>3, <1>4

-----------------------------------------------------------------------------
(* The types of the variables.                                             *)

\* A check past its first step has an e-mail address and an IP address.
CallNamed ==
  \A t \in Threads : call[t].at # "idle" =>
    call[t].email \in Emails /\ call[t].ip \in Addresses

LimiterTyped == LimiterTypeOK /\ CallNamed

LEMMA KeyType ==
  ASSUME LimiterTyped, NEW t \in Threads, call[t].at # "idle"
  PROVE  KeyOf(t) \in Keys /\ KeyOf(t)[1] = call[t].at
<1>1. call[t] \in Call
  BY DEF LimiterTyped, LimiterTypeOK
<1>2. call[t].at \in Limiters
  BY <1>1 DEF Call
<1> QED
  BY <1>2 DEF LimiterTyped, CallNamed, KeyOf, Keys, Key

\* A limiter whose turn it is with the clock read, as the commits find it.
LEMMA QueueType ==
  ASSUME LimiterTyped, NEW t \in Threads, call[t].at # "idle",
         call[t].now # NotRead
  PROVE  /\ call[t].now \in Nat
         /\ call[t].at \in Limiters
         /\ KeyOf(t) \in Keys /\ KeyOf(t)[1] = call[t].at
         /\ events[KeyOf(t)] \in Seq(Nat) /\ log[KeyOf(t)] \in Seq(Nat)
         /\ Queue(t) \in Seq(Nat)
         /\ Len(Queue(t)) <= Len(events[KeyOf(t)])
         /\ \E d \in 0 .. Len(events[KeyOf(t)]) :
              PrunedUpTo(events[KeyOf(t)], call[t].now, d)
<1>1. call[t] \in Call
  BY DEF LimiterTyped, LimiterTypeOK
<1>2. call[t].now \in Nat /\ call[t].at \in Limiters
  BY <1>1 DEF Call
<1>3. KeyOf(t) \in Keys /\ KeyOf(t)[1] = call[t].at
  BY KeyType
<1>4. events[KeyOf(t)] \in Seq(Nat) /\ log[KeyOf(t)] \in Seq(Nat)
  BY <1>3 DEF LimiterTyped, LimiterTypeOK
<1>5. PICK d \in 0 .. Len(events[KeyOf(t)]) :
        PrunedUpTo(events[KeyOf(t)], call[t].now, d)
  BY <1>2, <1>4, PrunedSuffix
<1>6. Queue(t) \in Seq(Nat) /\ Len(Queue(t)) <= Len(events[KeyOf(t)])
  BY <1>4, <1>5 DEF PrunedUpTo, Queue
<1> QED
  BY <1>2, <1>3, <1>4, <1>5, <1>6

LEMMA LimiterInitTyped == LimiterInit => LimiterTyped
<1> SUFFICES ASSUME LimiterInit PROVE LimiterTyped
  OBVIOUS
<1>1. \A k \in Keys : k[1] \in Limiters
  BY DEF Keys, Key
<1>2. NoCall \in Call
  BY DEF NoCall, Call
<1>3. \A k \in Keys : Len(events[k]) <= Limit[k[1]]
  BY <1>1, LimitAssumption DEF LimiterInit
<1> QED
  BY <1>2, <1>3 DEF LimiterInit, LimiterTyped, LimiterTypeOK, CallNamed, NoCall

LEMMA LimiterStepTyped == LimiterTyped /\ [LimiterNext]_vars => LimiterTyped'
<1> SUFFICES ASSUME LimiterTyped, [LimiterNext]_vars PROVE LimiterTyped'
  OBVIOUS
<1>1. /\ clock \in Nat
      /\ events \in [Keys -> Seq(Nat)] /\ log \in [Keys -> Seq(Nat)]
      /\ call \in [Threads -> Call]
      /\ \A k \in Keys : Len(events[k]) <= Limit[k[1]]
  BY DEF LimiterTyped, LimiterTypeOK
<1>2. NoCall \in Call
  BY DEF NoCall, Call
<1>3. \A k \in Keys : k[1] \in Limiters
  BY DEF Keys, Key
<1>4. CASE Tick
  BY <1>1, <1>4 DEF Tick, LimiterTyped, LimiterTypeOK, CallNamed
<1>5. ASSUME NEW limiter \in Limiters, Reset(limiter) PROVE LimiterTyped'
  <2>1. \A k \in Keys : Len(events'[k]) <= Limit[k[1]]
    BY <1>1, <1>3, <1>5, LimitAssumption DEF Reset
  <2>2. events' \in [Keys -> Seq(Nat)] /\ log' \in [Keys -> Seq(Nat)]
    BY <1>1, <1>5 DEF Reset
  <2> QED
    BY <1>1, <1>5, <2>1, <2>2
    DEF Reset, LimiterTyped, LimiterTypeOK, CallNamed
<1>6. ASSUME NEW t \in Threads, NEW e \in Emails, NEW i \in Addresses,
             BeginCheck(t, e, i)
      PROVE  LimiterTyped'
  <2>1. [at |-> "email", email |-> e, ip |-> i, now |-> NotRead] \in Call
    BY DEF Call, Limiters
  <2> QED
    BY <1>1, <1>6, <2>1
    DEF BeginCheck, LimiterTyped, LimiterTypeOK, CallNamed
<1>7. ASSUME NEW t \in Threads, ReadClock(t) PROVE LimiterTyped'
  <2>1. call' \in [Threads -> Call]
    BY <1>1, <1>7, ZenonT(30) DEF ReadClock, Call
  <2> QED
    BY <1>1, <1>7, <2>1
    DEF ReadClock, LimiterTyped, LimiterTypeOK, CallNamed, Call
<1>8. ASSUME NEW t \in Threads, LetThrough(t) PROVE LimiterTyped'
  <2> DEFINE k == KeyOf(t)
  <2>1. /\ call[t].at # "idle" /\ call[t].now # NotRead
        /\ HasRoom(t)
        /\ events' = [events EXCEPT ![k] = Append(Queue(t), call[t].now)]
        /\ log' = [log EXCEPT ![k] = Append(log[k], call[t].now)]
        /\ clock' = clock
    BY <1>8 DEF LetThrough
  <2>2. /\ call[t].now \in Nat /\ call[t].at \in Limiters
        /\ k \in Keys /\ k[1] = call[t].at
        /\ log[k] \in Seq(Nat) /\ Queue(t) \in Seq(Nat)
    BY <2>1, QueueType
  <2> HIDE DEF k
  <2>3. events' \in [Keys -> Seq(Nat)] /\ log' \in [Keys -> Seq(Nat)]
    BY <1>1, <2>1, <2>2
  <2>4. Len(Append(Queue(t), call[t].now)) <= Limit[k[1]]
    BY <2>1, <2>2, LimitAssumption DEF HasRoom
  <2>5. \A j \in Keys : Len(events'[j]) <= Limit[j[1]]
    BY <1>1, <2>1, <2>2, <2>4
  <2>6. After(call[t].at) \in Limiters \cup {"idle"}
    BY <2>2 DEF After, Limiters
  <2>7. /\ NextCall(t) \in Call
        /\ NextCall(t).at # "idle" =>
             NextCall(t).email \in Emails /\ NextCall(t).ip \in Addresses
    <3>1. /\ call[t] \in Call
          /\ call[t].email \in Emails /\ call[t].ip \in Addresses
      BY <1>1, <2>1 DEF LimiterTyped, CallNamed
    <3>2. CASE call[t].at = "pair"
      BY <1>2, <3>2 DEF NextCall, NoCall
    <3>3. CASE call[t].at # "pair"
      BY <2>6, <3>1, <3>3 DEF NextCall, Call
    <3> QED
      BY <3>2, <3>3
  <2>8. call' = [call EXCEPT ![t] = NextCall(t)]
    BY <1>8 DEF LetThrough
  <2> QED
    BY <1>1, <2>1, <2>3, <2>5, <2>7, <2>8
    DEF LimiterTyped, LimiterTypeOK, CallNamed
<1>9. ASSUME NEW t \in Threads, Refuse(t) PROVE LimiterTyped'
  <2> DEFINE k == KeyOf(t)
  <2>1. /\ call[t].at # "idle" /\ call[t].now # NotRead
        /\ events' = [events EXCEPT ![k] = Queue(t)]
        /\ call' = [call EXCEPT ![t] = NoCall]
        /\ log' = log /\ clock' = clock
    BY <1>9 DEF Refuse
  <2>2. /\ k \in Keys /\ Queue(t) \in Seq(Nat)
        /\ Len(Queue(t)) <= Len(events[k]) /\ events[k] \in Seq(Nat)
    BY <2>1, QueueType
  <2> HIDE DEF k
  <2>3. events' \in [Keys -> Seq(Nat)]
    BY <1>1, <2>1, <2>2
  <2>4. Limit[k[1]] \in Nat
    BY <1>3, <2>2, LimitAssumption
  <2>5. \A j \in Keys : Len(events'[j]) <= Limit[j[1]]
    BY <1>1, <2>1, <2>2, <2>4
  <2> QED
    BY <1>1, <1>2, <2>1, <2>3, <2>5
    DEF LimiterTyped, LimiterTypeOK, CallNamed, NoCall
<1>10. CASE UNCHANGED vars
  BY <1>1, <1>10 DEF vars, LimiterTyped, LimiterTypeOK, CallNamed
<1> QED
  BY <1>4, <1>5, <1>6, <1>7, <1>8, <1>9, <1>10 DEF LimiterNext

\* The variables keep their types, and no queue outgrows its limit.
THEOREM LimiterTypeCorrect == LimiterSpec => []LimiterTypeOK
<1>1. LimiterTyped => LimiterTypeOK
  BY DEF LimiterTyped
<1> QED
  BY <1>1, LimiterInitTyped, LimiterStepTyped, PTL DEF LimiterSpec

-----------------------------------------------------------------------------
(* The queue and the log.                                                  *)

\* A clock was read before now, and not longer ago than the delay.
ReadBefore ==
  \A t \in Threads : call[t].now # NotRead =>
    call[t].now <= clock /\ clock - call[t].now <= MaxDelay

\* So were the times in the logs when they were written: a later entry bears a
\* time that is not earlier than that of another by more than the delay.
LoggedBefore ==
  \A k \in Keys :
    /\ \A n \in 1 .. Len(log[k]) : log[k][n] <= clock
    /\ \A m, n \in 1 .. Len(log[k]) : m < n => log[k][m] <= log[k][n] + MaxDelay

\* The queue q is the log of k without its first n entries, all too old.
LeftOf(q, k, n) ==
  /\ Len(q) = Len(log[k]) - n
  /\ \A j \in 1 .. Len(q) : q[j] = log[k][n + j]
  /\ \A j \in 1 .. n : log[k][j] < clock - Window

QueuesLeft ==
  \A k \in Keys : \E n \in 0 .. Len(log[k]) : LeftOf(events[k], k, n)

WindowInv == LimiterTyped /\ ReadBefore /\ LoggedBefore /\ QueuesLeft

LEMMA QueueLeft ==
  ASSUME WindowInv, NEW t \in Threads, call[t].at # "idle",
         call[t].now # NotRead
  PROVE  \E n \in 0 .. Len(log[KeyOf(t)]) :
           /\ LeftOf(Queue(t), KeyOf(t), n)
           /\ n < Len(log[KeyOf(t)]) =>
                log[KeyOf(t)][n + 1] >= call[t].now - Window
<1> DEFINE k == KeyOf(t)
           q == events[k]
           now == call[t].now
<1>1. /\ now \in Nat /\ k \in Keys
      /\ q \in Seq(Nat) /\ log[k] \in Seq(Nat)
  BY QueueType DEF WindowInv
<1>2. PICK d \in 0 .. Len(q) : PrunedUpTo(q, now, d)
  BY QueueType DEF WindowInv
<1>3. PICK n \in 0 .. Len(log[k]) : LeftOf(q, k, n)
  BY <1>1 DEF WindowInv, QueuesLeft
<1>4. now <= clock /\ clock \in Nat
  BY DEF WindowInv, ReadBefore, LimiterTyped, LimiterTypeOK
<1>5. Queue(t) = Pruned(q, now)
  BY DEF Queue
<1> HIDE DEF k, q, now
<1>6. n + d \in 0 .. Len(log[k]) /\ Len(q) = Len(log[k]) - n
  BY <1>1, <1>2, <1>3 DEF LeftOf
<1>7. /\ Len(q) \in Nat /\ Len(log[k]) \in Nat /\ n \in Nat /\ d \in Nat
       /\ d <= Len(q)
  BY <1>1, <1>2, <1>3
<1>8. \A j \in 1 .. n + d : log[k][j] < clock - Window
  <2> SUFFICES ASSUME NEW j \in 1 .. n + d PROVE log[k][j] < clock - Window
    OBVIOUS
  <2>1. CASE j <= n
    BY <1>3, <1>6, <2>1 DEF LeftOf
  <2>2. CASE j > n
    <3>1. j - n \in 1 .. d /\ j - n \in 1 .. Len(q) /\ n + (j - n) = j
      BY <1>2, <1>3, <1>6, <2>2
    <3>2. q[j - n] < now - Window /\ q[j - n] = log[k][j]
      BY <1>2, <1>3, <3>1 DEF PrunedUpTo, LeftOf
    <3>3. log[k][j] \in Nat
      BY <1>1, <1>6, SMTT(30)
    <3> QED
      BY <1>1, <1>4, <3>2, <3>3, TimeAssumption
  <2> QED
    BY <1>6, <2>1, <2>2
<1>9. \A j \in 1 .. Len(Queue(t)) : Queue(t)[j] = log[k][(n + d) + j]
  <2> SUFFICES ASSUME NEW j \in 1 .. Len(Queue(t))
               PROVE  Queue(t)[j] = log[k][(n + d) + j]
    OBVIOUS
  <2>1. Queue(t)[j] = q[d + j] /\ d + j \in 1 .. Len(q)
    <3>1. Len(Queue(t)) = Len(q) - d
      BY <1>2, <1>5 DEF PrunedUpTo
    <3>2. j \in 1 .. Len(q) - d /\ d + j \in 1 .. Len(q)
      BY <1>7, <3>1
    <3> QED
      BY <1>2, <1>5, <3>2 DEF PrunedUpTo
  <2>2. q[d + j] = log[k][n + (d + j)]
    BY <1>3, <2>1 DEF LeftOf
  <2> QED
    BY <1>2, <1>3, <2>1, <2>2
<1>10. Len(Queue(t)) = Len(log[k]) - (n + d)
  BY <1>1, <1>2, <1>5, <1>6 DEF PrunedUpTo
<1>11. n + d < Len(log[k]) => log[k][(n + d) + 1] >= now - Window
  <2> SUFFICES ASSUME n + d < Len(log[k])
               PROVE  log[k][(n + d) + 1] >= now - Window
    OBVIOUS
  <2>1. d < Len(q) /\ d + 1 \in 1 .. Len(q)
    BY <1>6, <1>7
  <2>2. q[d + 1] >= now - Window /\ q[d + 1] = log[k][n + (d + 1)]
    BY <1>2, <1>3, <2>1 DEF PrunedUpTo, LeftOf
  <2> QED
    BY <1>2, <1>3, <2>2
<1> QED
  BY <1>6, <1>8, <1>9, <1>10, <1>11 DEF LeftOf, k, now

LEMMA WindowInit == LimiterInit => WindowInv
<1> SUFFICES ASSUME LimiterInit PROVE WindowInv
  OBVIOUS
<1>1. LimiterTyped
  BY LimiterInitTyped
<1>2. ReadBefore
  BY DEF LimiterInit, ReadBefore, NoCall
<1>3. \A k \in Keys : log[k] = <<>> /\ events[k] = <<>>
  BY DEF LimiterInit
<1>4. LoggedBefore
  BY <1>3 DEF LoggedBefore
<1>5. \A k \in Keys : 0 \in 0 .. Len(log[k]) /\ LeftOf(events[k], k, 0)
  BY <1>3 DEF LeftOf
<1> QED
  BY <1>1, <1>2, <1>4, <1>5 DEF WindowInv, QueuesLeft

LEMMA TickWindow ==
  ASSUME WindowInv, LimiterTyped', Tick
  PROVE  WindowInv'
<1>1. /\ clock \in Nat /\ clock' = clock + 1
      /\ events' = events /\ log' = log /\ call' = call
      /\ log \in [Keys -> Seq(Nat)] /\ call \in [Threads -> Call]
  BY DEF Tick, WindowInv, LimiterTyped, LimiterTypeOK
<1>2. \A t \in Threads : call[t].now \in Nat \cup {NotRead}
  BY <1>1 DEF Call
<1>3. ReadBefore'
  BY <1>1, <1>2, TimeAssumption DEF Tick, WindowInv, ReadBefore, NotRead
<1>4. \A k \in Keys : \A n \in 1 .. Len(log[k]) : log[k][n] \in Nat
  BY <1>1
<1>5. LoggedBefore'
  BY <1>1, <1>4 DEF WindowInv, LoggedBefore
<1>6. ASSUME NEW k \in Keys, NEW n \in 0 .. Len(log[k]), LeftOf(events[k], k, n)
      PROVE  LeftOf(events[k], k, n)'
  <2>1. \A j \in 1 .. n : log[k][j] \in Nat /\ log[k][j] < clock - Window
    BY <1>1, <1>6 DEF LeftOf
  <2>2. \A j \in 1 .. n : log'[k][j] < clock' - Window
    BY <1>1, <2>1, TimeAssumption
  <2>3. /\ Len(events'[k]) = Len(log'[k]) - n
        /\ \A j \in 1 .. Len(events'[k]) : events'[k][j] = log'[k][n + j]
    BY <1>1, <1>6 DEF LeftOf
  <2> QED
    BY <2>2, <2>3 DEF LeftOf
<1>7. QueuesLeft'
  BY <1>1, <1>6 DEF WindowInv, QueuesLeft
<1> QED
  BY <1>3, <1>5, <1>7 DEF WindowInv

LEMMA ResetWindow ==
  ASSUME WindowInv, LimiterTyped', NEW limiter \in Limiters, Reset(limiter)
  PROVE  WindowInv'
<1>1. clock' = clock /\ call' = call
  BY DEF Reset
<1>2. ReadBefore'
  BY <1>1 DEF WindowInv, ReadBefore
<1>3. ASSUME NEW k \in Keys
      PROVE  \/ log'[k] = log[k] /\ events'[k] = events[k]
             \/ log'[k] = <<>> /\ events'[k] = <<>>
  BY DEF Reset
<1>4. LoggedBefore'
  BY <1>1, <1>3 DEF WindowInv, LoggedBefore
<1>5. ASSUME NEW k \in Keys
      PROVE  \E n \in 0 .. Len(log'[k]) : LeftOf(events[k], k, n)'
  <2>1. CASE log'[k] = log[k] /\ events'[k] = events[k]
    BY <1>1, <2>1 DEF WindowInv, QueuesLeft, LeftOf
  <2>2. CASE log'[k] = <<>> /\ events'[k] = <<>>
    <3>1. 0 \in 0 .. Len(log'[k]) /\ LeftOf(events[k], k, 0)'
      BY <2>2 DEF LeftOf
    <3> QED
      BY <3>1
  <2> QED
    BY <1>3, <2>1, <2>2
<1> QED
  BY <1>2, <1>4, <1>5 DEF WindowInv, QueuesLeft

LEMMA LetThroughWindow ==
  ASSUME WindowInv, LimiterTyped', NEW t \in Threads, LetThrough(t)
  PROVE  WindowInv'
<1> PICK k, now : k = KeyOf(t) /\ now = call[t].now
  OBVIOUS
<1>1. /\ call[t].at # "idle" /\ now # NotRead
      /\ events' = [events EXCEPT ![k] = Append(Queue(t), now)]
      /\ log' = [log EXCEPT ![k] = Append(log[k], now)]
      /\ call' = [call EXCEPT ![t] = NextCall(t)]
      /\ clock' = clock
  BY DEF LetThrough
<1>2. /\ now \in Nat /\ k \in Keys /\ call[t].at \in Limiters
      /\ log[k] \in Seq(Nat) /\ Queue(t) \in Seq(Nat)
  BY <1>1, QueueType DEF WindowInv
<1>3. /\ clock \in Nat /\ call \in [Threads -> Call]
      /\ events \in [Keys -> Seq(Nat)] /\ log \in [Keys -> Seq(Nat)]
  BY DEF WindowInv, LimiterTyped, LimiterTypeOK
<1>4. PICK n \in 0 .. Len(log[k]) : LeftOf(Queue(t), k, n)
  BY <1>1, QueueLeft
<1>5. now <= clock /\ clock - now <= MaxDelay
  BY <1>1 DEF WindowInv, ReadBefore
<1>6. ReadBefore'
  <2>1. NextCall(t).now = NotRead
    BY <1>2, <1>3 DEF NextCall, NoCall, Call
  <2> QED
    BY <1>1, <1>3, <2>1 DEF WindowInv, ReadBefore
<1>7. /\ log'[k] = Append(log[k], now) /\ events'[k] = Append(Queue(t), now)
      /\ \A j \in Keys : j # k => log'[j] = log[j] /\ events'[j] = events[j]
  BY <1>1, <1>2, <1>3
<1>8. /\ Len(log'[k]) = Len(log[k]) + 1
      /\ log'[k][Len(log[k]) + 1] = now
      /\ \A j \in 1 .. Len(log[k]) : log'[k][j] = log[k][j] /\ log[k][j] \in Nat
  BY <1>2, <1>7, SMTT(30)
<1>9. LoggedBefore'
  <2>1. \A j \in 1 .. Len(log[k]) : log[k][j] <= clock
    BY <1>2 DEF WindowInv, LoggedBefore
  <2>2. \A j \in 1 .. Len(log'[k]) : log'[k][j] <= clock
    <3> SUFFICES ASSUME NEW j \in 1 .. Len(log'[k])
                 PROVE  log'[k][j] <= clock
      OBVIOUS
    <3>1. j \in 1 .. Len(log[k]) \/ j = Len(log[k]) + 1
      BY <1>2, <1>8
    <3> QED
      BY <1>5, <1>8, <2>1, <3>1
  <2>3. ASSUME NEW i \in 1 .. Len(log'[k]), NEW j \in 1 .. Len(log'[k]), i < j
        PROVE  log'[k][i] <= log'[k][j] + MaxDelay
    <3>1. i \in 1 .. Len(log[k])
      BY <1>2, <1>8, <2>3
    <3>2. CASE j \in 1 .. Len(log[k])
      BY <1>2, <1>8, <2>3, <3>1, <3>2 DEF WindowInv, LoggedBefore
    <3>3. CASE j = Len(log[k]) + 1
      <4>1. /\ log'[k][i] = log[k][i] /\ log[k][i] \in Nat /\ log[k][i] <= clock
            /\ log'[k][j] = now
        BY <1>8, <2>1, <3>1, <3>3
      <4> QED
        BY <1>2, <1>3, <1>5, <4>1, TimeAssumption, SMTT(30)
    <3> QED
      BY <1>2, <1>8, <3>2, <3>3
  <2> QED
    BY <1>1, <1>7, <2>2, <2>3 DEF WindowInv, LoggedBefore
<1>10. n \in 0 .. Len(log'[k]) /\ LeftOf(events[k], k, n)'
  <2>1. /\ Len(Queue(t)) = Len(log[k]) - n
        /\ \A j \in 1 .. Len(Queue(t)) : Queue(t)[j] = log[k][n + j]
        /\ \A j \in 1 .. n : log[k][j] < clock - Window
    BY <1>4 DEF LeftOf
  <2>2. /\ Len(events'[k]) = Len(Queue(t)) + 1
        /\ events'[k][Len(Queue(t)) + 1] = now
        /\ \A j \in 1 .. Len(Queue(t)) : events'[k][j] = Queue(t)[j]
    BY <1>2, <1>7
  <2>3. /\ n \in Nat /\ n <= Len(log[k]) /\ Len(log[k]) \in Nat
        /\ Len(Queue(t)) \in Nat
    BY <1>2
  <2>4. ASSUME NEW j \in 1 .. Len(events'[k])
        PROVE  events'[k][j] = log'[k][n + j]
    <3>1. CASE j \in 1 .. Len(Queue(t))
      <4>1. n + j \in 1 .. Len(log[k])
        BY <2>1, <2>3, <3>1
      <4> QED
        BY <1>8, <2>1, <2>2, <3>1, <4>1
    <3>2. CASE j = Len(Queue(t)) + 1
      <4>1. n + j = Len(log[k]) + 1
        BY <2>1, <2>3, <3>2
      <4> QED
        BY <1>8, <2>2, <3>2, <4>1
    <3> QED
      BY <2>2, <2>3, <3>1, <3>2
  <2>5. \A j \in 1 .. n : log'[k][j] < clock' - Window
    BY <1>1, <1>8, <2>1, <2>3
  <2>6. Len(events'[k]) = Len(log'[k]) - n /\ n \in 0 .. Len(log'[k])
    BY <1>8, <2>1, <2>2, <2>3
  <2> QED
    BY <2>4, <2>5, <2>6 DEF LeftOf
<1>11. QueuesLeft'
  <2> SUFFICES ASSUME NEW j \in Keys
               PROVE  \E m \in 0 .. Len(log'[j]) : LeftOf(events[j], j, m)'
    BY DEF QueuesLeft
  <2>1. CASE j = k
    BY <1>10, <2>1
  <2>2. CASE j # k
    <3>1. PICK m \in 0 .. Len(log[j]) : LeftOf(events[j], j, m)
      BY DEF WindowInv, QueuesLeft
    <3>2. m \in 0 .. Len(log'[j]) /\ LeftOf(events[j], j, m)'
      BY <1>1, <1>7, <2>2, <3>1 DEF LeftOf
    <3> QED
      BY <3>2
  <2> QED
    BY <2>1, <2>2
<1> QED
  BY <1>6, <1>9, <1>11 DEF WindowInv

LEMMA RefuseWindow ==
  ASSUME WindowInv, LimiterTyped', NEW t \in Threads, Refuse(t)
  PROVE  WindowInv'
<1> PICK k : k = KeyOf(t)
  OBVIOUS
<1>1. /\ call[t].at # "idle" /\ call[t].now # NotRead
      /\ events' = [events EXCEPT ![k] = Queue(t)]
      /\ call' = [call EXCEPT ![t] = NoCall]
      /\ log' = log /\ clock' = clock
  BY DEF Refuse
<1>2. k \in Keys
  BY <1>1, QueueType DEF WindowInv
<1>3. call \in [Threads -> Call] /\ events \in [Keys -> Seq(Nat)]
  BY DEF WindowInv, LimiterTyped, LimiterTypeOK
<1>4. PICK n \in 0 .. Len(log[k]) : LeftOf(Queue(t), k, n)
  BY <1>1, QueueLeft
<1>5. ReadBefore'
  BY <1>1, <1>3 DEF WindowInv, ReadBefore, NoCall
<1>6. LoggedBefore'
  BY <1>1 DEF WindowInv, LoggedBefore
<1>7. QueuesLeft'
  <2> SUFFICES ASSUME NEW j \in Keys
               PROVE  \E m \in 0 .. Len(log'[j]) : LeftOf(events[j], j, m)'
    BY DEF QueuesLeft
  <2>1. CASE j = k
    <3>1. events'[j] = Queue(t)
      BY <1>1, <1>2, <1>3, <2>1
    <3>2. n \in 0 .. Len(log'[j]) /\ LeftOf(events[j], j, n)'
      BY <1>1, <1>4, <2>1, <3>1 DEF LeftOf
    <3> QED
      BY <3>2
  <2>2. CASE j # k
    <3>1. PICK m \in 0 .. Len(log[j]) : LeftOf(events[j], j, m)
      BY DEF WindowInv, QueuesLeft
    <3>2. m \in 0 .. Len(log'[j]) /\ LeftOf(events[j], j, m)'
      BY <1>1, <1>3, <2>2, <3>1 DEF LeftOf
    <3> QED
      BY <3>2
  <2> QED
    BY <2>1, <2>2
<1> QED
  BY <1>5, <1>6, <1>7 DEF WindowInv

LEMMA WindowStep == WindowInv /\ [LimiterNext]_vars => WindowInv'
<1> SUFFICES ASSUME WindowInv, [LimiterNext]_vars PROVE WindowInv'
  OBVIOUS
<1>1. LimiterTyped'
  BY LimiterStepTyped DEF WindowInv
<1>2. /\ clock \in Nat /\ call \in [Threads -> Call]
  BY DEF WindowInv, LimiterTyped, LimiterTypeOK
<1>3. ASSUME clock' = clock, log' = log, events' = events, ReadBefore'
      PROVE  WindowInv'
  BY <1>1, <1>3 DEF WindowInv, LoggedBefore, QueuesLeft, LeftOf
<1>4. CASE Tick
  BY <1>1, <1>4, TickWindow
<1>5. ASSUME NEW limiter \in Limiters, Reset(limiter) PROVE WindowInv'
  BY <1>1, <1>5, ResetWindow
<1>6. ASSUME NEW t \in Threads, NEW e \in Emails, NEW i \in Addresses,
             BeginCheck(t, e, i)
      PROVE  WindowInv'
  <2>1. ReadBefore'
    BY <1>2, <1>6 DEF BeginCheck, WindowInv, ReadBefore
  <2> QED
    BY <1>3, <1>6, <2>1 DEF BeginCheck
<1>7. ASSUME NEW t \in Threads, ReadClock(t) PROVE WindowInv'
  <2>1. \A s \in Threads : s # t => call'[s] = call[s]
    BY <1>2, <1>7 DEF ReadClock
  <2>2. call'[t].now = clock
    BY <1>2, <1>7 DEF ReadClock, Call
  <2>3. ReadBefore'
    BY <1>2, <1>7, <2>1, <2>2, TimeAssumption
    DEF ReadClock, WindowInv, ReadBefore
  <2> QED
    BY <1>3, <1>7, <2>3 DEF ReadClock
<1>8. ASSUME NEW t \in Threads, LetThrough(t) PROVE WindowInv'
  BY <1>1, <1>8, LetThroughWindow
<1>9. ASSUME NEW t \in Threads, Refuse(t) PROVE WindowInv'
  BY <1>1, <1>9, RefuseWindow
<1>10. CASE UNCHANGED vars
  BY <1>3, <1>10 DEF vars, WindowInv, ReadBefore
<1> QED
  BY <1>4, <1>5, <1>6, <1>7, <1>8, <1>9, <1>10 DEF LimiterNext

-----------------------------------------------------------------------------

LEMMA IntervalSize ==
  ASSUME NEW n \in Nat, NEW m \in Nat, m <= n
  PROVE  IsFiniteSet(m + 1 .. n) /\ Cardinality(m + 1 .. n) = n - m
<1>1. /\ IsFiniteSet(m + 1 .. n)
      /\ Cardinality(m + 1 .. n) = IF m + 1 > n THEN 0 ELSE n - (m + 1) + 1
  BY FS_Interval
<1> QED
  BY <1>1

LEMMA WindowInWindow == WindowInv => InWindow
<1> SUFFICES ASSUME WindowInv, NEW k \in Keys
             PROVE  Cardinality({n \in DOMAIN log[k] :
                      clock - log[k][n] <= Window}) <= Limit[k[1]]
  BY DEF InWindow
<1> DEFINE recent == {n \in DOMAIN log[k] : clock - log[k][n] <= Window}
<1>1. /\ log[k] \in Seq(Nat) /\ events[k] \in Seq(Nat) /\ clock \in Nat
      /\ Len(events[k]) <= Limit[k[1]] /\ k[1] \in Limiters
  BY DEF WindowInv, LimiterTyped, LimiterTypeOK, Keys, Key
<1>2. PICK n \in 0 .. Len(log[k]) : LeftOf(events[k], k, n)
  BY DEF WindowInv, QueuesLeft
<1>3. /\ DOMAIN log[k] = 1 .. Len(log[k]) /\ Len(log[k]) \in Nat
      /\ n \in Nat /\ n <= Len(log[k])
      /\ \A j \in 1 .. Len(log[k]) : log[k][j] \in Nat
  BY <1>1, <1>2
<1>4. recent \subseteq n + 1 .. Len(log[k])
  <2> SUFFICES ASSUME NEW j \in recent, j <= n PROVE FALSE
    BY <1>3
  <2>1. j \in 1 .. n /\ j \in 1 .. Len(log[k]) /\ clock - log[k][j] <= Window
    BY <1>3
  <2>2. log[k][j] < clock - Window
    BY <1>2, <2>1 DEF LeftOf
  <2> QED
    BY <1>1, <1>3, <2>1, <2>2, TimeAssumption
<1> HIDE DEF recent
<1>5. /\ IsFiniteSet(n + 1 .. Len(log[k]))
      /\ Cardinality(n + 1 .. Len(log[k])) = Len(log[k]) - n
  BY <1>3, IntervalSize
<1>6. Cardinality(recent) <= Len(log[k]) - n /\ IsFiniteSet(recent)
  BY <1>4, <1>5, FS_Subset
<1>7. Cardinality(recent) \in Nat
  BY <1>6, FS_CardinalityType
<1>8. Len(log[k]) - n = Len(events[k]) /\ Len(events[k]) \in Nat
  BY <1>1, <1>2 DEF LeftOf
<1>9. Limit[k[1]] \in Nat
  BY <1>1, LimitAssumption
<1> QED
  BY <1>1, <1>6, <1>7, <1>8, <1>9 DEF recent

\* Whatever order the threads take the locks in and however long they wait, a
\* window lets no more hits through than its limit.
THEOREM WindowHolds == LimiterSpec => []InWindow
<1> QED
  BY WindowInit, WindowStep, WindowInWindow, PTL DEF LimiterSpec

LEMMA RefusalHasCause ==
  ASSUME WindowInv, NEW t \in Threads, Refuse(t)
  PROVE  Cardinality({n \in DOMAIN log[KeyOf(t)] :
           log[KeyOf(t)][n] >= call[t].now - Window - MaxDelay})
             >= Limit[call[t].at]
<1> DEFINE k == KeyOf(t)
           now == call[t].now
           cause == {n \in DOMAIN log[k] : log[k][n] >= now - Window - MaxDelay}
<1>1. call[t].at # "idle" /\ now # NotRead /\ ~HasRoom(t)
  BY DEF Refuse
<1>2. /\ now \in Nat /\ k \in Keys /\ call[t].at \in Limiters
      /\ log[k] \in Seq(Nat) /\ Queue(t) \in Seq(Nat)
  BY <1>1, QueueType DEF WindowInv
<1>3. PICK n \in 0 .. Len(log[k]) :
        /\ LeftOf(Queue(t), k, n)
        /\ n < Len(log[k]) => log[k][n + 1] >= now - Window
  BY <1>1, QueueLeft
<1> HIDE DEF k, now
<1>4. /\ DOMAIN log[k] = 1 .. Len(log[k]) /\ Len(log[k]) \in Nat
      /\ n \in Nat /\ n <= Len(log[k])
      /\ \A j \in 1 .. Len(log[k]) : log[k][j] \in Nat
  BY <1>2, <1>3
<1>5. n + 1 .. Len(log[k]) \subseteq cause
  <2> SUFFICES ASSUME NEW j \in n + 1 .. Len(log[k])
               PROVE  log[k][j] >= now - Window - MaxDelay /\ j \in DOMAIN log[k]
    OBVIOUS
  <2>1. /\ n + 1 \in 1 .. Len(log[k]) /\ j \in 1 .. Len(log[k])
        /\ log[k][n + 1] >= now - Window
    BY <1>3, <1>4
  <2>2. CASE j = n + 1
    BY <1>2, <1>4, <2>1, <2>2, TimeAssumption
  <2>3. CASE n + 1 < j
    <3>1. log[k][n + 1] <= log[k][j] + MaxDelay
      BY <1>2, <2>1, <2>3 DEF WindowInv, LoggedBefore
    <3>2. log[k][j] \in Nat /\ log[k][n + 1] \in Nat
      BY <1>4, <2>1
    <3>3. now - Window <= log[k][j] + MaxDelay
      <4>1. \A x, y, z \in Nat : x >= z - Window /\ x <= y + MaxDelay =>
              z - Window <= y + MaxDelay
        BY TimeAssumption
      <4>2. now \in Nat /\ log[k][n + 1] >= now - Window
        BY <1>2, <2>1
      <4> QED
        BY <3>1, <3>2, <4>1, <4>2
    <3>4. log[k][j] >= now - Window - MaxDelay
      BY <1>2, <3>2, <3>3, TimeAssumption, SMTT(30)
    <3> QED
      BY <1>4, <2>1, <3>4
  <2> QED
    BY <1>4, <2>2, <2>3
<1>6. IsFiniteSet(DOMAIN log[k]) /\ cause \subseteq DOMAIN log[k]
  <2>1. IsFiniteSet(1 .. Len(log[k]))
    BY <1>4, FS_Interval
  <2> QED
    BY <1>4, <2>1
<1> HIDE DEF cause
<1>7. IsFiniteSet(cause) /\ Cardinality(cause) \in Nat
  BY <1>6, FS_Subset, FS_CardinalityType
<1>8. Cardinality(n + 1 .. Len(log[k])) <= Cardinality(cause)
  BY <1>5, <1>7, FS_Subset
<1>9. Cardinality(n + 1 .. Len(log[k])) = Len(log[k]) - n
  BY <1>4, IntervalSize
<1>10. Len(Queue(t)) >= Limit[call[t].at] /\ Len(Queue(t)) = Len(log[k]) - n
  BY <1>1, <1>2, <1>3, LimitAssumption DEF HasRoom, LeftOf
<1>11. Limit[call[t].at] \in Nat
  BY <1>2, LimitAssumption
<1> QED
  BY <1>4, <1>7, <1>8, <1>9, <1>10, <1>11 DEF cause, k, now

\* Nobody is refused but for hits that were let through in the last window, the
\* delay of a thread included.
THEOREM RefusalsHaveCause == LimiterSpec => RefusedForCause
<1>1. WindowInv /\ [LimiterNext]_vars =>
        [\A t \in Threads : Refuse(t) =>
           Cardinality({n \in DOMAIN log[KeyOf(t)] :
             log[KeyOf(t)][n] >= call[t].now - Window - MaxDelay})
               >= Limit[call[t].at]]_vars
  BY RefusalHasCause
<1> QED
  BY <1>1, WindowInit, WindowStep, PTL DEF LimiterSpec, RefusedForCause

=============================================================================
