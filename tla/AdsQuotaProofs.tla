---------------------------- MODULE AdsQuotaProofs ----------------------------
(***************************************************************************)
(* What the limiter keeps, for any number of callers, tries and ticks. The  *)
(* limiter forgets an arrival by the time that another request carries,    *)
(* which may be old but is never ahead of the clock: so whatever passed in  *)
(* the last Window ticks less the lag is still in times when the next      *)
(* request is counted (TimesInv).                                          *)
(***************************************************************************)
EXTENDS AdsQuota, FiniteSetTheorems, TLAPS

\* A handler that waits for the mutex has a time that is at most MaxLag old.
LagInv ==
    \A c \in Callers :
        pc[c] = "stamped" => 0 <= stamp[c] /\ stamp[c] <= clock /\ clock <= stamp[c] + MaxLag

\* A caller that is not through has a call left.
LeftInv == \A c \in Callers : pc[c] \notin {"done", "failed"} => left[c] >= 1

ArrivalsInv ==
    \A i \in 1..Len(arrivals) :
        /\ arrivals[i].at <= clock
        /\ arrivals[i].stamp <= arrivals[i].at /\ arrivals[i].at <= arrivals[i].stamp + MaxLag

TimesInv ==
    \A i \in 1..Len(arrivals) :
        /\ i \in times => arrivals[i].passed
        /\ arrivals[i].passed /\ i \notin times => arrivals[i].stamp + Window <= clock

HistoryInv == ArrivalsInv /\ TimesInv /\ LimitHolds /\ RefusedOnlyWhenFull

QuotaInv == TypeOK /\ LagInv /\ LeftInv /\ HistoryInv

-----------------------------------------------------------------------------
\* Lemmas.

ArrivalRecords == [at : 0..MaxTime, stamp : 0..MaxTime, passed : BOOLEAN]

LEMMA Numbers ==
    /\ Calls \in Nat /\ Attempts \in Nat /\ Attempts >= 1 /\ Limit \in Nat /\ Window \in Nat
    /\ MaxLag \in Nat /\ MaxLag <= Window /\ MaxTime \in Nat
  BY QuotaAssumption

LEMMA ArrivalsType ==
    ASSUME TypeOK
    PROVE  /\ arrivals \in Seq(ArrivalRecords) /\ Len(arrivals) \in Nat
           /\ \A i \in 1..Len(arrivals) : arrivals[i] \in ArrivalRecords
<1>1. arrivals \in Seq(ArrivalRecords)
  BY DEF TypeOK, ArrivalRecords
<1> QED
  BY <1>1

\* Sets of arrivals are finite.
LEMMA SomeOfFirst ==
    ASSUME NEW n \in Nat, NEW S \in SUBSET (1..n)
    PROVE  IsFiniteSet(S) /\ Cardinality(S) \in Nat
<1>1. IsFiniteSet(1..n)
  BY FS_Interval
<1> QED
  BY <1>1, FS_Subset, FS_CardinalityType

\* The limiter is as it was, and so is the clock.
LEMMA QuietKeeps ==
    ASSUME HistoryInv, UNCHANGED <<clock, times, arrivals>>
    PROVE  HistoryInv'
<1>1. ArrivalsInv' /\ TimesInv'
  BY DEF HistoryInv, ArrivalsInv, TimesInv
<1>2. LimitHolds' /\ RefusedOnlyWhenFull'
  BY DEF HistoryInv, LimitHolds, RefusedOnlyWhenFull
<1> QED
  BY <1>1, <1>2 DEF HistoryInv

LEMMA RetryDoes ==
    ASSUME TypeOK, NEW c \in Callers, Retry(c)
    PROVE  /\ pc' \in [Callers -> CallerStates] /\ pc'[c] \in {"backoff", "failed"}
           /\ attempt' \in [Callers -> 1..Attempts]
           /\ stamp' \in [Callers -> Int]
           /\ \A d \in Callers \ {c} : pc'[d] = pc[d] /\ stamp'[d] = stamp[d]
<1>1. attempt[c] \in 1..Attempts /\ clock \in Int /\ Attempts \in Nat
  BY Numbers DEF TypeOK
<1>2. CASE attempt[c] < Attempts
  <2> DEFINE end == clock + 2 ^ (attempt[c] - 1)
  <2>1. end \in Int
    BY <1>1, SMT
  <2>2. /\ pc' = [pc EXCEPT ![c] = "backoff"] /\ attempt' = [attempt EXCEPT ![c] = attempt[c] + 1]
        /\ stamp' = [stamp EXCEPT ![c] = end]
    BY <1>2 DEF Retry, Goto
  <2> HIDE DEF end
  <2>3. attempt[c] + 1 \in 1..Attempts
    BY <1>1, <1>2
  <2> QED
    BY <2>1, <2>2, <2>3 DEF TypeOK, CallerStates
<1>3. CASE ~(attempt[c] < Attempts)
  <2>1. pc' = [pc EXCEPT ![c] = "failed"] /\ UNCHANGED <<attempt, stamp>>
    BY <1>3 DEF Retry, Goto
  <2> QED
    BY <2>1 DEF TypeOK, CallerStates
<1> QED
  BY <1>2, <1>3

\* A step of a caller that the limiter takes no part in.
LEMMA CallerKeeps ==
    ASSUME QuotaInv, NEW c \in Callers, UNCHANGED <<clock, times, arrivals>>,
           pc' \in [Callers -> CallerStates], attempt' \in [Callers -> 1..Attempts],
           stamp' \in [Callers -> Int], left' \in [Callers -> 0..Calls],
           pc'[c] = "stamped" => stamp'[c] = clock,
           pc'[c] \notin {"done", "failed"} => left'[c] >= 1,
           \A d \in Callers \ {c} :
               pc'[d] = pc[d] /\ stamp'[d] = stamp[d] /\ left'[d] = left[d]
    PROVE  QuotaInv'
<1>1. TypeOK'
  BY DEF QuotaInv, TypeOK
<1>2. LagInv'
  <2>1. clock \in 0..MaxTime /\ MaxLag \in Nat /\ MaxTime \in Nat
    BY Numbers DEF QuotaInv, TypeOK
  <2>2. 0 <= clock /\ clock <= clock /\ clock <= clock + MaxLag
    BY <2>1
  <2> QED
    BY <2>2 DEF QuotaInv, LagInv
<1>3. LeftInv'
  BY DEF QuotaInv, LeftInv
<1>4. HistoryInv'
  BY QuietKeeps DEF QuotaInv
<1> QED
  BY <1>1, <1>2, <1>3, <1>4 DEF QuotaInv

LEMMA InitInv == Init => QuotaInv
<1> SUFFICES ASSUME Init PROVE QuotaInv
  OBVIOUS
<1>1. TypeOK
  <2>1. clock \in 0..MaxTime /\ times = {} /\ arrivals = << >>
    BY Numbers DEF Init
  <2>2. arrivals \in Seq([at : 0..MaxTime, stamp : 0..MaxTime, passed : BOOLEAN])
    BY <2>1
  <2>3. /\ pc \in [Callers -> CallerStates] /\ left \in [Callers -> 0..Calls]
        /\ attempt \in [Callers -> 1..Attempts] /\ stamp \in [Callers -> Int]
    BY Numbers DEF Init, CallerStates
  <2> QED
    BY <2>1, <2>2, <2>3 DEF TypeOK
<1>2. LagInv /\ LeftInv
  BY Numbers DEF Init, LagInv, LeftInv
<1>3. Len(arrivals) = 0 /\ arrivals = << >>
  BY DEF Init
<1>4. ArrivalsInv /\ TimesInv /\ RefusedOnlyWhenFull
  BY <1>3 DEF ArrivalsInv, TimesInv, RefusedOnlyWhenFull
<1>5. LimitHolds
  <2> SUFFICES ASSUME NEW t \in -1..MaxTime
               PROVE  Cardinality({i \in 1..Len(arrivals) :
                          /\ arrivals[i].passed
                          /\ t < arrivals[i].at
                          /\ arrivals[i].at <= t + Window - MaxLag}) <= Limit
    BY DEF LimitHolds
  <2>1. {i \in 1..Len(arrivals) :
            /\ arrivals[i].passed
            /\ t < arrivals[i].at /\ arrivals[i].at <= t + Window - MaxLag} = {}
    BY <1>3
  <2>2. Cardinality({}) <= Limit
    BY FS_EmptySet, Numbers
  <2> QED
    BY <2>1, <2>2
<1> QED
  BY <1>1, <1>2, <1>4, <1>5 DEF QuotaInv, HistoryInv

-----------------------------------------------------------------------------
\* Each action keeps the invariant.

LEMMA TickKeeps ==
    ASSUME QuotaInv, Tick
    PROVE  QuotaInv'
<1>1. /\ clock' = clock + 1 /\ clock < MaxTime
      /\ UNCHANGED <<times, arrivals, pc, left, attempt, stamp>>
      /\ clock \in 0..MaxTime
  BY DEF QuotaInv, TypeOK, Tick, caller
<1>2. TypeOK'
  BY <1>1, Numbers DEF QuotaInv, TypeOK
<1>3. LagInv'
  <2> SUFFICES ASSUME NEW c \in Callers, pc[c] = "stamped"
               PROVE  /\ 0 <= stamp[c] /\ stamp[c] <= clock + 1 /\ clock + 1 <= stamp[c] + MaxLag
    BY <1>1 DEF LagInv
  <2>1. stamp[c] \in Int /\ 0 <= stamp[c] /\ stamp[c] <= clock /\ clock - stamp[c] < MaxLag
    BY DEF QuotaInv, LagInv, TypeOK, Tick
  <2> QED
    BY <1>1, <2>1, Numbers
<1>4. LeftInv'
  BY <1>1 DEF QuotaInv, LeftInv
<1>5. \A i \in 1..Len(arrivals) : arrivals[i] \in ArrivalRecords
  BY ArrivalsType DEF QuotaInv
<1>6. ArrivalsInv' /\ TimesInv'
  <2> SUFFICES ASSUME NEW i \in 1..Len(arrivals)
               PROVE  /\ arrivals[i].at <= clock + 1
                      /\ arrivals[i].stamp <= arrivals[i].at
                      /\ arrivals[i].at <= arrivals[i].stamp + MaxLag
                      /\ i \in times => arrivals[i].passed
                      /\ arrivals[i].passed /\ i \notin times =>
                             arrivals[i].stamp + Window <= clock + 1
    BY <1>1 DEF ArrivalsInv, TimesInv
  <2>1. arrivals[i].at \in Int /\ arrivals[i].stamp \in Int
    BY <1>5 DEF ArrivalRecords
  <2> QED
    BY <1>1, <2>1, Numbers DEF QuotaInv, HistoryInv, ArrivalsInv, TimesInv
<1>7. LimitHolds' /\ RefusedOnlyWhenFull'
  BY <1>1 DEF QuotaInv, HistoryInv, LimitHolds, RefusedOnlyWhenFull
<1> QED
  BY <1>2, <1>3, <1>4, <1>6, <1>7 DEF QuotaInv, HistoryInv

\* What getJSON does by itself.
LEMMA ClientKeeps ==
    ASSUME QuotaInv, NEW c \in Callers,
           ReadClock(c) \/ SendFails(c) \/ Answered(c) \/ AnswerFails(c) \/ BackoffEnds(c)
    PROVE  QuotaInv'
<1>1. TypeOK /\ left[c] \in 0..Calls /\ clock \in 0..MaxTime /\ Calls \in Nat /\ Attempts \in Nat
      /\ Attempts >= 1 /\ MaxTime \in Nat
  BY Numbers DEF QuotaInv, TypeOK
<1>2. pc[c] \notin {"done", "failed"} => left[c] >= 1
  BY DEF QuotaInv, LeftInv
<1>3. CASE ReadClock(c)
  <2>1. /\ pc' = [pc EXCEPT ![c] = "stamped"] /\ stamp' = [stamp EXCEPT ![c] = clock]
        /\ UNCHANGED <<clock, times, arrivals, left, attempt>> /\ pc[c] = "send"
    BY <1>3 DEF ReadClock, Goto
  <2>2. /\ pc' \in [Callers -> CallerStates] /\ stamp' \in [Callers -> Int] /\ stamp'[c] = clock
        /\ left' \in [Callers -> 0..Calls] /\ attempt' \in [Callers -> 1..Attempts]
        /\ \A d \in Callers \ {c} : pc'[d] = pc[d] /\ stamp'[d] = stamp[d] /\ left'[d] = left[d]
    BY <1>1, <2>1 DEF TypeOK, CallerStates
  <2> QED
    BY <1>2, <2>1, <2>2, CallerKeeps
<1>4. CASE SendFails(c) \/ AnswerFails(c)
  <2>1. Retry(c) /\ UNCHANGED <<clock, times, arrivals, left>> /\ pc[c] \in {"send", "admitted"}
    BY <1>4 DEF SendFails, AnswerFails
  <2>2. /\ pc' \in [Callers -> CallerStates] /\ pc'[c] \in {"backoff", "failed"}
        /\ attempt' \in [Callers -> 1..Attempts] /\ stamp' \in [Callers -> Int]
        /\ \A d \in Callers \ {c} : pc'[d] = pc[d] /\ stamp'[d] = stamp[d]
    BY <1>1, <2>1, RetryDoes
  <2>3. left' \in [Callers -> 0..Calls]
    BY <1>1, <2>1 DEF TypeOK
  <2> QED
    BY <1>2, <2>1, <2>2, <2>3, CallerKeeps
<1>5. CASE BackoffEnds(c)
  <2>1. /\ pc' = [pc EXCEPT ![c] = "send"] /\ pc[c] = "backoff"
        /\ UNCHANGED <<clock, times, arrivals, left, attempt, stamp>>
    BY <1>5 DEF BackoffEnds, Goto
  <2>2. /\ pc' \in [Callers -> CallerStates] /\ pc'[c] = "send" /\ stamp' \in [Callers -> Int]
        /\ left' \in [Callers -> 0..Calls] /\ attempt' \in [Callers -> 1..Attempts]
        /\ \A d \in Callers \ {c} : pc'[d] = pc[d] /\ stamp'[d] = stamp[d] /\ left'[d] = left[d]
    BY <1>1, <2>1 DEF TypeOK, CallerStates
  <2> QED
    BY <1>2, <2>1, <2>2, CallerKeeps
<1>6. CASE Answered(c)
  <2>1. pc[c] = "admitted" /\ left[c] >= 1 /\ UNCHANGED <<clock, times, arrivals, stamp>>
    BY <1>2, <1>6 DEF Answered
  <2>2. CASE /\ left' = [left EXCEPT ![c] = left[c] - 1]
             /\ attempt' = [attempt EXCEPT ![c] = 1]
             /\ Goto(c, IF left[c] = 1 THEN "done" ELSE "send")
    <3> DEFINE where == IF left[c] = 1 THEN "done" ELSE "send"
    <3>1. pc' = [pc EXCEPT ![c] = where] /\ where \in {"done", "send"}
      BY <2>2 DEF Goto
    <3>2. left[c] - 1 \in 0..Calls /\ (where = "send" => left[c] - 1 >= 1) /\ 1 \in 1..Attempts
      BY <1>1, <2>1
    <3> HIDE DEF where
    <3>3. /\ pc' \in [Callers -> CallerStates] /\ pc'[c] = where /\ stamp' \in [Callers -> Int]
          /\ left' \in [Callers -> 0..Calls] /\ left'[c] = left[c] - 1
          /\ attempt' \in [Callers -> 1..Attempts]
          /\ \A d \in Callers \ {c} : pc'[d] = pc[d] /\ stamp'[d] = stamp[d] /\ left'[d] = left[d]
      BY <1>1, <2>1, <2>2, <3>1, <3>2 DEF TypeOK, CallerStates
    <3> QED
      BY <2>1, <3>1, <3>2, <3>3, CallerKeeps
  <2>3. CASE Goto(c, "failed") /\ UNCHANGED <<left, attempt>>
    <3>1. /\ pc' \in [Callers -> CallerStates] /\ pc'[c] = "failed" /\ stamp' \in [Callers -> Int]
          /\ left' \in [Callers -> 0..Calls] /\ attempt' \in [Callers -> 1..Attempts]
          /\ \A d \in Callers \ {c} : pc'[d] = pc[d] /\ stamp'[d] = stamp[d] /\ left'[d] = left[d]
      BY <1>1, <2>1, <2>3 DEF TypeOK, CallerStates, Goto
    <3> QED
      BY <2>1, <3>1, CallerKeeps
  <2> QED
    BY <1>6, <2>2, <2>3 DEF Answered
<1> QED
  BY <1>3, <1>4, <1>5, <1>6

\* What the limiter has before a request of caller c is counted: it still remembers every
\* request that passed less than a window before the time of c, and so every one that
\* passed in the last Window - MaxLag ticks; and all that it remembers has passed in the
\* last Window + MaxLag.
LEMMA KeptIs ==
    ASSUME QuotaInv, NEW c \in Callers, pc[c] = "stamped"
    PROVE  /\ Kept(stamp[c]) \in SUBSET (1..Len(arrivals))
           /\ \A i \in Kept(stamp[c]) :
                  /\ arrivals[i].passed
                  /\ arrivals[i].at > clock - Window - MaxLag
           /\ \A i \in 1..Len(arrivals) :
                  arrivals[i].passed /\ arrivals[i].at > clock - (Window - MaxLag)
                  => i \in Kept(stamp[c])
           /\ \A i \in 1..Len(arrivals) :
                  arrivals[i].passed /\ i \notin Kept(stamp[c])
                  => arrivals[i].stamp + Window <= clock
<1>1. /\ stamp[c] \in Int /\ clock \in Int /\ stamp[c] <= clock /\ clock <= stamp[c] + MaxLag
      /\ times \subseteq 1..Len(arrivals)
  BY DEF QuotaInv, TypeOK, LagInv
<1>2. \A i \in 1..Len(arrivals) :
          /\ arrivals[i].at \in Int /\ arrivals[i].stamp \in Int
          /\ arrivals[i].at <= clock /\ arrivals[i].stamp <= arrivals[i].at
          /\ arrivals[i].at <= arrivals[i].stamp + MaxLag
          /\ i \in times => arrivals[i].passed
          /\ arrivals[i].passed /\ i \notin times => arrivals[i].stamp + Window <= clock
  BY ArrivalsType DEF QuotaInv, HistoryInv, ArrivalsInv, TimesInv, ArrivalRecords
<1>3. Kept(stamp[c]) = {i \in times : stamp[c] - arrivals[i].stamp < Window}
  BY DEF Kept
<1>4. ASSUME NEW i \in Kept(stamp[c])
      PROVE  /\ i \in 1..Len(arrivals) /\ arrivals[i].passed
             /\ arrivals[i].at > clock - Window - MaxLag
  <2>1. i \in times /\ stamp[c] - arrivals[i].stamp < Window
    BY <1>3
  <2>2. /\ i \in 1..Len(arrivals) /\ arrivals[i].passed
        /\ arrivals[i].at \in Int /\ arrivals[i].stamp \in Int
        /\ arrivals[i].stamp <= arrivals[i].at
    BY <1>1, <1>2, <2>1
  <2> QED
    BY <1>1, <2>1, <2>2, Numbers
<1>5. ASSUME NEW i \in 1..Len(arrivals), arrivals[i].passed, i \notin Kept(stamp[c])
      PROVE  /\ arrivals[i].stamp + Window <= clock
             /\ ~(arrivals[i].at > clock - (Window - MaxLag))
  <2>1. CASE i \in times
    BY <1>1, <1>2, <1>3, <1>5, <2>1, Numbers
  <2>2. CASE i \notin times
    BY <1>1, <1>2, <1>5, <2>2, Numbers
  <2> QED
    BY <2>1, <2>2
<1> QED
  BY <1>4, <1>5

\* The arrival that a step adds to the history.
LEMMA ArriveDoes ==
    ASSUME QuotaInv, NEW c \in Callers, pc[c] = "stamped", NEW passed \in BOOLEAN,
           Arrive(c, passed)
    PROVE  /\ Len(arrivals') = Len(arrivals) + 1 /\ Len(arrivals) \in Nat
           /\ arrivals' \in Seq(ArrivalRecords)
           /\ \A i \in 1..Len(arrivals) : arrivals'[i] = arrivals[i]
           /\ arrivals'[Len(arrivals) + 1] = [at |-> clock, stamp |-> stamp[c], passed |-> passed]
<1> DEFINE new == [at |-> clock, stamp |-> stamp[c], passed |-> passed]
<1>1. arrivals \in Seq(ArrivalRecords) /\ Len(arrivals) \in Nat
  BY ArrivalsType DEF QuotaInv
<1>2. new \in ArrivalRecords
  <2>1. clock \in 0..MaxTime /\ stamp[c] \in Int /\ 0 <= stamp[c] /\ stamp[c] <= clock
    BY DEF QuotaInv, TypeOK, LagInv
  <2>2. stamp[c] \in 0..MaxTime
    BY <2>1, Numbers
  <2> QED
    BY <2>1, <2>2 DEF ArrivalRecords
<1>3. arrivals' = Append(arrivals, new)
  BY DEF Arrive
<1> HIDE DEF new
<1>4. /\ Len(arrivals') = Len(arrivals) + 1 /\ arrivals' \in Seq(ArrivalRecords)
      /\ \A i \in 1..Len(arrivals) : arrivals'[i] = arrivals[i]
      /\ arrivals'[Len(arrivals) + 1] = new
  BY <1>1, <1>2, <1>3
<1> QED
  BY <1>1, <1>4 DEF new

\* What is said of every arrival and of what the limiter remembers stays true when one more
\* arrives.
LEMMA ArrivalsKeep ==
    ASSUME QuotaInv, NEW c \in Callers, pc[c] = "stamped", NEW passed \in BOOLEAN,
           Arrive(c, passed), UNCHANGED clock,
           times' = IF passed THEN Kept(stamp[c]) \cup {Len(arrivals) + 1} ELSE Kept(stamp[c])
    PROVE  ArrivalsInv' /\ TimesInv' /\ times' \subseteq 1..Len(arrivals')
<1> DEFINE n == Len(arrivals)
           new == [at |-> clock, stamp |-> stamp[c], passed |-> passed]
           kept == Kept(stamp[c])
<1>1. /\ Len(arrivals') = n + 1 /\ n \in Nat /\ \A i \in 1..n : arrivals'[i] = arrivals[i]
      /\ arrivals'[n + 1] = new
  BY ArriveDoes
<1>2. new.at = clock /\ new.stamp = stamp[c] /\ new.passed = passed
  OBVIOUS
<1>3. stamp[c] \in Int /\ clock \in Int /\ stamp[c] <= clock /\ clock <= stamp[c] + MaxLag
  BY DEF QuotaInv, TypeOK, LagInv
<1>4. /\ kept \in SUBSET (1..n)
      /\ \A i \in kept : arrivals[i].passed
      /\ \A i \in 1..n : arrivals[i].passed /\ i \notin kept => arrivals[i].stamp + Window <= clock
  BY KeptIs
<1>5. times' = IF passed THEN kept \cup {n + 1} ELSE kept
  OBVIOUS
<1> HIDE DEF n, new, kept
<1>6. 1..Len(arrivals') = 1..n \cup {n + 1} /\ n + 1 \notin 1..n
  BY <1>1
<1>7. ArrivalsInv'
  <2> SUFFICES ASSUME NEW i \in 1..Len(arrivals')
               PROVE  /\ arrivals'[i].at <= clock
                      /\ arrivals'[i].stamp <= arrivals'[i].at
                      /\ arrivals'[i].at <= arrivals'[i].stamp + MaxLag
    BY DEF ArrivalsInv
  <2>1. CASE i \in 1..n
    BY <1>1, <2>1 DEF QuotaInv, HistoryInv, ArrivalsInv, n
  <2>2. CASE i = n + 1
    BY <1>1, <1>2, <1>3, <2>2
  <2> QED
    BY <1>6, <2>1, <2>2
<1>8. TimesInv'
  <2> SUFFICES ASSUME NEW i \in 1..Len(arrivals')
               PROVE  /\ i \in times' => arrivals'[i].passed
                      /\ arrivals'[i].passed /\ i \notin times' =>
                             arrivals'[i].stamp + Window <= clock
    BY DEF TimesInv
  <2>1. CASE i \in 1..n
    <3>1. arrivals'[i] = arrivals[i] /\ (i \in times' <=> i \in kept)
      BY <1>1, <1>5, <1>6, <2>1
    <3> QED
      BY <1>4, <2>1, <3>1
  <2>2. CASE i = n + 1
    <3>1. arrivals'[i].passed = passed /\ (i \in times' <=> passed)
      BY <1>1, <1>2, <1>4, <1>5, <1>6, <2>2
    <3> QED
      BY <3>1
  <2> QED
    BY <1>6, <2>1, <2>2
<1> QED
  BY <1>4, <1>5, <1>6, <1>7, <1>8

\* A request that passes finds room in every window that it falls into.
LEMMA LimitKeeps ==
    ASSUME QuotaInv, NEW c \in Callers, pc[c] = "stamped", NEW passed \in BOOLEAN,
           Arrive(c, passed), passed => ~(Cardinality(Kept(stamp[c])) >= Limit)
    PROVE  LimitHolds'
<1> DEFINE n == Len(arrivals)
           kept == Kept(stamp[c])
           In(a, m, t) == {i \in 1..m : /\ a[i].passed
                                       /\ t < a[i].at /\ a[i].at <= t + Window - MaxLag}
<1>1. /\ Len(arrivals') = n + 1 /\ n \in Nat /\ \A i \in 1..n : arrivals'[i] = arrivals[i]
      /\ arrivals'[n + 1].at = clock /\ arrivals'[n + 1].passed = passed
  <2> DEFINE new == [at |-> clock, stamp |-> stamp[c], passed |-> passed]
  <2>1. /\ Len(arrivals') = n + 1 /\ n \in Nat /\ \A i \in 1..n : arrivals'[i] = arrivals[i]
        /\ arrivals'[n + 1] = new
    BY ArriveDoes
  <2>2. new.at = clock /\ new.passed = passed
    OBVIOUS
  <2> HIDE DEF new
  <2> QED
    BY <2>1, <2>2
<1>2. clock \in Int /\ MaxTime \in Nat
  BY Numbers DEF QuotaInv, TypeOK
<1>3. /\ kept \in SUBSET (1..n)
      /\ \A i \in 1..n : arrivals[i].passed /\ arrivals[i].at > clock - (Window - MaxLag) => i \in kept
  BY KeptIs
<1>4. \A i \in 1..n : arrivals[i].at \in Int
  BY ArrivalsType DEF QuotaInv, ArrivalRecords
<1>5. SUFFICES ASSUME NEW t \in -1..MaxTime
               PROVE  Cardinality(In(arrivals', n + 1, t)) <= Limit
  BY <1>1 DEF LimitHolds
<1>6. In(arrivals, n, t) \in SUBSET (1..n) /\ Cardinality(In(arrivals, n, t)) <= Limit
  BY DEF QuotaInv, HistoryInv, LimitHolds
<1>7. \A i : i \in In(arrivals', n + 1, t) =>
          i \in In(arrivals, n, t) \/ (i = n + 1 /\ passed /\ t < clock /\ clock <= t + Window - MaxLag)
  <2> SUFFICES ASSUME NEW i \in In(arrivals', n + 1, t), i # n + 1 PROVE i \in In(arrivals, n, t)
    BY <1>1
  <2>1. i \in 1..n
    BY <1>1
  <2> QED
    BY <1>1, <2>1
<1>8. IsFiniteSet(In(arrivals, n, t)) /\ IsFiniteSet(kept) /\ Cardinality(kept) \in Nat
      /\ Cardinality(In(arrivals, n, t)) \in Nat
  BY <1>1, <1>3, <1>6, SomeOfFirst
<1>9. IsFiniteSet(In(arrivals', n + 1, t)) /\ Cardinality(In(arrivals', n + 1, t)) \in Nat
  <2>1. In(arrivals', n + 1, t) \in SUBSET (1..(n + 1)) /\ n + 1 \in Nat
    BY <1>1
  <2> QED
    BY <2>1, SomeOfFirst
<1>10. CASE passed /\ t < clock /\ clock <= t + Window - MaxLag
  <2>1. In(arrivals, n, t) \in SUBSET kept
    <3> SUFFICES ASSUME NEW i \in In(arrivals, n, t) PROVE i \in kept
      OBVIOUS
    <3>1. i \in 1..n /\ arrivals[i].passed /\ t < arrivals[i].at /\ arrivals[i].at \in Int
      BY <1>4
    <3>2. arrivals[i].at > clock - (Window - MaxLag)
      BY <1>2, <1>10, <3>1, Numbers
    <3> QED
      BY <1>3, <3>1, <3>2
  <2>2. Cardinality(In(arrivals, n, t)) <= Cardinality(kept)
    BY <1>8, <2>1, FS_Subset
  <2>3. Cardinality(kept) < Limit
    BY <1>8, <1>10, Numbers
  <2> HIDE DEF In, kept
  <2>4. In(arrivals', n + 1, t) \in SUBSET (In(arrivals, n, t) \cup {n + 1})
    BY <1>7
  <2>5. /\ IsFiniteSet(In(arrivals, n, t) \cup {n + 1})
        /\ Cardinality(In(arrivals, n, t) \cup {n + 1}) <= Cardinality(In(arrivals, n, t)) + 1
    <3>1. /\ IsFiniteSet(In(arrivals, n, t) \cup {n + 1})
          /\ \/ Cardinality(In(arrivals, n, t) \cup {n + 1}) = Cardinality(In(arrivals, n, t))
             \/ Cardinality(In(arrivals, n, t) \cup {n + 1}) = Cardinality(In(arrivals, n, t)) + 1
      BY <1>8, FS_AddElement
    <3> QED
      BY <1>8, <3>1
  <2>6. Cardinality(In(arrivals', n + 1, t)) <= Cardinality(In(arrivals, n, t) \cup {n + 1})
    BY <2>4, <2>5, FS_Subset
  <2>7. Cardinality(In(arrivals, n, t) \cup {n + 1}) \in Nat
    BY <2>5, FS_CardinalityType
  <2> QED
    BY <1>8, <1>9, <2>2, <2>3, <2>5, <2>6, <2>7, Numbers
<1>11. CASE ~(passed /\ t < clock /\ clock <= t + Window - MaxLag)
  <2> HIDE DEF In, kept
  <2>1. In(arrivals', n + 1, t) \in SUBSET In(arrivals, n, t)
    BY <1>7, <1>11
  <2>2. Cardinality(In(arrivals', n + 1, t)) <= Cardinality(In(arrivals, n, t))
    BY <1>8, <2>1, FS_Subset
  <2> QED
    BY <1>6, <1>8, <1>9, <2>2, Numbers
<1> QED
  BY <1>10, <1>11

\* A request that is refused has Limit that passed before it, not long ago.
LEMMA RefusedKeeps ==
    ASSUME QuotaInv, NEW c \in Callers, pc[c] = "stamped", NEW passed \in BOOLEAN,
           Arrive(c, passed), ~passed => Cardinality(Kept(stamp[c])) >= Limit
    PROVE  RefusedOnlyWhenFull'
<1> DEFINE n == Len(arrivals)
           kept == Kept(stamp[c])
           Before(a, i) == {j \in 1..(i - 1) : a[j].passed /\ a[j].at > a[i].at - Window - MaxLag}
<1>1. /\ Len(arrivals') = n + 1 /\ n \in Nat /\ \A i \in 1..n : arrivals'[i] = arrivals[i]
      /\ arrivals'[n + 1].at = clock /\ arrivals'[n + 1].passed = passed
  <2> DEFINE new == [at |-> clock, stamp |-> stamp[c], passed |-> passed]
  <2>1. /\ Len(arrivals') = n + 1 /\ n \in Nat /\ \A i \in 1..n : arrivals'[i] = arrivals[i]
        /\ arrivals'[n + 1] = new
    BY ArriveDoes
  <2>2. new.at = clock /\ new.passed = passed
    OBVIOUS
  <2> HIDE DEF new
  <2> QED
    BY <2>1, <2>2
<1>2. /\ kept \in SUBSET (1..n)
      /\ \A i \in kept : arrivals[i].passed /\ arrivals[i].at > clock - Window - MaxLag
  BY KeptIs
<1>3. SUFFICES ASSUME NEW i \in 1..(n + 1), ~arrivals'[i].passed
               PROVE  Cardinality(Before(arrivals', i)) >= Limit
  BY <1>1 DEF RefusedOnlyWhenFull
<1>4. CASE i \in 1..n
  <2>1. arrivals'[i] = arrivals[i] /\ \A j \in 1..(i - 1) : arrivals'[j] = arrivals[j]
    BY <1>1, <1>4
  <2>2. Before(arrivals', i) = Before(arrivals, i)
    BY <2>1
  <2> QED
    BY <1>3, <1>4, <2>1, <2>2 DEF QuotaInv, HistoryInv, RefusedOnlyWhenFull
<1>5. CASE i = n + 1
  <2>1. \A j \in kept : j \in Before(arrivals', i)
    <3> TAKE j \in kept
    <3>1. j \in 1..n /\ j \in 1..(i - 1) /\ arrivals'[j] = arrivals[j]
      BY <1>1, <1>2, <1>5
    <3> QED
      BY <1>1, <1>2, <1>5, <3>1
  <2>2. Before(arrivals', i) \in SUBSET (1..n)
    BY <1>1, <1>5
  <2> HIDE DEF Before, kept
  <2>3. kept \in SUBSET Before(arrivals', i)
    BY <2>1
  <2>4. /\ IsFiniteSet(Before(arrivals', i)) /\ Cardinality(Before(arrivals', i)) \in Nat
        /\ Cardinality(kept) \in Nat
    BY <1>1, <1>2, <2>2, SomeOfFirst
  <2>5. Cardinality(kept) <= Cardinality(Before(arrivals', i))
    BY <2>3, <2>4, FS_Subset
  <2>6. Cardinality(kept) >= Limit
    BY <1>1, <1>3, <1>5 DEF kept
  <2> QED
    BY <2>4, <2>5, <2>6, Numbers
<1> QED
  BY <1>1, <1>3, <1>4, <1>5

LEMMA AllowKeeps ==
    ASSUME QuotaInv, NEW c \in Callers, Allow(c)
    PROVE  QuotaInv'
<1> DEFINE kept == Kept(stamp[c])
           passed == ~(Cardinality(kept) >= Limit)
<1>1. TypeOK /\ pc[c] = "stamped" /\ UNCHANGED <<clock, left>>
  BY DEF QuotaInv, Allow
<1>2. /\ Arrive(c, passed)
      /\ times' = IF passed THEN kept \cup {Len(arrivals) + 1} ELSE kept
      /\ IF passed THEN Goto(c, "admitted") /\ UNCHANGED <<attempt, stamp>> ELSE Retry(c)
  <2>1. CASE Cardinality(kept) >= Limit
    <3>1. passed = FALSE
      BY <2>1
    <3> QED
      BY <2>1, <3>1 DEF Allow
  <2>2. CASE ~(Cardinality(kept) >= Limit)
    <3>1. passed = TRUE
      BY <2>2
    <3> QED
      BY <2>2, <3>1 DEF Allow
  <2> QED
    BY <2>1, <2>2
<1>3. passed \in BOOLEAN
  OBVIOUS
<1>4. ArrivalsInv' /\ TimesInv' /\ times' \subseteq 1..Len(arrivals')
  BY <1>1, <1>2, <1>3, ArrivalsKeep
<1>5. LimitHolds' /\ RefusedOnlyWhenFull'
  BY <1>1, <1>2, <1>3, LimitKeeps, RefusedKeeps
<1>6. arrivals' \in Seq(ArrivalRecords)
  BY <1>1, <1>2, <1>3, ArriveDoes
<1> HIDE DEF passed, kept
<1>7. /\ pc' \in [Callers -> CallerStates] /\ pc'[c] \in {"admitted", "backoff", "failed"}
      /\ attempt' \in [Callers -> 1..Attempts] /\ stamp' \in [Callers -> Int]
      /\ \A d \in Callers \ {c} : pc'[d] = pc[d] /\ stamp'[d] = stamp[d]
  <2>1. CASE passed
    <3>1. pc' = [pc EXCEPT ![c] = "admitted"] /\ UNCHANGED <<attempt, stamp>>
      BY <1>2, <2>1 DEF Goto
    <3> QED
      BY <1>1, <3>1 DEF TypeOK, CallerStates
  <2>2. CASE ~passed
    BY <1>1, <1>2, <2>2, RetryDoes
  <2> QED
    BY <2>1, <2>2
<1>8. TypeOK'
  BY <1>1, <1>4, <1>6, <1>7 DEF TypeOK, ArrivalRecords
<1>9. LagInv' /\ LeftInv'
  BY <1>1, <1>7 DEF QuotaInv, LagInv, LeftInv
<1> QED
  BY <1>4, <1>5, <1>8, <1>9 DEF QuotaInv, HistoryInv

LEMMA QuotaInvAlways == Spec => []QuotaInv
<1>1. QuotaInv /\ [Next]_vars => QuotaInv'
  <2> SUFFICES ASSUME QuotaInv, [Next]_vars PROVE QuotaInv'
    OBVIOUS
  <2>1. CASE UNCHANGED vars
    <3>1. UNCHANGED <<clock, times, arrivals, pc, left, attempt, stamp>>
      BY <2>1 DEF vars
    <3>2. TypeOK' /\ LagInv' /\ LeftInv'
      BY <3>1 DEF QuotaInv, TypeOK, LagInv, LeftInv
    <3> QED
      BY <3>1, <3>2, QuietKeeps DEF QuotaInv
  <2> QED
    BY <2>1, TickKeeps, ClientKeeps, AllowKeeps DEF Next, Call
<1> QED
  BY <1>1, InitInv, PTL DEF Spec

-----------------------------------------------------------------------------
\* Theorems.

\* The limiter and its callers keep their types: no caller tries more often than it may, and
\* what the limiter remembers has arrived.
THEOREM QuotaTypeCorrect == Spec => []TypeOK
<1>1. QuotaInv => TypeOK
  BY DEF QuotaInv
<1> QED
  BY <1>1, QuotaInvAlways, PTL

\* No more than Limit requests pass in a window less the lag, in whatever order the handlers
\* reach the mutex.
THEOREM LimitHoldsAlways == Spec => []LimitHolds
<1>1. QuotaInv => LimitHolds
  BY DEF QuotaInv, HistoryInv
<1> QED
  BY <1>1, QuotaInvAlways, PTL

\* What is refused was refused because of Limit that passed.
THEOREM RefusedOnlyWhenFullAlways == Spec => []RefusedOnlyWhenFull
<1>1. QuotaInv => RefusedOnlyWhenFull
  BY DEF QuotaInv, HistoryInv
<1> QED
  BY <1>1, QuotaInvAlways, PTL

=============================================================================
