------------------------------- MODULE AdsQuota -------------------------------
(***************************************************************************)
(* The quota of the medium and the client that lives with it: the rate     *)
(* limiter of exampleAdsAPI, which every request to /v1/ passes, and       *)
(* getJSON of the batch, which tries a request five times with a backoff   *)
(* that doubles.                                                           *)
(*                                                                         *)
(* A handler reads the clock before it waits for the limiter's mutex, so    *)
(* that requests reach the limiter with old times and out of order. The    *)
(* clock counts ticks, and MaxLag is how many can pass between that look   *)
(* and the mutex; a tick stands for any time shorter than the backoffs.    *)
(***************************************************************************)
EXTENDS Integers, Sequences, FiniteSets

CONSTANTS
    Callers,    \* the runs of the batch and the other programs that call the medium
    Calls,      \* the calls of getJSON that each makes, one after the other
    Attempts,   \* how often getJSON tries: 5
    Limit,      \* requests in a window: 60
    Window,     \* ticks in a window: a minute
    MaxLag,     \* bound on the ticks between a handler's look at the clock and the mutex
    MaxTime     \* bound on the clock

ASSUME QuotaAssumption ==
    /\ Calls \in Nat
    /\ Attempts \in Nat \ {0}
    /\ Limit \in Nat
    /\ Window \in Nat
    /\ MaxLag \in 0..Window
    /\ MaxTime \in Nat

VARIABLES
    clock,
    times,      \* l.times: the arrivals that the limiter remembers
    arrivals,   \* history: what reached the limiter, when, with which time, and whether it passed
    pc,         \* where each caller stands
    left,       \* the calls it has still to make
    attempt,    \* which try of its call it is at
    stamp       \* the time its handler has read, or the end of its backoff

caller == <<pc, left, attempt, stamp>>
vars == <<clock, times, arrivals, pc, left, attempt, stamp>>

CallerStates == {"send", "stamped", "admitted", "backoff", "done", "failed"}

TypeOK ==
    /\ clock \in 0..MaxTime
    /\ times \subseteq 1..Len(arrivals)
    /\ arrivals \in Seq([at : 0..MaxTime, stamp : 0..MaxTime, passed : BOOLEAN])
    /\ pc \in [Callers -> CallerStates]
    /\ left \in [Callers -> 0..Calls]
    /\ attempt \in [Callers -> 1..Attempts]
    /\ stamp \in [Callers -> Int]

Init ==
    /\ clock = 0
    /\ times = {}
    /\ arrivals = << >>
    /\ pc = [c \in Callers |-> IF Calls = 0 THEN "done" ELSE "send"]
    /\ left = [c \in Callers |-> Calls]
    /\ attempt = [c \in Callers |-> 1]
    /\ stamp = [c \in Callers |-> 0]

-----------------------------------------------------------------------------
\* getJSON.

Goto(c, where) == pc' = [pc EXCEPT ![c] = where]

\* Mutant: the number of tries is compared one too late.
RetryOnceMore(c) ==
    IF attempt[c] <= Attempts
    THEN /\ Goto(c, "backoff")
         /\ attempt' = [attempt EXCEPT ![c] = @ + 1]
         /\ stamp' = [stamp EXCEPT ![c] = clock + 2 ^ (attempt[c] - 1)]
    ELSE Goto(c, "failed") /\ UNCHANGED <<attempt, stamp>>

\* The next attempt after 1, 2, 4 and 8 seconds; after the last one, the run dies
\* with the error.
Retry(c) ==
    IF attempt[c] < Attempts
    THEN /\ Goto(c, "backoff")
         /\ attempt' = [attempt EXCEPT ![c] = @ + 1]
         /\ stamp' = [stamp EXCEPT ![c] = clock + 2 ^ (attempt[c] - 1)]
    ELSE Goto(c, "failed") /\ UNCHANGED <<attempt, stamp>>

\* The request reaches protect, which evaluates s.now() for allow.
ReadClock(c) ==
    /\ pc[c] = "send"
    /\ Goto(c, "stamped")
    /\ stamp' = [stamp EXCEPT ![c] = clock]
    /\ UNCHANGED <<clock, times, arrivals, left, attempt>>

\* The connection fails before the medium has the request.
SendFails(c) ==
    /\ pc[c] = "send"
    /\ Retry(c)
    /\ UNCHANGED <<clock, times, arrivals, left>>

BackoffEnds(c) ==
    /\ pc[c] = "backoff"
    /\ clock >= stamp[c]
    /\ Goto(c, "send")
    /\ UNCHANGED <<clock, times, arrivals, left, attempt, stamp>>

\* 200, 404 or another status under 500 ends the call; after the last call the run
\* is done. An error other than 404 ends the run.
Answered(c) ==
    /\ pc[c] = "admitted"
    /\ \/ /\ left' = [left EXCEPT ![c] = @ - 1]
          /\ attempt' = [attempt EXCEPT ![c] = 1]
          /\ Goto(c, IF left[c] = 1 THEN "done" ELSE "send")
       \/ Goto(c, "failed") /\ UNCHANGED <<left, attempt>>
    /\ UNCHANGED <<clock, times, arrivals, stamp>>

\* A status from 500, a broken body or the timeout of the client.
AnswerFails(c) ==
    /\ pc[c] = "admitted"
    /\ Retry(c)
    /\ UNCHANGED <<clock, times, arrivals, left>>

-----------------------------------------------------------------------------
\* The limiter.

\* The arrivals whose time is less than a window before now.
Kept(now) == {i \in times : now - arrivals[i].stamp < Window}

Arrive(c, passed) ==
    arrivals' = Append(arrivals, [at |-> clock, stamp |-> stamp[c], passed |-> passed])

\* Mutant: the limit is compared after the new request is counted.
AllowOneMore(c) ==
    LET kept == Kept(stamp[c])
    IN  /\ pc[c] = "stamped"
        /\ IF Cardinality(kept) > Limit
           THEN times' = kept /\ Arrive(c, FALSE) /\ Retry(c)
           ELSE /\ times' = kept \cup {Len(arrivals) + 1}
                /\ Arrive(c, TRUE)
                /\ Goto(c, "admitted")
                /\ UNCHANGED <<attempt, stamp>>
        /\ UNCHANGED <<clock, left>>

\* Mutant: a request that is refused is remembered like one that passes.
AllowRemembersAll(c) ==
    LET kept == Kept(stamp[c])
    IN  /\ pc[c] = "stamped"
        /\ times' = kept \cup {Len(arrivals) + 1}
        /\ IF Cardinality(kept) >= Limit
           THEN Arrive(c, FALSE) /\ Retry(c)
           ELSE /\ Arrive(c, TRUE)
                /\ Goto(c, "admitted")
                /\ UNCHANGED <<attempt, stamp>>
        /\ UNCHANGED <<clock, left>>

\* allow, under the mutex. What it refuses, with 429 and no Retry-After, it forgets.
Allow(c) ==
    LET kept == Kept(stamp[c])
    IN  /\ pc[c] = "stamped"
        /\ IF Cardinality(kept) >= Limit
           THEN times' = kept /\ Arrive(c, FALSE) /\ Retry(c)
           ELSE /\ times' = kept \cup {Len(arrivals) + 1}
                /\ Arrive(c, TRUE)
                /\ Goto(c, "admitted")
                /\ UNCHANGED <<attempt, stamp>>
        /\ UNCHANGED <<clock, left>>

Tick ==
    /\ clock < MaxTime
    /\ \A c \in Callers : pc[c] = "stamped" => clock - stamp[c] < MaxLag
    /\ clock' = clock + 1
    /\ UNCHANGED <<times, arrivals, caller>>

-----------------------------------------------------------------------------

Call(c) ==
    \/ ReadClock(c) \/ SendFails(c) \/ Allow(c)
    \/ Answered(c) \/ AnswerFails(c) \/ BackoffEnds(c)

Next == Tick \/ \E c \in Callers : Call(c)

Spec == Init /\ [][Next]_vars

-----------------------------------------------------------------------------
\* Properties.

\* README.md:113, as far as the code keeps it: at most Limit requests pass in any
\* window less the lag, although their times come out of order.
LimitHolds ==
    \A t \in -1..MaxTime :
        Cardinality({i \in 1..Len(arrivals) :
            /\ arrivals[i].passed
            /\ t < arrivals[i].at /\ arrivals[i].at <= t + Window - MaxLag}) <= Limit

\* A request is refused only when Limit others have passed in the window before it
\* and the lag: what was refused, retries above all, takes nothing of the quota.
RefusedOnlyWhenFull ==
    \A i \in 1..Len(arrivals) :
        ~arrivals[i].passed =>
            Cardinality({j \in 1..(i - 1) :
                /\ arrivals[j].passed
                /\ arrivals[j].at > arrivals[i].at - Window - MaxLag}) >= Limit
=============================================================================
