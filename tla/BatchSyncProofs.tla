---------------------------- MODULE BatchSyncProofs ----------------------------
(***************************************************************************)
(* Proofs for BatchSync, Charge and ReportContents. The charge first, as   *)
(* arithmetic; then the invariant of a run of the batch (BatchInv), and    *)
(* that every action keeps it; then the theorems. RunInv(b) speaks of one  *)
(* run and of the tables: lemma Frame says what other runs and the clock   *)
(* may do without breaking it.                                             *)
(***************************************************************************)
EXTENDS ReportContents, FiniteSetTheorems, WellFoundedInduction, TLAPS

-----------------------------------------------------------------------------
\* The charge.

\* Division of integers, as bounds.
LEMMA DivBounds ==
    ASSUME NEW n \in Int, NEW m \in Nat \ {0}
    PROVE  /\ n \div m \in Int
           /\ m * (n \div m) <= n
           /\ n < m * (n \div m) + m
  BY SMTT(60)

ScaleLimit == 33554432

\* Every number below 2^25 has a scale.
LEMMA ScaleBounds ==
    ASSUME NEW n \in Nat \ {0}, n < ScaleLimit
    PROVE  /\ Scale(n) \in Nat \ {0}
           /\ Scale(n) <= n
           /\ n < 2 * Scale(n)
<1>1. \E p \in PowersOfTwo : p <= n /\ n < 2 * p
  BY SMTT(60) DEF PowersOfTwo, ScaleLimit
<1>2. Scale(n) \in PowersOfTwo /\ Scale(n) <= n /\ n < 2 * Scale(n)
  BY <1>1 DEF Scale
<1>3. PowersOfTwo \subseteq Nat \ {0}
  BY SMT DEF PowersOfTwo
<1> QED
  BY <1>2, <1>3

\* The double of a quotient that ends in one half falls short of it at two rates only.
LEMMA FallsAtTwoRates ==
    ASSUME NEW n \in Nat \ {0}, n < ScaleLimit, NEW rate \in Rates, FallsShort(n, rate)
    PROVE  rate \in {44, 84}
<1> DEFINE p == Scale(n)
<1>1. p \in Nat \ {0} /\ p <= n /\ n < 2 * p
  BY ScaleBounds
<1>2. (2 * n + 1) * Excess(rate) > 2 * (100 - rate) * p
  BY DEF FallsShort
<1> HIDE DEF p
<1>3. SUFFICES ASSUME rate \notin {44, 84} PROVE FALSE
  OBVIOUS
<1>4. CASE rate = 20
  BY <1>1, <1>2, <1>4 DEF Excess
<1>5. CASE rate = 12
  BY <1>1, <1>2, <1>5 DEF Excess
<1>6. CASE rate = 36
  BY <1>1, <1>2, <1>6 DEF Excess
<1>7. CASE rate = 60
  BY <1>1, <1>2, <1>7 DEF Excess
<1>8. CASE rate \notin {12, 20, 36, 60}
  <2>1. Excess(rate) \in Int /\ Excess(rate) <= 0
    BY <1>3, <1>8 DEF Excess, Rates
  <2>2. (2 * n + 1) * Excess(rate) <= 0
    BY <2>1
  <2>3. 2 * (100 - rate) * p >= 0
    BY <1>1 DEF Rates
  <2> QED
    BY <2>1, <2>2, <2>3, <1>1, <1>2 DEF Rates
<1> QED
  BY <1>4, <1>5, <1>6, <1>7, <1>8

LEMMA ModIsRest ==
    ASSUME NEW n \in Int, NEW m \in Int, m > 0
    PROVE  n \div m \in Int /\ n % m = n - m * (n \div m)
  BY SMTT(60)

\* RoundHalfUp as bounds.
LEMMA RoundHalfUpDiv ==
    ASSUME NEW c \in Nat, NEW share \in 1..100
    PROVE  /\ RoundHalfUp(c, share) \in Int
           /\ (2 * share) * RoundHalfUp(c, share) <= 200 * c + share
           /\ 200 * c + share < (2 * share) * RoundHalfUp(c, share) + 2 * share
<1> DEFINE n == 200 * c + share
           m == 2 * share
<1>1. n \in Int /\ m \in Nat \ {0}
  OBVIOUS
<1>2. RoundHalfUp(c, share) = n \div m
  BY DEF RoundHalfUp
<1> HIDE DEF n, m
<1>3. n \div m \in Int /\ m * (n \div m) <= n /\ n < m * (n \div m) + m
  BY <1>1, DivBounds
<1> QED
  BY <1>2, <1>3 DEF n, m

\* The rounded quotient is within one half of the quotient, and not less than the cost.
LEMMA RoundHalfUpBounds ==
    ASSUME NEW c \in Nat, NEW share \in 1..100
    PROVE  LET z == RoundHalfUp(c, share)
           IN  /\ z \in Int
               /\ 2 * (z * share) <= 200 * c + share
               /\ 200 * c < 2 * (z * share) + share
               /\ z >= c
<1> DEFINE z == RoundHalfUp(c, share)
<1>1. /\ z \in Int
      /\ (2 * share) * z <= 200 * c + share
      /\ 200 * c + share < (2 * share) * z + 2 * share
  BY RoundHalfUpDiv
<1> HIDE DEF z
<1>2. (2 * share) * z = 2 * (z * share) /\ z * share \in Int
  BY <1>1
<1>3. /\ 2 * (z * share) <= 200 * c + share
      /\ 200 * c < 2 * (z * share) + share
  BY <1>1, <1>2
<1>4. z >= c
  <2>1. SUFFICES ASSUME z + 1 <= c PROVE FALSE
    BY <1>1
  <2>2. (z + 1) * share <= c * share /\ c * share <= c * 100
    BY <1>1, <2>1
  <2>3. (z + 1) * share = z * share + share
    BY <1>1
  <2> QED
    BY <1>2, <1>3, <2>2, <2>3
<1> QED
  BY <1>1, <1>3, <1>4 DEF z

\* Where the quotient ends in one half, the number below it is one less than the rounded
\* quotient, and not 0.
LEMMA TieBounds ==
    ASSUME NEW c \in Nat, NEW share \in 1..99, IsTie(c, share)
    PROVE  LET half == (100 * c) \div share
           IN  /\ half \in Nat \ {0}
               /\ half = RoundHalfUp(c, share) - 1
               /\ half <= 100 * c
               /\ half >= c
               /\ 200 * c = 2 * (half * share) + share
<1> DEFINE half == (100 * c) \div share
           z == RoundHalfUp(c, share)
           k == (200 * c) \div (2 * share)
<1>1. half \in Int /\ share * half <= 100 * c /\ 100 * c < share * half + share
  BY DivBounds
<1>2. /\ z \in Int
      /\ (2 * share) * z <= 200 * c + share
      /\ 200 * c + share < (2 * share) * z + 2 * share
  <2>1. share \in 1..100
    OBVIOUS
  <2> QED
    BY <2>1, RoundHalfUpDiv
<1>3. k \in Int /\ 200 * c = (2 * share) * k + share
  <2> DEFINE n == 200 * c
             m == 2 * share
  <2>2. n \in Int /\ m \in Int /\ m > 0
    OBVIOUS
  <2>3. n % m = share /\ k = n \div m
    BY DEF IsTie
  <2> HIDE DEF n, m, k
  <2>4. k \in Int /\ share = n - m * k
    BY <2>2, <2>3, ModIsRest
  <2>5. m * k \in Int
    BY <2>2, <2>4
  <2>6. n = m * k + share
    BY <2>2, <2>4, <2>5
  <2> QED
    BY <2>4, <2>6 DEF n, m
<1> HIDE DEF half, z, k
<1>4. half = k
  <2>1. share * (2 * half) <= share * (2 * k + 1) /\ share * (2 * k + 1) < share * (2 * half + 2)
    BY <1>1, <1>3
  <2>2. 2 * half <= 2 * k + 1 /\ 2 * k + 1 < 2 * half + 2
    BY <2>1, <1>1, <1>3
  <2> QED
    BY <2>2, <1>1, <1>3
<1>5. z = k + 1
  <2>1. (2 * share) * z <= (2 * share) * (k + 1) /\ (2 * share) * (k + 1) < (2 * share) * (z + 1)
    BY <1>2, <1>3
  <2>2. z <= k + 1 /\ k + 1 < z + 1
    BY <2>1, <1>2, <1>3
  <2> QED
    BY <2>2, <1>2, <1>3
<1>6. c # 0
  BY <1>3
<1>7. half >= 1
  <2>1. SUFFICES ASSUME half <= 0 PROVE FALSE
    BY <1>1
  <2>2. share * half <= 0
    BY <2>1, <1>1
  <2> QED
    BY <1>1, <1>6, <2>2
<1>8. half <= 100 * c
  <2>1. half <= share * half
    BY <1>1, <1>7
  <2> QED
    BY <2>1, <1>1
<1>9. 200 * c = 2 * (half * share) + share
  BY <1>1, <1>3, <1>4
<1>10. half >= c
  <2>1. SUFFICES ASSUME half + 1 <= c PROVE FALSE
    BY <1>1
  <2>2. share * (half + 1) <= share * c /\ share * c <= 99 * c
    BY <1>1, <2>1
  <2>3. share * (half + 1) = half * share + share
    BY <1>1
  <2> QED
    BY <1>1, <1>6, <1>9, <2>2, <2>3
<1> QED
  BY <1>1, <1>2, <1>4, <1>5, <1>7, <1>8, <1>9, <1>10 DEF half, z

\* What customerChargeJPY gives: a nearest integer, no less than the cost, and the upper one
\* of two that are equally near but for two rates.
LEMMA ChargeBounds ==
    ASSUME NEW c \in Nat, c <= MaxCost, NEW rate \in Rates
    PROVE  LET x == CustomerCharge(c, rate)
               share == 100 - rate
               z == RoundHalfUp(c, share)
           IN  /\ x \in Int
               /\ 2 * (x * share - 100 * c) <= share
               /\ -2 * (x * share - 100 * c) <= share
               /\ x >= c
               /\ x = z \/ (rate \in {44, 84} /\ IsTie(c, share) /\ x = z - 1)
<1> DEFINE x == CustomerCharge(c, rate)
           share == 100 - rate
           z == RoundHalfUp(c, share)
           half == (100 * c) \div share
<1>1. share \in 1..100 /\ (rate # 0 => share \in 1..99)
  BY DEF Rates
<1>2. /\ z \in Int
      /\ 2 * (z * share) <= 200 * c + share
      /\ 200 * c < 2 * (z * share) + share
      /\ z >= c
  BY <1>1, RoundHalfUpBounds
<1>3. CASE rate = 0
  <2>1. x = c /\ share = 100
    BY <1>3 DEF CustomerCharge
  <2> HIDE DEF x, z, share
  <2>2. z = c
    BY <1>2, <2>1
  <2> QED
    BY <2>1, <2>2, <1>1 DEF x, z, share
<1>4. CASE rate # 0 /\ IsTie(c, share) /\ FallsShort(half, rate)
  <2>1. x = half
    BY <1>4 DEF CustomerCharge
  <2>2. /\ half \in Nat \ {0} /\ half = z - 1 /\ half <= 100 * c /\ half >= c
        /\ 200 * c = 2 * (half * share) + share
    <3>1. share \in 1..99 /\ IsTie(c, share)
      BY <1>1, <1>4
    <3> HIDE DEF share
    <3> QED
      BY <3>1, TieBounds
  <2>3. half < ScaleLimit
    BY <2>2, SMT DEF MaxCost, ScaleLimit
  <2>4. rate \in {44, 84}
    BY <1>4, <2>2, <2>3, FallsAtTwoRates
  <2> HIDE DEF x, z, half, share
  <2>5. /\ 2 * (x * share - 100 * c) <= share
        /\ -2 * (x * share - 100 * c) <= share
    BY <1>1, <2>1, <2>2
  <2> QED
    BY <1>4, <2>1, <2>2, <2>4, <2>5 DEF x, z, share
<1>5. CASE rate # 0 /\ ~(IsTie(c, share) /\ FallsShort(half, rate))
  <2>1. x = z
    BY <1>5 DEF CustomerCharge
  <2> HIDE DEF x, z, half, share
  <2>2. /\ 2 * (x * share - 100 * c) <= share
        /\ -2 * (x * share - 100 * c) <= share
    BY <1>1, <1>2, <2>1
  <2> QED
    BY <1>2, <2>1, <2>2 DEF x, z, share
<1> QED
  BY <1>3, <1>4, <1>5

-----------------------------------------------------------------------------
\* The invariant of the batch.

\* The list comes from its beginning on, and the run has all of it before it writes.
Prefix(S) == S \subseteq Listing /\ \A a \in S : UpTo(a) \subseteq S

ListInv(b) ==
    /\ pc[b] = "idle" => listed[b] = {}
    /\ pc[b] = "list" => Prefix(listed[b])
    /\ pc[b] \in {"upsert", "select"} => listed[b] = Listing

TodoInv(b) ==
    /\ pc[b] \in {"upsert", "drop", "fetch", "save"} => todo[b] # {}
    /\ pc[b] = "upsert" => todo[b] \subseteq Listing
    /\ pc[b] = "drop" => todo[b] \cap Listing = {}
    /\ pc[b] = "done" => todo[b] = {}

\* What a run has brought to ad_accounts, no other run takes away.
AccountsInv(b) ==
    /\ pc[b] = "upsert" => \A a \in Listing \ todo[b] : account[a] = medium[a]
    /\ pc[b] \in {"select", "drop", "load", "fetch", "save", "done"} =>
           \A a \in Listing : account[a] = medium[a]
    /\ pc[b] = "drop" => \A a \in Accounts \ (Listing \cup todo[b]) : ~Live(a)
    /\ pc[b] \in {"load", "fetch", "save", "done"} => \A a \in Accounts \ Listing : ~Live(a)

\* What the flags promise lies in the range, and is final.
RangeInv(b) ==
    pc[b] # "idle" =>
        /\ asOf[b] <= LastFinalizedDate(now)
        /\ \A d \in Promised(b) : /\ d \in Int /\ d <= asOf[b]
                                   /\ range[b].from <= d /\ d <= range[b].to
        /\ pc[b] \in {"list", "upsert", "select", "drop", "load"} => from[b] = range[b].from

\* The promised days of the accounts that a run has left behind, of the chunks it has
\* left behind, and of the chunk that it is saving.
DataInv(b) ==
    /\ pc[b] \in {"fetch", "save", "done"} =>
           \A a \in Accounts \ todo[b] :
               medium[a] = "active" => \A d \in Promised(b) : <<a, d>> \in data
    /\ pc[b] \in {"fetch", "save"} /\ medium[Pick(todo[b])] = "active" =>
           \A d \in Promised(b) : d < from[b] => <<Pick(todo[b]), d>> \in data
    /\ pc[b] = "save" /\ medium[Pick(todo[b])] = "active" =>
           \A d \in Promised(b) :
               d <= ChunkEnd(from[b], range[b].to) => <<Pick(todo[b]), d>> \in data \/ d \in rows[b]
    /\ pc[b] = "save" => rows[b] # {}

RunInv(b) == ListInv(b) /\ TodoInv(b) /\ AccountsInv(b) /\ RangeInv(b) /\ DataInv(b)

BatchInv == BatchTypeOK /\ \A b \in Runs : RunInv(b)

-----------------------------------------------------------------------------
\* Lemmas.

LEMMA PickIn ==
    ASSUME NEW S, S # {}
    PROVE  Pick(S) \in S
  BY DEF Pick

\* What a run knows stays true as long as the medium is as it is and the clock does not go
\* back, rows are only added to ad_data, and ad_accounts is only brought nearer to the
\* medium.
LEMMA Frame ==
    ASSUME BatchTypeOK, NEW b \in Runs, RunInv(b),
           medium' = medium,
           LastFinalizedDate(now) <= LastFinalizedDate(now)', LastFinalizedDate(now)' \in Int,
           data \subseteq data',
           \A a \in Listing : account'[a] = account[a] \/ account'[a] = medium[a],
           \A a \in Accounts \ Listing : account'[a] = account[a] \/ account'[a] = "deleted",
           pc'[b] = pc[b], mode'[b] = mode[b], range'[b] = range[b], asOf'[b] = asOf[b],
           listed'[b] = listed[b], todo'[b] = todo[b], from'[b] = from[b], rows'[b] = rows[b]
    PROVE  RunInv(b)'
<1>1. Listing' = Listing /\ Promised(b)' = Promised(b)
  BY DEF Listing, Promised
<1>2. ListInv(b)'
  BY <1>1 DEF RunInv, ListInv, Prefix, UpTo
<1>3. TodoInv(b)'
  BY <1>1 DEF RunInv, TodoInv
<1>4. AccountsInv(b)'
  BY <1>1 DEF RunInv, AccountsInv, Live
<1>5. RangeInv(b)'
  BY <1>1 DEF RunInv, RangeInv, BatchTypeOK, LastFinalizedDate
<1>6. DataInv(b)'
  BY <1>1 DEF RunInv, DataInv, ChunkEnd
<1> QED
  BY <1>2, <1>3, <1>4, <1>5, <1>6 DEF RunInv

\* The last final day is a number.
LEMMA FinalType ==
    ASSUME BatchTypeOK
    PROVE  LastFinalizedDate(now) \in Int
  BY DEF BatchTypeOK, LastFinalizedDate

LEMMA InitInv == Init => BatchInv
<1> SUFFICES ASSUME Init PROVE BatchInv
  OBVIOUS
<1>1. BatchTypeOK
  BY BatchAssumption DEF Init, BatchTypeOK, NoRange, FinalizeHour, RunStates, MediumStates, Accounts
<1>2. ASSUME NEW b \in Runs PROVE RunInv(b)
  <2>1. pc[b] = "idle" /\ listed[b] = {}
    BY DEF Init
  <2> QED
    BY <2>1 DEF RunInv, ListInv, TodoInv, AccountsInv, RangeInv, DataInv
<1> QED
  BY <1>1, <1>2 DEF BatchInv

-----------------------------------------------------------------------------
\* Each action keeps the invariant.

LEMMA ClockKeeps ==
    ASSUME BatchInv, TwoOClock \/ Midnight
    PROVE  BatchInv'
<1>1. /\ LastFinalizedDate(now) <= LastFinalizedDate(now)'
      /\ LastFinalizedDate(now) \in Int /\ LastFinalizedDate(now)' \in Int
      /\ now' \in [day : Int, hour : {0, FinalizeHour}]
  BY DEF BatchInv, BatchTypeOK, TwoOClock, Midnight, LastFinalizedDate, FinalizeHour
<1>2. UNCHANGED <<medium, tables, pc, flags, listed, todo, from, rows>>
  BY DEF TwoOClock, Midnight
<1>3. BatchTypeOK'
  BY <1>1, <1>2 DEF BatchInv, BatchTypeOK, tables, flags
<1>4. ASSUME NEW b \in Runs PROVE RunInv(b)'
  BY <1>1, <1>2, Frame DEF BatchInv, tables, flags
<1> QED
  BY <1>3, <1>4 DEF BatchInv

LEMMA ChangeMediumKeeps ==
    ASSUME BatchInv, ChangeMedium
    PROVE  BatchInv'
<1>1. BatchTypeOK'
  <2>1. medium' \in [Accounts -> MediumStates]
    BY BatchAssumption DEF ChangeMedium, Accounts, MediumStates
  <2> QED
    BY <2>1 DEF BatchInv, BatchTypeOK, ChangeMedium, tables, flags, LastFinalizedDate
<1>2. ASSUME NEW b \in Runs PROVE RunInv(b)'
  <2>1. pc'[b] = "idle" /\ listed'[b] = {}
    BY DEF ChangeMedium, BatchInv, RunInv, ListInv
  <2> QED
    BY <2>1 DEF RunInv, ListInv, TodoInv, AccountsInv, RangeInv, DataInv
<1> QED
  BY <1>1, <1>2 DEF BatchInv

LEMMA QuitKeeps ==
    ASSUME BatchInv, NEW b \in Runs, Quit(b)
    PROVE  BatchInv'
<1>1. BatchTypeOK'
  BY DEF BatchInv, BatchTypeOK, Quit, Goto, NoRange, RunStates, tables, LastFinalizedDate
<1>2. RunInv(b)'
  <2>1. pc'[b] = "idle" /\ listed'[b] = {}
    BY DEF BatchInv, BatchTypeOK, Quit, Goto
  <2> QED
    BY <2>1 DEF RunInv, ListInv, TodoInv, AccountsInv, RangeInv, DataInv
<1>3. ASSUME NEW c \in Runs \ {b} PROVE RunInv(c)'
  <2>1. LastFinalizedDate(now)' = LastFinalizedDate(now) /\ LastFinalizedDate(now) \in Int
    BY FinalType DEF BatchInv, Quit, LastFinalizedDate
  <2> QED
    BY <2>1, Frame DEF BatchInv, BatchTypeOK, Quit, Goto, tables
<1> QED
  BY <1>1, <1>2, <1>3 DEF BatchInv

\* The days that the flags promise, at the start of a run.
LEMMA PromisedInRange ==
    ASSUME BatchTypeOK, NEW b \in Runs, Start(b)
    PROVE  /\ asOf'[b] = LastFinalizedDate(now)
           /\ from'[b] = range'[b].from
           /\ mode'[b] \in {"default", "full", "date"}
           /\ range'[b] \in [from : Int, to : Int]
           /\ \A d \in Promised(b)' : /\ d \in Int /\ d <= asOf'[b]
                                      /\ range'[b].from <= d /\ d <= range'[b].to
<1> DEFINE last == LastFinalizedDate(now)
<1>1. last \in Int
  BY FinalType
<1> HIDE DEF last
<1>2. CASE Begin(b, "default", DefaultDateRange)
  <2>1. asOf'[b] = last /\ mode'[b] = "default" /\ range'[b] = [from |-> last, to |-> last]
        /\ from'[b] = last
    BY <1>2 DEF BatchTypeOK, Begin, DefaultDateRange, last
  <2>2. Promised(b)' = {last}
    BY <2>1 DEF Promised
  <2> QED
    BY <1>1, <2>1, <2>2 DEF last
<1>3. CASE Begin(b, "full", FullDateRange)
  <2>1. /\ asOf'[b] = last /\ mode'[b] = "full"
        /\ range'[b] = [from |-> last - (MaxDays - 1), to |-> last]
        /\ from'[b] = last - (MaxDays - 1)
    BY <1>3 DEF BatchTypeOK, Begin, FullDateRange, last
  <2>2. Promised(b)' = {d \in (last - MaxDays)..last : last - d < MaxDays}
    BY <2>1 DEF Promised
  <2> QED
    BY <1>1, <2>1, <2>2, BatchAssumption DEF last
<1>4. ASSUME NEW d \in AskedDays, Begin(b, "date", SingleDateRange(d))
      PROVE  /\ asOf'[b] = LastFinalizedDate(now)
             /\ from'[b] = range'[b].from
             /\ mode'[b] \in {"default", "full", "date"}
             /\ range'[b] \in [from : Int, to : Int]
             /\ \A e \in Promised(b)' : /\ e \in Int /\ e <= asOf'[b]
                                        /\ range'[b].from <= e /\ e <= range'[b].to
  <2>1. asOf'[b] = last /\ mode'[b] = "date" /\ range'[b] = [from |-> d, to |-> d]
        /\ from'[b] = d /\ d \in Int
    BY <1>4, BatchAssumption DEF BatchTypeOK, Begin, SingleDateRange, last
  <2>2. Promised(b)' = {e \in {d} : e <= last}
    BY <2>1 DEF Promised
  <2> QED
    BY <1>1, <2>1, <2>2 DEF last
<1> QED
  BY <1>2, <1>3, <1>4 DEF Start

LEMMA StartKeeps ==
    ASSUME BatchInv, NEW b \in Runs, Start(b)
    PROVE  BatchInv'
<1>1. PICK flag, days : Begin(b, flag, days)
  BY DEF Start
<1>2. /\ pc[b] = "idle" /\ pc' = [pc EXCEPT ![b] = "list"]
      /\ UNCHANGED <<medium, now, account, data, listed, todo, rows>>
  BY <1>1 DEF Begin, Goto, tables
<1>3. \A c \in Runs \ {b} : /\ pc'[c] = pc[c] /\ mode'[c] = mode[c] /\ range'[c] = range[c]
                              /\ asOf'[c] = asOf[c] /\ from'[c] = from[c]
  BY <1>1 DEF BatchInv, BatchTypeOK, Begin, Goto
<1>4. /\ asOf'[b] = LastFinalizedDate(now) /\ from'[b] = range'[b].from
      /\ mode'[b] \in {"default", "full", "date"} /\ range'[b] \in [from : Int, to : Int]
      /\ \A d \in Promised(b)' : /\ d \in Int /\ d <= asOf'[b]
                                 /\ range'[b].from <= d /\ d <= range'[b].to
  BY PromisedInRange DEF BatchInv
<1>5. LastFinalizedDate(now)' = LastFinalizedDate(now) /\ LastFinalizedDate(now) \in Int
  BY <1>2, FinalType DEF BatchInv, LastFinalizedDate
<1>6. BatchTypeOK'
  <2>1. /\ mode' = [mode EXCEPT ![b] = mode'[b]] /\ range' = [range EXCEPT ![b] = range'[b]]
        /\ asOf' = [asOf EXCEPT ![b] = asOf'[b]] /\ from' = [from EXCEPT ![b] = from'[b]]
    BY <1>1 DEF BatchInv, BatchTypeOK, Begin
  <2>2. /\ mode' \in [Runs -> {"default", "full", "date"}] /\ range' \in [Runs -> [from : Int, to : Int]]
        /\ asOf' \in [Runs -> Int] /\ from' \in [Runs -> Int]
    <3>1. asOf'[b] \in Int /\ from'[b] \in Int
      BY <1>4, <1>5
    <3> QED
      BY <1>4, <2>1, <3>1 DEF BatchInv, BatchTypeOK
  <2> QED
    BY <1>2, <1>5, <2>2 DEF BatchInv, BatchTypeOK, RunStates
<1>7. RunInv(b)'
  <2>1. pc'[b] = "list" /\ listed'[b] = {}
    BY <1>2 DEF BatchInv, BatchTypeOK, RunInv, ListInv
  <2> QED
    BY <1>4, <1>5, <2>1 DEF RunInv, ListInv, Prefix, TodoInv, AccountsInv, RangeInv, DataInv
<1>8. ASSUME NEW c \in Runs \ {b} PROVE RunInv(c)'
  BY <1>2, <1>3, <1>5, Frame DEF BatchInv
<1> QED
  BY <1>6, <1>7, <1>8 DEF BatchInv

\* A set of numbers has a least one.
LEMMA LeastExists ==
    ASSUME NEW S \in SUBSET Nat, S # {}
    PROVE  \E x \in S : \A y \in S : x <= y
<1>1. PICK x \in S : \A y \in S : <<y, x>> \notin OpToRel(<, Nat)
  BY NatLessThanWellFounded, WFMin
<1>2. \A y \in S : ~(y < x)
  BY <1>1 DEF OpToRel
<1> QED
  BY <1>2

\* Sets of accounts are finite.
LEMMA AccountsFinite ==
    ASSUME NEW S \in SUBSET Accounts
    PROVE  IsFiniteSet(S) /\ Cardinality(S) \in Nat
<1>1. IsFiniteSet(Accounts)
  BY BatchAssumption, FS_Interval DEF Accounts
<1> QED
  BY <1>1, FS_Subset, FS_CardinalityType

\* A page goes on where the pages before it end, and one that is empty is behind the last.
LEMMA PageGoesOn ==
    ASSUME NEW S, Prefix(S)
    PROVE  /\ Prefix(S \cup Page(Cardinality(S)))
           /\ Page(Cardinality(S)) = {} => S = Listing
<1> DEFINE n == Cardinality(S)
<1>1. Listing \subseteq Accounts /\ S \subseteq Listing /\ S \subseteq Accounts
  BY DEF Listing, Prefix
<1>2. IsFiniteSet(S) /\ n \in Nat
  BY <1>1, AccountsFinite
<1>3. \A a \in Listing : /\ IsFiniteSet(UpTo(a)) /\ Cardinality(UpTo(a)) \in Nat
                          /\ UpTo(a) \subseteq Listing /\ a \in UpTo(a) /\ a \in Nat
  <2> TAKE a \in Listing
  <2>1. UpTo(a) \subseteq Accounts /\ UpTo(a) \subseteq Listing /\ a \in UpTo(a) /\ a \in Nat
    <3>1. a \in Nat
      BY <1>1, BatchAssumption DEF Accounts
    <3>2. a <= a
      BY <3>1
    <3>3. a \in UpTo(a)
      BY <3>2 DEF UpTo
    <3>4. UpTo(a) \subseteq Listing
      BY DEF UpTo
    <3> QED
      BY <1>1, <3>1, <3>3, <3>4
  <2> QED
    BY <2>1, AccountsFinite
<1>4. \A a \in Listing : a \notin S => S \subseteq UpTo(a) \ {a}
  <2> SUFFICES ASSUME NEW a \in Listing, a \notin S, NEW c \in S PROVE c \in UpTo(a) /\ c # a
    OBVIOUS
  <2>1. c \in Listing /\ UpTo(c) \subseteq S /\ c \in Nat /\ a \in Nat
    BY <1>1, <1>3 DEF Prefix
  <2>2. ~(a <= c)
    BY <2>1 DEF UpTo
  <2> QED
    BY <2>1, <2>2 DEF UpTo
<1>5. \A a \in Listing : a \notin S => n < Cardinality(UpTo(a))
  <2> SUFFICES ASSUME NEW a \in Listing, a \notin S PROVE n < Cardinality(UpTo(a))
    OBVIOUS
  <2>1. S \cup {a} \in SUBSET UpTo(a)
    BY <1>3, <1>4
  <2>2. Cardinality(S \cup {a}) = n + 1
    BY <1>2, FS_AddElement
  <2>3. Cardinality(S \cup {a}) <= Cardinality(UpTo(a))
    BY <1>3, <2>1, FS_Subset
  <2> QED
    BY <1>2, <1>3, <2>2, <2>3
<1>6. Prefix(S \cup Page(n))
  <2>1. S \cup Page(n) \subseteq Listing
    BY <1>1 DEF Page
  <2>2. ASSUME NEW a \in Page(n), NEW c \in UpTo(a), c \notin S PROVE c \in Page(n)
    <3>1. a \in Listing /\ c \in Listing /\ Cardinality(UpTo(a)) <= n + PageSize
      BY <1>3, <2>2 DEF Page
    <3>2. c \in Nat /\ a \in Nat /\ c <= a
      BY <1>3, <2>2, <3>1 DEF UpTo
    <3>3. UpTo(c) \in SUBSET UpTo(a)
      <4>1. ASSUME NEW e \in UpTo(c) PROVE e \in UpTo(a)
        <5>1. e \in Listing /\ e <= c
          BY DEF UpTo
        <5>2. e \in Nat
          BY <1>3, <5>1
        <5> QED
          BY <3>2, <5>1, <5>2 DEF UpTo
      <4> QED
        BY <4>1
    <3>4. Cardinality(UpTo(c)) <= Cardinality(UpTo(a))
      BY <1>3, <3>1, <3>3, FS_Subset
    <3>5. n < Cardinality(UpTo(c))
      BY <1>5, <2>2, <3>1
    <3>6. Cardinality(UpTo(c)) \in Nat /\ Cardinality(UpTo(a)) \in Nat /\ n + PageSize \in Nat
      BY <1>2, <1>3, <3>1, BatchAssumption
    <3> QED
      BY <3>1, <3>4, <3>5, <3>6 DEF Page
  <2> QED
    BY <2>1, <2>2 DEF Prefix
<1>7. ASSUME Page(n) = {}, S # Listing PROVE FALSE
  <2>1. Listing \ S \in SUBSET Nat /\ Listing \ S # {}
    BY <1>1, <1>3, <1>7
  <2>2. PICK a \in Listing \ S : \A c \in Listing \ S : a <= c
    BY <2>1, LeastExists
  <2>3. UpTo(a) \in SUBSET (S \cup {a})
    <3>1. ASSUME NEW c \in UpTo(a), c \notin S PROVE c = a
      <4>1. c \in Listing \ S /\ c <= a
        BY <3>1 DEF UpTo
      <4>2. a <= c /\ a \in Nat /\ c \in Nat
        BY <2>2, <4>1, <1>3
      <4> QED
        BY <4>1, <4>2
    <3> QED
      BY <3>1
  <2>4. IsFiniteSet(S \cup {a}) /\ Cardinality(S \cup {a}) = n + 1
    BY <1>2, FS_AddElement
  <2>5. Cardinality(UpTo(a)) <= n + 1
    BY <2>3, <2>4, FS_Subset
  <2>6. n < Cardinality(UpTo(a)) /\ Cardinality(UpTo(a)) \in Nat
    BY <1>3, <1>5
  <2>7. Cardinality(UpTo(a)) <= n + PageSize
    BY <1>2, <2>5, <2>6, BatchAssumption
  <2> QED
    BY <1>7, <2>6, <2>7 DEF Page
<1> QED
  BY <1>6, <1>7

LEMMA FinalUnchanged ==
    ASSUME BatchTypeOK, UNCHANGED now
    PROVE  LastFinalizedDate(now)' = LastFinalizedDate(now) /\ LastFinalizedDate(now) \in Int
  BY FinalType DEF LastFinalizedDate

\* What Each does.
LEMMA EachDoes ==
    ASSUME BatchTypeOK, NEW b \in Runs, NEW ids \in SUBSET Accounts,
           NEW where \in RunStates, NEW next \in RunStates, Each(b, ids, where, next)
    PROVE  /\ todo' \in [Runs -> SUBSET Accounts] /\ pc' \in [Runs -> RunStates]
           /\ todo'[b] = ids /\ pc'[b] = IF ids = {} THEN next ELSE where
           /\ \A c \in Runs \ {b} : todo'[c] = todo[c] /\ pc'[c] = pc[c]
<1> DEFINE to == IF ids = {} THEN next ELSE where
<1>1. to \in RunStates
  OBVIOUS
<1>2. todo' = [todo EXCEPT ![b] = ids] /\ pc' = [pc EXCEPT ![b] = to]
  BY DEF Each, Goto
<1> HIDE DEF to
<1>3. todo' \in [Runs -> SUBSET Accounts] /\ pc' \in [Runs -> RunStates]
  BY <1>1, <1>2 DEF BatchTypeOK
<1>4. /\ todo'[b] = ids /\ pc'[b] = to
      /\ \A c \in Runs \ {b} : todo'[c] = todo[c] /\ pc'[c] = pc[c]
  BY <1>2 DEF BatchTypeOK
<1> QED
  BY <1>3, <1>4 DEF to

LEMMA ListPageKeeps ==
    ASSUME BatchInv, NEW b \in Runs, ListPage(b)
    PROVE  BatchInv'
<1> DEFINE page == Page(Cardinality(listed[b]))
           all == listed[b] \cup page
           ended == Cardinality(all) >= Cardinality(Listing) \/ page = {}
<1>1. BatchTypeOK /\ RunInv(b) /\ pc[b] = "list" /\ Prefix(listed[b])
  BY DEF BatchInv, ListPage, RunInv, ListInv
<1>2. /\ UNCHANGED <<medium, now, account, data, mode, range, asOf, from, rows>>
      /\ listed' = [listed EXCEPT ![b] = all]
  BY DEF ListPage, tables, flags
<1>3. Prefix(all) /\ (page = {} => listed[b] = Listing)
  BY <1>1, PageGoesOn
<1>4. all \in SUBSET Listing /\ Listing \subseteq Accounts
  BY <1>3 DEF Prefix, Listing
<1>5. ended => all = Listing
  <2>1. CASE page = {}
    BY <1>3, <2>1
  <2>2. CASE Cardinality(all) >= Cardinality(Listing)
    <3>1. IsFiniteSet(Listing) /\ Cardinality(Listing) \in Nat /\ Cardinality(all) \in Nat
      BY <1>4, AccountsFinite
    <3>2. Cardinality(all) <= Cardinality(Listing)
      BY <1>4, <3>1, FS_Subset
    <3>3. Cardinality(all) = Cardinality(Listing)
      BY <2>2, <3>1, <3>2
    <3> QED
      BY <1>4, <3>1, <3>3, FS_Subset
  <2> QED
    BY <2>1, <2>2
<1>6. IF ended THEN Each(b, all, "upsert", "select") ELSE UNCHANGED <<todo, pc>>
  BY DEF ListPage
<1>7. Listing' = Listing /\ \A a : UpTo(a)' = UpTo(a)
  BY <1>2 DEF Listing, UpTo
<1> HIDE DEF all, page, ended
<1>8. LastFinalizedDate(now)' = LastFinalizedDate(now) /\ LastFinalizedDate(now) \in Int
  BY <1>1, <1>2, FinalUnchanged
<1>9. BatchTypeOK'
  <2>1. listed' \in [Runs -> SUBSET Accounts]
    BY <1>1, <1>2, <1>4 DEF BatchTypeOK
  <2>2. todo' \in [Runs -> SUBSET Accounts] /\ pc' \in [Runs -> RunStates]
    <3>1. CASE ended
      <4>1. all \in SUBSET Accounts /\ "upsert" \in RunStates /\ "select" \in RunStates
        BY <1>4 DEF RunStates
      <4> QED
        BY <1>1, <1>6, <3>1, <4>1, EachDoes
    <3>2. CASE ~ended
      BY <1>1, <1>6, <3>2 DEF BatchTypeOK
    <3> QED
      BY <3>1, <3>2
  <2> QED
    BY <1>1, <1>2, <1>8, <2>1, <2>2 DEF BatchTypeOK
<1>10. RunInv(b)'
  <2>1. listed'[b] = all
    BY <1>1, <1>2 DEF BatchTypeOK
  <2>2. CASE ~ended
    <3>1. pc'[b] = "list"
      BY <1>1, <1>6, <2>2
    <3>2. ListInv(b)'
      <4>1. Prefix(listed[b])'
        BY <1>3, <1>7, <2>1 DEF Prefix
      <4> QED
        BY <3>1, <4>1 DEF ListInv
    <3>3. RangeInv(b)'
      BY <1>1, <1>2, <1>8, <3>1 DEF RunInv, RangeInv, Promised
    <3> QED
      BY <3>1, <3>2, <3>3 DEF RunInv, TodoInv, AccountsInv, DataInv
  <2>3. CASE ended
    <3>1. /\ all = Listing /\ todo'[b] = Listing
          /\ pc'[b] = IF Listing = {} THEN "select" ELSE "upsert"
      BY <1>1, <1>5, <1>6, <2>3 DEF BatchTypeOK, Each, Goto
    <3>2. ListInv(b)' /\ TodoInv(b)' /\ AccountsInv(b)'
      BY <1>2, <1>7, <2>1, <3>1 DEF ListInv, TodoInv, AccountsInv
    <3>3. RangeInv(b)'
      BY <1>1, <1>2, <1>8, <3>1 DEF RunInv, RangeInv, Promised
    <3>4. DataInv(b)'
      BY <3>1 DEF DataInv
    <3> QED
      BY <3>2, <3>3, <3>4 DEF RunInv
  <2> QED
    BY <2>2, <2>3
<1>11. ASSUME NEW c \in Runs \ {b} PROVE RunInv(c)'
  <2>1. listed'[c] = listed[c] /\ todo'[c] = todo[c] /\ pc'[c] = pc[c]
    BY <1>1, <1>2, <1>6 DEF BatchTypeOK, Each, Goto
  <2> QED
    BY <1>1, <1>2, <1>8, <2>1, Frame DEF BatchInv
<1> QED
  BY <1>9, <1>10, <1>11 DEF BatchInv

LEMMA UpsertAccountKeeps ==
    ASSUME BatchInv, NEW b \in Runs, UpsertAccount(b)
    PROVE  BatchInv'
<1> DEFINE a == Pick(todo[b])
           ids == todo[b] \ {a}
<1>1. BatchTypeOK /\ RunInv(b) /\ pc[b] = "upsert" /\ listed[b] = Listing
  BY DEF BatchInv, UpsertAccount, RunInv, ListInv
<1>2. a \in todo[b] /\ todo[b] \subseteq Listing
  BY <1>1, PickIn DEF RunInv, TodoInv
<1>3. Listing \subseteq Accounts /\ ids \in SUBSET Accounts /\ a \in Accounts /\ medium[a] \in MediumStates
  BY <1>1, <1>2 DEF Listing, BatchTypeOK
<1>4. /\ UNCHANGED <<medium, now, data, mode, range, asOf, listed, from, rows>>
      /\ account' = [account EXCEPT ![a] = medium[a]]
      /\ Each(b, ids, "upsert", "select")
  BY DEF UpsertAccount, Rest, flags
<1> HIDE DEF a, ids
<1>5. /\ todo' \in [Runs -> SUBSET Accounts] /\ pc' \in [Runs -> RunStates]
      /\ todo'[b] = ids /\ pc'[b] = IF ids = {} THEN "select" ELSE "upsert"
      /\ \A c \in Runs \ {b} : todo'[c] = todo[c] /\ pc'[c] = pc[c]
  <2>1. "upsert" \in RunStates /\ "select" \in RunStates
    BY DEF RunStates
  <2> QED
    BY <1>1, <1>3, <1>4, <2>1, EachDoes
<1>6. LastFinalizedDate(now)' = LastFinalizedDate(now) /\ LastFinalizedDate(now) \in Int
  BY <1>1, <1>4, FinalUnchanged
<1>7. /\ account' \in [Accounts -> MediumStates \cup {"deleted"}] /\ account'[a] = medium[a]
      /\ \A c \in Accounts \ {a} : account'[c] = account[c]
  BY <1>1, <1>3, <1>4 DEF BatchTypeOK
<1>8. BatchTypeOK'
  BY <1>1, <1>4, <1>5, <1>6, <1>7 DEF BatchTypeOK
<1>9. RunInv(b)'
  <2>1. Listing' = Listing /\ ids \subseteq Listing
    BY <1>2, <1>4 DEF Listing, ids
  <2>2. ListInv(b)' /\ TodoInv(b)'
    BY <1>1, <1>4, <1>5, <2>1 DEF ListInv, TodoInv
  <2>3. AccountsInv(b)'
    <3>1. \A c \in Listing \ ids : account'[c] = medium[c]
      BY <1>1, <1>3, <1>7 DEF RunInv, AccountsInv, ids
    <3> QED
      BY <1>4, <1>5, <2>1, <3>1 DEF AccountsInv
  <2>4. RangeInv(b)'
    BY <1>1, <1>4, <1>5, <1>6 DEF RunInv, RangeInv, Promised
  <2>5. DataInv(b)'
    BY <1>5 DEF DataInv
  <2> QED
    BY <2>2, <2>3, <2>4, <2>5 DEF RunInv
<1>10. ASSUME NEW c \in Runs \ {b} PROVE RunInv(c)'
  BY <1>1, <1>2, <1>3, <1>4, <1>5, <1>6, <1>7, Frame DEF BatchInv
<1> QED
  BY <1>8, <1>9, <1>10 DEF BatchInv

LEMMA SelectUnlistedKeeps ==
    ASSUME BatchInv, NEW b \in Runs, SelectUnlisted(b)
    PROVE  BatchInv'
<1> DEFINE ids == {a \in Accounts : Live(a)} \ listed[b]
<1>1. BatchTypeOK /\ RunInv(b) /\ pc[b] = "select" /\ listed[b] = Listing
  BY DEF BatchInv, SelectUnlisted, RunInv, ListInv
<1>2. ids \in SUBSET Accounts /\ ids \cap Listing = {} /\ \A a \in Accounts \ (Listing \cup ids) : ~Live(a)
  BY <1>1
<1>3. /\ UNCHANGED <<medium, now, account, data, mode, range, asOf, from, rows>>
      /\ listed' = [listed EXCEPT ![b] = {}]
      /\ Each(b, ids, "drop", "load")
  BY DEF SelectUnlisted, tables, flags
<1> HIDE DEF ids
<1>4. /\ todo' \in [Runs -> SUBSET Accounts] /\ pc' \in [Runs -> RunStates]
      /\ todo'[b] = ids /\ pc'[b] = IF ids = {} THEN "load" ELSE "drop"
      /\ \A c \in Runs \ {b} : todo'[c] = todo[c] /\ pc'[c] = pc[c]
  <2>1. "drop" \in RunStates /\ "load" \in RunStates
    BY DEF RunStates
  <2> QED
    BY <1>1, <1>2, <1>3, <2>1, EachDoes
<1>5. LastFinalizedDate(now)' = LastFinalizedDate(now) /\ LastFinalizedDate(now) \in Int
  BY <1>1, <1>3, FinalUnchanged
<1>6. /\ listed' \in [Runs -> SUBSET Accounts]
      /\ \A c \in Runs \ {b} : listed'[c] = listed[c]
  BY <1>1, <1>3 DEF BatchTypeOK
<1>7. BatchTypeOK'
  BY <1>1, <1>3, <1>4, <1>5, <1>6 DEF BatchTypeOK
<1>8. RunInv(b)'
  <2>1. Listing' = Listing
    BY <1>3 DEF Listing
  <2>2. ListInv(b)' /\ TodoInv(b)'
    BY <1>2, <1>4, <2>1 DEF ListInv, TodoInv
  <2>3. AccountsInv(b)'
    BY <1>1, <1>2, <1>3, <1>4, <2>1 DEF RunInv, AccountsInv, Live
  <2>4. RangeInv(b)'
    BY <1>1, <1>3, <1>4, <1>5 DEF RunInv, RangeInv, Promised
  <2>5. DataInv(b)'
    BY <1>4 DEF DataInv
  <2> QED
    BY <2>2, <2>3, <2>4, <2>5 DEF RunInv
<1>9. ASSUME NEW c \in Runs \ {b} PROVE RunInv(c)'
  BY <1>1, <1>3, <1>4, <1>5, <1>6, Frame DEF BatchInv
<1> QED
  BY <1>7, <1>8, <1>9 DEF BatchInv

LEMMA SoftDeleteAccountKeeps ==
    ASSUME BatchInv, NEW b \in Runs, SoftDeleteAccount(b)
    PROVE  BatchInv'
<1> DEFINE a == Pick(todo[b])
           ids == todo[b] \ {a}
<1>1. BatchTypeOK /\ RunInv(b) /\ pc[b] = "drop"
  BY DEF BatchInv, SoftDeleteAccount
<1>2. a \in todo[b] /\ todo[b] \cap Listing = {}
  BY <1>1, PickIn DEF RunInv, TodoInv
<1>3. ids \in SUBSET Accounts /\ a \in Accounts /\ a \notin Listing
  BY <1>1, <1>2 DEF BatchTypeOK
<1>4. /\ UNCHANGED <<medium, now, data, mode, range, asOf, listed, from, rows>>
      /\ account' = [account EXCEPT ![a] = "deleted"]
      /\ Each(b, ids, "drop", "load")
  BY DEF SoftDeleteAccount, Rest, flags
<1> HIDE DEF a, ids
<1>5. /\ todo' \in [Runs -> SUBSET Accounts] /\ pc' \in [Runs -> RunStates]
      /\ todo'[b] = ids /\ pc'[b] = IF ids = {} THEN "load" ELSE "drop"
      /\ \A c \in Runs \ {b} : todo'[c] = todo[c] /\ pc'[c] = pc[c]
  <2>1. "drop" \in RunStates /\ "load" \in RunStates
    BY DEF RunStates
  <2> QED
    BY <1>1, <1>3, <1>4, <2>1, EachDoes
<1>6. LastFinalizedDate(now)' = LastFinalizedDate(now) /\ LastFinalizedDate(now) \in Int
  BY <1>1, <1>4, FinalUnchanged
<1>7. /\ account' \in [Accounts -> MediumStates \cup {"deleted"}] /\ account'[a] = "deleted"
      /\ \A c \in Accounts \ {a} : account'[c] = account[c]
  BY <1>1, <1>3, <1>4 DEF BatchTypeOK
<1>8. BatchTypeOK'
  BY <1>1, <1>4, <1>5, <1>6, <1>7 DEF BatchTypeOK
<1>9. Listing' = Listing /\ Listing \subseteq Accounts
  BY <1>4 DEF Listing
<1>10. RunInv(b)'
  <2>1. ids \cap Listing = {}
    BY <1>2 DEF ids
  <2>2. ListInv(b)' /\ TodoInv(b)'
    BY <1>5, <1>9, <2>1 DEF ListInv, TodoInv
  <2>3. AccountsInv(b)'
    <3>1. \A c \in Listing : account'[c] = medium[c]
      BY <1>1, <1>3, <1>7, <1>9 DEF RunInv, AccountsInv
    <3>2. \A c \in Accounts \ (Listing \cup ids) : account'[c] \notin {"active", "paused"}
      BY <1>1, <1>7 DEF RunInv, AccountsInv, Live, ids
    <3> QED
      BY <1>4, <1>5, <1>9, <3>1, <3>2 DEF AccountsInv, Live
  <2>4. RangeInv(b)'
    BY <1>1, <1>4, <1>5, <1>6 DEF RunInv, RangeInv, Promised
  <2>5. DataInv(b)'
    BY <1>5 DEF DataInv
  <2> QED
    BY <2>2, <2>3, <2>4, <2>5 DEF RunInv
<1>11. ASSUME NEW c \in Runs \ {b} PROVE RunInv(c)'
  BY <1>1, <1>3, <1>4, <1>5, <1>6, <1>7, <1>9, Frame DEF BatchInv
<1> QED
  BY <1>8, <1>10, <1>11 DEF BatchInv

LEMMA LoadActiveKeeps ==
    ASSUME BatchInv, NEW b \in Runs, LoadActiveAccountIDs(b)
    PROVE  BatchInv'
<1> DEFINE ids == {a \in Accounts : account[a] = "active"}
<1>1. BatchTypeOK /\ RunInv(b) /\ pc[b] = "load" /\ ids \in SUBSET Accounts
  BY DEF BatchInv, LoadActiveAccountIDs
<1>2. /\ UNCHANGED <<medium, now, account, data, mode, range, asOf, listed, from, rows>>
      /\ Each(b, ids, "fetch", "done")
  BY DEF LoadActiveAccountIDs, tables, flags
<1>3. \A a \in Accounts \ ids : medium[a] # "active"
  BY <1>1 DEF RunInv, AccountsInv, Listing
<1> HIDE DEF ids
<1>4. /\ todo' \in [Runs -> SUBSET Accounts] /\ pc' \in [Runs -> RunStates]
      /\ todo'[b] = ids /\ pc'[b] = IF ids = {} THEN "done" ELSE "fetch"
      /\ \A c \in Runs \ {b} : todo'[c] = todo[c] /\ pc'[c] = pc[c]
  <2>1. "fetch" \in RunStates /\ "done" \in RunStates
    BY DEF RunStates
  <2> QED
    BY <1>1, <1>2, <2>1, EachDoes
<1>5. LastFinalizedDate(now)' = LastFinalizedDate(now) /\ LastFinalizedDate(now) \in Int
  BY <1>1, <1>2, FinalUnchanged
<1>6. BatchTypeOK'
  BY <1>1, <1>2, <1>4, <1>5 DEF BatchTypeOK
<1>7. RunInv(b)'
  <2>1. Listing' = Listing /\ Promised(b)' = Promised(b)
    BY <1>2 DEF Listing, Promised
  <2>2. ListInv(b)' /\ TodoInv(b)'
    BY <1>4, <2>1 DEF ListInv, TodoInv
  <2>3. AccountsInv(b)'
    BY <1>1, <1>2, <1>4, <2>1 DEF RunInv, AccountsInv, Live
  <2>4. RangeInv(b)'
    BY <1>1, <1>2, <1>4, <1>5, <2>1 DEF RunInv, RangeInv
  <2>5. DataInv(b)'
    <3>1. \A d \in Promised(b) : ~(d < from[b])
      <4>1. from[b] = range[b].from /\ range[b].from \in Int
        BY <1>1 DEF RunInv, RangeInv, BatchTypeOK
      <4>2. \A d \in Promised(b) : d \in Int /\ range[b].from <= d
        BY <1>1 DEF RunInv, RangeInv
      <4> QED
        BY <4>1, <4>2
    <3> QED
      BY <1>2, <1>3, <1>4, <2>1, <3>1 DEF DataInv
  <2> QED
    BY <2>2, <2>3, <2>4, <2>5 DEF RunInv
<1>8. ASSUME NEW c \in Runs \ {b} PROVE RunInv(c)'
  BY <1>1, <1>2, <1>4, <1>5, Frame DEF BatchInv
<1> QED
  BY <1>6, <1>7, <1>8 DEF BatchInv

\* A run goes on to the next account when it has what it promised of this one.
LEMMA NextAccountKeeps ==
    ASSUME BatchTypeOK, NEW b \in Runs, RunInv(b), pc[b] \in {"fetch", "save"}, NextAccount(b),
           UNCHANGED <<medium, now, account, mode, range, asOf, listed>>, data \subseteq data',
           medium[Pick(todo[b])] = "active" =>
               \A d \in Promised(b) : <<Pick(todo[b]), d>> \in data'
    PROVE  /\ RunInv(b)'
           /\ todo' \in [Runs -> SUBSET Accounts] /\ pc' \in [Runs -> RunStates]
           /\ from' \in [Runs -> Int]
           /\ \A c \in Runs \ {b} : todo'[c] = todo[c] /\ pc'[c] = pc[c] /\ from'[c] = from[c]
<1> DEFINE a == Pick(todo[b])
           ids == todo[b] \ {a}
<1>1. ids \in SUBSET Accounts
  BY DEF BatchTypeOK
<1>2. Each(b, ids, "fetch", "done") /\ from' = [from EXCEPT ![b] = range[b].from]
  BY DEF NextAccount, Rest
<1>3. \A c \in Accounts \ ids : c \in Accounts \ todo[b] \/ c = a
  OBVIOUS
<1> HIDE DEF a, ids
<1>4. /\ todo' \in [Runs -> SUBSET Accounts] /\ pc' \in [Runs -> RunStates]
      /\ todo'[b] = ids /\ pc'[b] = IF ids = {} THEN "done" ELSE "fetch"
      /\ \A c \in Runs \ {b} : todo'[c] = todo[c] /\ pc'[c] = pc[c]
  <2>1. "fetch" \in RunStates /\ "done" \in RunStates
    BY DEF RunStates
  <2> QED
    BY <1>1, <1>2, <2>1, EachDoes
<1>5. /\ from' \in [Runs -> Int] /\ from'[b] = range[b].from /\ range[b].from \in Int
      /\ \A c \in Runs \ {b} : from'[c] = from[c]
  BY <1>2 DEF BatchTypeOK
<1>6. Listing' = Listing /\ Promised(b)' = Promised(b)
  BY DEF Listing, Promised
<1>7. ListInv(b)' /\ TodoInv(b)'
  BY <1>4, <1>6 DEF ListInv, TodoInv
<1>8. AccountsInv(b)'
  BY <1>4, <1>6 DEF RunInv, AccountsInv, Live
<1>9. RangeInv(b)'
  BY <1>4, <1>6 DEF RunInv, RangeInv, LastFinalizedDate
<1>10. DataInv(b)'
  <2>1. \A d \in Promised(b) : ~(d < from'[b])
    <3>1. \A d \in Promised(b) : d \in Int /\ range[b].from <= d
      BY DEF RunInv, RangeInv
    <3> QED
      BY <1>5, <3>1
  <2>2. \A c \in Accounts \ ids : medium[c] = "active" => \A d \in Promised(b) : <<c, d>> \in data'
    <3>1. \A c \in Accounts \ todo[b] : medium[c] = "active" => \A d \in Promised(b) : <<c, d>> \in data
      BY DEF RunInv, DataInv
    <3> QED
      BY <1>3, <3>1 DEF a
  <2> QED
    BY <1>4, <1>6, <2>1, <2>2 DEF DataInv
<1> QED
  BY <1>4, <1>5, <1>7, <1>8, <1>9, <1>10 DEF RunInv

\* The end of a chunk is a day.
LEMMA ChunkEndType ==
    ASSUME BatchTypeOK, NEW b \in Runs
    PROVE  /\ ChunkEnd(from[b], range[b].to) \in Int
           /\ from[b] \in Int /\ range[b].to \in Int
<1>1. from[b] \in Int /\ range[b].to \in Int
  BY DEF BatchTypeOK
<1> QED
  BY <1>1, BatchAssumption DEF ChunkEnd

\* A run goes on to the next chunk when it has what it promised of the chunks so far.
LEMMA NextChunkKeeps ==
    ASSUME BatchTypeOK, NEW b \in Runs, RunInv(b), pc[b] \in {"fetch", "save"}, NextChunk(b),
           UNCHANGED <<medium, now, account, mode, range, asOf, listed>>, data \subseteq data',
           medium[Pick(todo[b])] = "active" =>
               \A d \in Promised(b) :
                   d <= ChunkEnd(from[b], range[b].to) => <<Pick(todo[b]), d>> \in data'
    PROVE  /\ RunInv(b)'
           /\ todo' \in [Runs -> SUBSET Accounts] /\ pc' \in [Runs -> RunStates]
           /\ from' \in [Runs -> Int]
           /\ \A c \in Runs \ {b} : todo'[c] = todo[c] /\ pc'[c] = pc[c] /\ from'[c] = from[c]
<1> DEFINE end == ChunkEnd(from[b], range[b].to)
<1>1. end \in Int /\ range[b].to \in Int
  BY ChunkEndType
<1>2. \A d \in Promised(b) : d \in Int /\ d <= range[b].to
  BY DEF RunInv, RangeInv
<1>3. CASE end + 1 > range[b].to
  <2>1. NextAccount(b)
    BY <1>3 DEF NextChunk
  <2>2. \A d \in Promised(b) : d <= end
    BY <1>1, <1>2, <1>3
  <2> QED
    BY <2>1, <2>2, NextAccountKeeps
<1>4. CASE ~(end + 1 > range[b].to)
  <2>1. /\ from' = [from EXCEPT ![b] = end + 1] /\ pc' = [pc EXCEPT ![b] = "fetch"]
        /\ todo' = todo
    BY <1>4 DEF NextChunk, Goto
  <2> HIDE DEF end
  <2>2. /\ todo' \in [Runs -> SUBSET Accounts] /\ pc' \in [Runs -> RunStates]
        /\ from' \in [Runs -> Int] /\ from'[b] = end + 1 /\ pc'[b] = "fetch"
        /\ \A c \in Runs \ {b} : pc'[c] = pc[c] /\ from'[c] = from[c]
    BY <1>1, <2>1 DEF BatchTypeOK, RunStates
  <2>3. Listing' = Listing /\ Promised(b)' = Promised(b)
    BY DEF Listing, Promised
  <2>4. ListInv(b)' /\ TodoInv(b)'
    BY <2>1, <2>2, <2>3 DEF RunInv, ListInv, TodoInv
  <2>5. AccountsInv(b)'
    BY <2>2, <2>3 DEF RunInv, AccountsInv, Live
  <2>6. RangeInv(b)'
    BY <2>2, <2>3 DEF RunInv, RangeInv, LastFinalizedDate
  <2>7. DataInv(b)'
    <3>1. medium[Pick(todo[b])] = "active" =>
              \A d \in Promised(b) : d < end + 1 => <<Pick(todo[b]), d>> \in data'
      BY <1>1, <1>2 DEF end
    <3> QED
      BY <2>1, <2>2, <2>3, <3>1 DEF RunInv, DataInv
  <2> QED
    BY <2>1, <2>2, <2>4, <2>5, <2>6, <2>7 DEF RunInv
<1> QED
  BY <1>3, <1>4

\* What the medium answers.
LEMMA HandleReportsGives ==
    ASSUME NEW a, NEW first, NEW last
    PROVE  LET got == HandleReports(a, first, last)
           IN  \/ got.status = 400
               \/ got.status = 404 /\ medium[a] = "absent"
               \/ /\ got.status = 200
                  /\ got.days = {d \in first..last : d <= LastFinalizedDate(now)}
  BY DEF HandleReports

LEMMA GetReportsKeeps ==
    ASSUME BatchInv, NEW b \in Runs, GetReports(b)
    PROVE  BatchInv'
<1> DEFINE a == Pick(todo[b])
           end == ChunkEnd(from[b], range[b].to)
           got == HandleReports(a, from[b], end)
<1>1. BatchTypeOK /\ RunInv(b) /\ pc[b] = "fetch"
  BY DEF BatchInv, GetReports
<1>2. \/ got.status = 400
      \/ got.status = 404 /\ medium[a] = "absent"
      \/ got.status = 200 /\ got.days = {d \in from[b]..end : d <= LastFinalizedDate(now)}
  BY HandleReportsGives
<1>3. end \in Int /\ from[b] \in Int
  BY <1>1, ChunkEndType
<1>4. LastFinalizedDate(now) \in Int
  BY <1>1, FinalType
<1>5. CASE got.status = 400
  <2>1. Quit(b)
    BY <1>5 DEF GetReports
  <2> QED
    BY <2>1, QuitKeeps
<1>6. CASE got.status = 404 /\ medium[a] = "absent"
  <2>1. NextAccount(b) /\ UNCHANGED <<medium, now, account, data, mode, range, asOf, listed, rows>>
    BY <1>6 DEF GetReports, tables, flags
  <2>2. /\ RunInv(b)'
        /\ todo' \in [Runs -> SUBSET Accounts] /\ pc' \in [Runs -> RunStates]
        /\ from' \in [Runs -> Int]
        /\ \A c \in Runs \ {b} : todo'[c] = todo[c] /\ pc'[c] = pc[c] /\ from'[c] = from[c]
    BY <1>1, <1>6, <2>1, NextAccountKeeps
  <2>3. LastFinalizedDate(now)' = LastFinalizedDate(now)
    BY <2>1 DEF LastFinalizedDate
  <2>4. BatchTypeOK'
    BY <1>1, <2>1, <2>2, <2>3 DEF BatchTypeOK
  <2>5. ASSUME NEW c \in Runs \ {b} PROVE RunInv(c)'
    BY <1>1, <1>4, <2>1, <2>2, <2>3, Frame DEF BatchInv
  <2> QED
    BY <2>2, <2>4, <2>5 DEF BatchInv
<1>7. CASE got.status = 200 /\ got.days = {d \in from[b]..end : d <= LastFinalizedDate(now)}
  <2> DEFINE days == got.days
  <2>1. /\ rows' = [rows EXCEPT ![b] = days]
        /\ UNCHANGED <<medium, now, account, data, mode, range, asOf, listed>>
        /\ IF days = {} THEN NextChunk(b) ELSE Goto(b, "save") /\ UNCHANGED <<todo, from>>
    BY <1>7 DEF GetReports, tables, flags
  <2>2. days = {d \in from[b]..end : d <= LastFinalizedDate(now)}
    BY <1>7
  <2> HIDE DEF days, got, end
  <2>3. days \subseteq Int /\ \A d \in days : d <= LastFinalizedDate(now)
    BY <1>3, <2>2
  <2>4. /\ rows' \in [Runs -> SUBSET Int] /\ rows'[b] = days
        /\ \A c \in Runs \ {b} : rows'[c] = rows[c]
    BY <1>1, <2>1, <2>3 DEF BatchTypeOK
  <2>5. LastFinalizedDate(now)' = LastFinalizedDate(now)
    BY <2>1 DEF LastFinalizedDate
  <2>6. medium[a] = "active" =>
            \A d \in Promised(b) : d <= end => <<a, d>> \in data \/ d \in days
    <3> SUFFICES ASSUME medium[a] = "active", NEW d \in Promised(b), d <= end
                 PROVE  <<a, d>> \in data \/ d \in days
      OBVIOUS
    <3>1. d \in Int /\ d <= asOf[b] /\ asOf[b] <= LastFinalizedDate(now) /\ asOf[b] \in Int
      BY <1>1 DEF RunInv, RangeInv, BatchTypeOK
    <3>2. CASE d < from[b]
      BY <1>1, <3>2 DEF RunInv, DataInv
    <3>3. CASE ~(d < from[b])
      BY <1>3, <1>4, <2>2, <3>1, <3>3
    <3> QED
      BY <3>2, <3>3
  <2>7. /\ RunInv(b)'
        /\ todo' \in [Runs -> SUBSET Accounts] /\ pc' \in [Runs -> RunStates]
        /\ from' \in [Runs -> Int]
        /\ \A c \in Runs \ {b} : todo'[c] = todo[c] /\ pc'[c] = pc[c] /\ from'[c] = from[c]
    <3>1. CASE days = {}
      <4>1. NextChunk(b)
        BY <2>1, <3>1
      <4>2. medium[Pick(todo[b])] = "active" =>
                \A d \in Promised(b) :
                    d <= ChunkEnd(from[b], range[b].to) => <<Pick(todo[b]), d>> \in data'
        BY <2>1, <2>6, <3>1 DEF end
      <4> QED
        BY <1>1, <2>1, <4>1, <4>2, NextChunkKeeps
    <3>2. CASE days # {}
      <4>1. pc' = [pc EXCEPT ![b] = "save"] /\ UNCHANGED <<todo, from>>
        BY <2>1, <3>2 DEF Goto
      <4>2. /\ pc' \in [Runs -> RunStates] /\ pc'[b] = "save"
            /\ \A c \in Runs \ {b} : pc'[c] = pc[c]
        BY <1>1, <4>1 DEF BatchTypeOK, RunStates
      <4>3. Listing' = Listing /\ Promised(b)' = Promised(b)
        BY <2>1 DEF Listing, Promised
      <4>4. ListInv(b)' /\ TodoInv(b)'
        BY <1>1, <4>1, <4>2, <4>3 DEF RunInv, ListInv, TodoInv
      <4>5. AccountsInv(b)'
        BY <1>1, <2>1, <4>2, <4>3 DEF RunInv, AccountsInv, Live
      <4>6. RangeInv(b)'
        BY <1>1, <2>1, <2>5, <4>2, <4>3 DEF RunInv, RangeInv
      <4>7. DataInv(b)'
        <5>1. ChunkEnd(from[b], range[b].to)' = end /\ Pick(todo[b])' = a /\ from'[b] = from[b]
          BY <2>1, <4>1 DEF ChunkEnd, end
        <5> QED
          BY <1>1, <2>1, <2>4, <2>6, <3>2, <4>1, <4>2, <4>3, <5>1 DEF RunInv, DataInv
      <4> QED
        BY <1>1, <4>1, <4>2, <4>4, <4>5, <4>6, <4>7 DEF RunInv, BatchTypeOK
    <3> QED
      BY <3>1, <3>2
  <2>8. BatchTypeOK'
    <3>1. \A c \in Runs : \A d \in rows'[c] : d <= LastFinalizedDate(now)'
      BY <1>1, <2>3, <2>4, <2>5 DEF BatchTypeOK
    <3> QED
      BY <1>1, <2>1, <2>4, <2>5, <2>7, <3>1 DEF BatchTypeOK
  <2>9. ASSUME NEW c \in Runs \ {b} PROVE RunInv(c)'
    BY <1>1, <1>4, <2>1, <2>4, <2>5, <2>7, Frame DEF BatchInv
  <2> QED
    BY <2>7, <2>8, <2>9 DEF BatchInv
<1> QED
  BY <1>2, <1>5, <1>6, <1>7

LEMMA SaveRowKeeps ==
    ASSUME BatchInv, NEW b \in Runs, SaveRow(b)
    PROVE  BatchInv'
<1> DEFINE a == Pick(todo[b])
           day == Pick(rows[b])
           end == ChunkEnd(from[b], range[b].to)
<1>1. BatchTypeOK /\ RunInv(b) /\ pc[b] = "save"
  BY DEF BatchInv, SaveRow
<1>2. a \in Accounts /\ day \in rows[b] /\ day \in Int /\ day <= LastFinalizedDate(now)
  <2>1. todo[b] # {} /\ rows[b] # {}
    BY <1>1 DEF RunInv, TodoInv, DataInv
  <2>2. a \in todo[b] /\ day \in rows[b]
    BY <2>1, PickIn
  <2> QED
    BY <1>1, <2>2 DEF BatchTypeOK
<1>3. /\ data' = data \cup {<<a, day>>} /\ rows' = [rows EXCEPT ![b] = rows[b] \ {day}]
      /\ UNCHANGED <<medium, now, account, mode, range, asOf, listed>>
      /\ IF rows[b] = {day} THEN NextChunk(b) ELSE UNCHANGED <<todo, pc, from>>
  BY DEF SaveRow, flags
<1> HIDE DEF day, end
<1>4. LastFinalizedDate(now) \in Int /\ LastFinalizedDate(now)' = LastFinalizedDate(now)
  BY <1>1, <1>3, FinalType DEF LastFinalizedDate
<1>5. /\ rows' \in [Runs -> SUBSET Int] /\ rows'[b] = rows[b] \ {day}
      /\ \A c \in Runs \ {b} : rows'[c] = rows[c]
  BY <1>1, <1>3 DEF BatchTypeOK
<1>6. medium[a] = "active" =>
          \A d \in Promised(b) : d <= end => <<a, d>> \in data \/ d \in rows[b]
  BY <1>1 DEF RunInv, DataInv, end
<1>7. /\ RunInv(b)'
      /\ todo' \in [Runs -> SUBSET Accounts] /\ pc' \in [Runs -> RunStates]
      /\ from' \in [Runs -> Int]
      /\ \A c \in Runs \ {b} : todo'[c] = todo[c] /\ pc'[c] = pc[c] /\ from'[c] = from[c]
  <2>1. CASE rows[b] = {day}
    <3>1. NextChunk(b)
      BY <1>3, <2>1
    <3>2. medium[Pick(todo[b])] = "active" =>
              \A d \in Promised(b) :
                  d <= ChunkEnd(from[b], range[b].to) => <<Pick(todo[b]), d>> \in data'
      BY <1>3, <1>6, <2>1 DEF end
    <3>3. data \subseteq data'
      BY <1>3
    <3> QED
      BY <1>1, <1>3, <3>1, <3>2, <3>3, NextChunkKeeps
  <2>2. CASE rows[b] # {day}
    <3>1. UNCHANGED <<todo, pc, from>>
      BY <1>3, <2>2
    <3>2. Listing' = Listing /\ Promised(b)' = Promised(b)
      BY <1>3 DEF Listing, Promised
    <3>3. ListInv(b)' /\ TodoInv(b)'
      BY <1>1, <3>1, <3>2 DEF RunInv, ListInv, TodoInv
    <3>4. AccountsInv(b)'
      BY <1>1, <1>3, <3>1, <3>2 DEF RunInv, AccountsInv, Live
    <3>5. RangeInv(b)'
      BY <1>1, <1>3, <1>4, <3>1, <3>2 DEF RunInv, RangeInv
    <3>6. DataInv(b)'
      <4>1. ChunkEnd(from[b], range[b].to)' = end /\ Pick(todo[b])' = a /\ from'[b] = from[b]
        BY <1>3, <3>1 DEF ChunkEnd, end
      <4>2. rows'[b] # {}
        BY <1>2, <1>5, <2>2
      <4>3. medium[a] = "active" =>
                \A d \in Promised(b) : d <= end => <<a, d>> \in data' \/ d \in rows'[b]
        BY <1>3, <1>5, <1>6
      <4> QED
        BY <1>1, <1>3, <3>1, <3>2, <4>1, <4>2, <4>3 DEF RunInv, DataInv
    <3> QED
      BY <1>1, <3>1, <3>3, <3>4, <3>5, <3>6 DEF RunInv, BatchTypeOK
  <2> QED
    BY <2>1, <2>2
<1>8. BatchTypeOK'
  <2>1. data' \subseteq Accounts \X Int /\ \A row \in data' : row[2] <= LastFinalizedDate(now)'
    BY <1>1, <1>2, <1>3, <1>4 DEF BatchTypeOK
  <2>2. \A c \in Runs : \A d \in rows'[c] : d <= LastFinalizedDate(now)'
    BY <1>1, <1>4, <1>5 DEF BatchTypeOK
  <2> QED
    BY <1>1, <1>3, <1>5, <1>7, <2>1, <2>2 DEF BatchTypeOK
<1>9. ASSUME NEW c \in Runs \ {b} PROVE RunInv(c)'
  BY <1>1, <1>3, <1>4, <1>5, <1>7, Frame DEF BatchInv
<1> QED
  BY <1>7, <1>8, <1>9 DEF BatchInv

LEMMA NextKeeps ==
    ASSUME BatchInv, [Next]_vars
    PROVE  BatchInv'
<1>1. ASSUME NEW b \in Runs, Start(b) \/ Step(b) \/ Exit(b) PROVE BatchInv'
  <2>1. CASE Step(b)
    BY <2>1, ListPageKeeps, UpsertAccountKeeps, SelectUnlistedKeeps, SoftDeleteAccountKeeps,
       LoadActiveKeeps, GetReportsKeeps, SaveRowKeeps DEF Step
  <2> QED
    BY <1>1, <2>1, StartKeeps, QuitKeeps DEF Exit
<1>2. CASE UNCHANGED vars
  <2>1. BatchTypeOK'
    BY <1>2 DEF BatchInv, BatchTypeOK, vars, tables, flags, LastFinalizedDate
  <2>2. LastFinalizedDate(now)' = LastFinalizedDate(now) /\ LastFinalizedDate(now) \in Int
    BY <1>2, FinalUnchanged DEF BatchInv, vars
  <2>3. ASSUME NEW c \in Runs PROVE RunInv(c)'
    BY <1>2, <2>2, Frame DEF BatchInv, vars, tables, flags
  <2> QED
    BY <2>1, <2>3 DEF BatchInv
<1> QED
  BY <1>1, <1>2, ChangeMediumKeeps, ClockKeeps DEF Next

LEMMA BatchInvAlways == Spec => []BatchInv
  BY InitInv, NextKeeps, PTL DEF Spec

\* What a step may do to the tables: rows of ad_data stay, accounts stay or are deleted
\* softly, and only when the medium does not have them.
LEMMA TablesStep ==
    ASSUME BatchInv, [Next]_vars
    PROVE  /\ data \subseteq data'
           /\ \A a \in Accounts :
                  /\ account[a] # "absent" => account'[a] # "absent"
                  /\ Live(a) /\ account'[a] = "deleted" => medium[a] = "absent"
<1> DEFINE Goal == /\ data \subseteq data'
                   /\ \A a \in Accounts :
                          /\ account[a] # "absent" => account'[a] # "absent"
                          /\ Live(a) /\ account'[a] = "deleted" => medium[a] = "absent"
<1>1. ASSUME data \subseteq data', account' = account PROVE Goal
  BY <1>1 DEF Live
<1>2. ASSUME NEW b \in Runs, UpsertAccount(b) PROVE Goal
  <2> DEFINE p == Pick(todo[b])
  <2>1. BatchTypeOK /\ RunInv(b) /\ pc[b] = "upsert"
    BY <1>2 DEF BatchInv, UpsertAccount
  <2>2. p \in Listing
    BY <2>1, PickIn DEF RunInv, TodoInv
  <2>3. account' = [account EXCEPT ![p] = medium[p]] /\ data' = data
    BY <1>2 DEF UpsertAccount
  <2> HIDE DEF p
  <2>4. medium[p] \in {"active", "paused"}
    BY <2>1, <2>2 DEF Listing, BatchTypeOK, MediumStates
  <2> QED
    BY <2>1, <2>3, <2>4 DEF Live, BatchTypeOK
<1>3. ASSUME NEW b \in Runs, SoftDeleteAccount(b) PROVE Goal
  <2> DEFINE p == Pick(todo[b])
  <2>1. BatchTypeOK /\ RunInv(b) /\ pc[b] = "drop"
    BY <1>3 DEF BatchInv, SoftDeleteAccount
  <2>2. p \in todo[b] /\ todo[b] \cap Listing = {}
    BY <2>1, PickIn DEF RunInv, TodoInv
  <2>3. account' = [account EXCEPT ![p] = "deleted"] /\ data' = data
    BY <1>3 DEF SoftDeleteAccount
  <2> HIDE DEF p
  <2>4. p \in Accounts => medium[p] = "absent"
    BY <2>2 DEF Listing
  <2> QED
    BY <2>1, <2>3, <2>4 DEF Live, BatchTypeOK
<1>4. ASSUME NEW b \in Runs, Start(b) \/ Exit(b) \/ ListPage(b) \/ SelectUnlisted(b)
                             \/ LoadActiveAccountIDs(b)
      PROVE  Goal
  <2>1. data' = data /\ account' = account
    BY <1>4 DEF Start, Begin, Exit, Quit, ListPage, SelectUnlisted, LoadActiveAccountIDs, tables
  <2> QED
    BY <1>1, <2>1
<1>5. ASSUME NEW b \in Runs, GetReports(b) PROVE Goal
  <2> DEFINE got == HandleReports(Pick(todo[b]), from[b], ChunkEnd(from[b], range[b].to))
  <2>1. data' = data /\ account' = account
    <3>1. got.status = 400 \/ got.status = 404 \/ got.status = 200
      BY HandleReportsGives
    <3>2. CASE got.status = 400
      BY <1>5, <3>2 DEF GetReports, Quit, tables
    <3>3. CASE got.status = 404
      BY <1>5, <3>3 DEF GetReports, tables
    <3>4. CASE got.status = 200
      BY <1>5, <3>4 DEF GetReports, tables
    <3> QED
      BY <3>1, <3>2, <3>3, <3>4
  <2> QED
    BY <1>1, <2>1
<1>6. ASSUME NEW b \in Runs, SaveRow(b) PROVE Goal
  <2>1. data \subseteq data' /\ account' = account
    BY <1>6 DEF SaveRow
  <2> QED
    BY <1>1, <2>1
<1>7. CASE ChangeMedium \/ TwoOClock \/ Midnight \/ UNCHANGED vars
  <2>1. data' = data /\ account' = account
    BY <1>7 DEF ChangeMedium, TwoOClock, Midnight, vars, tables
  <2> QED
    BY <1>1, <2>1
<1> QED
  BY <1>2, <1>3, <1>4, <1>5, <1>6, <1>7 DEF Next, Step

-----------------------------------------------------------------------------
\* Theorems.

\* The variables of the batch have their types, and no figure is stored, or on its way to
\* ad_data, before it is final.
THEOREM BatchTypeCorrect == Spec => []BatchTypeOK
<1>1. BatchInv => BatchTypeOK
  BY DEF BatchInv
<1> QED
  BY <1>1, BatchInvAlways, PTL

\* A run of the batch that ends well has brought what its flags promise.
THEOREM DoneMeansSyncedAlways == Spec => []DoneMeansSynced
<1>1. BatchInv => DoneMeansSynced
  <2> SUFFICES ASSUME BatchInv, NEW b \in Runs, pc[b] = "done", NEW a \in Accounts
               PROVE  /\ IF medium[a] = "absent" THEN ~Live(a) ELSE account[a] = medium[a]
                      /\ medium[a] = "active" => \A d \in Promised(b) : <<a, d>> \in data
    BY DEF DoneMeansSynced
  <2>1. RunInv(b)
    BY DEF BatchInv
  <2> QED
    BY <2>1 DEF RunInv, AccountsInv, DataInv, TodoInv, Listing
<1> QED
  BY <1>1, BatchInvAlways, PTL

\* The batch soft-deletes only what the medium does not have.
THEOREM DropsOnlyAbsentAlways == Spec => DropsOnlyAbsent
<1>1. BatchInv /\ [Next]_vars =>
          [\A a \in Accounts : Live(a) /\ account'[a] = "deleted" => medium[a] = "absent"]_vars
  BY TablesStep
<1> QED
  BY <1>1, BatchInvAlways, PTL DEF Spec, DropsOnlyAbsent

\* A report that is generated again has every row it had.
THEOREM RerunKeepsRowsAlways == Spec => RerunKeepsRows
<1>1. ASSUME BatchInv, [Next]_vars PROVE \A r \in Reports : ReportRows(r) \subseteq ReportRows(r)'
  <2> SUFFICES ASSUME NEW r \in Reports,
                      NEW w \in data, w[1] \in r.accounts, account[w[1]] # "absent",
                      r.from <= w[2], w[2] <= r.to
               PROVE  CsvRow(w[1], w[2], r.rate) \in ReportRows(r)'
    BY DEF ReportRows, CsvRow
  <2>1. w[1] \in Accounts
    BY ContentsAssumption
  <2>2. w \in data' /\ account'[w[1]] # "absent"
    BY <1>1, <2>1, TablesStep
  <2> QED
    BY <2>2 DEF ReportRows, CsvRow
<1> QED
  BY <1>1, BatchInvAlways, PTL DEF Spec, RerunKeepsRows

\* After a run of the batch a report over the days it promised is complete.
THEOREM DoneMeansReportedAlways == Spec => []DoneMeansReported
<1>1. BatchInv => DoneMeansReported
  <2> SUFFICES ASSUME BatchInv, NEW b \in Runs, NEW r \in Reports, pc[b] = "done",
                      \A a \in r.accounts : medium[a] = "active",
                      r.from..r.to \subseteq Promised(b),
                      NEW a \in r.accounts, NEW d \in r.from..r.to
               PROVE  \E row \in ReportRows(r) : row.account = a /\ row.date = d
    BY DEF DoneMeansReported
  <2>1. a \in Accounts /\ r.from \in Int /\ r.to \in Int
    BY ContentsAssumption
  <2>2. RunInv(b) /\ medium[a] = "active" /\ a \in Listing /\ d \in Promised(b)
    BY <2>1 DEF BatchInv, Listing
  <2>3. account[a] = "active" /\ <<a, d>> \in data
    BY <2>1, <2>2 DEF RunInv, AccountsInv, DataInv, TodoInv
  <2>4. r.from <= d /\ d <= r.to
    BY <2>1
  <2>5. CsvRow(a, d, r.rate) \in ReportRows(r)
    <3> DEFINE w == <<a, d>>
    <3>1. w[1] = a /\ w[2] = d /\ w \in data
      BY <2>3
    <3> HIDE DEF w
    <3> QED
      BY <2>3, <2>4, <3>1 DEF ReportRows
  <2> QED
    BY <2>5 DEF CsvRow
<1> QED
  BY <1>1, BatchInvAlways, PTL

\* What a row of a report is, for the theorems about the charge.
LEMMA RowOfReport ==
    ASSUME BatchTypeOK, NEW r \in Reports, NEW row \in ReportRows(r)
    PROVE  /\ row.cost \in Nat /\ row.cost <= MaxCost /\ r.rate \in Rates
           /\ row.charge = CustomerCharge(row.cost, r.rate)
<1>1. PICK w \in data : /\ w[1] \in r.accounts /\ r.from <= w[2] /\ w[2] <= r.to
                        /\ row = CsvRow(w[1], w[2], r.rate)
  BY DEF ReportRows
<1>2. w[2] \in Int /\ r.from \in Int /\ r.to \in Int
  BY ContentsAssumption DEF BatchTypeOK
<1>3. w[2] \in r.from..r.to
  BY <1>1, <1>2
<1>4. Cost(w[1], w[2]) \in Nat /\ Cost(w[1], w[2]) <= MaxCost /\ r.rate \in Rates
  BY <1>1, <1>3, ContentsAssumption
<1> QED
  BY <1>1, <1>4 DEF CsvRow

\* The charge of every row is a nearest integer of the exact quotient, and covers the cost.
THEOREM ChargeIsNearestAlways == Spec => []ChargeIsNearest
<1>1. BatchTypeOK => ChargeIsNearest
  <2> SUFFICES ASSUME BatchTypeOK, NEW r \in Reports, NEW row \in ReportRows(r)
               PROVE  LET off == row.charge * (100 - r.rate) - 100 * row.cost
                      IN  /\ 2 * off <= 100 - r.rate /\ -2 * off <= 100 - r.rate
                          /\ row.charge >= row.cost
    BY DEF ChargeIsNearest
  <2>1. /\ row.cost \in Nat /\ row.cost <= MaxCost /\ r.rate \in Rates
        /\ row.charge = CustomerCharge(row.cost, r.rate)
    BY RowOfReport
  <2> QED
    BY <2>1, ChargeBounds
<1> QED
  BY <1>1, BatchTypeCorrect, PTL

\* A half is rounded upwards, but at the rates of 44 and 84.
THEOREM ChargeIsRoundedAlways == Spec => []ChargeIsRounded
<1>1. BatchTypeOK => ChargeIsRounded
  <2> SUFFICES ASSUME BatchTypeOK, NEW r \in Reports, NEW row \in ReportRows(r)
               PROVE  LET rounded == RoundHalfUp(row.cost, 100 - r.rate)
                      IN  \/ row.charge = rounded
                          \/ /\ r.rate \in {44, 84} /\ IsTie(row.cost, 100 - r.rate)
                             /\ row.charge = rounded - 1
    BY DEF ChargeIsRounded
  <2>1. /\ row.cost \in Nat /\ row.cost <= MaxCost /\ r.rate \in Rates
        /\ row.charge = CustomerCharge(row.cost, r.rate)
    BY RowOfReport
  <2> QED
    BY <2>1, ChargeBounds
<1> QED
  BY <1>1, BatchTypeCorrect, PTL


-----------------------------------------------------------------------------
\* The measure of a run: how much it has still to do at most. Every step of it brings the
\* measure down in a well-founded order, and nothing else in the system touches it, so that
\* no run goes on for ever. That it gets to its steps (WF of Step) is what RunEnds adds.

Phase(b) ==
    CASE pc[b] = "list" -> 6
      [] pc[b] = "upsert" -> 5
      [] pc[b] = "select" -> 4
      [] pc[b] = "drop" -> 3
      [] pc[b] = "load" -> 2
      [] pc[b] \in {"fetch", "save"} -> 1
      [] pc[b] \in {"done", "idle"} -> 0

\* The accounts that are not listed yet, or not worked through.
AccountsLeft(b) == Cardinality(IF pc[b] = "list" THEN Listing \ listed[b] ELSE todo[b])

\* The days from the chunk on, to be fetched and to be saved.
DaysLeft(b) ==
    2 * (IF from[b] <= range[b].to THEN range[b].to - from[b] + 1 ELSE 0)
        + (IF pc[b] = "fetch" THEN 1 ELSE 0)

RowsLeft(b) == Cardinality(rows[b])

Measure(b) == <<Phase(b), AccountsLeft(b), DaysLeft(b), RowsLeft(b)>>

\* Measures are compared by their first difference.
MeasureOrder == LexProductOrdering(OpToRel(<, Nat), Nat, 4)

UnderWay(b) == pc[b] \notin {"idle", "done"}

RowsFinite == \A b \in Runs : IsFiniteSet(rows[b])

LEMMA MeasureOrderWellFounded == IsWellFoundedOn(MeasureOrder, [1..4 -> Nat])
<1>1. 4 \in Nat
  OBVIOUS
<1> QED
  BY <1>1, NatLessThanWellFounded, WFLexProductOrdering DEF MeasureOrder

\* The first difference, in numbers.
Lower(p, q) ==
    \/ p[1] < q[1]
    \/ p[1] = q[1] /\ p[2] < q[2]
    \/ p[1] = q[1] /\ p[2] = q[2] /\ p[3] < q[3]
    \/ p[1] = q[1] /\ p[2] = q[2] /\ p[3] = q[3] /\ p[4] < q[4]

LEMMA LowerIsBelow ==
    ASSUME NEW p \in [1..4 -> Nat], NEW q \in [1..4 -> Nat], Lower(p, q)
    PROVE  <<p, q>> \in MeasureOrder
<1>1. PICK j \in 1..4 : p[j] < q[j] /\ \A i \in 1..(j - 1) : p[i] = q[i]
  <2>1. CASE p[1] < q[1]
    BY <2>1
  <2>2. CASE p[1] = q[1] /\ p[2] < q[2]
    BY <2>2
  <2>3. CASE p[1] = q[1] /\ p[2] = q[2] /\ p[3] < q[3]
    BY <2>3
  <2>4. CASE p[1] = q[1] /\ p[2] = q[2] /\ p[3] = q[3] /\ p[4] < q[4]
    BY <2>4
  <2> QED
    BY <2>1, <2>2, <2>3, <2>4 DEF Lower
<1>2. <<p[j], q[j]>> \in OpToRel(<, Nat)
  BY <1>1 DEF OpToRel
<1> QED
  BY <1>1, <1>2 DEF MeasureOrder, LexProductOrdering

LEMMA MeasureType ==
    ASSUME BatchTypeOK, RowsFinite, NEW b \in Runs
    PROVE  /\ Phase(b) \in Nat /\ AccountsLeft(b) \in Nat
           /\ DaysLeft(b) \in Nat /\ RowsLeft(b) \in Nat
           /\ Measure(b) \in [1..4 -> Nat]
<1>1. Phase(b) \in Nat
  BY DEF BatchTypeOK, RunStates, Phase
<1>2. AccountsLeft(b) \in Nat
  <2>1. Listing \ listed[b] \in SUBSET Accounts /\ todo[b] \in SUBSET Accounts
    BY DEF BatchTypeOK, Listing
  <2> QED
    BY <2>1, AccountsFinite DEF AccountsLeft
<1>3. DaysLeft(b) \in Nat
  <2>1. from[b] \in Int /\ range[b].to \in Int
    BY DEF BatchTypeOK
  <2> QED
    BY <2>1 DEF DaysLeft
<1>4. RowsLeft(b) \in Nat
  BY FS_CardinalityType DEF RowsFinite, RowsLeft
<1>5. ASSUME NEW m1 \in Nat, NEW m2 \in Nat, NEW m3 \in Nat, NEW m4 \in Nat
      PROVE  <<m1, m2, m3, m4>> \in [1..4 -> Nat]
  OBVIOUS
<1> QED
  BY <1>1, <1>2, <1>3, <1>4, <1>5 DEF Measure

\* What a step that calls the medium does.
LEMMA GetReportsDoes ==
    ASSUME NEW b \in Runs, GetReports(b)
    PROVE  /\ pc[b] = "fetch"
           /\ \/ Quit(b)
              \/ /\ NextAccount(b)
                 /\ UNCHANGED <<medium, now, tables, flags, listed, rows>>
              \/ /\ \E days \in SUBSET (from[b]..ChunkEnd(from[b], range[b].to)) :
                        rows' = [rows EXCEPT ![b] = days]
                 /\ NextChunk(b) \/ (Goto(b, "save") /\ UNCHANGED <<todo, from>>)
                 /\ UNCHANGED <<medium, now, tables, flags, listed>>
<1> DEFINE first == from[b]
           last == ChunkEnd(from[b], range[b].to)
           got == HandleReports(Pick(todo[b]), first, last)
<1>1. \/ got.status = 400
      \/ got.status = 404
      \/ got.status = 200 /\ got.days \in SUBSET (first..last)
  BY HandleReportsGives
<1>2. /\ pc[b] = "fetch"
      /\ got.status = 400 => Quit(b)
      /\ got.status = 404 =>
             NextAccount(b) /\ UNCHANGED <<medium, now, tables, flags, listed, rows>>
      /\ got.status = 200 =>
             /\ rows' = [rows EXCEPT ![b] = got.days]
             /\ NextChunk(b) \/ (Goto(b, "save") /\ UNCHANGED <<todo, from>>)
             /\ UNCHANGED <<medium, now, tables, flags, listed>>
  <2>1. CASE got.status = 400
    BY <2>1 DEF GetReports
  <2>2. CASE got.status = 404
    BY <2>2 DEF GetReports
  <2>3. CASE got.status = 200
    BY <2>3 DEF GetReports
  <2> QED
    BY <1>1, <2>1, <2>2, <2>3
<1> HIDE DEF got
<1> QED
  BY <1>1, <1>2

LEMMA RowsFiniteStep ==
    ASSUME BatchInv, RowsFinite, [Next]_vars
    PROVE  RowsFinite'
<1>1. CASE rows' = rows
  BY <1>1 DEF RowsFinite
<1>2. ASSUME NEW b \in Runs, NEW S, IsFiniteSet(S), rows' = [rows EXCEPT ![b] = S]
      PROVE  RowsFinite'
  BY <1>2 DEF RowsFinite, BatchInv, BatchTypeOK
<1>3. ASSUME NEW b \in Runs, Quit(b) PROVE RowsFinite'
  BY <1>2, <1>3, FS_EmptySet DEF Quit
<1>4. ASSUME NEW b \in Runs, SaveRow(b) PROVE RowsFinite'
  <2>1. rows' = [rows EXCEPT ![b] = rows[b] \ {Pick(rows[b])}]
    BY <1>4 DEF SaveRow
  <2>2. IsFiniteSet(rows[b] \ {Pick(rows[b])})
    BY FS_RemoveElement DEF RowsFinite
  <2> QED
    BY <1>2, <2>1, <2>2
<1>5. ASSUME NEW b \in Runs, GetReports(b) PROVE RowsFinite'
  <2> DEFINE first == from[b]
             last == ChunkEnd(from[b], range[b].to)
  <2>1. \/ Quit(b)
        \/ rows' = rows
        \/ \E days \in SUBSET (first..last) : rows' = [rows EXCEPT ![b] = days]
    BY <1>5, GetReportsDoes
  <2>2. first \in Int /\ last \in Int
    BY BatchAssumption DEF BatchInv, BatchTypeOK, ChunkEnd
  <2> HIDE DEF first, last
  <2>3. \A days \in SUBSET (first..last) : IsFiniteSet(days)
    BY <2>2, FS_Interval, FS_Subset
  <2> QED
    BY <1>1, <1>2, <1>3, <2>1, <2>3
<1> QED
  BY <1>1, <1>3, <1>4, <1>5
     DEF Next, Start, Begin, Step, Exit, ListPage, UpsertAccount, SelectUnlisted,
         SoftDeleteAccount, LoadActiveAccountIDs, ChangeMedium, TwoOClock, Midnight, vars

\* The parts of the measure, one by one.
Falls(b) ==
    \/ Phase(b)' < Phase(b)
    \/ Phase(b)' = Phase(b) /\ AccountsLeft(b)' < AccountsLeft(b)
    \/ /\ Phase(b)' = Phase(b) /\ AccountsLeft(b)' = AccountsLeft(b)
       /\ DaysLeft(b)' < DaysLeft(b)
    \/ /\ Phase(b)' = Phase(b) /\ AccountsLeft(b)' = AccountsLeft(b)
       /\ DaysLeft(b)' = DaysLeft(b) /\ RowsLeft(b)' < RowsLeft(b)

LEMMA MeasureNumbers ==
    BatchTypeOK /\ RowsFinite => \A c \in Runs : Measure(c) \in [1..4 -> Nat]
  BY MeasureType

LEMMA FallsIsBelow ==
    ASSUME BatchTypeOK, BatchTypeOK', RowsFinite, RowsFinite', NEW b \in Runs, Falls(b)
    PROVE  <<Measure(b)', Measure(b)>> \in MeasureOrder
<1>1. Measure(b) \in [1..4 -> Nat]
  BY MeasureType
<1>2. Measure(b)' \in [1..4 -> Nat]
  <2>1. (BatchTypeOK /\ RowsFinite => \A c \in Runs : Measure(c) \in [1..4 -> Nat])'
    BY MeasureNumbers, PTL
  <2> QED
    BY <2>1
<1>3. Lower(Measure(b)', Measure(b))
  BY DEF Falls, Lower, Measure
<1> QED
  BY <1>1, <1>2, <1>3, LowerIsBelow

\* The accounts of todo, one less.
LEMMA RestFalls ==
    ASSUME BatchInv, NEW b \in Runs, todo[b] # {},
           NEW where \in RunStates \ {"list"}, NEW next \in RunStates, Rest(b, where, next),
           pc[b] # "list"
    PROVE  /\ pc'[b] = IF todo'[b] = {} THEN next ELSE where
           /\ todo'[b] # {} => AccountsLeft(b)' < AccountsLeft(b)
<1> DEFINE ids == todo[b] \ {Pick(todo[b])}
<1>1. todo[b] \in SUBSET Accounts /\ ids \in SUBSET Accounts
  BY DEF BatchInv, BatchTypeOK
<1>2. todo'[b] = ids /\ pc'[b] = IF ids = {} THEN next ELSE where
  BY <1>1, EachDoes DEF BatchInv, Rest
<1>3. IsFiniteSet(todo[b]) /\ Cardinality(todo[b]) \in Nat
  BY <1>1, AccountsFinite
<1>4. Cardinality(ids) = Cardinality(todo[b]) - 1
  BY <1>3, PickIn, FS_RemoveElement
<1>5. ids # {} => pc'[b] # "list"
  BY <1>2
<1> HIDE DEF ids
<1> QED
  BY <1>2, <1>3, <1>4, <1>5 DEF AccountsLeft

\* A page that does not end the list has an account that was not listed.
LEMMA ListPageFalls ==
    ASSUME BatchInv, NEW b \in Runs, ListPage(b)
    PROVE  Falls(b)
<1> DEFINE S == listed[b]
           n == Cardinality(S)
           page == Page(n)
           all == S \cup page
<1>1. pc[b] = "list" /\ Prefix(S) /\ listed' = [listed EXCEPT ![b] = all]
  BY DEF ListPage, BatchInv, RunInv, ListInv
<1>2. S \subseteq Listing /\ page \subseteq Listing /\ Listing \in SUBSET Accounts
  BY <1>1 DEF Prefix, Page, Listing
<1>3. CASE Each(b, all, "upsert", "select")
  <2>1. all \in SUBSET Accounts /\ "upsert" \in RunStates /\ "select" \in RunStates
    BY <1>2 DEF RunStates
  <2> HIDE DEF all
  <2>2. pc'[b] = "upsert" \/ pc'[b] = "select"
    BY <1>3, <2>1, EachDoes DEF BatchInv
  <2> QED
    BY <1>1, <2>2 DEF Falls, Phase
<1>4. CASE page # {} /\ UNCHANGED pc
  <2>1. PICK a \in page : TRUE
    BY <1>4
  <2>2. a \in Listing /\ n < Cardinality(UpTo(a)) /\ UpTo(a) \in SUBSET Accounts
    BY <1>2, <2>1 DEF Page, UpTo
  <2>3. a \notin S
    <3>1. SUFFICES ASSUME a \in S PROVE FALSE
      OBVIOUS
    <3>2. UpTo(a) \in SUBSET S /\ S \in SUBSET Accounts
      BY <1>1, <1>2, <3>1 DEF Prefix
    <3>3. IsFiniteSet(S) /\ n \in Nat
      BY <3>2, AccountsFinite
    <3>4. Cardinality(UpTo(a)) <= n /\ Cardinality(UpTo(a)) \in Nat
      BY <2>2, <3>2, <3>3, FS_Subset, AccountsFinite
    <3> QED
      BY <2>2, <3>3, <3>4
  <2>4. Listing' = Listing
    BY DEF ListPage, Listing
  <2>5. Cardinality(Listing \ all) < Cardinality(Listing \ S)
    <3>1. /\ Listing \ S \in SUBSET Accounts /\ Listing \ all \in SUBSET (Listing \ S)
          /\ Listing \ all \in SUBSET Accounts
          /\ Listing \ all # Listing \ S
      BY <1>2, <2>1, <2>2, <2>3
    <3> HIDE DEF all, S
    <3>2. /\ IsFiniteSet(Listing \ S) /\ Cardinality(Listing \ S) \in Nat
          /\ Cardinality(Listing \ all) \in Nat
      BY <3>1, AccountsFinite
    <3>3. /\ Cardinality(Listing \ all) <= Cardinality(Listing \ S)
          /\ Cardinality(Listing \ S) # Cardinality(Listing \ all)
      BY <3>1, <3>2, FS_Subset
    <3> QED
      BY <3>2, <3>3
  <2>6. listed'[b] = all
    BY <1>1 DEF BatchInv, BatchTypeOK
  <2>7. AccountsLeft(b) = Cardinality(Listing \ S)
    BY <1>1 DEF AccountsLeft
  <2>8. AccountsLeft(b)' = Cardinality(Listing \ all)
    BY <1>1, <1>4, <2>4, <2>6 DEF AccountsLeft
  <2>9. Phase(b)' = Phase(b)
    BY <1>4 DEF Phase
  <2> QED
    BY <2>5, <2>7, <2>8, <2>9 DEF Falls
<1> QED
  BY <1>3, <1>4 DEF ListPage

LEMMA WritesFall ==
    ASSUME BatchInv, NEW b \in Runs,
           \/ UpsertAccount(b) \/ SelectUnlisted(b) \/ SoftDeleteAccount(b)
           \/ LoadActiveAccountIDs(b)
    PROVE  Falls(b)
<1> \A s \in {"list", "upsert", "select", "drop", "load", "fetch", "done"} : s \in RunStates
  BY DEF RunStates
<1> TodoInv(b)
  BY DEF BatchInv, RunInv
<1>1. CASE UpsertAccount(b)
  <2>1. pc[b] = "upsert" /\ todo[b] # {} /\ Rest(b, "upsert", "select")
    BY <1>1 DEF UpsertAccount, TodoInv
  <2>2. /\ pc'[b] = IF todo'[b] = {} THEN "select" ELSE "upsert"
        /\ todo'[b] # {} => AccountsLeft(b)' < AccountsLeft(b)
    BY <2>1, RestFalls
  <2> QED
    BY <2>1, <2>2 DEF Falls, Phase
<1>2. CASE SoftDeleteAccount(b)
  <2>1. pc[b] = "drop" /\ todo[b] # {} /\ Rest(b, "drop", "load")
    BY <1>2 DEF SoftDeleteAccount, TodoInv
  <2>2. /\ pc'[b] = IF todo'[b] = {} THEN "load" ELSE "drop"
        /\ todo'[b] # {} => AccountsLeft(b)' < AccountsLeft(b)
    BY <2>1, RestFalls
  <2> QED
    BY <2>1, <2>2 DEF Falls, Phase
<1>3. CASE SelectUnlisted(b)
  <2>1. pc[b] = "select" /\ pc'[b] \in {"drop", "load"}
    BY <1>3 DEF SelectUnlisted, Each, Goto, BatchInv, BatchTypeOK
  <2> QED
    BY <2>1 DEF Falls, Phase
<1>4. CASE LoadActiveAccountIDs(b)
  <2>1. pc[b] = "load" /\ pc'[b] \in {"fetch", "done"}
    BY <1>4 DEF LoadActiveAccountIDs, Each, Goto, BatchInv, BatchTypeOK
  <2> QED
    BY <2>1 DEF Falls, Phase
<1> QED
  BY <1>1, <1>2, <1>3, <1>4

\* The next account, or the end.
LEMMA NextAccountFalls ==
    ASSUME BatchInv, NEW b \in Runs, pc[b] \in {"fetch", "save"}, NextAccount(b)
    PROVE  Falls(b)
<1>1. todo[b] # {} /\ Rest(b, "fetch", "done") /\ "fetch" \in RunStates /\ "done" \in RunStates
  BY DEF BatchInv, RunInv, TodoInv, NextAccount, RunStates
<1>2. /\ pc'[b] = IF todo'[b] = {} THEN "done" ELSE "fetch"
      /\ todo'[b] # {} => AccountsLeft(b)' < AccountsLeft(b)
  BY <1>1, RestFalls
<1> QED
  BY <1>2 DEF Falls, Phase

\* The next chunk begins later.
LEMMA NextChunkFalls ==
    ASSUME BatchInv, NEW b \in Runs, pc[b] \in {"fetch", "save"}, NextChunk(b),
           UNCHANGED range
    PROVE  Falls(b)
<1> DEFINE to == range[b].to
           next == ChunkEnd(from[b], to) + 1
<1>1. CASE next > to
  BY <1>1, NextAccountFalls DEF NextChunk
<1>2. CASE ~(next > to)
  <2>1. /\ from' = [from EXCEPT ![b] = next] /\ pc' = [pc EXCEPT ![b] = "fetch"]
        /\ UNCHANGED todo
    BY <1>2 DEF NextChunk, Goto
  <2>2. from'[b] = next /\ pc'[b] = "fetch" /\ todo'[b] = todo[b] /\ range'[b].to = to
    BY <2>1 DEF BatchInv, BatchTypeOK
  <2>3. from[b] \in Int /\ to \in Int /\ MaxDays \in Nat \ {0}
    BY BatchAssumption DEF BatchInv, BatchTypeOK
  <2>4. next = from[b] + MaxDays /\ next <= to
    BY <1>2, <2>3 DEF ChunkEnd
  <2> HIDE DEF next, to
  <2>5. DaysLeft(b)' = 2 * (to - next + 1) + 1
    BY <2>2, <2>3, <2>4 DEF DaysLeft
  <2>6. DaysLeft(b) >= 2 * (to - from[b] + 1)
    BY <2>3, <2>4 DEF DaysLeft, to
  <2>7. DaysLeft(b)' < DaysLeft(b)
    <3>1. DaysLeft(b) \in Int
      BY <2>3 DEF DaysLeft, to
    <3> QED
      BY <2>3, <2>4, <2>5, <2>6, <3>1
  <2>8. Phase(b)' = Phase(b) /\ AccountsLeft(b)' = AccountsLeft(b)
    BY <2>2 DEF Phase, AccountsLeft
  <2> QED
    BY <2>7, <2>8 DEF Falls
<1> QED
  BY <1>1, <1>2

LEMMA QuitFalls ==
    ASSUME BatchInv, NEW b \in Runs, UnderWay(b), Quit(b)
    PROVE  Falls(b)
<1>1. pc'[b] = "idle" /\ pc[b] \in RunStates \ {"idle", "done"}
  BY DEF BatchInv, BatchTypeOK, Quit, Goto, UnderWay
<1> QED
  BY <1>1 DEF Falls, Phase, RunStates

LEMMA GetReportsFalls ==
    ASSUME BatchInv, NEW b \in Runs, GetReports(b)
    PROVE  Falls(b)
<1>1. pc[b] = "fetch" /\ UnderWay(b)
  BY DEF GetReports, UnderWay
<1>2. \/ Quit(b)
      \/ NextAccount(b)
      \/ NextChunk(b) /\ UNCHANGED range
      \/ Goto(b, "save") /\ UNCHANGED <<todo, from, range>>
  BY GetReportsDoes DEF flags
<1>3. CASE Goto(b, "save") /\ UNCHANGED <<todo, from, range>>
  <2>1. pc'[b] = "save"
    BY <1>3 DEF Goto, BatchInv, BatchTypeOK
  <2>2. from[b] \in Int /\ range[b].to \in Int
    BY DEF BatchInv, BatchTypeOK
  <2>3. DaysLeft(b)' < DaysLeft(b)
    BY <1>1, <1>3, <2>1, <2>2 DEF DaysLeft
  <2>4. Phase(b)' = Phase(b) /\ AccountsLeft(b)' = AccountsLeft(b)
    BY <1>1, <1>3, <2>1 DEF Phase, AccountsLeft
  <2> QED
    BY <2>3, <2>4 DEF Falls
<1> QED
  BY <1>1, <1>2, <1>3, QuitFalls, NextAccountFalls, NextChunkFalls

LEMMA SaveRowFalls ==
    ASSUME BatchInv, RowsFinite, NEW b \in Runs, SaveRow(b)
    PROVE  Falls(b)
<1>1. /\ pc[b] = "save" /\ rows[b] # {} /\ UNCHANGED range
      /\ rows' = [rows EXCEPT ![b] = rows[b] \ {Pick(rows[b])}]
      /\ NextChunk(b) \/ UNCHANGED <<todo, pc, from>>
  BY DEF SaveRow, flags, BatchInv, RunInv, DataInv
<1>2. CASE UNCHANGED <<todo, pc, from>>
  <2>1. rows'[b] = rows[b] \ {Pick(rows[b])}
    BY <1>1 DEF BatchInv, BatchTypeOK
  <2>2. /\ IsFiniteSet(rows[b]) /\ Cardinality(rows[b]) \in Nat
        /\ Cardinality(rows[b] \ {Pick(rows[b])}) = Cardinality(rows[b]) - 1
    BY <1>1, PickIn, FS_CardinalityType, FS_RemoveElement DEF RowsFinite
  <2>3. RowsLeft(b)' < RowsLeft(b)
    BY <2>1, <2>2 DEF RowsLeft
  <2>4. /\ Phase(b)' = Phase(b) /\ AccountsLeft(b)' = AccountsLeft(b)
        /\ DaysLeft(b)' = DaysLeft(b)
    BY <1>1, <1>2 DEF Phase, AccountsLeft, DaysLeft
  <2> QED
    BY <2>3, <2>4 DEF Falls
<1> QED
  BY <1>1, <1>2, NextChunkFalls

LEMMA StepFalls ==
    ASSUME BatchInv, RowsFinite, NEW b \in Runs, Step(b)
    PROVE  Falls(b)
  BY ListPageFalls, WritesFall, GetReportsFalls, SaveRowFalls DEF Step

\* What is not a step of a run leaves its measure alone.
LEMMA MeasureUnchanged ==
    ASSUME NEW b \in Runs, UnderWay(b),
           pc'[b] = pc[b], listed'[b] = listed[b], todo'[b] = todo[b], from'[b] = from[b],
           range'[b] = range[b], rows'[b] = rows[b], medium' = medium
    PROVE  Measure(b)' = Measure(b)
<1>1. Listing' = Listing
  BY DEF Listing
<1>2. /\ Phase(b)' = Phase(b) /\ AccountsLeft(b)' = AccountsLeft(b)
      /\ DaysLeft(b)' = DaysLeft(b) /\ RowsLeft(b)' = RowsLeft(b)
  BY <1>1 DEF Phase, AccountsLeft, DaysLeft, RowsLeft
<1> QED
  BY <1>2 DEF Measure

LEMMA OthersKeepMeasure ==
    ASSUME BatchInv, NEW c \in Runs, Start(c) \/ Step(c) \/ Exit(c),
           NEW b \in Runs \ {c}, UnderWay(b)
    PROVE  pc'[b] = pc[b] /\ Measure(b)' = Measure(b)
<1> USE DEF BatchInv, BatchTypeOK, Goto, Each, Rest, NextAccount, NextChunk, Quit, tables, flags
<1>1. /\ pc'[b] = pc[b] /\ listed'[b] = listed[b] /\ todo'[b] = todo[b]
      /\ from'[b] = from[b] /\ range'[b] = range[b] /\ rows'[b] = rows[b]
      /\ medium' = medium
  <2>1. CASE Start(c)
    BY <2>1 DEF Start, Begin
  <2>2. CASE Exit(c)
    BY <2>2 DEF Exit
  <2>3. CASE ListPage(c)
    BY <2>3 DEF ListPage
  <2>4. CASE UpsertAccount(c) \/ SelectUnlisted(c) \/ SoftDeleteAccount(c)
    BY <2>4 DEF UpsertAccount, SelectUnlisted, SoftDeleteAccount
  <2>5. CASE LoadActiveAccountIDs(c)
    BY <2>5 DEF LoadActiveAccountIDs
  <2>6. CASE GetReports(c)
    BY <2>6, GetReportsDoes
  <2>7. CASE SaveRow(c)
    BY <2>7 DEF SaveRow
  <2> QED
    BY <2>1, <2>2, <2>3, <2>4, <2>5, <2>6, <2>7 DEF Step
<1> QED
  BY <1>1, MeasureUnchanged

Down(b) == <<Measure(b)', Measure(b)>> \in MeasureOrder

Kept(b) == Measure(b)' = Measure(b) /\ pc'[b] = pc[b]

CountsDown == \A b \in Runs : UnderWay(b) => (Step(b) => Down(b)) /\ (Down(b) \/ Kept(b))

\* Every step of a run brings its measure down, an exit does too, and no other run, no
\* clock and no list that is put up at the medium changes it: pages, accounts, chunks and
\* rows all run out, for any number of them.
THEOREM EveryStepCountsDown ==
    /\ IsWellFoundedOn(MeasureOrder, [1..4 -> Nat])
    /\ Spec => [][CountsDown]_vars
<1>1. ASSUME BatchInv, RowsFinite, [Next]_vars PROVE CountsDown
  <2>1. BatchTypeOK /\ BatchTypeOK' /\ RowsFinite'
    BY <1>1, NextKeeps, RowsFiniteStep DEF BatchInv
  <2>2. ASSUME NEW b \in Runs, UnderWay(b), Step(b) \/ Exit(b) PROVE Down(b)
    <3>1. Falls(b)
      BY <1>1, <2>2, StepFalls, QuitFalls DEF Exit
    <3> QED
      BY <1>1, <2>1, <3>1, FallsIsBelow DEF Down
  <2>3. ASSUME NEW b \in Runs, UnderWay(b) PROVE Down(b) \/ Kept(b)
    <3>1. ASSUME NEW c \in Runs, Start(c) \/ Step(c) \/ Exit(c) PROVE Down(b) \/ Kept(b)
      <4>1. CASE c = b
        <5>1. Step(b) \/ Exit(b)
          BY <2>3, <3>1, <4>1 DEF Start, Begin, UnderWay
        <5> QED
          BY <2>2, <2>3, <5>1
      <4>2. CASE c # b
        BY <1>1, <2>3, <3>1, <4>2, OthersKeepMeasure DEF Kept
      <4> QED
        BY <4>1, <4>2
    <3>2. CASE ChangeMedium
      BY <2>3, <3>2 DEF ChangeMedium, UnderWay
    <3>3. CASE TwoOClock \/ Midnight \/ UNCHANGED vars
      <4>1. UNCHANGED <<medium, pc, range, listed, todo, from, rows>>
        BY <3>3 DEF TwoOClock, Midnight, vars, flags
      <4> QED
        BY <2>3, <4>1, MeasureUnchanged DEF Kept
    <3> QED
      BY <1>1, <3>1, <3>2, <3>3 DEF Next
  <2> QED
    BY <2>2, <2>3 DEF CountsDown
<1>2. Init => RowsFinite
  BY FS_EmptySet DEF Init, RowsFinite
<1>3. BatchInv /\ RowsFinite /\ [Next]_vars => RowsFinite'
  BY RowsFiniteStep
<1>4. Spec => [](BatchInv /\ RowsFinite)
  BY <1>2, <1>3, BatchInvAlways, PTL DEF Spec
<1>5. BatchInv /\ RowsFinite /\ [Next]_vars => [CountsDown]_vars
  BY <1>1
<1>6. Spec => [][CountsDown]_vars
  BY <1>4, <1>5, PTL DEF Spec
<1> QED
  BY <1>6, MeasureOrderWellFounded
=============================================================================
