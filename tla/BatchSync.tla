------------------------------ MODULE BatchSync ------------------------------
(***************************************************************************)
(* The batch that copies ad accounts and daily figures from the medium     *)
(* (exampleAdsAPI) to MySQL: it lists the medium's accounts page by page,  *)
(* upserts each, soft-deletes those the medium does not have, then fetches *)
(* the days of its range for every active account and upserts each row.    *)
(* Every write commits by itself, a run may die at any of them, and two    *)
(* runs may be under way together.                                         *)
(*                                                                         *)
(* Days are numbers. Lists are worked through in one order, that of the    *)
(* medium where it gives them. A call of the client stands for all its     *)
(* retries.                                                                *)
(* The medium's list of accounts is compiled into it, so it changes only   *)
(* with another build of it, taken to be put up between runs.              *)
(***************************************************************************)
EXTENDS Integers, FiniteSets

CONSTANTS
    Runs,        \* the runs of the batch that can be under way together
    NAccounts,   \* accounts are 1..NAccounts, in the order of the medium's list
    PageSize,    \* limit of GET /v1/accounts
    MaxDays,     \* maxReportDays: 92
    MediumLists, \* the lists that are put up at the medium
    AskedDays,   \* the days that --date asks for
    FirstDay,    \* the day on which a behaviour begins
    LastDay      \* bound on the days that pass

ASSUME BatchAssumption ==
    /\ NAccounts \in Nat
    /\ PageSize \in Nat \ {0}
    /\ MaxDays \in Nat \ {0}
    /\ MediumLists \subseteq [1..NAccounts -> {"absent", "active", "paused"}]
    /\ AskedDays \subseteq Int
    /\ FirstDay \in Int /\ LastDay \in Int

Accounts == 1..NAccounts
MediumStates == {"absent", "active", "paused"}

VARIABLES
    medium,    \* the medium's accounts, each absent, active or paused
    now,       \* the clock of the host, for the batch and for the medium
    account,   \* ad_accounts: absent, deleted, or live with its status
    data,      \* ad_data: the accounts and days that have a row
    pc,        \* where each run stands
    mode,      \* the flags a run was started with
    range,     \* the days a run asks for, from and to
    asOf,      \* the last final day when a run began (kept for Promised)
    listed,    \* the accounts a run has listed
    todo,      \* the accounts a run has still to upsert, delete or fetch
    from,      \* the first day of the chunk a run has reached
    rows       \* the days a run has fetched of an account and not saved yet

tables == <<account, data>>
flags == <<mode, range, asOf>>
vars == <<medium, now, tables, pc, flags, listed, todo, from, rows>>

RunStates == {"idle", "list", "upsert", "select", "drop", "load", "fetch", "save", "done"}

\* The one that comes next. The lists of the medium have an order, that of the numbers;
\* the rows of a SELECT without ORDER BY have none, and are taken in one and the same.
Pick(S) == CHOOSE n \in S : TRUE

NoRange == [from |-> 0, to |-> 0]

Live(a) == account[a] \in {"active", "paused"}

\* Two o'clock decides; of an hour, only its side of that is kept.
FinalizeHour == 2

LastFinalizedDate(t) == IF t.hour < FinalizeHour THEN t.day - 2 ELSE t.day - 1

\* The types; no figure is in ad_data, or on its way there, before it is final.
BatchTypeOK ==
    /\ medium \in [Accounts -> MediumStates]
    /\ now \in [day : Int, hour : {0, FinalizeHour}]
    /\ account \in [Accounts -> MediumStates \cup {"deleted"}]
    /\ data \subseteq Accounts \X Int
    /\ pc \in [Runs -> RunStates]
    /\ mode \in [Runs -> {"default", "full", "date"}]
    /\ range \in [Runs -> [from : Int, to : Int]]
    /\ asOf \in [Runs -> Int]
    /\ listed \in [Runs -> SUBSET Accounts]
    /\ todo \in [Runs -> SUBSET Accounts]
    /\ from \in [Runs -> Int]
    /\ rows \in [Runs -> SUBSET Int]
    /\ \A row \in data : row[2] <= LastFinalizedDate(now)
    /\ \A b \in Runs : \A d \in rows[b] : d <= LastFinalizedDate(now)

Init ==
    /\ medium \in MediumLists
    /\ now = [day |-> FirstDay, hour |-> FinalizeHour]
    /\ account = [a \in Accounts |-> "absent"]
    /\ data = {}
    /\ pc = [b \in Runs |-> "idle"]
    /\ mode = [b \in Runs |-> "default"]
    /\ range = [b \in Runs |-> NoRange]
    /\ asOf = [b \in Runs |-> 0]
    /\ listed = [b \in Runs |-> {}]
    /\ todo = [b \in Runs |-> {}]
    /\ from = [b \in Runs |-> 0]
    /\ rows = [b \in Runs |-> {}]

-----------------------------------------------------------------------------
\* A run.

Goto(b, where) == pc' = [pc EXCEPT ![b] = where]

\* Works through the accounts in ids, then goes on to next.
Each(b, ids, where, next) ==
    /\ todo' = [todo EXCEPT ![b] = ids]
    /\ Goto(b, IF ids = {} THEN next ELSE where)

\* The next of todo.
Rest(b, where, next) == Each(b, todo[b] \ {Pick(todo[b])}, where, next)

DefaultDateRange == [from |-> LastFinalizedDate(now), to |-> LastFinalizedDate(now)]

SingleDateRange(d) == [from |-> d, to |-> d]

\* Mutant: the first day is one too late.
FullDateRangeShort ==
    [from |-> LastFinalizedDate(now) - MaxDays + 2, to |-> LastFinalizedDate(now)]

FullDateRange ==
    [from |-> LastFinalizedDate(now) - (MaxDays - 1), to |-> LastFinalizedDate(now)]

Begin(b, flag, days) ==
    /\ pc[b] = "idle"
    /\ mode' = [mode EXCEPT ![b] = flag]
    /\ range' = [range EXCEPT ![b] = days]
    /\ asOf' = [asOf EXCEPT ![b] = LastFinalizedDate(now)]
    /\ from' = [from EXCEPT ![b] = days.from]
    /\ Goto(b, "list")
    /\ UNCHANGED <<medium, now, tables, listed, todo, rows>>

\* main reads the clock once, and not again when two o'clock passes.
Start(b) ==
    \/ Begin(b, "default", DefaultDateRange)
    \/ Begin(b, "full", FullDateRange)
    \/ \E d \in AskedDays : Begin(b, "date", SingleDateRange(d))

Listing == {a \in Accounts : medium[a] # "absent"}

\* The accounts of the list up to a: the place of a in it.
UpTo(a) == {c \in Listing : c <= a}

\* handleAccounts: the page after the n first accounts of the list.
Page(n) ==
    {a \in Listing : n < Cardinality(UpTo(a)) /\ Cardinality(UpTo(a)) <= n + PageSize}

\* Mutant: the first page is taken for the whole list.
ListFirstPage(b) ==
    /\ pc[b] = "list"
    /\ listed' = [listed EXCEPT ![b] = Page(0)]
    /\ Each(b, Page(0), "upsert", "select")
    /\ UNCHANGED <<medium, now, tables, flags, from, rows>>

\* Mutant: the same page is asked for again.
ListSamePage(b) ==
    LET page == Page(0)
    IN  /\ pc[b] = "list"
        /\ listed' = [listed EXCEPT ![b] = @ \cup page]
        /\ IF Cardinality(listed[b] \cup page) >= Cardinality(Listing) \/ page = {}
           THEN Each(b, listed[b] \cup page, "upsert", "select")
           ELSE UNCHANGED <<todo, pc>>
        /\ UNCHANGED <<medium, now, tables, flags, from, rows>>

\* One page of ListAccounts. A run has the whole list before it writes.
ListPage(b) ==
    LET page == Page(Cardinality(listed[b]))
        all == listed[b] \cup page
    IN  /\ pc[b] = "list"
        /\ listed' = [listed EXCEPT ![b] = all]
        /\ IF Cardinality(all) >= Cardinality(Listing) \/ page = {}
           THEN Each(b, all, "upsert", "select")
           ELSE UNCHANGED <<todo, pc>>
        /\ UNCHANGED <<medium, now, tables, flags, from, rows>>

\* INSERT ... ON DUPLICATE KEY UPDATE, which takes back a deletion.
UpsertAccount(b) ==
    /\ pc[b] = "upsert"
    /\ LET a == Pick(todo[b]) IN account' = [account EXCEPT ![a] = medium[a]]
    /\ Rest(b, "upsert", "select")
    /\ UNCHANGED <<medium, now, data, flags, listed, from, rows>>

\* The rows that are not deleted, read at once, less those that were listed (the
\* list has no use after this).
SelectUnlisted(b) ==
    /\ pc[b] = "select"
    /\ Each(b, {a \in Accounts : Live(a)} \ listed[b], "drop", "load")
    /\ listed' = [listed EXCEPT ![b] = {}]
    /\ UNCHANGED <<medium, now, tables, flags, from, rows>>

SoftDeleteAccount(b) ==
    /\ pc[b] = "drop"
    /\ account' = [account EXCEPT ![Pick(todo[b])] = "deleted"]
    /\ Rest(b, "drop", "load")
    /\ UNCHANGED <<medium, now, data, flags, listed, from, rows>>

LoadActiveAccountIDs(b) ==
    /\ pc[b] = "load"
    /\ Each(b, {a \in Accounts : account[a] = "active"}, "fetch", "done")
    /\ UNCHANGED <<medium, now, tables, flags, listed, from, rows>>

\* The end of the chunk that begins at day: chunkDateRanges.
ChunkEnd(day, to) == IF day + (MaxDays - 1) > to THEN to ELSE day + (MaxDays - 1)

NextAccount(b) ==
    /\ Rest(b, "fetch", "done")
    /\ from' = [from EXCEPT ![b] = range[b].from]

\* The next chunk of the account, or the next account.
NextChunk(b) ==
    LET next == ChunkEnd(from[b], range[b].to) + 1
    IN  IF next > range[b].to
        THEN NextAccount(b)
        ELSE /\ from' = [from EXCEPT ![b] = next]
             /\ Goto(b, "fetch")
             /\ UNCHANGED todo

\* The process is over, and all it had in memory; what it has written stays.
Quit(b) ==
    /\ Goto(b, "idle")
    /\ mode' = [mode EXCEPT ![b] = "default"]
    /\ range' = [range EXCEPT ![b] = NoRange]
    /\ asOf' = [asOf EXCEPT ![b] = 0]
    /\ listed' = [listed EXCEPT ![b] = {}]
    /\ todo' = [todo EXCEPT ![b] = {}]
    /\ from' = [from EXCEPT ![b] = 0]
    /\ rows' = [rows EXCEPT ![b] = {}]
    /\ UNCHANGED <<medium, now, tables>>

\* Mutant: the medium gives the days asked for, final or not.
HandleReportsUnfinished(a, first, last) ==
    IF medium[a] = "absent" THEN [status |-> 404, days |-> {}]
    ELSE IF last < first \/ last - first + 1 > MaxDays THEN [status |-> 400, days |-> {}]
    ELSE [status |-> 200, days |-> first..last]

\* The days that are not final are left out, by the clock at the time of the call.
HandleReports(a, first, last) ==
    IF medium[a] = "absent" THEN [status |-> 404, days |-> {}]
    ELSE IF last < first \/ last - first + 1 > MaxDays THEN [status |-> 400, days |-> {}]
    ELSE [status |-> 200, days |-> {d \in first..last : d <= LastFinalizedDate(now)}]

\* One chunk of one account. An account that is not found is skipped, any other
\* status ends the run.
GetReports(b) ==
    LET got == HandleReports(Pick(todo[b]), from[b], ChunkEnd(from[b], range[b].to))
        same == <<medium, now, tables, flags, listed>>
    IN  /\ pc[b] = "fetch"
        /\ CASE got.status = 400 -> Quit(b)
             [] got.status = 404 -> NextAccount(b) /\ UNCHANGED <<same, rows>>
             [] got.status = 200 ->
                    /\ rows' = [rows EXCEPT ![b] = got.days]
                    /\ IF got.days = {} THEN NextChunk(b)
                       ELSE Goto(b, "save") /\ UNCHANGED <<todo, from>>
                    /\ UNCHANGED same

\* upsertAdData of one row; after the last, the next chunk.
SaveRow(b) ==
    LET d == Pick(rows[b])
    IN  /\ pc[b] = "save"
        /\ data' = data \cup {<<Pick(todo[b]), d>>}
        /\ rows' = [rows EXCEPT ![b] = @ \ {d}]
        /\ IF rows[b] = {d} THEN NextChunk(b) ELSE UNCHANGED <<todo, pc, from>>
        /\ UNCHANGED <<medium, now, account, flags, listed>>

\* The process exits: a run that has ended, one whose call to the medium or to
\* MySQL has failed for good, or a container that is killed.
Exit(b) == pc[b] # "idle" /\ Quit(b)

-----------------------------------------------------------------------------
\* The world around the batch.

\* Another list is put up at the medium.
ChangeMedium ==
    /\ \A b \in Runs : pc[b] = "idle"
    /\ medium' \in MediumLists
    /\ UNCHANGED <<now, tables, pc, flags, listed, todo, from, rows>>

TwoOClock ==
    /\ now.hour < FinalizeHour
    /\ now' = [now EXCEPT !.hour = FinalizeHour]
    /\ UNCHANGED <<medium, tables, pc, flags, listed, todo, from, rows>>

Midnight ==
    /\ now.hour = FinalizeHour /\ now.day < LastDay
    /\ now' = [day |-> now.day + 1, hour |-> 0]
    /\ UNCHANGED <<medium, tables, pc, flags, listed, todo, from, rows>>

\* What a run does by itself once it is started.
Step(b) ==
    \/ ListPage(b) \/ UpsertAccount(b) \/ SelectUnlisted(b) \/ SoftDeleteAccount(b)
    \/ LoadActiveAccountIDs(b) \/ GetReports(b) \/ SaveRow(b)

Next ==
    \/ \E b \in Runs : Start(b) \/ Step(b) \/ Exit(b)
    \/ ChangeMedium \/ TwoOClock \/ Midnight

Spec == Init /\ [][Next]_vars

\* A run that is started goes on: every call of it ends, by a timeout if not before.
FairSpec == Spec /\ \A b \in Runs : WF_vars(Step(b))

-----------------------------------------------------------------------------
\* Properties.

\* syncAccounts soft-deletes only an account that the medium does not have:
\* a list cut into pages, or another run half way through, deletes nothing else.
DropsOnlyAbsent ==
    [][\A a \in Accounts : Live(a) /\ account'[a] = "deleted" => medium[a] = "absent"]_vars

\* The days that the flags of a run promise: the last final one, those of the
\* window of maxReportDays that ends with it, or the day asked for if it is final.
Promised(b) ==
    CASE mode[b] = "default" -> {asOf[b]}
      [] mode[b] = "full" -> {d \in (asOf[b] - MaxDays)..asOf[b] : asOf[b] - d < MaxDays}
      [] mode[b] = "date" -> {d \in {range[b].to} : d <= asOf[b]}

\* When a run of main reports its end, ad_accounts is what the medium has, and
\* ad_data has the days it promised of every active account: whatever runs that
\* failed have left behind, whatever another does meanwhile, and although two
\* o'clock may pass between the batch's look at the clock and the medium's. A full
\* run so makes up for every day of its window that was missed before.
DoneMeansSynced ==
    \A b \in Runs :
        pc[b] = "done" =>
            \A a \in Accounts :
                /\ IF medium[a] = "absent" THEN ~Live(a) ELSE account[a] = medium[a]
                /\ medium[a] = "active" => \A d \in Promised(b) : <<a, d>> \in data

\* Every run comes to its end or exits: the pages of the list and the chunks of the
\* range run out, whatever the other run and the clock do.
RunEnds == \A b \in Runs : pc[b] = "list" ~> pc[b] \in {"done", "idle"}

=============================================================================
