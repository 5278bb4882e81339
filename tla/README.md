# Verification of the ad-report system

TLA+ modules, TLC configurations and TLAPS proofs for the services of this
repository: the request, the queue and the worker that make a CSV report, the
download of it, the migrations that three services run at their start, the
management of users and their permissions, and the batch that copies accounts
and figures from the advertising medium.

## 1. The system

`compose.yaml` starts six services and leaves one to be run by hand. None has a
restart policy.

| Part | Code | State it keeps | Operations |
|---|---|---|---|
| internal-api | `internal-api/` | none of its own | reports, history, download, users, accounts |
| report-generate-batch | `worker/` | the job in its hands | `BLPOP`, then `generateReport`, one job after the other |
| batch (profile `tools`) | `batch/` | none | `syncAccounts`, then `syncAdData` |
| example-ads-api | `exampleAdsAPI/` | the limiter's list of times | pages of accounts, figures of a day, 60 requests a minute |
| frontend | `frontend/` | what each page has loaded | pages for reports, history, users |
| MySQL (`db`) | `migrations/` | all tables, on a named volume | |
| Redis (`queue`) | external | the list `report_generate`, not persisted (README.md:262) | `RPUSH`, `BLPOP` |
| `data/exports` | a directory | one CSV file for each report | written by the worker, read by internal-api |

How they meet:

- A report is a row (`report`), a job (Redis list) and a file. internal-api
  inserts the row and pushes the job, the worker pops it and moves the row
  through `queued`, `processing` and `completed` or `failed`. Neither looks at
  the status before it writes one, and no transaction spans the row, the list
  and the file.
- A download reads the row, then looks for the file, then streams it, while the
  worker may write both.
- Three services run the same `migrate.go` against one database. A named lock
  of MySQL (`GET_LOCK`) is what keeps them apart.
- Permissions tie users to ad accounts. The batch soft-deletes accounts, admins
  change permissions, and the frontend holds copies of both.
- Every request to the medium passes a limiter that the batch, with its retries,
  shares with every other caller.

What is hard about it: a call to MySQL or Redis may take effect and lose its
reply; a service may die between any two steps; the queue may be lost or be
pushed to by hand, as the README tells operators; checks and writes are separate
statements of separate connections; the pages act on old copies; the clock is
read before a mutex is taken. `PROJECT.json` lists the hazards at their lines.

What makes each part correct:

- *Reports.* A completed row has its path and its whole file. An unsettled row
  has somebody who will settle it, unless a failure took them away, and then it
  does settle. Where no job is in the list twice, a report is generated once.
- *Download.* What the row promises is found, and comes whole.
- *Migrations.* Versions are recorded in order and over nobody else; a service
  serves only a migrated schema; a file that is not DDL takes effect exactly when
  it is recorded; every start ends.
- *Users.* A PATCH changes no field it leaves out; a deleted user stays frozen;
  a foreign key never refuses what was checked.
- *Pages.* What a page offers, the handler accepts, unless something changed; a save
  changes no permission that nobody touched.
- *Batch.* A run that reports its end has brought the accounts and its days, and
  nothing the medium has is soft-deleted; every run ends.
- *Contents of a report.* After a run nothing is missing from it, when it is made again
  nothing goes, and its charges are right to within half a yen.
- *Quota.* The limit holds, and refusals do not use it up.

## 2. Modules

| Module | Models | Built on |
|---|---|---|
| `ReportLifecycle` | abstract: the life of one report's row and file | |
| `ReportPipeline` | POST /report, the Redis list, the worker | refines `ReportLifecycle` |
| `ReportDownload` | GET /me/reports and GET /report?id= beside the pipeline | extends `ReportPipeline` |
| `SchemaVersions` | abstract: the version of the schema and who serves | |
| `Migrations` | `runMigrations` in several services | refines `SchemaVersions` |
| `UserStore` | abstract: orders to manage users, one at a time | |
| `UserAdmin` | POST, PATCH, DELETE /user, with the batch on `ad_accounts` | refines `UserStore` |
| `ReportForm` | the page for new reports and the handler's permission checks | extends `UserAdmin` |
| `AccountScreen` | the page for one user: load, edit, save, delete | extends `UserAdmin` |
| `BatchSync` | a run of the batch (`batch/main.go`) against the medium | |
| `Charge` | `customerChargeJPY`, pure operators | |
| `ReportContents` | the worker's query over the tables the batch writes, with the charge | extends `BatchSync`, `Charge` |
| `AdsQuota` | the medium's limiter and `getJSON`'s retries | |
| `MCUserAdmin`, `MCReportForm`, `MCAccountScreen` | the PATCH bodies TLC enumerates | |
| `MCReportContents` | the medium's lists, the costs and the reports TLC enumerates | |
| `ReportPipelineProofs`, `ReportDownloadProofs`, `MigrationsProofs`, `UserAdminProofs`, `ReportFormProofs`, `AccountScreenProofs`, `BatchSyncProofs`, `AdsQuotaProofs` | theorems | extend the module they are about; `BatchSyncProofs` is about `ReportContents` too |

Operators that begin a comment with "Mutant" are plausible bugs of the
definition that follows them. No specification uses them: they show that each
property can fail.

### ReportPipeline and ReportLifecycle

`status`, `reason` and `filePath` are columns of `report`; `csv` is the file in
`data/exports`; `queue` the Redis list; `api` and `attempt` the goroutine of each
request with the try of go-redis it is at; `wpc` and `wjob` the worker's loop.
A report has the name of the request that inserts it, for ids are
AUTO_INCREMENT. The actions are, in the code's order, `Validate`,
`CreateQueuedReport`, `Enqueue` or `EnqueueError`, `MarkReportFailed`
(`reports.go`, `store.go`, `queue.go` of internal-api) and `Dequeue`, `Poll`,
`LoadReport`, `MarkReportProcessing`, `LoadReportRows`, `TruncateCSV`,
`FinishCSV`, `MarkReportCompleted`, `MarkJobFailed` (`worker/`).

A call has three outcomes: it succeeds; it fails without effect (`callError`); it
takes effect and the caller sees an error (`replyLost`). With `apiRestart`,
`workerRestart`, `redisLoss` (a restart of Redis or the `FLUSHALL` of the README)
and `manualPush` (the `RPUSH` of README.md:223) these are the disturbances, and
`MaxDisturbances` bounds how many a behaviour has.

`losses` is a history variable: the reports whose job, or whose last status
update, a disturbance swallowed. It says what the code cannot make up for.

`ReportLifecycle` is what remains when services, list and retries are forgotten.
With `Reruns = FALSE` it is the diagram of README.md:182-216: a settled report
stays as it is. With `Reruns = TRUE` a settled report may be generated again,
which is what the code keeps when a job can be in the list twice. The refinement
mapping is `stage <- status, file <- csv`.

### ReportDownload

`shown` is the page's copy of GET /me/reports, `dl` the download in progress. The
handler's three looks (the row, `os.Stat`, the open of `http.ServeFile`) are
separate actions, each of which can also fail by itself, and `PipelineStep` tears a stream
whose file the worker writes. `DeliversWhole` and `ShownIsDelivered` are stated where no job
is in the list twice (`Download.cfg` and `NoDuplicates`): a job that runs again does tear
streams and take reports back from "completed". `CompletedFileIsFound` is proved with such
jobs too.

### Migrations

`pc`, `tries` and `at` follow one `runMigrations`; `lock` is the holder of
`app_schema_migrations`; `pending` tells whether the open transaction has run a
file; `recorded` is `schema_migrations`; `applied` counts how often each file took
effect for good (history). 001, 002 and 004 contain DDL, which commits implicitly;
the other two only take effect with their COMMIT. `ReleaseLock` may fail and leave
the lock with the pooled connection until `ExpireConnection`.

`SchemaVersions` is what remains when the lock, the tries, the transactions and the
failures are forgotten: one hand runs the files. Its `version` is what the rows of
`schema_migrations` stand for (`Version`), its `serving` the services whose `pc` says so.
A file with DDL may take effect ahead of its version (`RunAhead`), and again when the
record of it was not written, which is what implicit commits leave of atomicity.

### UserAdmin, ReportForm, AccountScreen

A request reads its user's role once (`Send`), checks the accounts (`CheckAccounts`)
and writes (`CreateUser`, `SelectForUpdate` with `CommitUpdate`, `SoftDeleteUser`).
`rowLock` is the row lock of `SELECT ... FOR UPDATE`. The batch's writes to
`ad_accounts` and restarts come between any two steps.

`UserStore` knows no lock and no second query. A request is an order that arrives, takes
effect in one step on the tables as they are then, or is given up. `OrderOf` maps a
request of `UserAdmin` to what it has still to do: an order disappears with the commit
that carries it out, or with its refusal. An update between its lock and its commit is
still an order, so that the refinement says that the check of the accounts, the
`SELECT ... FOR UPDATE` and the writes can be taken for one instant, that of the commit.

`ReportForm` adds a page
per user (`form`), which asks for the user and then for the accounts, and the two queries of
POST /report; `AccountScreen` adds a
screen per request (`screen`) that loads the user and the list of accounts
concurrently, can be edited at any time, and sends every field back as a PATCH, or a
DELETE. `Observe` joins the two: when the request a screen waits for (`sent`) ends,
`Answered` says what becomes of the screen, and a lost reply is an error although the
row has changed. `fresh` is a history variable of both pages: no row has changed since
the page began to load. `known`, `toggled` and `changes` are others of the screen: the
permissions it loaded, the boxes that differ from them, and these when it was sent.

### BatchSync, ReportContents, Charge and AdsQuota

`BatchSync` follows a run from `main`'s one look at the clock (`Start`, in the three
modes of its flags) over the list of the medium: pages, upserts, the comparison with
`ad_accounts`, soft deletes, then for each active account the chunks of its range
(`ChunkEnd`, `NextChunk`), each a call of `HandleReports` and an upsert per row. Every
write is an action; `Exit` may come at any of them. `now` is a day and the side of two
o'clock, which `LastFinalizedDate` reads in the batch and, later, in the medium. The
lists are sets, worked through in one order (`Pick`): that of the medium where the medium
gives them, and the same one for the rows of a SELECT without ORDER BY, which may come in
any. The proofs use nothing of `Pick` but that it takes a member. The medium's accounts are
compiled into it, so they change only while no run is under way (`ChangeMedium`). `asOf`
is a history variable, for `Promised`: the days that the flags of a run promise.

`ReportContents` adds no variable. `loadReportRows` is one SELECT, so that the rows of a
report (`ReportRows`) are a function of the tables, and the properties relate this
function to what the batch does. `Cost` is any function of the account and the day:
`exampleAdsAPI/seed.go` makes its figures from these two alone.

`Charge` models the float64 division of `margin.go:15`. The double of `1 - rate / 100`
differs from the exact number by `Excess` (in hundredths of 2^-53). Below some hundred
million yen that matters only where the exact quotient ends in one half, which needs a
share `100 - rate` divisible by 8; there the quotient comes out below the half when the
excess is more than half the distance of two doubles (`FallsShort`), and `math.Round`
rounds it down. `MaxCost` bounds a day's cost by what `generateMetrics` can make. The
operator was compared with a float64 evaluation of the same expression for every rate
and every cost up to `MaxCost`, without a difference; that comparison is not part of the
runs.

`AdsQuota` follows `protect` and `allow` and, on the other side, `getJSON`. The
handler evaluates `s.now()` before it waits for the mutex (`main.go:60`), so times
reach the limiter late and out of order; `MaxLag` bounds how late. The quota then
holds for every window less the lag, and no longer one. A run of the batch over
its ten accounts with one chunk each makes 11 calls; with 5 tries these are 55
requests at most, within the 60 of a minute, so that only several callers meet
the limit. Callers end and the clock is bounded, hence `CHECK_DEADLOCK FALSE`.

## 3. Runs

| Run | Shows |
|---|---|
| `pipeline` | Two reports, three disturbances of every kind, tries and list of 2 and 3. `TypeOK`, `CompletedHasWholeFile`, `AccountedFor`, `KeepsLifecycle` (with reruns), `Settles` |
| `download_once` | The same two reports without lost replies and pushes by hand, with a page: `KeepsLifecycle` without reruns, `CompletedFileIsFound`, `DeliversWhole`, `ShownIsDelivered` |
| `migrations` | Three services and the five files, three disturbances: `RecordedInOrder`, `ServesMigrated`, `NeverRecordedTwice`, `AtomicWithoutDdl`, `RepeatedOnlyAfterDisturbance`, `KeepsSchema` (the refinement of `SchemaVersions`), `StartEnds` |
| `user_admin_rows` | Two concurrent requests over two users, the batch and restarts: `KeepsOtherFields`, `FrozenAfterDelete`, `ForeignKeyNeverRefuses`, `KeepsStore` (the refinement of `UserStore`) |
| `form_accounts` | The pages of an admin and a member, two accounts (alike, hence symmetric), one admin request at a time, the batch: `OfferedIsAllowed`, `ReportAccountsExist` |
| `screen_accounts` | The screen over two users, edited, saved and deleted, while the batch and an API client write: `RefusedOnlyForHidden`, `SaveKeepsUntouched` |
| `batch_safety` | Two runs at once in the three modes, two accounts on pages of one, a window of two days, over midnight and two o'clock, with three lists at the medium and four reports: `DoneMeansSynced`, `DropsOnlyAbsent`, `RunEnds`, in `BatchTypeOK` that no figure is stored before it is final, and of the reports `DoneMeansReported`, `RerunKeepsRows`, `ChargeIsNearest`, `ChargeIsRounded` |
| `quota_limits` | Two callers, three tries, a limit of 2 in a window of 3 ticks, a lag of 1: `LimitHolds`, `RefusedOnlyWhenFull` |
| `pipeline_stranded` | Violation: a restart of the worker strands a report in `processing` |
| `pipeline_enqueue` | Violation: "could not be queued" is written of a job that is queued |
| `migrations_initdb` | Violation: a new volume runs the files twice |
| `screen_hidden` | Violation: the screen cannot save a user with a hidden account |

Distinct states: `pipeline` 127 000, `download_once` 185 000, `migrations` 70 000,
`user_admin_rows` 300 000, `form_accounts` 1.5 million, `screen_accounts` 4.7 million,
`batch_safety` 550 000, `quota_limits` 5 million; the longest, `batch_safety` with its
liveness and `screen_accounts`, take one to two minutes, the others seconds. To repeat
one: `tlc -config Pipeline.cfg ReportPipeline.tla`, and `tlapm MigrationsProofs.tla`
for proofs.

### Bounds, and why they are enough

- *Two reports.* Reports meet only in the list and at the worker; two show one
  behind another, one pushed twice, and one in the worker's hands while the other
  is queued. Three disturbances allow a duplicate (lost reply), its second run,
  and a failure in that run. `MaxAttempts = 2` has a first and a last try, the
  four of go-redis differ in nothing else. `MaxQueue` only bounds pushes. The
  theorems lift all of these bounds for the safety properties.
- *Three services, five files* are the real numbers; `LockAttempts = 2` of 30 has a
  first and a last try.
- *Two requests* are the least that race; one row lock orders more of them.
  Names are two, roles both, accounts one or two, and the bodies have each field
  alone and all together, with accounts that exist and that do not.
- *Batch.* A page of one makes a second page. A window (`MaxDays`) of two days makes
  a range, and a full run one chunk of two rows; the behaviour begins at a time when two
  days of the past are final, passes midnight and two o'clock, and `AskedDays` has a day
  that is final only at the end. No mode of the program makes a second chunk, for its
  ranges are one day or exactly the window; `NextChunk` is written for any range, and
  the theorems are for any window.
- *Contents.* The costs of `MCReportContents` are chosen around 12 000, where the charges
  at the rates 36, 44 and 84 end in one half, rounded up at the first and down at the
  others, and one at 30 in more than a half. The theorems are for every cost up to `MaxCost` and every rate.
- *Quota.* Two calls of three tries each by two callers give more requests than the
  limit, backoffs of one and of two ticks, and five ticks more than one window. Not all
  of the four backoffs are run through: only the number and the doubling differ, and the
  theorems are for any number.

### Fairness

`ReportPipeline!FairSpec`: weak fairness of `Work`, because the worker's loop ends
only with its process and every call has a timeout; and of each accepted request's
own steps, because the Go runtime runs every goroutine that can run. No fairness of
`Validate` (nobody must send a request) nor of a disturbance. `Migrations!FairSpec`:
weak fairness of each service's `Migrate(s)`: a started process goes on, MySQL
answers or times out. `StartEnds` does not assume that the lock is ever free: it
holds because the tries are counted. `BatchSync!FairSpec`: weak fairness of each run's
`Step(b)`, what a run does by itself once somebody has started it: its calls of the
medium and of MySQL end, by a timeout of the client (`client.go:54`) or of the DSN if not
otherwise, and one that fails for good is an `Exit`, which ends the run as well. Nobody
must start a run. `UserAdmin`, its pages and `AdsQuota` state safety only: an HTTP request
there is a fixed list of steps without a loop, and the clock of `AdsQuota` is bounded.

## 4. Proofs

All proofs are for every value of the constants that satisfies the assumption of
the module: any number of reports, tries, disturbances and downloads.

`ReportPipelineProofs`

- `TypeCorrect`: `Spec => []TypeOK`.
- `CompletedHasWholeFileAlways`. The property is not inductive: a step of the
  worker reads `status` and `csv` of the job in its hands. `RowInv` adds what is
  known at each state of the worker: from `mark` on the row exists, between `rows` and
  `complete` its status is `processing` or, through internal-api, `failed` (because
  `MarkReportProcessing` has gone before, whatever the status was, and only the worker
  completes), and at `complete` the file is whole.
- `AccountedForAlways`: one step per action; the actions that take a job, a
  handler or the worker's job away also add to `losses`.
- `KeepsLifecycleWithReruns`: initial states map to initial states, and each action
  to a step of `ReportLifecycle` or a stutter, by `RowInv`.
- `KeepsLifecycleOnce`, under `NoDuplicates` (no `replyLost`, no `manualPush`), from
  `OnceInv`: the list has no entry twice, a queued job is not the worker's and its row
  is `queued` with its handler done, and the worker's
  position fixes the status of its row. Lemmas about sequences without repetitions
  (`DistinctAppend`, `DistinctTail`) carry it over pushes and pops.

- `JobsAdvanceAlways`, from `TypeOK`: `Stage` counts the steps that the worker has left
  with the job it holds, and `Ahead(i)` those before it holds the job at place `i`. Every
  step of the worker lowers both, what others do raises neither, a job behind another one
  is never overtaken by what is pushed later, and the worker lets go of a report only
  with the row settled or the loss on record.

`ReportDownloadProofs`

- `CompletedFileIsFoundAlways`: the 500 answers for a missing path or file are
  unreachable, whatever is disturbed, because no step removes a file (`FilesStay`).
- `DownloadTypeCorrect`: `DownloadSpec => []DownloadTypeOK`.
- `ShownIsDeliveredOnce`, under `NoDuplicates`, from `ShownInv`: what a page shows as
  completed is completed still, so that no refusal awaits its download.
- `DeliversWholeOnce`, under `NoDuplicates`: `OnceInv` makes a completed report stay
  completed with its file unchanged (`CompletedStays`), which holds a stream whole.
- `DownloadsKeepLifecycleWithReruns` and `DownloadsKeepLifecycleOnce`: the refinement of
  `ReportLifecycle` holds of the composition too, for a step of the composition is one of
  the pipeline or one that reads.

`MigrationsProofs`, for any number of services, files, tries and disturbances:

- `MigrationsTypeCorrect`, `RecordedInOrderAlways`, `ServesMigratedAlways`, `NeverRecordedTwiceAlways`,
  `AtomicWithoutDdlAlways`, `RepeatedOnlyAfterDisturbanceAlways`, all from one
  invariant, `MigrationsInv`. Its parts: whoever is between `GET_LOCK` and its release
  holds the lock (`LockInv`), so there is one service in the loop (`Alone`); the place
  of that service says what is recorded, up to `at[s]` (`LoopInv`), and nobody else
  can make it untrue (`OthersKeep`); every effect of a file is recorded, on its way
  into the record, or paid for by a disturbance (`AppliedInv`).
- `KeepsSchemaAlways`, the refinement of `SchemaVersions`, from the same invariant.
  `recorded` is always `1..n` for one `n` (`VersionIs`), an `INSERT` is of the version
  after it because the lock holder has passed all before, and a file that runs is the
  next one for the same reason.
- `StartsCountDownAlways`: `StepsLeft(s)` is at most `4 N + 6 + LockAttempts`; each step
  of a starting service, and its death, lowers it, and no step of another changes it.

`UserAdminProofs`, for any users, accounts, bodies and number of requests:

- `ForeignKeyNeverRefusesAlways`, from `CheckedInv`: what passed the check has the
  rows it needs, because no row of `ad_accounts` goes away (`AccountsStay`).
- `KeepsOtherFieldsAlways` and `FrozenAfterDeleteAlways`, from `LockedInv`: a request
  that writes holds the lock of its row, which is alive and as the request read it.
- `AdminTypeCorrect`: `AdminSpec => []AdminTypeOK`.
- `KeepsStoreAlways`, the refinement of `UserStore`, from all of this: `LockedInv` makes what an
  update read what is there when it commits, and `CheckedInv` makes what was checked
  still known, so that the commit alone is the abstract step.

`ReportFormProofs`, for any users, accounts and requests, over the lemmas of
`UserAdminProofs`:

- `OfferedIsAllowedAlways`, from `FreshInv`: while nothing has changed, what the page has
  picked is permitted and live, as the query that authorises wants it.
- `ReportAccountsExistAlways`, from `CreatingInv` and `AccountsStay`: what was authorised
  exists, and no row of `ad_accounts` goes away.
- `FormTypeCorrect`.
- `FormsAreReaders`: `FormSpec => AdminSpec /\ KeepsStore`; the pages change nothing that
  `UserAdmin` knows.

`AccountScreenProofs`, for any users, accounts, requests and screens, from one invariant,
`ScreenInv`. Its part `ScreenOK` relates a screen to the tables (the boxes used are those
where what is selected differs from what was loaded; a fresh screen lists what is live), its
part `SentOK` a screen that waits to its request, whose body has for every account without
a box what the screen has:

- `RefusedOnlyForHiddenAlways`: the check that refused the body found an account that is
  not live; a fresh screen does not list it, so that it has no box, and it is still selected.
- `SaveKeepsUntouchedAlways`: by `LockedInv` of `UserAdminProofs` only the request that
  holds the row writes the permissions (`OnlyTheOwnerWrites`), and they become its body,
  which differs from what was loaded only where a box was used.
- `ScreenTypeCorrect`.
- `ScreensAreClients`: `ScreenSpec => AdminSpec /\ KeepsStore`; what a screen sends is a
  request that `UserAdmin` allows to any client.

`BatchSyncProofs`, for any number of runs, accounts, size of page, window, lists at the
medium, and with failures anywhere:

- `BatchTypeCorrect`, with the part of `BatchTypeOK` that is about time: a day is final in
  the batch's eyes or the medium's only if it is now, because `LastFinalizedDate` does
  not fall.
- `DropsOnlyAbsentAlways`: a run past its listing has all of the medium's list in
  `listed` (the page after the first n accounts is not empty while any is left), so that
  what it takes for unlisted is absent; the list does not change under a run.
- `DoneMeansSyncedAlways`. Inductive with it: what a run has upserted is in `ad_accounts`
  as the medium has it, and stays so whatever another run writes, because the other one
  writes the same; an account in `todo` or gone from it has its days from `range[b].from`
  to `from[b]` in `data` or in `rows`; and `Promised` lies in `range`.
- `DoneMeansReportedAlways`, from it; `RerunKeepsRowsAlways`: no step removes a row of
  `ad_data` or makes an account absent again.
- `ChargeIsNearestAlways`, `ChargeIsRoundedAlways`: from lemmas about `CustomerCharge`
  alone, by the division's remainder and, for the rates whose share is divisible by 8,
  by the value of `Excess` against `Scale`.
- `EveryStepCountsDown`: `Measure(b)` is how far the run is (`Phase`), the accounts, the
  days and the rows it has before it, ordered as a dictionary is, which is
  well-founded. Each step of a run and its exit lower it, and no other run, clock or list
  at the medium changes it.

`AdsQuotaProofs`, for any callers, calls, tries, limit, window and lag:

- `LimitHoldsAlways`, from `LagInv` (a stamp is at most `MaxLag` older than its arrival)
  and `TimesInv`: every request that passed and is no longer in `times` has a stamp at least
  a window older than the clock; `Allow` keeps `times` at `Limit` members or fewer.
- `RefusedOnlyWhenFullAlways`, from the same: what `times` holds has passed.
- `QuotaTypeCorrect`.

Only model-checked: `Settles`, `StartEnds` and `RunEnds`, for liveness under fairness is
out of the prover's reach. What these rest on beside fairness is proved: the three
theorems that count down (`JobsAdvanceAlways`, `StartsCountDownAlways`,
`EveryStepCountsDown`) say for every value of the constants that the steps which
fairness forces cannot go on for ever and that nobody else undoes them. What they leave
to TLC is that such a step is enabled as long as there is something to do. The formulas
of these three are long and say how a proof goes rather than what a user wants, so
that no run of their own repeats them. What connects `Charge` with float64 arithmetic
is the comparison of section 2, not a proof.

## 5. Where the code and its documents differ

- A restart of the worker leaves a report in `processing` for ever
  (`pipeline_stranded`); README.md:207-213 knows two ends only.
- An `RPUSH` whose reply is lost makes the row say that the job could not be queued
  (`reports.go:80`) while the job is in the list (`pipeline_enqueue`); the report is
  then generated all the same.
- `compose.yaml:69` mounts the migrations into the entrypoint of MySQL, which runs
  and does not record them, so that the first service runs them again
  (`migrations_initdb`); 001 inserts its three messages twice.
- `AccountManageScreen` sends back accounts it does not show, and the PATCH is then
  refused (`screen_hidden`): a seed user before the first batch, or a user with a
  soft-deleted account, cannot be saved.
- README.md:218 says that the charge is rounded half up (`四捨五入`). At rates of 44 and
  84 a charge that ends in one half can be rounded down, because `margin.go:15` divides
  by a double that is too large: 12002 yen at 84 % are 75012.5, and the file says 75012.
  `ChargeIsRounded` states where it may happen and that it happens nowhere else; the
  run `batch_safety` reaches such a row.

## 6. Not modelled

- How the medium makes its figures (FNV and a pseudo-random generator over the account
  and the day, in floating point): a pure function, of which only the bound and that it
  depends on nothing else are used. The encoding of the CSV (BOM, quoting, names).
- Parsing and formatting of dates, ids and JSON, without state.
- The dashboard, its demo tables and the Redis list `jobs`, which nothing pops.
- The list of users and the frame of the frontend; layout.
- Gap locks of InnoDB: a rollback by deadlock is `CallFails` of `UserAdmin`.
- A build of the medium with another list that is put up while a run is under way.
- The answers of a load of `AccountManageScreen` that come after another user's screen
  has begun to load (its `load` cancels nothing): only the history of the browser leads
  from one user's screen straight to another's, and the model takes the first load as
  abandoned.
- A service without the directory `MIGRATIONS_DIR`, which skips the migrations and serves
  (`migrate.go:26-29`): `compose.yaml` mounts it into each of the three.
- The wait for MySQL and Redis at the start of a service (30 tries), which ends before
  any state is touched.

## 7. State of the plan

All parts with a protocol or a rule of their own are modelled, with theorems for every
safety property of the runs and for all three refinements. What would come next, in this order:

1. A composition of `ReportContents` with `ReportPipeline`, so that the file of a
   completed report is a snapshot of the tables between two of the worker's steps.
2. The callers of `AdsQuota` as runs of `BatchSync`, so that a refused call and the
   `Exit` it causes are one step.
