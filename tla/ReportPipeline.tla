---------------------------- MODULE ReportPipeline ----------------------------
(***************************************************************************)
(* How a report is made: POST /reports in internal-api inserts a row and   *)
(* pushes a job on the Redis list report_generate, and the one loop of     *)
(* report-generate-batch (src/worker) pops jobs, writes the CSV file and   *)
(* moves the row's status.                                                 *)
(*                                                                         *)
(* A report is named after the request that inserts its row: the column id *)
(* is AUTO_INCREMENT, so two requests never share one. Every call to MySQL *)
(* and Redis has three outcomes: it succeeds, it fails and has no effect   *)
(* ("callError"), or it takes effect and its reply is lost ("replyLost"),  *)
(* which the caller sees as an error. Those and the other departures from  *)
(* the quiet run are Disturbances, and at most MaxDisturbances happen.     *)
(***************************************************************************)
EXTENDS Integers, Sequences

CONSTANTS
    Requests,         \* the requests to create a report, and the report of each
    NoReport,         \* what the worker holds between two jobs
    Poison,           \* a list entry handleJob refuses: bad JSON, another type, no report_id
    Disturbances,     \* the kinds of disturbance that can happen
    MaxDisturbances,  \* how many happen at most
    MaxAttempts,      \* tries go-redis gives one RPUSH (MaxRetries + 1: 4 by default)
    MaxQueue,         \* bound on the Redis list
    Reruns            \* which promise of ReportLifecycle a run checks

DisturbanceKinds ==
    {"callError", "replyLost", "apiRestart", "workerRestart", "redisLoss", "manualPush"}

ASSUME PipelineAssumption ==
    /\ NoReport \notin Requests
    /\ Poison \notin Requests \cup {NoReport}
    /\ Disturbances \subseteq DisturbanceKinds
    /\ MaxDisturbances \in Nat
    /\ MaxAttempts \in Nat \ {0}
    /\ MaxQueue \in Nat \ {0}
    /\ Reruns \in BOOLEAN

VARIABLES
    status,     \* report.status, "none" while the row does not exist
    reason,     \* report.reason: NULL, or which of the two services wrote the text
    filePath,   \* whether report.file_path is not NULL
    csv,        \* the file report-{id}.csv in data/exports
    queue,      \* the Redis list report_generate, its head on the left
    api,        \* where the handler of each request stands
    attempt,    \* which try of its RPUSH a request is at
    wpc,        \* where the worker's loop stands
    wjob,       \* the report of the job the worker holds
    losses,     \* history: reports whose job or status update a disturbance swallowed
    disturbed   \* how many disturbances have happened

row == <<status, reason, filePath>>
handler == <<api, attempt>>
worker == <<wpc, wjob>>
vars == <<status, reason, filePath, csv, queue, api, attempt, wpc, wjob, losses, disturbed>>

Statuses == {"none", "queued", "processing", "completed", "failed"}

Unsettled == {"queued", "processing"}

Reasons == {"null", "enqueueFailed", "generateFailed"}

ApiStates ==
    {"start", "create", "push", "markFailed", "accepted", "refused", "error", "dead"}

\* The states of a request whose goroutine a restart of internal-api kills.
InFlight == {"create", "push", "markFailed"}

WorkerStates ==
    {"idle", "load", "mark", "rows", "write", "writing", "complete", "fail"}

Jobs == Requests \cup {Poison}

Queued == {queue[i] : i \in 1..Len(queue)}

TypeOK ==
    /\ status \in [Requests -> Statuses]
    /\ reason \in [Requests -> Reasons]
    /\ filePath \in [Requests -> BOOLEAN]
    /\ csv \in [Requests -> {"absent", "partial", "whole"}]
    /\ queue \in Seq(Jobs)
    /\ api \in [Requests -> ApiStates]
    /\ attempt \in [Requests -> 1..MaxAttempts]
    /\ wpc \in WorkerStates
    /\ wjob \in Requests \cup {NoReport}
    /\ wjob = NoReport <=> wpc = "idle"
    /\ losses \subseteq Requests
    /\ disturbed \in 0..MaxDisturbances

Init ==
    /\ status = [r \in Requests |-> "none"]
    /\ reason = [r \in Requests |-> "null"]
    /\ filePath = [r \in Requests |-> FALSE]
    /\ csv = [r \in Requests |-> "absent"]
    /\ queue = << >>
    /\ api = [r \in Requests |-> "start"]
    /\ attempt = [r \in Requests |-> 1]
    /\ wpc = "idle"
    /\ wjob = NoReport
    /\ losses = {}
    /\ disturbed = 0

-----------------------------------------------------------------------------
\* Outcomes of a call to MySQL, Redis or the file system.

Disturb(kind) ==
    /\ kind \in Disturbances
    /\ disturbed < MaxDisturbances
    /\ disturbed' = disturbed + 1

Outcomes == {"ok", "callError", "replyLost"}

Outcome(o) == IF o = "ok" THEN UNCHANGED disturbed ELSE Disturb(o)

\* UPDATE report SET status = s, reason = why WHERE id = r: with no such row it
\* changes nothing.
SetStatus(r, s, why) ==
    IF status[r] = "none"
    THEN UNCHANGED <<status, reason>>
    ELSE /\ status' = [status EXCEPT ![r] = s]
         /\ reason' = [reason EXCEPT ![r] = why]

\* The job of these reports, or the last word on their status, is gone.
Lose(reports) == losses' = losses \cup reports

-----------------------------------------------------------------------------
\* internal-api: handleCreateReport for request r.

\* The checks before the insert answer 400, 401, 403 or 500, or let r through.
Validate(r) ==
    /\ api[r] = "start"
    /\ \E a \in {"create", "refused"} : api' = [api EXCEPT ![r] = a]
    /\ UNCHANGED <<row, csv, queue, attempt, worker, losses, disturbed>>

\* One transaction inserts the row. When the reply to its COMMIT is lost, the row
\* stays "queued" and the handler answers 500 without pushing a job.
CreateQueuedReport(r) ==
    /\ api[r] = "create"
    /\ \E o \in Outcomes :
        /\ Outcome(o)
        /\ status' = IF o = "callError" THEN status ELSE [status EXCEPT ![r] = "queued"]
        /\ api' = [api EXCEPT ![r] = IF o = "ok" THEN "push" ELSE "error"]
        /\ Lose(IF o = "replyLost" THEN {r} ELSE {})
    /\ UNCHANGED <<reason, filePath, csv, queue, attempt, worker>>

Enqueue(r) ==
    /\ api[r] = "push"
    /\ Len(queue) < MaxQueue
    /\ queue' = Append(queue, r)
    /\ api' = [api EXCEPT ![r] = "accepted"]
    /\ UNCHANGED <<row, csv, attempt, worker, losses, disturbed>>

\* Mutant: go-redis would try once more than MaxRetries allows.
EnqueueErrorTriesTooOften(r) ==
    /\ api[r] = "push"
    /\ \E o \in {"callError", "replyLost"} :
        /\ Outcome(o)
        /\ o = "replyLost" => Len(queue) < MaxQueue
        /\ queue' = IF o = "replyLost" THEN Append(queue, r) ELSE queue
    /\ \/ /\ attempt[r] <= MaxAttempts
          /\ attempt' = [attempt EXCEPT ![r] = @ + 1]
          /\ UNCHANGED api
       \/ /\ api' = [api EXCEPT ![r] = "markFailed"]
          /\ UNCHANGED attempt
    /\ UNCHANGED <<row, csv, worker, losses>>

\* Mutant: the handler answers 500 and leaves the row as it is.
EnqueueErrorNotRecorded(r) ==
    /\ api[r] = "push"
    /\ Disturb("callError")
    /\ api' = [api EXCEPT ![r] = "error"]
    /\ UNCHANGED <<row, csv, queue, attempt, worker, losses>>

\* A try of the RPUSH fails, with the job in the list when only the reply was
\* lost. go-redis tries again while tries are left, which pushes the job twice;
\* it gives up at once when the client has disconnected or Redis answered with
\* an error.
EnqueueError(r) ==
    /\ api[r] = "push"
    /\ \E o \in {"callError", "replyLost"} :
        /\ Outcome(o)
        /\ o = "replyLost" => Len(queue) < MaxQueue
        /\ queue' = IF o = "replyLost" THEN Append(queue, r) ELSE queue
    /\ \/ /\ attempt[r] < MaxAttempts
          /\ attempt' = [attempt EXCEPT ![r] = @ + 1]
          /\ UNCHANGED api
       \/ /\ api' = [api EXCEPT ![r] = "markFailed"]
          /\ UNCHANGED attempt
    /\ UNCHANGED <<row, csv, worker, losses>>

\* The UPDATE runs under a context of its own, and its error is only logged.
MarkReportFailed(r) ==
    /\ api[r] = "markFailed"
    /\ \E o \in Outcomes :
        /\ Outcome(o)
        /\ IF o = "callError"
           THEN UNCHANGED <<status, reason>> /\ Lose({r})
           ELSE SetStatus(r, "failed", "enqueueFailed") /\ Lose({})
    /\ api' = [api EXCEPT ![r] = "error"]
    /\ UNCHANGED <<filePath, csv, queue, attempt, worker>>

\* internal-api restarts: the handlers in flight die where they stand.
ApiRestart ==
    /\ Disturb("apiRestart")
    /\ \E r \in Requests : api[r] \in InFlight
    /\ api' = [r \in Requests |-> IF api[r] \in InFlight THEN "dead" ELSE api[r]]
    /\ Lose({r \in Requests : api[r] \in {"push", "markFailed"}})
    /\ UNCHANGED <<row, csv, queue, attempt, worker>>

-----------------------------------------------------------------------------
\* The Redis list, which is not persisted and which operators reach too.

\* A restart of the container or the documented FLUSHALL empties the list.
RedisLoss ==
    /\ Disturb("redisLoss")
    /\ queue # << >>
    /\ queue' = << >>
    /\ Lose(Queued \cap Requests)
    /\ UNCHANGED <<row, csv, handler, worker>>

\* The RPUSH the README gives operators, for any report or with a bad entry.
ManualPush ==
    /\ Disturb("manualPush")
    /\ Len(queue) < MaxQueue
    /\ \E job \in Jobs : queue' = Append(queue, job)
    /\ UNCHANGED <<row, csv, handler, worker, losses>>

-----------------------------------------------------------------------------
\* report-generate-batch: one process, one job at a time.

Hold(pc, job) == wpc' = pc /\ wjob' = job

Goto(pc) == Hold(pc, wjob)

Release == Hold("idle", NoReport)

\* Mutant: the entry is read and left in the list until its report settles.
DequeueWithoutPop ==
    /\ wpc = "idle"
    /\ queue # << >>
    /\ IF Head(queue) \in Requests
       THEN Hold("load", Head(queue)) /\ UNCHANGED queue
       ELSE Release /\ queue' = Tail(queue)
    /\ UNCHANGED <<row, csv, handler, losses, disturbed>>

\* BLPOP takes the head. A bad entry is dropped with a log line; a lost reply
\* drops a good one as well.
Dequeue ==
    /\ wpc = "idle"
    /\ queue # << >>
    /\ queue' = Tail(queue)
    /\ \E o \in {"ok", "replyLost"} :
        /\ Outcome(o)
        /\ IF o = "ok" /\ Head(queue) \in Requests
           THEN Hold("load", Head(queue))
           ELSE Release
        /\ Lose(IF o = "ok" THEN {} ELSE {Head(queue)} \cap Requests)
    /\ UNCHANGED <<row, csv, handler>>

\* BLPOP returns after five seconds with nothing.
Poll ==
    /\ wpc = "idle"
    /\ queue = << >>
    /\ UNCHANGED vars

LoadReport ==
    /\ wpc = "load"
    /\ \E o \in {"ok", "callError"} :
        /\ Outcome(o)
        /\ Goto(IF o = "ok" /\ status[wjob] # "none" THEN "mark" ELSE "fail")
    /\ UNCHANGED <<row, csv, queue, handler, losses>>

\* Mutant: the UPDATE would only move a row that is still queued.
MarkReportProcessingIfQueued ==
    /\ wpc = "mark"
    /\ \E o \in Outcomes :
        /\ Outcome(o)
        /\ IF o = "callError" \/ status[wjob] # "queued"
           THEN UNCHANGED <<status, reason>>
           ELSE SetStatus(wjob, "processing", "null")
        /\ Goto(IF o = "ok" THEN "rows" ELSE "fail")
    /\ UNCHANGED <<filePath, csv, queue, handler, losses>>

MarkReportProcessing ==
    /\ wpc = "mark"
    /\ \E o \in Outcomes :
        /\ Outcome(o)
        /\ IF o = "callError"
           THEN UNCHANGED <<status, reason>>
           ELSE SetStatus(wjob, "processing", "null")
        /\ Goto(IF o = "ok" THEN "rows" ELSE "fail")
    /\ UNCHANGED <<filePath, csv, queue, handler, losses>>

\* The query for the CSV's rows and the building of its text.
LoadReportRows ==
    /\ wpc = "rows"
    /\ \E o \in {"ok", "callError"} :
        /\ Outcome(o)
        /\ Goto(IF o = "ok" THEN "write" ELSE "fail")
    /\ UNCHANGED <<row, csv, queue, handler, losses>>

\* os.WriteFile truncates the file before it writes: readers can see a part.
TruncateCSV ==
    /\ wpc = "write"
    /\ \E o \in {"ok", "callError"} :
        /\ Outcome(o)
        /\ csv' = IF o = "ok" THEN [csv EXCEPT ![wjob] = "partial"] ELSE csv
        /\ Goto(IF o = "ok" THEN "writing" ELSE "fail")
    /\ UNCHANGED <<row, queue, handler, losses>>

\* Mutant: the error of os.WriteFile is dropped.
FinishCSVIgnoringError ==
    /\ wpc = "writing"
    /\ \E o \in {"ok", "callError"} :
        /\ Outcome(o)
        /\ csv' = IF o = "ok" THEN [csv EXCEPT ![wjob] = "whole"] ELSE csv
        /\ Goto("complete")
    /\ UNCHANGED <<row, queue, handler, losses>>

FinishCSV ==
    /\ wpc = "writing"
    /\ \E o \in {"ok", "callError"} :
        /\ Outcome(o)
        /\ csv' = IF o = "ok" THEN [csv EXCEPT ![wjob] = "whole"] ELSE csv
        /\ Goto(IF o = "ok" THEN "complete" ELSE "fail")
    /\ UNCHANGED <<row, queue, handler, losses>>

MarkReportCompleted ==
    /\ wpc = "complete"
    /\ \E o \in Outcomes :
        /\ Outcome(o)
        /\ IF o = "callError"
           THEN UNCHANGED row
           ELSE /\ SetStatus(wjob, "completed", "null")
                /\ filePath' = [filePath EXCEPT ![wjob] = TRUE]
        /\ IF o = "ok" THEN Release ELSE Goto("fail")
    /\ UNCHANGED <<csv, queue, handler, losses>>

\* Mutant: an error of generateReport is logged and the row left as it is.
MarkJobFailedOnlyLogs ==
    /\ wpc = "fail"
    /\ Release
    /\ UNCHANGED <<row, csv, queue, handler, losses, disturbed>>

\* handleGenerateReport after an error of generateReport: the worker's
\* markReportFailed, whose own error is only logged.
MarkJobFailed ==
    /\ wpc = "fail"
    /\ \E o \in Outcomes :
        /\ Outcome(o)
        /\ IF o = "callError"
           THEN UNCHANGED <<status, reason>> /\ Lose({wjob})
           ELSE SetStatus(wjob, "failed", "generateFailed") /\ Lose({})
    /\ Release
    /\ UNCHANGED <<filePath, csv, queue, handler>>

\* The documented restart of report-generate-batch, or a rebuild: the job the
\* worker held is in no list any more.
WorkerRestart ==
    /\ Disturb("workerRestart")
    /\ wpc # "idle"
    /\ Release
    /\ Lose({wjob})
    /\ UNCHANGED <<row, csv, queue, handler>>

-----------------------------------------------------------------------------

Handle(r) ==
    Validate(r) \/ CreateQueuedReport(r) \/ Enqueue(r) \/ EnqueueError(r) \/ MarkReportFailed(r)

Work ==
    \/ Dequeue \/ Poll
    \/ LoadReport \/ MarkReportProcessing \/ LoadReportRows
    \/ TruncateCSV \/ FinishCSV \/ MarkReportCompleted \/ MarkJobFailed

Next ==
    \/ \E r \in Requests : Handle(r)
    \/ Work
    \/ ApiRestart \/ WorkerRestart \/ RedisLoss \/ ManualPush

Spec == Init /\ [][Next]_vars

\* The Go runtime runs every handler that can run, and the worker's loop never
\* ends. No client is bound to send its request, so Validate has no fairness.
FairSpec ==
    /\ Spec
    /\ WF_vars(Work)
    /\ \A r \in Requests :
        WF_vars(CreateQueuedReport(r) \/ Enqueue(r) \/ EnqueueError(r) \/ MarkReportFailed(r))

-----------------------------------------------------------------------------
\* Properties.

\* A report that says "completed" has its path and a whole file: a download
\* finds what the row promises, although jobs run twice, the worker dies in the
\* middle of a write, and the two services update the row without looking at it.
CompletedHasWholeFile ==
    \A r \in Requests : status[r] = "completed" => filePath[r] /\ csv[r] = "whole"

\* No report is forgotten by the code itself: while its row is unsettled, its
\* handler will still push or mark it, its job is in the list, the worker holds
\* it, or a disturbance has swallowed its job or an update of its status.
AccountedFor ==
    \A r \in Requests :
        status[r] \in Unsettled =>
            \/ api[r] \in {"push", "markFailed"}
            \/ r \in Queued
            \/ wjob = r
            \/ r \in losses

\* The rows and files live the life ReportLifecycle allows.
Lifecycle == INSTANCE ReportLifecycle
                 WITH Reports <- Requests, stage <- status, file <- csv

KeepsLifecycle == Lifecycle!Spec

\* Every report whose job or status update no disturbance swallowed settles:
\* bad entries, failed calls and other reports never block it for ever.
Settles ==
    \A r \in Requests :
        status[r] \in Unsettled ~> (status[r] \in {"completed", "failed"} \/ r \in losses)

\* README.md:207-213 draws no other end of a report in "processing" than
\* "completed" or "failed".
ProcessingSettles ==
    \A r \in Requests :
        status[r] = "processing" ~> status[r] \in {"completed", "failed"}

\* src/internal-api/reports.go:80 writes to the row that the job could not be
\* put into the queue; then it is not in the queue.
EnqueueFailureMeansNotQueued ==
    \A r \in Requests :
        status[r] = "failed" /\ reason[r] = "enqueueFailed" => r \notin Queued
=============================================================================
