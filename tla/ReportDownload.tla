---------------------------- MODULE ReportDownload ----------------------------
(***************************************************************************)
(* GET /report?id= beside the pipeline that makes the reports: the history *)
(* page lists reports and their status, its user clicks one, and           *)
(* internal-api looks at the row, then at the file, then streams it, while *)
(* the worker may be rewriting both. The three looks are separate steps.   *)
(***************************************************************************)
EXTENDS ReportPipeline

CONSTANT Viewers   \* the downloads: a tab with the history page, or a client of the API

VARIABLES
    shown,   \* shown[v]: the statuses on v's page, "none" for a report it does not list
    dl       \* dl[v]: the download of v, its last answer while it stands at "page"

downloadVars == <<shown, dl>>
allVars == <<vars, shown, dl>>

DownloadStates == {"page", "get", "stat", "open", "stream", "tornStream"}

\* noFile: the path or the file is missing. error: a query or a look at the file failed.
Answers == {"none", "notFound", "conflict", "noFile", "error", "whole", "torn"}

NoList == [r \in Requests |-> "none"]

DownloadTypeOK ==
    /\ TypeOK
    /\ shown \in [Viewers -> [Requests -> Statuses]]
    /\ dl \in [Viewers -> [pc : DownloadStates, report : Requests \cup {NoReport},
                           own : BOOLEAN, answer : Answers]]

DownloadInit ==
    /\ Init
    /\ shown = [v \in Viewers |-> NoList]
    /\ dl = [v \in Viewers |->
                [pc |-> "page", report |-> NoReport, own |-> TRUE, answer |-> "none"]]

Answer(v, a) == dl' = [dl EXCEPT ![v].pc = "page", ![v].answer = a]

Advance(v, pc) == dl' = [dl EXCEPT ![v].pc = pc]

\* The page asks for GET /me/reports when it opens; an error leaves it empty.
LoadReports(v) ==
    /\ dl[v].pc = "page"
    /\ \E o \in {"ok", "callError"} :
        /\ Outcome(o)
        /\ shown' = [shown EXCEPT ![v] = IF o = "ok" THEN status ELSE NoList]
    /\ Answer(v, "none")
    /\ UNCHANGED <<row, csv, queue, handler, worker, losses>>

\* The user clicks a report of their own that the page shows as completed. The
\* page is not refreshed, so what it shows may be old.
Click(v, r) ==
    /\ dl[v].pc = "page"
    /\ shown[v][r] = "completed"
    /\ dl' = [dl EXCEPT ![v] = [pc |-> "get", report |-> r, own |-> TRUE, answer |-> "none"]]
    /\ UNCHANGED <<vars, shown>>

\* A client of the API asks for any report, its own or another user's.
Call(v, r) ==
    /\ dl[v].pc = "page"
    /\ \E own \in BOOLEAN :
        dl' = [dl EXCEPT ![v] = [pc |-> "get", report |-> r, own |-> own, answer |-> "none"]]
    /\ shown' = [shown EXCEPT ![v] = NoList]
    /\ UNCHANGED vars

\* Mutant: the file is looked up for every report that is past the queue.
GetReportWithoutStatus(v) ==
    /\ dl[v].pc = "get"
    /\ IF dl[v].own /\ status[dl[v].report] \notin {"none", "queued"}
       THEN Advance(v, "stat")
       ELSE Answer(v, "notFound")
    /\ UNCHANGED <<vars, shown>>

\* handleDownloadReport up to the look at the row, all from one SELECT.
GetReport(v) ==
    LET r == dl[v].report
    IN  /\ dl[v].pc = "get"
        /\ \E o \in {"ok", "callError"} :
            /\ Outcome(o)
            /\ CASE o = "callError" -> Answer(v, "error")
                 [] o = "ok" /\ (status[r] = "none" \/ ~dl[v].own) -> Answer(v, "notFound")
                 [] o = "ok" /\ dl[v].own /\ status[r] \notin {"none", "completed"} ->
                        Answer(v, "conflict")
                 [] o = "ok" /\ dl[v].own /\ status[r] = "completed" ->
                        IF filePath[r] THEN Advance(v, "stat") ELSE Answer(v, "noFile")
        /\ UNCHANGED <<row, csv, queue, handler, worker, losses, shown>>

\* A look at the file that fails for another reason than its absence is a 500 as well.
StatFile(v) ==
    /\ dl[v].pc = "stat"
    /\ \E o \in {"ok", "callError"} :
        /\ Outcome(o)
        /\ CASE o = "callError" -> Answer(v, "error")
             [] o = "ok" /\ csv[dl[v].report] = "absent" -> Answer(v, "noFile")
             [] o = "ok" /\ csv[dl[v].report] # "absent" -> Advance(v, "open")
    /\ UNCHANGED <<row, csv, queue, handler, worker, losses, shown>>

\* http.ServeFile opens the file itself, which may fail, and sends as many bytes as it
\* then holds.
OpenFile(v) ==
    /\ dl[v].pc = "open"
    /\ \E o \in {"ok", "callError"} :
        /\ Outcome(o)
        /\ CASE o = "callError" -> Answer(v, "error")
             [] o = "ok" /\ csv[dl[v].report] = "absent" -> Answer(v, "noFile")
             [] o = "ok" /\ csv[dl[v].report] # "absent" ->
                    Advance(v, IF csv[dl[v].report] = "whole" THEN "stream" ELSE "tornStream")
    /\ UNCHANGED <<row, csv, queue, handler, worker, losses, shown>>

FinishStream(v) ==
    /\ dl[v].pc \in {"stream", "tornStream"}
    /\ Answer(v, IF dl[v].pc = "stream" THEN "whole" ELSE "torn")
    /\ UNCHANGED <<vars, shown>>

\* A step of the pipeline: writing a file tears every stream that reads it.
PipelineStep ==
    /\ Next
    /\ dl' = [v \in Viewers |->
                IF dl[v].pc = "stream" /\ csv'[dl[v].report] # csv[dl[v].report]
                THEN [dl[v] EXCEPT !.pc = "tornStream"]
                ELSE dl[v]]
    /\ UNCHANGED shown

DownloadStep(v) ==
    \/ LoadReports(v) \/ GetReport(v) \/ StatFile(v) \/ OpenFile(v) \/ FinishStream(v)
    \/ \E r \in Requests : Click(v, r) \/ Call(v, r)

DownloadNext == PipelineStep \/ \E v \in Viewers : DownloadStep(v)

DownloadSpec == DownloadInit /\ [][DownloadNext]_allVars

-----------------------------------------------------------------------------
\* Properties.

\* No path is missing at reports.go:114 and no file at reports.go:120 or when it is
\* opened: once a row said "completed", its path stays set and its file stays in
\* data/exports, whatever runs again, fails or restarts between the three looks.
CompletedFileIsFound == \A v \in Viewers : dl[v].answer # "noFile"

\* A 200 answer carries the whole file, as openapi.yaml:462-464 has it: the CSV
\* can be had only while the status is "completed".
DeliversWhole == \A v \in Viewers : dl[v].answer # "torn"

\* A click on a report the page shows as completed brings the whole file,
\* however old the page is, or the 500 of a query or a look at the file that failed.
ShownIsDelivered ==
    \A v \in Viewers :
        dl[v].report # NoReport /\ shown[v][dl[v].report] = "completed" =>
            dl[v].answer \in {"none", "whole", "error"}
=============================================================================
