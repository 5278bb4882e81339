------------------------- MODULE ReportDownloadProofs -------------------------
(***************************************************************************)
(* What a download gets, for every number of downloads and of reports.     *)
(***************************************************************************)
EXTENDS ReportDownload, ReportPipelineProofs

\* A query of internal-api leaves the pipeline alone but for the budget of
\* disturbances its error is charged to.
Query ==
    /\ UNCHANGED <<row, csv, queue, handler, worker, losses>>
    /\ \E o \in Outcomes : Outcome(o)

LEMMA DownloadSteps ==
    ASSUME [DownloadNext]_allVars
    PROVE  [Next]_vars \/ Query
  <1>1. ASSUME NEW v \in Viewers, DownloadStep(v)
        PROVE  UNCHANGED vars \/ Query
    BY <1>1 DEF DownloadStep, LoadReports, Click, Call, GetReport, StatFile, OpenFile,
                FinishStream, Query, Outcomes
  <1>. QED  BY <1>1 DEF DownloadNext, PipelineStep, allVars

LEMMA QueryKeeps ==
    ASSUME TypeOK, Query
    PROVE  /\ TypeOK'
           /\ RowInv => RowInv'
           /\ CompletedHasWholeFile => CompletedHasWholeFile'
           /\ OnceInv => OnceInv'
  <1>. USE DEF Query, row, handler, worker
  <1>1. TypeOK'
    BY OutcomeType DEF TypeOK
  <1>2. RowInv => RowInv'
    BY DEF RowInv
  <1>3. CompletedHasWholeFile => CompletedHasWholeFile'
    BY DEF CompletedHasWholeFile
  <1>4. OnceInv => OnceInv'
    BY DEF OnceInv, Distinct, Queued
  <1>. QED  BY <1>1, <1>2, <1>3, <1>4

-----------------------------------------------------------------------------
\* A download that saw "completed" finds the file.

DownloadType ==
    /\ dl \in [Viewers -> [pc : DownloadStates, report : Requests \cup {NoReport},
                           own : BOOLEAN, answer : Answers]]
    /\ \A v \in Viewers : dl[v].pc # "page" => dl[v].report \in Requests

LEMMA DownloadTypeInit == DownloadInit => DownloadType
  BY DEF DownloadInit, DownloadType, DownloadStates, Answers

\* The two ways a download moves on.
LEMMA AnswerType ==
    ASSUME DownloadType, NEW v \in Viewers, NEW a \in Answers, Answer(v, a)
    PROVE  DownloadType'
  BY DEF DownloadType, DownloadStates, Answer

LEMMA AdvanceType ==
    ASSUME DownloadType, NEW v \in Viewers, NEW pc \in DownloadStates, Advance(v, pc),
           dl[v].pc # "page"
    PROVE  DownloadType'
  BY DEF DownloadType, Advance

LEMMA DownloadTypeStep ==
    ASSUME DownloadType, [DownloadNext]_allVars
    PROVE  DownloadType'
  <1>. USE DEF DownloadType, DownloadStates, Answers
  <1>1. ASSUME NEW v \in Viewers, LoadReports(v)
        PROVE  DownloadType'
    BY <1>1, AnswerType DEF LoadReports
  <1>2. ASSUME NEW v \in Viewers, NEW r \in Requests, Click(v, r) \/ Call(v, r)
        PROVE  DownloadType'
    <2>1. \E own \in BOOLEAN :
              dl' = [dl EXCEPT ![v] = [pc |-> "get", report |-> r, own |-> own,
                                       answer |-> "none"]]
      BY <1>2 DEF Click, Call
    <2>. QED  BY <2>1
  <1>3. ASSUME NEW v \in Viewers, GetReport(v)
        PROVE  DownloadType'
    <2>1. \/ \E a \in Answers : Answer(v, a)
          \/ dl[v].pc # "page" /\ Advance(v, "stat")
      BY <1>3 DEF GetReport
    <2>. QED  BY <2>1, AnswerType, AdvanceType
  <1>4. ASSUME NEW v \in Viewers, StatFile(v) \/ OpenFile(v) \/ FinishStream(v)
        PROVE  DownloadType'
    <2>1. CASE StatFile(v)
      BY <1>4, <2>1, AnswerType, AdvanceType DEF StatFile
    <2>2. CASE OpenFile(v)
      BY <1>4, <2>2, AnswerType, AdvanceType DEF OpenFile
    <2>3. CASE FinishStream(v)
      BY <1>4, <2>3, AnswerType DEF FinishStream
    <2>. QED  BY <1>4, <2>1, <2>2, <2>3
  <1>5. CASE PipelineStep
    BY <1>5 DEF PipelineStep
  <1>6. CASE UNCHANGED allVars
    BY <1>6 DEF allVars
  <1>. QED
    BY <1>1, <1>2, <1>3, <1>4, <1>5, <1>6 DEF DownloadNext, DownloadStep

FoundInv ==
    /\ \A v \in Viewers :
        dl[v].pc \in {"stat", "open", "stream", "tornStream"} => csv[dl[v].report] # "absent"
    /\ CompletedFileIsFound

\* No step of the pipeline removes a file.
LEMMA FilesStay ==
    ASSUME TypeOK, [Next]_vars \/ Query, NEW r \in Requests, csv[r] # "absent"
    PROVE  csv'[r] # "absent"
  <1>. csv \in [Requests -> {"absent", "partial", "whole"}]
    BY DEF TypeOK
  <1>. USE DEF row, handler, worker
  <1>1. CASE TruncateCSV \/ FinishCSV
    BY <1>1 DEF TruncateCSV, FinishCSV
  <1>2. CASE UNCHANGED csv
    BY <1>2
  <1>. QED
    BY <1>1, <1>2
       DEF Query, Next, Handle, Work, vars, Validate, CreateQueuedReport, Enqueue,
           EnqueueError, MarkReportFailed, ApiRestart, RedisLoss, ManualPush, Dequeue,
           Poll, LoadReport, MarkReportProcessing, LoadReportRows, MarkReportCompleted,
           MarkJobFailed, WorkerRestart

LEMMA FoundStep ==
    ASSUME TypeOK, DownloadType, CompletedHasWholeFile, FoundInv, [DownloadNext]_allVars
    PROVE  FoundInv'
  <1>. USE DEF FoundInv, CompletedFileIsFound, Answer, Advance
  <1>. /\ dl \in [Viewers -> [pc : DownloadStates, report : Requests \cup {NoReport},
                              own : BOOLEAN, answer : Answers]]
       /\ \A v \in Viewers : dl[v].pc # "page" => dl[v].report \in Requests
    BY DEF DownloadType
  <1>0. \A r \in Requests : csv[r] # "absent" => csv'[r] # "absent"
    BY DownloadSteps, FilesStay
  <1>1. ASSUME NEW v \in Viewers, LoadReports(v)
        PROVE  FoundInv'
    BY <1>0, <1>1 DEF LoadReports
  <1>2. ASSUME NEW v \in Viewers, NEW r \in Requests, Click(v, r) \/ Call(v, r)
        PROVE  FoundInv'
    BY <1>0, <1>2 DEF Click, Call
  <1>3. ASSUME NEW v \in Viewers, GetReport(v)
        PROVE  FoundInv'
    <2>1. dl[v].report \in Requests
      BY <1>3 DEF GetReport
    <2>2. status[dl[v].report] = "completed" =>
              filePath[dl[v].report] /\ csv[dl[v].report] = "whole"
      BY <2>1 DEF CompletedHasWholeFile
    <2>3. \/ \E a \in {"error", "notFound", "conflict"} : Answer(v, a)
          \/ Advance(v, "stat") /\ csv[dl[v].report] = "whole"
      BY <1>3, <2>2 DEF GetReport
    <2>. QED  BY <1>0, <2>1, <2>3
  <1>4. ASSUME NEW v \in Viewers, StatFile(v) \/ OpenFile(v) \/ FinishStream(v)
        PROVE  FoundInv'
    <2>1. \/ \E a \in Answers \ {"noFile"} : Answer(v, a)
          \/ /\ dl[v].pc \in {"stat", "open"}
             /\ \E pc \in {"open", "stream", "tornStream"} : Advance(v, pc)
      BY <1>4 DEF StatFile, OpenFile, FinishStream, Answers
    <2>2. dl[v].pc # "page"
      BY <1>4 DEF StatFile, OpenFile, FinishStream
    <2>. QED  BY <1>0, <2>1, <2>2
  <1>5. CASE PipelineStep
    BY <1>0, <1>5 DEF PipelineStep
  <1>6. CASE UNCHANGED allVars
    BY <1>0, <1>6 DEF allVars
  <1>. QED
    BY <1>1, <1>2, <1>3, <1>4, <1>5, <1>6 DEF DownloadNext, DownloadStep

DownloadBase == TypeOK /\ RowInv /\ CompletedHasWholeFile /\ DownloadType

LEMMA DownloadInvariant == DownloadSpec => []DownloadBase
  <1>1. DownloadInit => DownloadBase
    BY TypeInit, PipelineInvInit, DownloadTypeInit DEF DownloadInit, DownloadBase, PipelineInv
  <1>2. DownloadBase /\ [DownloadNext]_allVars => DownloadBase'
    BY DownloadSteps, TypeStep, RowInvStep, CompletedHasWholeFileStep, QueryKeeps,
       DownloadTypeStep DEF DownloadBase
  <1>. QED  BY <1>1, <1>2, PTL DEF DownloadSpec

\* The 500 answers for a missing path or file never happen.
THEOREM CompletedFileIsFoundAlways == DownloadSpec => []CompletedFileIsFound
  <1>1. DownloadInit => FoundInv
    BY DEF DownloadInit, FoundInv, CompletedFileIsFound
  <1>2. DownloadBase /\ FoundInv /\ [DownloadNext]_allVars => FoundInv'
    BY FoundStep DEF DownloadBase
  <1>. QED  BY <1>1, <1>2, DownloadInvariant, PTL DEF DownloadSpec, FoundInv

-----------------------------------------------------------------------------
\* Without duplicated jobs a download of a "completed" report gets all of it.

WholeInv ==
    /\ \A v \in Viewers :
        /\ dl[v].pc \in {"stat", "open", "stream"} => status[dl[v].report] = "completed"
        /\ dl[v].pc # "tornStream"
    /\ DeliversWhole

\* A report that settled as "completed" stays so, and so does its file.
LEMMA CompletedStays ==
    ASSUME NoDuplicates, TypeOK, OnceInv, [Next]_vars \/ Query,
           NEW r \in Requests, status[r] = "completed"
    PROVE  status'[r] = "completed" /\ csv'[r] = csv[r]
  <1>. /\ status \in [Requests -> Statuses]
       /\ csv \in [Requests -> {"absent", "partial", "whole"}]
       /\ wpc # "idle" => wjob \in Requests
    BY DEF TypeOK
  <1>. USE DEF row, handler, worker, OnceInv
  <1>0. CASE UNCHANGED <<status, csv>>
    BY <1>0
  <1>1. ASSUME NEW q \in Requests, CreateQueuedReport(q)
        PROVE  status'[r] = "completed" /\ csv'[r] = csv[r]
    BY <1>1 DEF CreateQueuedReport
  <1>2. ASSUME NEW q \in Requests, MarkReportFailed(q)
        PROVE  status'[r] = "completed" /\ csv'[r] = csv[r]
    BY <1>2, SetStatusEffect DEF MarkReportFailed
  <1>3. CASE MarkReportProcessing \/ MarkReportCompleted \/ MarkJobFailed
    <2>1. r # wjob /\ wjob \in Requests /\ UNCHANGED csv
      BY <1>3 DEF MarkReportProcessing, MarkReportCompleted, MarkJobFailed
    <2>2. UNCHANGED status \/ \E s, why : SetStatus(wjob, s, why)
      BY <1>3 DEF MarkReportProcessing, MarkReportCompleted, MarkJobFailed
    <2>. QED  BY <2>1, <2>2, SetStatusEffect
  <1>4. CASE TruncateCSV \/ FinishCSV
    <2>1. r # wjob /\ wjob \in Requests
      BY <1>4 DEF TruncateCSV, FinishCSV
    <2>. QED  BY <1>4, <2>1 DEF TruncateCSV, FinishCSV
  <1>. QED
    BY <1>0, <1>1, <1>2, <1>3, <1>4
       DEF Query, Next, Handle, Work, vars, Validate, Enqueue, EnqueueError, ApiRestart,
           RedisLoss, ManualPush, Dequeue, Poll, LoadReport, LoadReportRows, WorkerRestart

LEMMA WholeStep ==
    ASSUME NoDuplicates, TypeOK, OnceInv, CompletedHasWholeFile, DownloadType, WholeInv,
           [DownloadNext]_allVars
    PROVE  WholeInv'
  <1>. USE DEF WholeInv, DeliversWhole
  <1>. /\ dl \in [Viewers -> [pc : DownloadStates, report : Requests \cup {NoReport},
                              own : BOOLEAN, answer : Answers]]
       /\ \A v \in Viewers : dl[v].pc # "page" => dl[v].report \in Requests
    BY DEF DownloadType
  <1>0. \A r \in Requests :
            status[r] = "completed" => status'[r] = "completed" /\ csv'[r] = csv[r]
    BY DownloadSteps, CompletedStays
  <1>1. ASSUME NEW v \in Viewers,
               \/ \E a \in Answers \ {"torn"} : Answer(v, a)
               \/ \E pc \in {"stat", "open", "stream"} : /\ Advance(v, pc)
                                                         /\ dl[v].report \in Requests
                                                         /\ status[dl[v].report] = "completed"
        PROVE  WholeInv'
    BY <1>0, <1>1 DEF Answer, Advance
  <1>2. ASSUME NEW v \in Viewers, NEW r \in Requests, Click(v, r) \/ Call(v, r)
        PROVE  WholeInv'
    BY <1>0, <1>2 DEF Click, Call
  <1>3. ASSUME NEW v \in Viewers, GetReport(v)
        PROVE  WholeInv'
    BY <1>1, <1>3 DEF GetReport, Answers
  <1>4. ASSUME NEW v \in Viewers, StatFile(v)
        PROVE  WholeInv'
    BY <1>1, <1>4 DEF StatFile, Answers
  <1>5. ASSUME NEW v \in Viewers, OpenFile(v)
        PROVE  WholeInv'
    <2>1. dl[v].report \in Requests /\ csv[dl[v].report] = "whole"
          /\ status[dl[v].report] = "completed"
      BY <1>5 DEF OpenFile, CompletedHasWholeFile
    <2>2. Answer(v, "error") \/ Advance(v, "stream")
      BY <1>5, <2>1 DEF OpenFile
    <2>. QED  BY <1>1, <2>1, <2>2 DEF Answers
  <1>6. ASSUME NEW v \in Viewers, FinishStream(v)
        PROVE  WholeInv'
    BY <1>1, <1>6 DEF FinishStream, Answers
  <1>7. ASSUME NEW v \in Viewers, LoadReports(v)
        PROVE  WholeInv'
    BY <1>1, <1>7 DEF LoadReports, Answers
  <1>8. CASE PipelineStep
    BY <1>0, <1>8 DEF PipelineStep
  <1>9. CASE UNCHANGED allVars
    BY <1>0, <1>9 DEF allVars
  <1>. QED
    BY <1>2, <1>3, <1>4, <1>5, <1>6, <1>7, <1>8, <1>9 DEF DownloadNext, DownloadStep

\* Every 200 answer carries the whole file, when no job runs twice.
THEOREM DeliversWholeOnce ==
    ASSUME NoDuplicates
    PROVE  DownloadSpec => []DeliversWhole
  <1>1. DownloadInit => OnceInv /\ WholeInv
    BY OnceInit DEF DownloadInit, WholeInv, DeliversWhole
  <1>2. DownloadBase /\ OnceInv /\ [DownloadNext]_allVars => OnceInv'
    BY DownloadSteps, OnceStep, QueryKeeps DEF DownloadBase
  <1>3. DownloadBase /\ OnceInv /\ WholeInv /\ [DownloadNext]_allVars => WholeInv'
    BY WholeStep DEF DownloadBase
  <1>. QED
    BY <1>1, <1>2, <1>3, DownloadInvariant, PTL DEF DownloadSpec, WholeInv

-----------------------------------------------------------------------------
\* Without duplicated jobs the page can be relied upon, however old it is.

ShownType == shown \in [Viewers -> [Requests -> Statuses]]

LEMMA ShownTypeInit == DownloadInit => ShownType
  BY DEF DownloadInit, ShownType, NoList, Statuses

LEMMA ShownTypeStep ==
    ASSUME TypeOK, ShownType, [DownloadNext]_allVars
    PROVE  ShownType'
  <1>. status \in [Requests -> Statuses] /\ NoList \in [Requests -> Statuses]
    BY DEF TypeOK, NoList, Statuses
  <1>1. \/ UNCHANGED shown
        \/ \E v \in Viewers, list \in [Requests -> Statuses] : shown' = [shown EXCEPT ![v] = list]
    BY DEF DownloadNext, DownloadStep, PipelineStep, LoadReports, Click, Call, GetReport, StatFile,
           OpenFile, FinishStream, allVars
  <1>. QED  BY <1>1 DEF ShownType

\* The variables of the downloads have their types.
THEOREM DownloadTypeCorrect == DownloadSpec => []DownloadTypeOK
  <1>1. DownloadInit => ShownType
    BY ShownTypeInit
  <1>2. DownloadBase /\ ShownType /\ [DownloadNext]_allVars => ShownType'
    BY ShownTypeStep DEF DownloadBase
  <1>3. DownloadBase /\ ShownType => DownloadTypeOK
    BY DEF DownloadBase, ShownType, DownloadType, DownloadTypeOK
  <1>. QED  BY <1>1, <1>2, <1>3, DownloadInvariant, PTL DEF DownloadSpec

\* What a page shows as completed is completed, and a download of it that is under way was
\* asked for by its owner.
ShownInv ==
    \A v \in Viewers :
        /\ \A r \in Requests : shown[v][r] = "completed" => status[r] = "completed"
        /\ dl[v].report # NoReport /\ shown[v][dl[v].report] = "completed" =>
               /\ dl[v].pc # "page" => dl[v].own = TRUE
               /\ dl[v].answer \in {"none", "whole", "error"}

\* A step of one download, by what it makes of it.
LEMMA ShownByDownload ==
    ASSUME TypeOK, ShownType, DownloadType, ShownInv, NEW v \in Viewers,
           status' = status, shown' = shown,
           NEW d \in [pc : DownloadStates, report : Requests \cup {NoReport},
                      own : BOOLEAN, answer : Answers],
           dl' = [dl EXCEPT ![v] = d],
           d.report # NoReport /\ shown[v][d.report] = "completed" =>
               /\ d.pc # "page" => d.own = TRUE
               /\ d.answer \in {"none", "whole", "error"}
    PROVE  ShownInv'
  <1>1. dl'[v] = d /\ \A w \in Viewers \ {v} : dl'[w] = dl[w]
    BY DEF DownloadType
  <1>. QED  BY <1>1 DEF ShownInv

LEMMA ShownStep ==
    ASSUME NoDuplicates, TypeOK, OnceInv, CompletedHasWholeFile, DownloadType, ShownType,
           WholeInv, FoundInv, ShownInv, [DownloadNext]_allVars
    PROVE  ShownInv'
  <1>. DEFINE Downloads == [pc : DownloadStates, report : Requests \cup {NoReport},
                            own : BOOLEAN, answer : Answers]
  <1>. /\ dl \in [Viewers -> Downloads]
       /\ \A v \in Viewers : dl[v].pc # "page" => dl[v].report \in Requests
       /\ shown \in [Viewers -> [Requests -> Statuses]]
       /\ NoReport \notin Requests
    BY PipelineAssumption DEF DownloadType, ShownType
  <1>0. \A r \in Requests : status[r] = "completed" => status'[r] = "completed"
    BY DownloadSteps, CompletedStays
  <1>1. ASSUME NEW v \in Viewers, LoadReports(v)
        PROVE  ShownInv'
    <2>1. PICK list \in {status, NoList} : shown' = [shown EXCEPT ![v] = list]
      BY <1>1 DEF LoadReports
    <2>2. /\ dl' = [dl EXCEPT ![v].pc = "page", ![v].answer = "none"] /\ UNCHANGED status
      BY <1>1 DEF LoadReports, Answer, row
    <2>3. \A r \in Requests : list[r] = "completed" => status[r] = "completed"
      BY <2>1 DEF NoList
    <2>4. /\ shown'[v] = list /\ \A w \in Viewers \ {v} : shown'[w] = shown[w] /\ dl'[w] = dl[w]
      BY <2>1, <2>2
    <2>5. dl'[v].pc = "page" /\ dl'[v].answer = "none"
      BY <2>2
    <2>. QED  BY <2>2, <2>3, <2>4, <2>5 DEF ShownInv
  <1>2. ASSUME NEW v \in Viewers, NEW r \in Requests, Click(v, r)
        PROVE  ShownInv'
    <2>. DEFINE d == [pc |-> "get", report |-> r, own |-> TRUE, answer |-> "none"]
    <2>1. d \in Downloads /\ d.own = TRUE /\ d.answer = "none"
      BY DEF DownloadStates, Answers
    <2>2. dl' = [dl EXCEPT ![v] = d] /\ status' = status /\ shown' = shown
      BY <1>2 DEF Click, vars
    <2>. HIDE DEF d
    <2>. QED  BY <2>1, <2>2, ShownByDownload
  <1>3. ASSUME NEW v \in Viewers, NEW r \in Requests, Call(v, r)
        PROVE  ShownInv'
    <2>1. PICK own \in BOOLEAN :
              dl' = [dl EXCEPT ![v] = [pc |-> "get", report |-> r, own |-> own, answer |-> "none"]]
      BY <1>3 DEF Call
    <2>2. shown' = [shown EXCEPT ![v] = NoList] /\ status' = status
      BY <1>3 DEF Call, vars
    <2>3. /\ dl'[v].report = r /\ \A q \in Requests : shown'[v][q] # "completed"
          /\ \A w \in Viewers \ {v} : shown'[w] = shown[w] /\ dl'[w] = dl[w]
      BY <2>1, <2>2 DEF NoList
    <2>. QED  BY <2>2, <2>3 DEF ShownInv
  <1>4. ASSUME NEW v \in Viewers, NEW a \in Answers, Answer(v, a), shown' = shown,
               status' = status,
               shown[v][dl[v].report] = "completed" => a \in {"none", "whole", "error"}
        PROVE  ShownInv'
    <2>. DEFINE d == [dl[v] EXCEPT !.pc = "page", !.answer = a]
    <2>1. d \in Downloads /\ d.pc = "page" /\ d.answer = a /\ d.report = dl[v].report
      BY <1>4 DEF DownloadStates
    <2>2. dl' = [dl EXCEPT ![v] = d]
      BY <1>4 DEF Answer
    <2>. HIDE DEF d
    <2>. QED  BY <1>4, <2>1, <2>2, ShownByDownload
  <1>5. ASSUME NEW v \in Viewers, NEW pc \in DownloadStates, Advance(v, pc), dl[v].pc # "page",
               shown' = shown, status' = status
        PROVE  ShownInv'
    <2>. DEFINE d == [dl[v] EXCEPT !.pc = pc]
    <2>1. /\ d \in Downloads /\ d.answer = dl[v].answer /\ d.report = dl[v].report
          /\ d.own = dl[v].own
      BY <1>5
    <2>2. dl' = [dl EXCEPT ![v] = d]
      BY <1>5 DEF Advance
    <2>. HIDE DEF d
    <2>. QED  BY <1>5, <2>1, <2>2, ShownByDownload DEF ShownInv
  <1>6. ASSUME NEW v \in Viewers, GetReport(v)
        PROVE  ShownInv'
    <2>1. dl[v].report \in Requests /\ dl[v].pc = "get" /\ shown' = shown /\ status' = status
      BY <1>6 DEF GetReport, row
    <2>2. CASE shown[v][dl[v].report] = "completed"
      <3>1. /\ status[dl[v].report] = "completed" /\ dl[v].own = TRUE /\ filePath[dl[v].report]
        BY <2>1, <2>2 DEF ShownInv, CompletedHasWholeFile
      <3>2. Answer(v, "error") \/ Advance(v, "stat")
        BY <1>6, <3>1 DEF GetReport
      <3>3. "error" \in Answers /\ "stat" \in DownloadStates
        BY DEF Answers, DownloadStates
      <3>. QED  BY <1>4, <1>5, <2>1, <3>2, <3>3
    <2>3. CASE shown[v][dl[v].report] # "completed"
      <3>1. (\E a \in Answers : Answer(v, a)) \/ Advance(v, "stat")
        BY <1>6 DEF GetReport, Answers
      <3>2. "stat" \in DownloadStates
        BY DEF DownloadStates
      <3>. QED  BY <1>4, <1>5, <2>1, <2>3, <3>1, <3>2
    <2>. QED  BY <2>2, <2>3
  <1>7. ASSUME NEW v \in Viewers, StatFile(v)
        PROVE  ShownInv'
    <2>1. dl[v].pc = "stat" /\ dl[v].report \in Requests /\ shown' = shown /\ status' = status
      BY <1>7 DEF StatFile, row
    <2>2. csv[dl[v].report] # "absent"
      BY <2>1 DEF FoundInv
    <2>3. Advance(v, "open") \/ Answer(v, "error")
      BY <1>7, <2>2 DEF StatFile
    <2>4. "open" \in DownloadStates /\ "error" \in Answers
      BY DEF DownloadStates, Answers
    <2>. QED  BY <1>4, <1>5, <2>1, <2>3, <2>4
  <1>8. ASSUME NEW v \in Viewers, OpenFile(v)
        PROVE  ShownInv'
    <2>1. dl[v].pc = "open" /\ dl[v].report \in Requests /\ shown' = shown /\ status' = status
      BY <1>8 DEF OpenFile, row
    <2>2. csv[dl[v].report] # "absent"
      BY <2>1 DEF FoundInv
    <2>3. Answer(v, "error") \/ \E pc \in {"stream", "tornStream"} : Advance(v, pc)
      BY <1>8, <2>2 DEF OpenFile
    <2>4. "error" \in Answers /\ {"stream", "tornStream"} \subseteq DownloadStates
      BY DEF Answers, DownloadStates
    <2>. QED  BY <1>4, <1>5, <2>1, <2>3, <2>4
  <1>9. ASSUME NEW v \in Viewers, FinishStream(v)
        PROVE  ShownInv'
    <2>1. dl[v].pc = "stream" /\ shown' = shown /\ status' = status
      BY <1>9 DEF FinishStream, vars, WholeInv
    <2>2. Answer(v, "whole") /\ "whole" \in Answers
      BY <1>9, <2>1 DEF FinishStream, Answers
    <2>. QED  BY <1>4, <2>1, <2>2
  <1>10. CASE PipelineStep
    <2>1. shown' = shown /\ \A v \in Viewers :
              /\ dl'[v].report = dl[v].report /\ dl'[v].own = dl[v].own
              /\ dl'[v].answer = dl[v].answer /\ (dl'[v].pc = "page" <=> dl[v].pc = "page")
      BY <1>10 DEF PipelineStep
    <2>. QED  BY <1>0, <2>1 DEF ShownInv
  <1>11. CASE UNCHANGED allVars
    BY <1>11 DEF allVars, vars, ShownInv
  <1>. QED
    BY <1>1, <1>2, <1>3, <1>6, <1>7, <1>8, <1>9, <1>10, <1>11 DEF DownloadNext, DownloadStep

\* A click on a report that the page shows as completed brings the whole file, or the error
\* of a query, when no job runs twice.
THEOREM ShownIsDeliveredOnce ==
    ASSUME NoDuplicates
    PROVE  DownloadSpec => []ShownIsDelivered
  <1>1. DownloadInit => OnceInv /\ WholeInv /\ FoundInv /\ ShownType /\ ShownInv
    <2>1. DownloadInit => OnceInv /\ ShownType
      BY OnceInit, ShownTypeInit DEF DownloadInit
    <2>2. DownloadInit => WholeInv /\ FoundInv /\ ShownInv
      BY DEF DownloadInit, WholeInv, DeliversWhole, FoundInv, CompletedFileIsFound, ShownInv, NoList
    <2>. QED  BY <2>1, <2>2
  <1>2. DownloadBase /\ OnceInv /\ [DownloadNext]_allVars => OnceInv'
    BY DownloadSteps, OnceStep, QueryKeeps DEF DownloadBase
  <1>3. DownloadBase /\ OnceInv /\ WholeInv /\ [DownloadNext]_allVars => WholeInv'
    BY WholeStep DEF DownloadBase
  <1>4. DownloadBase /\ FoundInv /\ [DownloadNext]_allVars => FoundInv'
    BY FoundStep DEF DownloadBase
  <1>5. DownloadBase /\ ShownType /\ [DownloadNext]_allVars => ShownType'
    BY ShownTypeStep DEF DownloadBase
  <1>6. /\ DownloadBase /\ OnceInv /\ WholeInv /\ FoundInv /\ ShownType /\ ShownInv
        /\ [DownloadNext]_allVars
        => ShownInv'
    BY ShownStep DEF DownloadBase
  <1>7. ShownInv => ShownIsDelivered
    BY DEF ShownInv, ShownIsDelivered
  <1>. QED
    BY <1>1, <1>2, <1>3, <1>4, <1>5, <1>6, <1>7, DownloadInvariant, PTL DEF DownloadSpec


-----------------------------------------------------------------------------
\* Downloads only look: the reports live the life of ReportLifecycle beside them.

LEMMA QueryStutters ==
    ASSUME Query
    PROVE  UNCHANGED Lifecycle!lifecycleVars
  BY DEF Query, row, Lifecycle!lifecycleVars

\* Rows only walk the steps of ReportLifecycle with reruns, and no file changes under a
\* "completed" row, however many downloads and history pages stand beside the worker.
THEOREM DownloadsKeepLifecycleWithReruns ==
    ASSUME Reruns = TRUE
    PROVE  DownloadSpec => KeepsLifecycle
  <1>1. DownloadInit => Lifecycle!Init
    BY LifecycleInit DEF DownloadInit
  <1>2. DownloadBase /\ [DownloadNext]_allVars => [Lifecycle!Next]_Lifecycle!lifecycleVars
    BY DownloadSteps, QueryStutters, RerunStep DEF DownloadBase
  <1>. QED
    BY <1>1, <1>2, DownloadInvariant, PTL DEF DownloadSpec, KeepsLifecycle, Lifecycle!Spec

\* Without duplicated jobs a report settles at most once and stays as it settled,
\* with downloads and history pages beside the worker.
THEOREM DownloadsKeepLifecycleOnce ==
    ASSUME Reruns = FALSE, NoDuplicates
    PROVE  DownloadSpec => KeepsLifecycle
  <1>1. DownloadInit => OnceInv /\ Lifecycle!Init
    BY OnceInit, LifecycleInit DEF DownloadInit
  <1>2. DownloadBase /\ OnceInv /\ [DownloadNext]_allVars => OnceInv'
    BY DownloadSteps, OnceStep, QueryKeeps DEF DownloadBase
  <1>3. DownloadBase /\ OnceInv /\ [DownloadNext]_allVars
            => [Lifecycle!Next]_Lifecycle!lifecycleVars
    BY DownloadSteps, QueryStutters, OnceLifecycleStep DEF DownloadBase
  <1>. QED
    BY <1>1, <1>2, <1>3, DownloadInvariant, PTL
       DEF DownloadSpec, KeepsLifecycle, Lifecycle!Spec
=============================================================================
