------------------------- MODULE ReportPipelineProofs -------------------------
(***************************************************************************)
(* What ReportPipeline guarantees for every set of requests, every bound   *)
(* and every mix of disturbances; and, at the end, what more it guarantees *)
(* when no job can be in the list twice.                                   *)
(***************************************************************************)
EXTENDS ReportPipeline, SequenceTheorems, TLAPS

-----------------------------------------------------------------------------
\* The Redis list as a set.

Elements(q) == {q[i] : i \in 1..Len(q)}

\* RPUSH adds its entry to what the list holds.
LEMMA ElementsAppend ==
    ASSUME NEW S, NEW q \in Seq(S), NEW job \in S
    PROVE  /\ Append(q, job) \in Seq(S)
           /\ Elements(Append(q, job)) = Elements(q) \cup {job}
  <1>1. Append(q, job) \in Seq(S) /\ Len(Append(q, job)) = Len(q) + 1
    OBVIOUS
  <1>2. \A i \in 1..Len(q) + 1 :
            Append(q, job)[i] = IF i <= Len(q) THEN q[i] ELSE job
    OBVIOUS
  <1>3. Len(q) \in Nat
    OBVIOUS
  <1>. QED  BY <1>1, <1>2, <1>3 DEF Elements

\* BLPOP removes its head and nothing else.
LEMMA ElementsTail ==
    ASSUME NEW S, NEW q \in Seq(S), q # << >>
    PROVE  /\ Head(q) \in S
           /\ Tail(q) \in Seq(S)
           /\ Elements(q) = Elements(Tail(q)) \cup {Head(q)}
  <1>1. /\ Head(q) \in S /\ Head(q) = q[1]
        /\ Tail(q) \in Seq(S)
        /\ Len(Tail(q)) = Len(q) - 1
        /\ \A i \in 1..Len(Tail(q)) : Tail(q)[i] = q[i + 1]
        /\ Len(q) \in Nat \ {0}
    BY HeadTailProperties, EmptySeq
  <1>2. Elements(Tail(q)) \cup {Head(q)} \subseteq Elements(q)
    BY <1>1 DEF Elements
  <1>3. Elements(q) \subseteq Elements(Tail(q)) \cup {Head(q)}
    <2>1. SUFFICES ASSUME NEW i \in 1..Len(q), i # 1
                   PROVE  q[i] \in Elements(Tail(q))
      BY <1>1 DEF Elements
    <2>2. i - 1 \in 1..Len(Tail(q)) /\ q[i] = Tail(q)[i - 1]
      BY <1>1, <2>1
    <2>. QED  BY <2>2 DEF Elements
  <1>. QED  BY <1>1, <1>2, <1>3

-----------------------------------------------------------------------------
\* Every variable keeps its type.

LEMMA TypeInit == Init => TypeOK
  BY PipelineAssumption
     DEF Init, TypeOK, Statuses, Reasons, Jobs, ApiStates, WorkerStates

\* A disturbance is charged to the budget and never exceeds it.
LEMMA OutcomeType ==
    ASSUME disturbed \in 0..MaxDisturbances, NEW o, Outcome(o)
    PROVE  disturbed' \in 0..MaxDisturbances
  BY PipelineAssumption DEF Outcome, Disturb

LEMMA DisturbType ==
    ASSUME disturbed \in 0..MaxDisturbances, NEW kind, Disturb(kind)
    PROVE  disturbed' \in 0..MaxDisturbances
  BY PipelineAssumption DEF Disturb

\* What an UPDATE of status and reason leaves behind.
LEMMA SetStatusType ==
    ASSUME status \in [Requests -> Statuses], reason \in [Requests -> Reasons],
           NEW r \in Requests, NEW s \in Statuses, NEW why \in Reasons,
           SetStatus(r, s, why)
    PROVE  /\ status' \in [Requests -> Statuses]
           /\ reason' \in [Requests -> Reasons]
  BY DEF SetStatus

LEMMA TypeStep == TypeOK /\ [Next]_vars => TypeOK'
  <1>. SUFFICES ASSUME TypeOK, [Next]_vars
                PROVE  TypeOK'
    OBVIOUS
  <1>. USE DEF TypeOK, row, handler, worker, Lose, Hold, Goto, Release
  <1>. /\ {"queued", "processing", "completed", "failed"} \subseteq Statuses
       /\ Reasons = {"null", "enqueueFailed", "generateFailed"}
    BY DEF Statuses, Reasons
  <1>. wpc # "idle" => wjob \in Requests
    OBVIOUS
  <1>. NoReport \notin Requests
    BY PipelineAssumption
  <1>1. ASSUME NEW r \in Requests, Validate(r)
        PROVE  TypeOK'
    BY <1>1 DEF Validate, ApiStates
  <1>2. ASSUME NEW r \in Requests, CreateQueuedReport(r)
        PROVE  TypeOK'
    BY <1>2, OutcomeType DEF CreateQueuedReport, ApiStates
  <1>3. ASSUME NEW r \in Requests, Enqueue(r)
        PROVE  TypeOK'
    BY <1>3, ElementsAppend DEF Enqueue, Jobs, ApiStates
  <1>4. ASSUME NEW r \in Requests, EnqueueError(r)
        PROVE  TypeOK'
    <2>1. queue' \in Seq(Jobs)
      <3>1. Append(queue, r) \in Seq(Jobs)
        BY ElementsAppend DEF Jobs
      <3>2. queue' \in {queue, Append(queue, r)}
        BY <1>4 DEF EnqueueError
      <3>. QED  BY <3>1, <3>2
    <2>2. disturbed' \in 0..MaxDisturbances
      BY <1>4, OutcomeType DEF EnqueueError
    <2>3. attempt' \in [Requests -> 1..MaxAttempts]
      <3>1. attempt[r] < MaxAttempts => attempt[r] + 1 \in 1..MaxAttempts
        BY PipelineAssumption
      <3>2. CASE attempt[r] < MaxAttempts /\ attempt' = [attempt EXCEPT ![r] = @ + 1]
        BY <3>1, <3>2
      <3>3. CASE UNCHANGED attempt
        BY <3>3
      <3>. QED  BY <1>4, <3>2, <3>3 DEF EnqueueError
    <2>4. api' \in [Requests -> ApiStates]
      BY <1>4 DEF EnqueueError, ApiStates
    <2>. QED  BY <1>4, <2>1, <2>2, <2>3, <2>4 DEF EnqueueError
  <1>5. ASSUME NEW r \in Requests, MarkReportFailed(r)
        PROVE  TypeOK'
    <2>1. disturbed' \in 0..MaxDisturbances
      BY <1>5, OutcomeType DEF MarkReportFailed
    <2>2. status' \in [Requests -> Statuses] /\ reason' \in [Requests -> Reasons]
      BY <1>5, SetStatusType DEF MarkReportFailed
    <2>. QED  BY <1>5, <2>1, <2>2 DEF MarkReportFailed, ApiStates
  <1>6. CASE ApiRestart
    BY <1>6, DisturbType DEF ApiRestart, ApiStates
  <1>7. CASE RedisLoss
    BY <1>7, DisturbType DEF RedisLoss
  <1>8. CASE ManualPush
    BY <1>8, DisturbType, ElementsAppend DEF ManualPush
  <1>9. CASE Dequeue
    <2>1. Head(queue) \in Jobs /\ queue' \in Seq(Jobs)
      BY <1>9, ElementsTail DEF Dequeue
    <2>2. disturbed' \in 0..MaxDisturbances
      BY <1>9, OutcomeType DEF Dequeue
    <2>. QED  BY <1>9, <2>1, <2>2 DEF Dequeue, WorkerStates
  <1>10. CASE Poll
    BY <1>10 DEF Poll, vars
  <1>11. CASE LoadReport
    BY <1>11, OutcomeType DEF LoadReport, WorkerStates
  <1>12. CASE MarkReportProcessing
    <2>1. disturbed' \in 0..MaxDisturbances
      BY <1>12, OutcomeType DEF MarkReportProcessing
    <2>2. status' \in [Requests -> Statuses] /\ reason' \in [Requests -> Reasons]
      BY <1>12, SetStatusType DEF MarkReportProcessing
    <2>. QED  BY <1>12, <2>1, <2>2 DEF MarkReportProcessing, WorkerStates
  <1>13. CASE LoadReportRows
    BY <1>13, OutcomeType DEF LoadReportRows, WorkerStates
  <1>14. CASE TruncateCSV
    BY <1>14, OutcomeType DEF TruncateCSV, WorkerStates
  <1>15. CASE FinishCSV
    BY <1>15, OutcomeType DEF FinishCSV, WorkerStates
  <1>16. CASE MarkReportCompleted
    <2>1. disturbed' \in 0..MaxDisturbances
      BY <1>16, OutcomeType DEF MarkReportCompleted
    <2>2. status' \in [Requests -> Statuses] /\ reason' \in [Requests -> Reasons]
      BY <1>16, SetStatusType DEF MarkReportCompleted
    <2>. QED  BY <1>16, <2>1, <2>2 DEF MarkReportCompleted, WorkerStates
  <1>17. CASE MarkJobFailed
    <2>1. disturbed' \in 0..MaxDisturbances
      BY <1>17, OutcomeType DEF MarkJobFailed
    <2>2. status' \in [Requests -> Statuses] /\ reason' \in [Requests -> Reasons]
      BY <1>17, SetStatusType DEF MarkJobFailed
    <2>. QED  BY <1>17, <2>1, <2>2 DEF MarkJobFailed, WorkerStates
  <1>18. CASE WorkerRestart
    BY <1>18, DisturbType DEF WorkerRestart, WorkerStates
  <1>19. CASE UNCHANGED vars
    BY <1>19 DEF vars
  <1>. QED
    BY <1>1, <1>2, <1>3, <1>4, <1>5, <1>6, <1>7, <1>8, <1>9, <1>10, <1>11, <1>12,
       <1>13, <1>14, <1>15, <1>16, <1>17, <1>18, <1>19
       DEF Next, Handle, Work

\* Every variable of the pipeline keeps its type.
THEOREM TypeCorrect == Spec => []TypeOK
  BY TypeInit, TypeStep, PTL DEF Spec

-----------------------------------------------------------------------------
\* What the places of the worker and of the handlers say of the row and the file.

\* A row appears only when its handler inserts it; while the worker is past the
\* first UPDATE the row is neither "queued" nor "completed", whatever the other
\* service does to it; the second UPDATE finds the file whole.
RowInv ==
    /\ \A r \in Requests : api[r] \in {"start", "create"} => status[r] = "none"
    /\ wpc \in {"mark", "rows", "write", "writing", "complete"} => status[wjob] # "none"
    /\ wpc \in {"rows", "write", "writing", "complete"} =>
           status[wjob] \in {"processing", "failed"}
    /\ wpc = "complete" => csv[wjob] = "whole"

PipelineInv == RowInv /\ CompletedHasWholeFile /\ AccountedFor

LEMMA PipelineInvInit == Init => PipelineInv
  BY DEF Init, PipelineInv, RowInv, CompletedHasWholeFile, AccountedFor, Unsettled

\* What an UPDATE of status and reason does to the rows.
LEMMA SetStatusEffect ==
    ASSUME status \in [Requests -> Statuses],
           NEW r \in Requests, NEW s, NEW why, SetStatus(r, s, why)
    PROVE  /\ status[r] = "none" => status'[r] = "none"
           /\ status[r] # "none" => status'[r] = s
           /\ \A q \in Requests \ {r} : status'[q] = status[q]
  BY DEF SetStatus

LEMMA RowInvStep == TypeOK /\ RowInv /\ [Next]_vars => RowInv'
  <1>. SUFFICES ASSUME TypeOK, RowInv, [Next]_vars
                PROVE  RowInv'
    OBVIOUS
  <1>. USE DEF RowInv, row, handler, worker, Hold, Goto, Release
  <1>. /\ status \in [Requests -> Statuses]
       /\ csv \in [Requests -> {"absent", "partial", "whole"}]
       /\ api \in [Requests -> ApiStates]
       /\ wpc # "idle" => wjob \in Requests
    BY DEF TypeOK
  <1>1. ASSUME NEW r \in Requests, Validate(r)
        PROVE  RowInv'
    BY <1>1 DEF Validate
  <1>2. ASSUME NEW r \in Requests, CreateQueuedReport(r)
        PROVE  RowInv'
    BY <1>2 DEF CreateQueuedReport, Outcomes
  <1>3. ASSUME NEW r \in Requests, Enqueue(r)
        PROVE  RowInv'
    BY <1>3 DEF Enqueue
  <1>4. ASSUME NEW r \in Requests, EnqueueError(r)
        PROVE  RowInv'
    BY <1>4 DEF EnqueueError
  <1>5. ASSUME NEW r \in Requests, MarkReportFailed(r)
        PROVE  RowInv'
    BY <1>5, SetStatusEffect DEF MarkReportFailed
  <1>6. CASE ApiRestart
    BY <1>6 DEF ApiRestart
  <1>7. CASE RedisLoss
    BY <1>7 DEF RedisLoss
  <1>8. CASE ManualPush
    BY <1>8 DEF ManualPush
  <1>9. CASE Dequeue
    BY <1>9 DEF Dequeue
  <1>10. CASE Poll
    BY <1>10 DEF Poll, vars
  <1>11. CASE LoadReport
    BY <1>11 DEF LoadReport
  <1>12. CASE MarkReportProcessing
    BY <1>12, SetStatusEffect DEF MarkReportProcessing
  <1>13. CASE LoadReportRows
    BY <1>13 DEF LoadReportRows
  <1>14. CASE TruncateCSV
    BY <1>14 DEF TruncateCSV
  <1>15. CASE FinishCSV
    BY <1>15 DEF FinishCSV
  <1>16. CASE MarkReportCompleted
    BY <1>16, SetStatusEffect DEF MarkReportCompleted
  <1>17. CASE MarkJobFailed
    BY <1>17, SetStatusEffect DEF MarkJobFailed
  <1>18. CASE WorkerRestart
    BY <1>18 DEF WorkerRestart
  <1>19. CASE UNCHANGED vars
    BY <1>19 DEF vars
  <1>. QED
    BY <1>1, <1>2, <1>3, <1>4, <1>5, <1>6, <1>7, <1>8, <1>9, <1>10, <1>11, <1>12,
       <1>13, <1>14, <1>15, <1>16, <1>17, <1>18, <1>19
       DEF Next, Handle, Work

LEMMA CompletedHasWholeFileStep ==
    TypeOK /\ RowInv /\ CompletedHasWholeFile /\ [Next]_vars => CompletedHasWholeFile'
  <1>. SUFFICES ASSUME TypeOK, RowInv, CompletedHasWholeFile, [Next]_vars
                PROVE  CompletedHasWholeFile'
    OBVIOUS
  <1>. USE DEF CompletedHasWholeFile, row, handler, worker
  <1>. /\ status \in [Requests -> Statuses]
       /\ filePath \in [Requests -> BOOLEAN]
       /\ csv \in [Requests -> {"absent", "partial", "whole"}]
       /\ wpc # "idle" => wjob \in Requests
    BY DEF TypeOK
  <1>1. ASSUME NEW r \in Requests, Validate(r)
        PROVE  CompletedHasWholeFile'
    BY <1>1 DEF Validate
  <1>2. ASSUME NEW r \in Requests, CreateQueuedReport(r)
        PROVE  CompletedHasWholeFile'
    BY <1>2 DEF CreateQueuedReport
  <1>3. ASSUME NEW r \in Requests, Enqueue(r)
        PROVE  CompletedHasWholeFile'
    BY <1>3 DEF Enqueue
  <1>4. ASSUME NEW r \in Requests, EnqueueError(r)
        PROVE  CompletedHasWholeFile'
    BY <1>4 DEF EnqueueError
  <1>5. ASSUME NEW r \in Requests, MarkReportFailed(r)
        PROVE  CompletedHasWholeFile'
    BY <1>5, SetStatusEffect DEF MarkReportFailed
  <1>6. CASE ApiRestart
    BY <1>6 DEF ApiRestart
  <1>7. CASE RedisLoss
    BY <1>7 DEF RedisLoss
  <1>8. CASE ManualPush
    BY <1>8 DEF ManualPush
  <1>9. CASE Dequeue
    BY <1>9 DEF Dequeue
  <1>10. CASE Poll
    BY <1>10 DEF Poll, vars
  <1>11. CASE LoadReport
    BY <1>11 DEF LoadReport
  <1>12. CASE MarkReportProcessing
    BY <1>12, SetStatusEffect DEF MarkReportProcessing
  <1>13. CASE LoadReportRows
    BY <1>13 DEF LoadReportRows
  <1>14. CASE TruncateCSV
    \* The file may be cut only because RowInv keeps the row from "completed".
    <2>1. status[wjob] # "completed" /\ wjob \in Requests
      BY <1>14 DEF TruncateCSV, RowInv
    <2>. QED  BY <1>14, <2>1 DEF TruncateCSV
  <1>15. CASE FinishCSV
    <2>1. status[wjob] # "completed" /\ wjob \in Requests
      BY <1>15 DEF FinishCSV, RowInv
    <2>. QED  BY <1>15, <2>1 DEF FinishCSV
  <1>16. CASE MarkReportCompleted
    <2>1. wjob \in Requests /\ csv[wjob] = "whole"
      BY <1>16 DEF MarkReportCompleted, RowInv
    <2>. QED  BY <1>16, <2>1, SetStatusEffect DEF MarkReportCompleted
  <1>17. CASE MarkJobFailed
    BY <1>17, SetStatusEffect DEF MarkJobFailed
  <1>18. CASE WorkerRestart
    BY <1>18 DEF WorkerRestart
  <1>19. CASE UNCHANGED vars
    BY <1>19 DEF vars
  <1>. QED
    BY <1>1, <1>2, <1>3, <1>4, <1>5, <1>6, <1>7, <1>8, <1>9, <1>10, <1>11, <1>12,
       <1>13, <1>14, <1>15, <1>16, <1>17, <1>18, <1>19
       DEF Next, Handle, Work

LEMMA QueuedElements == Queued = Elements(queue) /\ Queued' = Elements(queue')
  BY DEF Queued, Elements

LEMMA AccountedForStep ==
    TypeOK /\ RowInv /\ AccountedFor /\ [Next]_vars => AccountedFor'
  <1>. SUFFICES ASSUME TypeOK, RowInv, AccountedFor, [Next]_vars
                PROVE  AccountedFor'
    OBVIOUS
  <1>. USE DEF AccountedFor, Unsettled, row, handler, worker, Lose, Hold, Goto, Release
  <1>. /\ status \in [Requests -> Statuses]
       /\ api \in [Requests -> ApiStates]
       /\ queue \in Seq(Jobs)
       /\ wpc # "idle" => wjob \in Requests
       /\ wpc = "idle" => wjob \notin Requests
    BY PipelineAssumption DEF TypeOK
  <1>0. ASSUME UNCHANGED queue
        PROVE  Queued' = Queued
    BY <1>0 DEF Queued
  <1>1. ASSUME NEW r \in Requests, Validate(r)
        PROVE  AccountedFor'
    BY <1>0, <1>1 DEF Validate
  <1>2. ASSUME NEW r \in Requests, CreateQueuedReport(r)
        PROVE  AccountedFor'
    BY <1>0, <1>2 DEF CreateQueuedReport, Outcomes, RowInv
  <1>3. ASSUME NEW r \in Requests, Enqueue(r)
        PROVE  AccountedFor'
    <2>1. Queued' = Queued \cup {r}
      BY <1>3, QueuedElements, ElementsAppend DEF Enqueue, Jobs
    <2>. QED  BY <1>3, <2>1 DEF Enqueue
  <1>4. ASSUME NEW r \in Requests, EnqueueError(r)
        PROVE  AccountedFor'
    <2>1. Queued \subseteq Queued'
      <3>1. Elements(queue) \subseteq Elements(Append(queue, r))
        BY ElementsAppend DEF Jobs
      <3>2. queue' \in {queue, Append(queue, r)}
        BY <1>4 DEF EnqueueError
      <3>. QED  BY <3>1, <3>2, QueuedElements
    <2>. QED  BY <1>4, <2>1 DEF EnqueueError
  <1>5. ASSUME NEW r \in Requests, MarkReportFailed(r)
        PROVE  AccountedFor'
    BY <1>0, <1>5, SetStatusEffect DEF MarkReportFailed
  <1>6. CASE ApiRestart
    BY <1>0, <1>6 DEF ApiRestart, InFlight
  <1>7. CASE RedisLoss
    BY <1>7 DEF RedisLoss
  <1>8. CASE ManualPush
    <2>1. Queued \subseteq Queued'
      BY <1>8, QueuedElements, ElementsAppend DEF ManualPush
    <2>. QED  BY <1>8, <2>1 DEF ManualPush
  <1>9. CASE Dequeue
    <2>1. Queued = Queued' \cup {Head(queue)}
      BY <1>9, QueuedElements, ElementsTail DEF Dequeue
    <2>. QED  BY <1>9, <2>1 DEF Dequeue
  <1>10. CASE Poll
    BY <1>0, <1>10 DEF Poll, vars
  <1>11. CASE LoadReport
    BY <1>0, <1>11 DEF LoadReport
  <1>12. CASE MarkReportProcessing
    BY <1>0, <1>12, SetStatusEffect DEF MarkReportProcessing
  <1>13. CASE LoadReportRows
    BY <1>0, <1>13 DEF LoadReportRows
  <1>14. CASE TruncateCSV
    BY <1>0, <1>14 DEF TruncateCSV
  <1>15. CASE FinishCSV
    BY <1>0, <1>15 DEF FinishCSV
  <1>16. CASE MarkReportCompleted
    BY <1>0, <1>16, SetStatusEffect DEF MarkReportCompleted, Outcomes
  <1>17. CASE MarkJobFailed
    BY <1>0, <1>17, SetStatusEffect DEF MarkJobFailed
  <1>18. CASE WorkerRestart
    BY <1>0, <1>18 DEF WorkerRestart
  <1>19. CASE UNCHANGED vars
    BY <1>0, <1>19 DEF vars
  <1>. QED
    BY <1>1, <1>2, <1>3, <1>4, <1>5, <1>6, <1>7, <1>8, <1>9, <1>10, <1>11, <1>12,
       <1>13, <1>14, <1>15, <1>16, <1>17, <1>18, <1>19
       DEF Next, Handle, Work

LEMMA PipelineInvariant == Spec => [](TypeOK /\ PipelineInv)
  <1>1. TypeOK /\ PipelineInv /\ [Next]_vars => PipelineInv'
    BY RowInvStep, CompletedHasWholeFileStep, AccountedForStep DEF PipelineInv
  <1>. QED  BY <1>1, TypeInit, TypeStep, PipelineInvInit, PTL DEF Spec

\* A row that says "completed" has its path and a whole file, for any number of
\* requests and of duplicated jobs, failed calls and restarts.
THEOREM CompletedHasWholeFileAlways == Spec => []CompletedHasWholeFile
  BY PipelineInvariant, PTL DEF PipelineInv

\* A report that is "queued" or "processing" is still in somebody's hands, or a
\* disturbance has swallowed its job or an update of its status.
THEOREM AccountedForAlways == Spec => []AccountedFor
  BY PipelineInvariant, PTL DEF PipelineInv

-----------------------------------------------------------------------------
\* Rows and files live the life of ReportLifecycle, here with reruns.

LEMMA RerunFrom ==
    ASSUME Reruns = TRUE, NEW once, NEW again
    PROVE  Lifecycle!From(once, again) = once \cup again
  BY DEF Lifecycle!From

LEMMA LifecycleInit == Init => Lifecycle!Init
  BY DEF Init, Lifecycle!Init

LEMMA RerunStep ==
    ASSUME Reruns = TRUE, TypeOK, RowInv, [Next]_vars
    PROVE  [Lifecycle!Next]_Lifecycle!lifecycleVars
  <1>. DEFINE Step == [Lifecycle!Next]_Lifecycle!lifecycleVars
  <1>. USE DEF row, handler, worker, Lifecycle!lifecycleVars
  <1>. /\ status \in [Requests -> Statuses]
       /\ csv \in [Requests -> {"absent", "partial", "whole"}]
       /\ wpc # "idle" => wjob \in Requests
    BY DEF TypeOK
  <1>. \A r \in Requests :
           status[r] \in {"none", "queued", "processing", "completed", "failed"}
    BY DEF Statuses
  <1>0. ASSUME UNCHANGED <<status, csv>>
        PROVE  Step
    BY <1>0
  <1>2. ASSUME NEW r \in Requests, CreateQueuedReport(r)
        PROVE  Step
    <2>1. status[r] = "none"
      BY <1>2 DEF CreateQueuedReport, RowInv
    <2>2. UNCHANGED status \/ status' = [status EXCEPT ![r] = "queued"]
      BY <1>2 DEF CreateQueuedReport
    <2>. QED  BY <1>2, <2>1, <2>2 DEF CreateQueuedReport, Lifecycle!Next, Lifecycle!Submit
  <1>5. ASSUME NEW r \in Requests, SetStatus(r, "failed", "enqueueFailed")
                                     \/ SetStatus(r, "failed", "generateFailed"),
               UNCHANGED csv
        PROVE  Step
    <2>1. CASE status[r] = "none"
      BY <1>5, <2>1 DEF SetStatus
    <2>2. CASE status[r] # "none"
      <3>1. Lifecycle!Fail(r)
        BY <1>5, <2>2, RerunFrom DEF SetStatus, Lifecycle!Fail
      <3>. QED  BY <3>1 DEF Lifecycle!Next
    <2>. QED  BY <2>1, <2>2
  <1>12. CASE MarkReportProcessing
    <2>1. CASE UNCHANGED <<status, reason>>
      BY <1>12, <2>1 DEF MarkReportProcessing
    <2>2. CASE SetStatus(wjob, "processing", "null")
      <3>1. status[wjob] # "none" /\ wjob \in Requests
        BY <1>12 DEF MarkReportProcessing, RowInv
      <3>2. Lifecycle!Start(wjob)
        BY <1>12, <2>2, <3>1, RerunFrom DEF MarkReportProcessing, SetStatus, Lifecycle!Start
      <3>. QED  BY <3>1, <3>2 DEF Lifecycle!Next
    <2>. QED  BY <1>12, <2>1, <2>2 DEF MarkReportProcessing
  <1>14. ASSUME NEW f \in {"partial", "whole"}, wpc \in {"write", "writing"},
                UNCHANGED csv \/ csv' = [csv EXCEPT ![wjob] = f], UNCHANGED status
         PROVE  Step
    <2>1. wjob \in Requests /\ status[wjob] \in {"processing", "failed"}
      BY <1>14 DEF RowInv
    <2>2. CASE csv' = [csv EXCEPT ![wjob] = f]
      <3>1. status[wjob] \in Lifecycle!From({"processing"}, {"failed"})
        BY <2>1, RerunFrom
      <3>2. \E g \in {"partial", "whole"} : csv' = [csv EXCEPT ![wjob] = g]
        BY <2>2
      <3>3. Lifecycle!Render(wjob)
        BY <1>14, <3>1, <3>2 DEF Lifecycle!Render
      <3>. QED  BY <2>1, <3>3 DEF Lifecycle!Next
    <2>. QED  BY <1>14, <2>2
  <1>16. CASE MarkReportCompleted
    <2>1. CASE UNCHANGED row
      BY <1>16, <2>1 DEF MarkReportCompleted
    <2>2. CASE SetStatus(wjob, "completed", "null")
      <3>1. /\ wjob \in Requests
            /\ status[wjob] \in {"processing", "failed"}
            /\ csv[wjob] = "whole"
        BY <1>16 DEF MarkReportCompleted, RowInv
      <3>2. Lifecycle!Complete(wjob)
        BY <1>16, <2>2, <3>1, RerunFrom
           DEF MarkReportCompleted, SetStatus, Lifecycle!Complete
      <3>. QED  BY <3>1, <3>2 DEF Lifecycle!Next
    <2>. QED  BY <1>16, <2>1, <2>2 DEF MarkReportCompleted
  <1>20. ASSUME NEW r \in Requests, Handle(r)
         PROVE  Step
    BY <1>0, <1>2, <1>5, <1>20
       DEF Handle, Validate, Enqueue, EnqueueError, MarkReportFailed
  <1>21. CASE Work
    BY <1>0, <1>5, <1>12, <1>14, <1>16, <1>21
       DEF Work, Dequeue, Poll, vars, LoadReport, LoadReportRows, TruncateCSV, FinishCSV,
           MarkJobFailed
  <1>22. CASE ApiRestart \/ WorkerRestart \/ RedisLoss \/ ManualPush \/ UNCHANGED vars
    BY <1>0, <1>22 DEF ApiRestart, WorkerRestart, RedisLoss, ManualPush, vars
  <1>. QED  BY <1>20, <1>21, <1>22 DEF Next

\* Whatever is duplicated, lost or restarted, a row only walks the steps of
\* ReportLifecycle with reruns, and no file changes under a "completed" row.
THEOREM KeepsLifecycleWithReruns ==
    ASSUME Reruns = TRUE
    PROVE  Spec => KeepsLifecycle
  <1>1. TypeOK /\ RowInv /\ [Next]_vars => [Lifecycle!Next]_Lifecycle!lifecycleVars
    BY RerunStep
  <1>2. Spec => [](TypeOK /\ RowInv)
    BY PipelineInvariant, PTL DEF PipelineInv
  <1>. QED  BY <1>1, <1>2, LifecycleInit, PTL DEF Spec, KeepsLifecycle, Lifecycle!Spec

-----------------------------------------------------------------------------
\* From here on, the life of a report when nothing puts its job in the list twice: no
\* lost reply, which go-redis answers with another RPUSH, and no RPUSH by hand. Failed
\* calls, restarts and the loss of the list are all allowed.

NoDuplicates == "replyLost" \notin Disturbances /\ "manualPush" \notin Disturbances

Distinct(q) == \A i, j \in 1..Len(q) : q[i] = q[j] => i = j

\* Each job is in one place: not yet pushed, in the list once, or in the worker;
\* the row tells which.
OnceInv ==
    /\ Distinct(queue)
    /\ \A r \in Queued : r \in Requests /\ r # wjob
                         /\ status[r] = "queued" /\ api[r] = "accepted"
    /\ \A r \in Requests : api[r] \in {"start", "create"} => status[r] = "none"
    /\ \A r \in Requests : api[r] \in {"push", "markFailed"} => status[r] = "queued"
    /\ wpc # "idle" => api[wjob] = "accepted"
    /\ wpc \in {"load", "mark"} => status[wjob] = "queued"
    /\ wpc \in {"rows", "write", "writing", "complete"} => status[wjob] = "processing"
    /\ wpc = "fail" => status[wjob] \in {"queued", "processing"}
    /\ wpc = "complete" => csv[wjob] = "whole"

LEMMA DistinctAppend ==
    ASSUME NEW S, NEW q \in Seq(S), NEW job \in S, Distinct(q), job \notin Elements(q)
    PROVE  Distinct(Append(q, job))
  <1>1. /\ Len(Append(q, job)) = Len(q) + 1
        /\ Len(q) \in Nat
        /\ \A i \in 1..Len(q) + 1 :
               Append(q, job)[i] = IF i <= Len(q) THEN q[i] ELSE job
    OBVIOUS
  <1>2. \A i \in 1..Len(q) : q[i] # job
    BY DEF Elements
  <1>. QED  BY <1>1, <1>2 DEF Distinct

LEMMA DistinctTail ==
    ASSUME NEW S, NEW q \in Seq(S), q # << >>, Distinct(q)
    PROVE  /\ Distinct(Tail(q))
           /\ Head(q) \notin Elements(Tail(q))
  <1>1. /\ Head(q) = q[1]
        /\ Len(Tail(q)) = Len(q) - 1
        /\ \A i \in 1..Len(Tail(q)) : Tail(q)[i] = q[i + 1]
        /\ Len(q) \in Nat \ {0}
    BY HeadTailProperties, EmptySeq
  <1>2. Distinct(Tail(q))
    BY <1>1 DEF Distinct
  <1>3. ASSUME NEW i \in 1..Len(Tail(q))
        PROVE  Tail(q)[i] # Head(q)
    <2>1. i + 1 \in 1..Len(q) /\ 1 \in 1..Len(q) /\ i + 1 # 1
      BY <1>1
    <2>. QED  BY <1>1, <2>1 DEF Distinct
  <1>. QED  BY <1>2, <1>3 DEF Elements

LEMMA OnceInit == Init => OnceInv
  BY DEF Init, OnceInv, Distinct, Queued

LEMMA OnceStep ==
    ASSUME NoDuplicates, TypeOK, OnceInv, [Next]_vars
    PROVE  OnceInv'
  <1>. USE DEF OnceInv, row, handler, worker, Lose, Hold, Goto, Release
  <1>. /\ status \in [Requests -> Statuses]
       /\ csv \in [Requests -> {"absent", "partial", "whole"}]
       /\ api \in [Requests -> ApiStates]
       /\ queue \in Seq(Jobs)
       /\ wpc # "idle" => wjob \in Requests
       /\ wpc = "idle" => wjob = NoReport
       /\ NoReport \notin Requests
    BY PipelineAssumption DEF TypeOK
  <1>a. ASSUME NEW o, Outcome(o), o # "ok"
        PROVE  o \in Disturbances
    BY <1>a DEF Outcome, Disturb
  <1>b. ~ Disturb("manualPush") /\ ~ Outcome("replyLost")
    BY <1>a DEF NoDuplicates, Outcome, Disturb
  <1>0. ASSUME UNCHANGED queue
        PROVE  Queued' = Queued /\ Distinct(queue)' = Distinct(queue)
    BY <1>0 DEF Queued, Distinct
  <1>1. ASSUME NEW r \in Requests, Validate(r)
        PROVE  OnceInv'
    BY <1>0, <1>1 DEF Validate
  <1>2. ASSUME NEW r \in Requests, CreateQueuedReport(r)
        PROVE  OnceInv'
    BY <1>0, <1>2, <1>b DEF CreateQueuedReport, Outcomes
  <1>3. ASSUME NEW r \in Requests, Enqueue(r)
        PROVE  OnceInv'
    <2>1. r \notin Queued /\ r # wjob
      BY <1>3 DEF Enqueue
    <2>2. Queued' = Queued \cup {r}
      BY <1>3, QueuedElements, ElementsAppend DEF Enqueue, Jobs
    <2>3. Distinct(queue)'
      <3>1. Distinct(Append(queue, r))
        BY <2>1, QueuedElements, DistinctAppend DEF Jobs
      <3>2. queue' = Append(queue, r)
        BY <1>3 DEF Enqueue
      <3>. QED  BY <3>1, <3>2
    <2>. QED  BY <1>3, <2>1, <2>2, <2>3 DEF Enqueue
  <1>4. ASSUME NEW r \in Requests, EnqueueError(r)
        PROVE  OnceInv'
    <2>1. UNCHANGED queue
      BY <1>4, <1>b DEF EnqueueError
    <2>. QED  BY <1>0, <1>4, <2>1 DEF EnqueueError
  <1>5. ASSUME NEW r \in Requests, MarkReportFailed(r)
        PROVE  OnceInv'
    BY <1>0, <1>5, SetStatusEffect DEF MarkReportFailed
  <1>6. CASE ApiRestart
    BY <1>0, <1>6 DEF ApiRestart, InFlight
  <1>7. CASE RedisLoss
    BY <1>7 DEF RedisLoss, Queued, Distinct
  <1>8. CASE ManualPush
    BY <1>8, <1>b DEF ManualPush
  <1>9. CASE Dequeue
    <2>1. /\ Head(queue) \in Queued
          /\ Queued' = Queued \ {Head(queue)}
          /\ Distinct(queue)'
      <3>1. /\ Queued = Elements(Tail(queue)) \cup {Head(queue)}
            /\ Head(queue) \notin Elements(Tail(queue))
            /\ Distinct(Tail(queue))
        BY <1>9, QueuedElements, ElementsTail, DistinctTail DEF Dequeue
      <3>2. queue' = Tail(queue)
        BY <1>9 DEF Dequeue
      <3>. QED  BY <3>1, <3>2, QueuedElements
    <2>. QED  BY <1>9, <1>b, <2>1 DEF Dequeue
  <1>10. CASE Poll
    BY <1>0, <1>10 DEF Poll, vars
  <1>11. CASE LoadReport
    BY <1>0, <1>11 DEF LoadReport
  <1>12. CASE MarkReportProcessing
    BY <1>0, <1>12, SetStatusEffect DEF MarkReportProcessing
  <1>13. CASE LoadReportRows
    BY <1>0, <1>13 DEF LoadReportRows
  <1>14. CASE TruncateCSV
    BY <1>0, <1>14 DEF TruncateCSV
  <1>15. CASE FinishCSV
    BY <1>0, <1>15 DEF FinishCSV
  <1>16. CASE MarkReportCompleted
    BY <1>0, <1>16, <1>b, SetStatusEffect DEF MarkReportCompleted, Outcomes
  <1>17. CASE MarkJobFailed
    BY <1>0, <1>17, SetStatusEffect DEF MarkJobFailed
  <1>18. CASE WorkerRestart
    BY <1>0, <1>18 DEF WorkerRestart
  <1>19. CASE UNCHANGED vars
    BY <1>0, <1>19 DEF vars
  <1>. QED
    BY <1>1, <1>2, <1>3, <1>4, <1>5, <1>6, <1>7, <1>8, <1>9, <1>10, <1>11, <1>12,
       <1>13, <1>14, <1>15, <1>16, <1>17, <1>18, <1>19
       DEF Next, Handle, Work

-----------------------------------------------------------------------------
\* The refinement of ReportLifecycle without reruns.

LEMMA OnceFrom ==
    ASSUME Reruns = FALSE, NEW once, NEW again
    PROVE  Lifecycle!From(once, again) = once
  BY DEF Lifecycle!From

LEMMA OnceLifecycleStep ==
    ASSUME Reruns = FALSE, NoDuplicates, TypeOK, OnceInv, [Next]_vars
    PROVE  [Lifecycle!Next]_Lifecycle!lifecycleVars
  <1>. DEFINE Step == [Lifecycle!Next]_Lifecycle!lifecycleVars
  <1>. USE DEF row, handler, worker, Lifecycle!lifecycleVars
  <1>. /\ status \in [Requests -> Statuses]
       /\ csv \in [Requests -> {"absent", "partial", "whole"}]
       /\ wpc # "idle" => wjob \in Requests
    BY DEF TypeOK
  <1>f. /\ Lifecycle!From({"queued"}, {"processing", "completed", "failed"}) = {"queued"}
        /\ Lifecycle!From({"processing"}, {"failed"}) = {"processing"}
        /\ Lifecycle!From({"queued", "processing"}, {"completed", "failed"})
               = {"queued", "processing"}
    BY OnceFrom, Zenon
  <1>0. ASSUME UNCHANGED <<status, csv>>
        PROVE  Step
    BY <1>0
  <1>2. ASSUME NEW r \in Requests, CreateQueuedReport(r)
        PROVE  Step
    <2>1. status[r] = "none"
      BY <1>2 DEF CreateQueuedReport, OnceInv
    <2>2. UNCHANGED status \/ status' = [status EXCEPT ![r] = "queued"]
      BY <1>2 DEF CreateQueuedReport
    <2>. QED  BY <1>2, <2>1, <2>2 DEF CreateQueuedReport, Lifecycle!Next, Lifecycle!Submit
  <1>5. ASSUME NEW r \in Requests, status[r] \in {"queued", "processing"},
               NEW why, SetStatus(r, "failed", why) \/ UNCHANGED status, UNCHANGED csv
        PROVE  Step
    <2>1. CASE UNCHANGED status
      BY <1>5, <2>1
    <2>2. CASE SetStatus(r, "failed", why)
      <3>1. Lifecycle!Fail(r)
        BY <1>f, <1>5, <2>2 DEF SetStatus, Lifecycle!Fail
      <3>. QED  BY <3>1 DEF Lifecycle!Next
    <2>. QED  BY <1>5, <2>1, <2>2
  <1>6. ASSUME NEW r \in Requests, MarkReportFailed(r)
        PROVE  Step
    <2>1. status[r] = "queued"
      BY <1>6 DEF MarkReportFailed, OnceInv
    <2>. QED  BY <1>5, <1>6, <2>1 DEF MarkReportFailed
  <1>12. CASE MarkReportProcessing
    <2>1. wjob \in Requests /\ status[wjob] = "queued"
      BY <1>12 DEF MarkReportProcessing, OnceInv
    <2>2. CASE SetStatus(wjob, "processing", "null")
      <3>1. Lifecycle!Start(wjob)
        BY <1>12, <2>1, <1>f, <2>2 DEF MarkReportProcessing, SetStatus, Lifecycle!Start
      <3>. QED  BY <2>1, <3>1 DEF Lifecycle!Next
    <2>. QED  BY <1>12, <2>2 DEF MarkReportProcessing
  <1>14. ASSUME NEW f \in {"partial", "whole"}, wpc \in {"write", "writing"},
                UNCHANGED csv \/ csv' = [csv EXCEPT ![wjob] = f], UNCHANGED status
         PROVE  Step
    <2>1. wjob \in Requests /\ status[wjob] = "processing"
      BY <1>14 DEF OnceInv
    <2>2. CASE csv' = [csv EXCEPT ![wjob] = f]
      <3>1. status[wjob] \in Lifecycle!From({"processing"}, {"failed"})
        BY <1>f, <2>1
      <3>2. \E g \in {"partial", "whole"} : csv' = [csv EXCEPT ![wjob] = g]
        BY <2>2
      <3>3. Lifecycle!Render(wjob)
        BY <1>14, <3>1, <3>2 DEF Lifecycle!Render
      <3>. QED  BY <2>1, <3>3 DEF Lifecycle!Next
    <2>. QED  BY <1>14, <2>2
  <1>16. CASE MarkReportCompleted
    <2>1. wjob \in Requests /\ status[wjob] = "processing" /\ csv[wjob] = "whole"
      BY <1>16 DEF MarkReportCompleted, OnceInv
    <2>2. CASE SetStatus(wjob, "completed", "null")
      <3>1. Lifecycle!Complete(wjob)
        BY <1>16, <2>1, <1>f, <2>2
           DEF MarkReportCompleted, SetStatus, Lifecycle!Complete
      <3>. QED  BY <2>1, <3>1 DEF Lifecycle!Next
    <2>. QED  BY <1>16, <2>2 DEF MarkReportCompleted
  <1>17. CASE MarkJobFailed
    <2>1. wjob \in Requests /\ status[wjob] \in {"queued", "processing"}
      BY <1>17 DEF MarkJobFailed, OnceInv
    <2>. QED  BY <1>5, <1>17, <2>1 DEF MarkJobFailed
  <1>20. ASSUME NEW r \in Requests, Handle(r)
         PROVE  Step
    BY <1>0, <1>2, <1>6, <1>20 DEF Handle, Validate, Enqueue, EnqueueError
  <1>21. CASE Work
    BY <1>0, <1>12, <1>14, <1>16, <1>17, <1>21
       DEF Work, Dequeue, Poll, vars, LoadReport, LoadReportRows, TruncateCSV, FinishCSV
  <1>22. CASE ApiRestart \/ WorkerRestart \/ RedisLoss \/ ManualPush \/ UNCHANGED vars
    BY <1>0, <1>22 DEF ApiRestart, WorkerRestart, RedisLoss, ManualPush, vars
  <1>. QED  BY <1>20, <1>21, <1>22 DEF Next

LEMMA OnceInvariant ==
    ASSUME NoDuplicates
    PROVE  Spec => [](TypeOK /\ OnceInv)
  <1>1. TypeOK /\ OnceInv /\ [Next]_vars => OnceInv'
    BY OnceStep
  <1>. QED  BY <1>1, TypeInit, TypeStep, OnceInit, PTL DEF Spec

\* Without duplicated jobs a report lives the life the README draws: it settles
\* at most once, and what settled is never touched again, whatever calls fail
\* and whatever restarts.
THEOREM KeepsLifecycleOnce ==
    ASSUME Reruns = FALSE, NoDuplicates
    PROVE  Spec => KeepsLifecycle
  <1>1. TypeOK /\ OnceInv /\ [Next]_vars => [Lifecycle!Next]_Lifecycle!lifecycleVars
    BY OnceLifecycleStep
  <1>. QED
    BY <1>1, OnceInvariant, LifecycleInit, PTL DEF Spec, KeepsLifecycle, Lifecycle!Spec

-----------------------------------------------------------------------------
\* The way of a job through the list and the worker: the steps of the worker that are
\* left of it count down, and nothing but a disturbance takes it out before its end.

\* The steps that the worker has left with the job it holds, at most.
StepsWith(pc) ==
    CASE pc = "load" -> 7
      [] pc = "mark" -> 6
      [] pc = "rows" -> 5
      [] pc = "write" -> 4
      [] pc = "writing" -> 3
      [] pc = "complete" -> 2
      [] pc = "fail" -> 1
      [] pc = "idle" -> 0

Stage == StepsWith(wpc)

\* The steps of the worker before it holds the job at place i of the list, at most.
Ahead(i) == 8 * i + Stage

JobAdvances(i) ==
    \/ /\ i <= Len(queue') /\ queue'[i] = queue[i]
       /\ Ahead(i)' <= Ahead(i)
       /\ Work => Ahead(i)' < Ahead(i)
    \/ /\ Dequeue /\ i > 1
       /\ i - 1 <= Len(queue') /\ queue'[i - 1] = queue[i]
       /\ Ahead(i - 1)' < Ahead(i)
    \/ /\ Dequeue /\ i = 1
       /\ wjob' = queue[i] \/ queue[i] \in losses' \cup {Poison}
    \/ RedisLoss /\ queue[i] \in losses' \cup {Poison}

HeldAdvances ==
    \/ /\ wjob' = wjob
       /\ IF Work THEN Stage' < Stage ELSE Stage' = Stage
    \/ /\ wjob' = NoReport
       /\ status'[wjob] \notin Unsettled \/ wjob \in losses'

JobsAdvance ==
    /\ \A i \in 1..Len(queue) : JobAdvances(i)
    /\ wjob # NoReport => HeldAdvances

LEMMA StepsWithIs ==
    /\ StepsWith("load") = 7 /\ StepsWith("mark") = 6 /\ StepsWith("rows") = 5
    /\ StepsWith("write") = 4 /\ StepsWith("writing") = 3 /\ StepsWith("complete") = 2
    /\ StepsWith("fail") = 1 /\ StepsWith("idle") = 0
  BY DEF StepsWith

\* What the worker does with the job it holds.
WorkOn ==
    \/ LoadReport \/ MarkReportProcessing \/ LoadReportRows
    \/ TruncateCSV \/ FinishCSV \/ MarkReportCompleted \/ MarkJobFailed

LEMMA WorkOnAdvances ==
    ASSUME TypeOK, WorkOn
    PROVE  /\ wjob # NoReport /\ UNCHANGED queue
           /\ Stage' \in Int /\ Stage \in Int /\ Stage' < Stage
           /\ \/ wjob' = wjob
              \/ /\ wjob' = NoReport
                 /\ status'[wjob] \notin Unsettled \/ wjob \in losses'
  <1>. USE DEF Stage, row, handler, worker, Goto, Release, Hold
  <1>. /\ status \in [Requests -> Statuses]
       /\ wpc \in WorkerStates
       /\ wjob = NoReport <=> wpc = "idle"
       /\ wjob \in Requests \cup {NoReport}
    BY DEF TypeOK
  <1>1. CASE LoadReport
    BY <1>1, StepsWithIs DEF LoadReport
  <1>2. CASE MarkReportProcessing
    BY <1>2, StepsWithIs DEF MarkReportProcessing
  <1>3. CASE LoadReportRows
    BY <1>3, StepsWithIs DEF LoadReportRows
  <1>4. CASE TruncateCSV
    BY <1>4, StepsWithIs DEF TruncateCSV
  <1>5. CASE FinishCSV
    BY <1>5, StepsWithIs DEF FinishCSV
  <1>6. ASSUME NEW s, s \notin Unsettled, NEW why, SetStatus(wjob, s, why), wjob \in Requests
        PROVE  status'[wjob] \notin Unsettled
    BY <1>6 DEF SetStatus, Unsettled
  <1>7. CASE MarkReportCompleted
    <2>1. "completed" \notin Unsettled
      BY DEF Unsettled
    <2>2. /\ wpc = "complete" /\ wjob \in Requests /\ UNCHANGED queue
          /\ \/ wpc' = "fail" /\ wjob' = wjob
             \/ /\ wpc' = "idle" /\ wjob' = NoReport
                /\ SetStatus(wjob, "completed", "null")
      BY <1>7 DEF MarkReportCompleted
    <2>3. wjob' = NoReport => status'[wjob] \notin Unsettled
      BY <1>6, <2>1, <2>2
    <2>. QED  BY <2>2, <2>3, StepsWithIs
  <1>8. CASE MarkJobFailed
    <2>1. "failed" \notin Unsettled
      BY DEF Unsettled
    <2>2. /\ wpc = "fail" /\ wjob \in Requests /\ UNCHANGED queue
          /\ wpc' = "idle" /\ wjob' = NoReport
          /\ wjob \in losses' \/ SetStatus(wjob, "failed", "generateFailed")
      BY <1>8 DEF MarkJobFailed, Lose
    <2>3. wjob \in losses' \/ status'[wjob] \notin Unsettled
      BY <1>6, <2>1, <2>2
    <2>. QED  BY <2>2, <2>3, StepsWithIs
  <1>. QED  BY <1>1, <1>2, <1>3, <1>4, <1>5, <1>7, <1>8 DEF WorkOn

\* Steps that only add to the list, or leave it alone.
LEMMA AppendAdvances ==
    ASSUME TypeOK, NEW i \in 1..Len(queue), Stage \in Int, Stage' \in Int,
           queue' = queue \/ \E job \in Jobs : queue' = Append(queue, job),
           Stage' <= Stage, Work => Stage' < Stage
    PROVE  JobAdvances(i)
  <1>1. queue \in Seq(Jobs) /\ Len(queue) \in Nat /\ i \in Int
    BY DEF TypeOK
  <1>2. i <= Len(queue') /\ queue'[i] = queue[i]
    <2>1. ASSUME NEW job \in Jobs, queue' = Append(queue, job)
          PROVE  i <= Len(queue') /\ queue'[i] = queue[i]
      BY <1>1, <2>1
    <2>. QED  BY <1>1, <2>1
  <1>3. \A a, b \in Int : /\ b <= a => 8 * i + b <= 8 * i + a
                          /\ b < a => 8 * i + b < 8 * i + a
    BY <1>1
  <1>4. Ahead(i)' = 8 * i + Stage' /\ Ahead(i) = 8 * i + Stage
    BY DEF Ahead
  <1>5. Ahead(i)' <= Ahead(i)
    BY <1>3, <1>4
  <1>6. ASSUME Work PROVE Ahead(i)' < Ahead(i)
    BY <1>3, <1>4, <1>6
  <1>. QED  BY <1>2, <1>5, <1>6 DEF JobAdvances

LEMMA DequeueAdvances ==
    ASSUME TypeOK, Dequeue, NEW i \in 1..Len(queue)
    PROVE  JobAdvances(i)
  <1>1. /\ queue \in Seq(Jobs) /\ queue # << >> /\ queue' = Tail(queue) /\ i \in Int
        /\ wpc = "idle"
    BY DEF TypeOK, Dequeue
  <1>2. /\ Len(queue') = Len(queue) - 1
        /\ \A j \in 1..Len(queue') : queue'[j] = queue[j + 1]
        /\ Len(queue) \in Nat
        /\ Head(queue) = queue[1]
    BY <1>1, HeadTailProperties
  <1>3. CASE i = 1
    <2>1. queue[1] \in Requests \cup {Poison}
      BY <1>1, <1>3 DEF Jobs
    <2>2. \/ wjob' = queue[1]
          \/ queue[1] \notin Requests
          \/ queue[1] \in losses'
      BY <1>2 DEF Dequeue, Hold, Release, Lose
    <2>. QED  BY <1>3, <2>1, <2>2 DEF JobAdvances
  <1>4. CASE i > 1
    <2>1. i - 1 <= Len(queue') /\ queue'[i - 1] = queue[i]
      BY <1>1, <1>2, <1>4
    <2>2. wpc' \in {"idle", "load"}
      BY DEF Dequeue, Hold, Release
    <2>3. Ahead(i - 1)' < Ahead(i)
      BY <1>1, <2>2, StepsWithIs DEF Ahead, Stage
    <2>. QED  BY <1>4, <2>1, <2>3 DEF JobAdvances
  <1>. QED  BY <1>1, <1>3, <1>4

\* Every job in the list keeps its place or comes nearer to the worker, with each step of
\* the worker; what is pushed later never overtakes it. The worker lets go of a report
\* only with the row settled. Whatever takes a job out otherwise has put it in losses.
\* That the worker makes its steps (WF of Work) is what Settles adds.
THEOREM JobsAdvanceAlways == Spec => [][JobsAdvance]_vars
  <1>1. TypeOK /\ [Next]_vars => [JobsAdvance]_vars
    <2>. SUFFICES ASSUME TypeOK, Next
                  PROVE  JobsAdvance
      OBVIOUS
    <2>. USE DEF row, handler, worker
    <2>0. Stage \in Int
      BY StepsWithIs DEF TypeOK, WorkerStates, Stage
    <2>1. ASSUME WorkOn
          PROVE  JobsAdvance
      <3>1. /\ UNCHANGED queue /\ Stage' \in Int /\ Stage' < Stage
            /\ HeldAdvances
        BY <2>0, <2>1, WorkOnAdvances DEF HeldAdvances, WorkOn, Work
      <3>. QED  BY <2>0, <3>1, AppendAdvances DEF JobsAdvance
    <2>2. CASE Dequeue
      BY <2>2, DequeueAdvances DEF JobsAdvance, Dequeue, TypeOK
    <2>3. CASE Poll
      BY <2>3 DEF JobsAdvance, Poll, TypeOK
    <2>4. ASSUME ~Work, UNCHANGED worker,
                 queue' = queue \/ \E job \in Jobs : queue' = Append(queue, job)
          PROVE  JobsAdvance
      <3>1. Stage' = Stage
        BY <2>4 DEF Stage
      <3>2. \A i \in 1..Len(queue) : JobAdvances(i)
        BY <2>0, <2>4, <3>1, AppendAdvances
      <3>. QED  BY <2>4, <3>1, <3>2 DEF JobsAdvance, HeldAdvances
    <2>5. ASSUME ~Work, WorkerRestart
          PROVE  JobsAdvance
      <3>1. /\ wpc' = "idle" /\ wjob' = NoReport /\ wjob \in losses' /\ UNCHANGED queue
        BY <2>5 DEF WorkerRestart, Release, Hold, Lose
      <3>2. Stage' = 0 /\ Stage >= 0
        BY <3>1, StepsWithIs DEF Stage, TypeOK, WorkerStates
      <3>3. \A i \in 1..Len(queue) : JobAdvances(i)
        BY <2>0, <2>5, <3>1, <3>2, AppendAdvances
      <3>. QED  BY <3>1, <3>3 DEF JobsAdvance, HeldAdvances
    <2>6. ASSUME ~Work, RedisLoss
          PROVE  JobsAdvance
      <3>1. ASSUME NEW i \in 1..Len(queue)
            PROVE  queue[i] \in losses' \cup {Poison}
        BY <2>6 DEF RedisLoss, Lose, Queued, Jobs, TypeOK
      <3>2. UNCHANGED worker
        BY <2>6 DEF RedisLoss
      <3>3. Stage' = Stage
        BY <3>2 DEF Stage
      <3>. QED  BY <2>6, <3>1, <3>2, <3>3 DEF JobsAdvance, JobAdvances, HeldAdvances
    <2>7. ASSUME NEW r \in Requests, Handle(r), ~Work
          PROVE  JobsAdvance
      <3>1. /\ UNCHANGED worker
            /\ queue' = queue \/ queue' = Append(queue, r)
        BY <2>7 DEF Handle, Validate, CreateQueuedReport, Enqueue, EnqueueError, MarkReportFailed
      <3>. QED  BY <2>4, <2>7, <3>1 DEF Jobs
    <2>8. ASSUME ApiRestart \/ ManualPush, ~Work
          PROVE  JobsAdvance
      BY <2>4, <2>8 DEF ApiRestart, ManualPush
    <2>. QED
      BY <2>1, <2>2, <2>3, <2>5, <2>6, <2>7, <2>8 DEF Next, Work, WorkOn
  <1>. QED  BY <1>1, TypeCorrect, PTL DEF Spec
=============================================================================
