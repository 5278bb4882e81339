--------------------------- MODULE ReportLifecycle ---------------------------
(***************************************************************************)
(* What the system promises about one report, whatever services, queues    *)
(* and retries stand behind it: a row that walks from "queued" through      *)
(* "processing" to "completed" or "failed", and a CSV file that is only     *)
(* touched while the row is not "completed".                               *)
(*                                                                         *)
(* Reruns says whether a report may be generated again after it settled:   *)
(* FALSE is the life the README draws, TRUE is the weaker promise that is  *)
(* left when a job can be in the Redis list twice.                         *)
(***************************************************************************)
CONSTANTS Reports, Reruns

VARIABLES
    stage,   \* stage[r]: report.status, "none" while there is no row
    file     \* file[r]: what data/exports holds for the report

lifecycleVars == <<stage, file>>

Stages == {"none", "queued", "processing", "completed", "failed"}

Files == {"absent", "partial", "whole"}

\* The stages a step may start from: those of the README, and with Reruns
\* also the settled ones and those a job that runs again can find.
From(once, again) == once \cup (IF Reruns THEN again ELSE {})

Init ==
    /\ stage = [r \in Reports |-> "none"]
    /\ file = [r \in Reports |-> "absent"]

Submit(r) ==
    /\ stage[r] = "none"
    /\ stage' = [stage EXCEPT ![r] = "queued"]
    /\ UNCHANGED file

Start(r) ==
    /\ stage[r] \in From({"queued"}, {"processing", "completed", "failed"})
    /\ stage' = [stage EXCEPT ![r] = "processing"]
    /\ UNCHANGED file

Render(r) ==
    /\ stage[r] \in From({"processing"}, {"failed"})
    /\ \E f \in {"partial", "whole"} : file' = [file EXCEPT ![r] = f]
    /\ UNCHANGED stage

Complete(r) ==
    /\ stage[r] \in From({"processing"}, {"failed"})
    /\ file[r] = "whole"
    /\ stage' = [stage EXCEPT ![r] = "completed"]
    /\ UNCHANGED file

Fail(r) ==
    /\ stage[r] \in From({"queued", "processing"}, {"completed", "failed"})
    /\ stage' = [stage EXCEPT ![r] = "failed"]
    /\ UNCHANGED file

Next == \E r \in Reports : Submit(r) \/ Start(r) \/ Render(r) \/ Complete(r) \/ Fail(r)

Spec == Init /\ [][Next]_lifecycleVars
=============================================================================
