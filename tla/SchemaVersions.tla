---------------------------- MODULE SchemaVersions ----------------------------
(***************************************************************************)
(* What the services promise of the schema they share, as if one hand ran  *)
(* the files of migrations/: the schema has a version, which goes up one   *)
(* file at a time. A file without DDL takes effect with its version; of    *)
(* those with DDL only the next one can have taken effect ahead of it, as  *)
(* often as somebody tried. Services serve at the last version only.       *)
(***************************************************************************)
EXTENDS Integers

CONSTANTS Services, N, Ddl, Preloaded

VARIABLES
    version,   \* the last file that counts as applied, 0 before the first
    applied,   \* how often each file has taken effect
    serving    \* the services that answer requests, or do their work

schemaVars == <<version, applied, serving>>

SchemaInit ==
    /\ version = 0
    /\ applied = [v \in 1..N |-> IF Preloaded THEN 1 ELSE 0]
    /\ serving = {}

\* The next file, when it has DDL, takes effect and does not count yet.
RunAhead ==
    /\ version + 1 \in Ddl
    /\ applied' = [applied EXCEPT ![version + 1] = @ + 1]
    /\ UNCHANGED <<version, serving>>

\* The next file counts: with DDL it has taken effect before, else it does so now.
Upgrade ==
    /\ version < N
    /\ version' = version + 1
    /\ IF version + 1 \in Ddl
       THEN applied[version + 1] > 0 /\ UNCHANGED applied
       ELSE applied' = [applied EXCEPT ![version + 1] = @ + 1]
    /\ UNCHANGED serving

Serve(s) ==
    /\ version = N
    /\ serving' = serving \cup {s}
    /\ UNCHANGED <<version, applied>>

Leave(s) ==
    /\ serving' = serving \ {s}
    /\ UNCHANGED <<version, applied>>

SchemaNext == RunAhead \/ Upgrade \/ \E s \in Services : Serve(s) \/ Leave(s)

SchemaSpec == SchemaInit /\ [][SchemaNext]_schemaVars
=============================================================================
