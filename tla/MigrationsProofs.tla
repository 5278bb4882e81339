--------------------------- MODULE MigrationsProofs ---------------------------
(***************************************************************************)
(* What runMigrations keeps, for any number of services, files, tries of   *)
(* the lock and disturbances. The argument is the lock: only its holder is *)
(* inside the loop, so that what the holder has read of schema_migrations  *)
(* stays true until it writes, and the loop leaves no version out.         *)
(***************************************************************************)
EXTENDS Migrations, TLAPS

LoopStates == {"check", "apply", "record", "commit"}

\* Whoever has seen GET_LOCK answer 1 and not released it holds the lock.
LockInv == \A s \in Services : pc[s] \in Locked => lock = s

\* What the place of a service says of schema_migrations and of its transaction.
Place(s) ==
    /\ pc[s] \in {"down", "lock", "create", "serving"} => at[s] = 1
    /\ pc[s] \in LoopStates => \A v \in Versions : v < at[s] => v \in recorded
    /\ pc[s] \in {"apply", "record", "commit"} => at[s] \in Versions
    /\ pc[s] \in {"apply", "record"} => at[s] \notin recorded
    /\ pc[s] = "commit" => (at[s] \in recorded <=> at[s] \in Ddl)
    /\ pc[s] \in {"record", "commit"} => (pending[s] <=> at[s] \notin Ddl)
    /\ pc[s] = "record" /\ at[s] \in Ddl => applied[at[s]] > 0
    /\ pc[s] \in {"release", "serving"} => recorded = Versions

LoopInv == \A s \in Services : Place(s)

Before == IF Preloaded THEN 1 ELSE 0

\* The effect of a file with DDL is on its way into the record.
Recording(v) == \E s \in Services : pc[s] = "record" /\ at[s] = v

\* Each effect of a file is one that was there, one that is recorded or about to
\* be, or one whose record a disturbance has cut off.
AppliedInv ==
    /\ \A v \in recorded : applied[v] > 0
    /\ \A v \in Versions \ Ddl : applied[v] = Before + (IF v \in recorded THEN 1 ELSE 0)
    /\ \A v \in Ddl :
        applied[v] <= Before + disturbed + (IF v \in recorded \/ Recording(v) THEN 1 ELSE 0)

MigrationsInv == LockInv /\ RecordedInOrder /\ LoopInv /\ AppliedInv

-----------------------------------------------------------------------------
\* Types.

LEMMA OutcomeType ==
    ASSUME TypeOK, NEW o \in Outcomes, Outcome(o)
    PROVE  /\ disturbed' \in 0..MaxDisturbances
           /\ disturbed' = disturbed + (IF o = "ok" THEN 0 ELSE 1)
  BY MigrationsAssumption DEF TypeOK, Outcomes, Outcome, Disturb

LEMMA ExitType ==
    ASSUME TypeOK, NEW s \in Services, NEW where \in ServiceStates, EndSession(s, where)
    PROVE  /\ pc' \in [Services -> ServiceStates]
           /\ tries' \in [Services -> 1..LockAttempts]
           /\ at' \in [Services -> 1..(N + 1)]
           /\ pending' \in [Services -> BOOLEAN]
           /\ lock' \in Services \cup {NoService}
  BY MigrationsAssumption DEF TypeOK, EndSession, Goto

LEMMA TypeInit == Init => TypeOK
  BY MigrationsAssumption DEF Init, TypeOK, ServiceStates, Versions

LEMMA TypeStep ==
    ASSUME TypeOK, LoopInv, [Next]_vars
    PROVE  TypeOK'
  <1>. USE MigrationsAssumption DEF local, database
  <1>. /\ "down" \in ServiceStates /\ "lock" \in ServiceStates /\ "create" \in ServiceStates
       /\ "check" \in ServiceStates /\ "apply" \in ServiceStates /\ "record" \in ServiceStates
       /\ "commit" \in ServiceStates /\ "release" \in ServiceStates /\ "serving" \in ServiceStates
    BY DEF ServiceStates
  <1>1. ASSUME NEW s \in Services, AcquireLock(s)
        PROVE  TypeOK'
    BY <1>1, ExitType DEF AcquireLock, TypeOK, Goto, Exit, TriesLeft, Disturb
  <1>2. ASSUME NEW s \in Services, CreateTable(s)
        PROVE  TypeOK'
    BY <1>2, ExitType, OutcomeType DEF CreateTable, TypeOK, Goto, Exit
  <1>3. ASSUME NEW s \in Services, CheckVersion(s)
        PROVE  TypeOK'
    <2>1. CASE Exit(s) /\ Disturb("callError")
      BY <1>3, <2>1, ExitType DEF CheckVersion, TypeOK, Exit, Disturb
    <2>2. CASE /\ at[s] \in recorded /\ at' = [at EXCEPT ![s] = @ + 1]
               /\ UNCHANGED <<pc, tries, pending, lock, disturbed>>
      BY <1>3, <2>2 DEF CheckVersion, TypeOK, Versions
    <2>3. CASE /\ Goto(s, "release") \/ Goto(s, "apply")
               /\ UNCHANGED <<local, pending, lock, disturbed>>
      BY <1>3, <2>3 DEF CheckVersion, TypeOK, Goto
    <2>. QED  BY <1>3, <2>1, <2>2, <2>3 DEF CheckVersion
  <1>4. ASSUME NEW s \in Services, ApplyFile(s)
        PROVE  TypeOK'
    <2>1. disturbed' \in 0..MaxDisturbances
      BY <1>4, OutcomeType DEF ApplyFile
    <2>2. applied' \in [Versions -> Nat] /\ recorded' = recorded
      BY <1>4 DEF ApplyFile, Apply, TypeOK
    <2>3. CASE Exit(s)
      BY <2>1, <2>2, <2>3, ExitType DEF TypeOK, Exit
    <2>4. CASE ~Exit(s)
      <3>1. /\ Goto(s, "record")
            /\ pending' = [pending EXCEPT ![s] = at[s] \notin Ddl]
            /\ UNCHANGED <<local, lock>>
        BY <1>4, <2>4 DEF ApplyFile, FileFails
      <3>2. pending' \in [Services -> BOOLEAN]
        BY <3>1 DEF TypeOK
      <3>. QED  BY <2>1, <2>2, <3>1, <3>2 DEF TypeOK, Goto
    <2>. QED  BY <2>3, <2>4
  <1>5. ASSUME NEW s \in Services, RecordVersion(s)
        PROVE  TypeOK'
    <2>1. disturbed' \in 0..MaxDisturbances
      BY <1>5, OutcomeType DEF RecordVersion
    <2>2. at[s] \in Versions
      BY <1>5 DEF RecordVersion, LoopInv, Place
    <2>3. recorded' \subseteq Versions /\ applied' = applied
      BY <1>5, <2>2 DEF RecordVersion, TypeOK
    <2>4. CASE Exit(s)
      BY <2>1, <2>3, <2>4, ExitType DEF TypeOK, Exit
    <2>5. CASE ~Exit(s)
      <3>1. \/ /\ pending' = [pending EXCEPT ![s] = FALSE]
               /\ at' = [at EXCEPT ![s] = @ + 1]
               /\ Goto(s, "check")
               /\ UNCHANGED <<tries, lock>>
            \/ Goto(s, "commit") /\ UNCHANGED <<local, pending, lock>>
        BY <1>5, <2>5 DEF RecordVersion
      <3>2. pending' \in [Services -> BOOLEAN]
        BY <3>1 DEF TypeOK
      <3>3. at' \in [Services -> 1..(N + 1)]
        <4>1. CASE at' = at
          BY <4>1 DEF TypeOK
        <4>2. CASE at' = [at EXCEPT ![s] = @ + 1]
          BY <2>2, <4>2 DEF TypeOK, Versions
        <4>. QED  BY <3>1, <4>1, <4>2
      <3>. QED  BY <2>1, <2>3, <3>1, <3>2, <3>3 DEF TypeOK, Goto
    <2>. QED  BY <2>4, <2>5
  <1>6. ASSUME NEW s \in Services, CommitVersion(s)
        PROVE  TypeOK'
    <2>1. disturbed' \in 0..MaxDisturbances
      BY <1>6, OutcomeType DEF CommitVersion
    <2>2. at[s] \in Versions
      BY <1>6 DEF CommitVersion, LoopInv, Place
    <2>3. recorded' \subseteq Versions /\ applied' \in [Versions -> Nat]
      BY <1>6, <2>2 DEF CommitVersion, Apply, TypeOK
    <2>4. CASE Exit(s)
      BY <2>1, <2>3, <2>4, ExitType DEF TypeOK, Exit
    <2>5. CASE ~Exit(s)
      <3>1. /\ pending' = [pending EXCEPT ![s] = FALSE]
            /\ at' = [at EXCEPT ![s] = @ + 1]
            /\ Goto(s, "check")
            /\ UNCHANGED <<tries, lock>>
        BY <1>6, <2>5 DEF CommitVersion
      <3>2. pending' \in [Services -> BOOLEAN]
        BY <3>1 DEF TypeOK
      <3>3. at' \in [Services -> 1..(N + 1)]
        BY <2>2, <3>1 DEF TypeOK, Versions
      <3>. QED  BY <2>1, <2>3, <3>1, <3>2, <3>3 DEF TypeOK, Goto
    <2>. QED  BY <2>4, <2>5
  <1>7. ASSUME NEW s \in Services, ReleaseLock(s)
        PROVE  TypeOK'
    BY <1>7, ExitType, OutcomeType DEF ReleaseLock, TypeOK, Goto, Disturb
  <1>8. ASSUME NEW s \in Services, Start(s) \/ ExpireConnection(s) \/ Stop(s) \/ Crash(s)
        PROVE  TypeOK'
    BY <1>8, ExitType DEF Start, ExpireConnection, Stop, Crash, TypeOK, Goto, Exit, Disturb
  <1>9. CASE UNCHANGED vars
    BY <1>9 DEF vars, TypeOK
  <1>. QED
    BY <1>1, <1>2, <1>3, <1>4, <1>5, <1>6, <1>7, <1>8, <1>9 DEF Next, Migrate

-----------------------------------------------------------------------------
\* The lock.

ServiceStep(s) == Migrate(s) \/ Start(s) \/ ExpireConnection(s) \/ Stop(s) \/ Crash(s)

\* A step of one service moves no other one.
Frame(s) ==
    \A t \in Services \ {s} : /\ pc'[t] = pc[t] /\ at'[t] = at[t]
                              /\ pending'[t] = pending[t] /\ tries'[t] = tries[t]

LEMMA FrameStep ==
    ASSUME TypeOK, NEW s \in Services, ServiceStep(s)
    PROVE  Frame(s)
  <1>. USE DEF Frame, TypeOK, Goto, EndSession, Exit, local
  <1>1. CASE AcquireLock(s)
    BY <1>1 DEF AcquireLock
  <1>2. CASE CreateTable(s)
    BY <1>2 DEF CreateTable
  <1>3. CASE CheckVersion(s)
    BY <1>3 DEF CheckVersion
  <1>4. CASE ApplyFile(s)
    BY <1>4 DEF ApplyFile, FileFails
  <1>5. CASE RecordVersion(s)
    BY <1>5 DEF RecordVersion
  <1>6. CASE CommitVersion(s)
    BY <1>6 DEF CommitVersion
  <1>7. CASE ReleaseLock(s)
    BY <1>7 DEF ReleaseLock
  <1>8. CASE Start(s) \/ ExpireConnection(s) \/ Stop(s) \/ Crash(s)
    BY <1>8 DEF Start, ExpireConnection, Stop, Crash
  <1>. QED
    BY <1>1, <1>2, <1>3, <1>4, <1>5, <1>6, <1>7, <1>8 DEF ServiceStep, Migrate

\* What a step does to the lock: it is taken when it is free, freed by its holder,
\* or left alone by a service that has it, or does not need it.
LEMMA LockStep ==
    ASSUME TypeOK, LockInv, NEW s \in Services, ServiceStep(s)
    PROVE  LockInv'
  <1>. USE MigrationsAssumption DEF LockInv, Locked, Migrating, ServiceStates, local
  <1>0. Frame(s)
    BY FrameStep
  <1>1. /\ lock' \in {lock, NoService} \/ (lock = NoService /\ lock' = s)
        /\ lock' = NoService /\ lock # NoService => lock = s
        /\ pc'[s] \in Locked => lock' = s
    <2>. USE DEF TypeOK, Goto, EndSession, Exit
    <2>1. CASE AcquireLock(s)
      BY <2>1 DEF AcquireLock
    <2>2. CASE CreateTable(s)
      BY <2>2 DEF CreateTable
    <2>3. CASE CheckVersion(s)
      BY <2>3 DEF CheckVersion
    <2>4. CASE ApplyFile(s)
      BY <2>4 DEF ApplyFile, FileFails
    <2>5. CASE RecordVersion(s)
      BY <2>5 DEF RecordVersion
    <2>6. CASE CommitVersion(s)
      BY <2>6 DEF CommitVersion
    <2>7. CASE ReleaseLock(s)
      BY <2>7 DEF ReleaseLock
    <2>8. CASE Start(s) \/ ExpireConnection(s) \/ Stop(s) \/ Crash(s)
      BY <2>8 DEF Start, ExpireConnection, Stop, Crash
    <2>. QED
      BY <2>1, <2>2, <2>3, <2>4, <2>5, <2>6, <2>7, <2>8 DEF ServiceStep, Migrate
  <1>. QED  BY <1>0, <1>1 DEF Frame, TypeOK

\* The steps between the lock and its release are those of the one service inside.
LEMMA Alone ==
    ASSUME LockInv, NEW s \in Services, pc[s] \in Locked, NEW t \in Services \ {s}
    PROVE  pc[t] \notin Locked
  BY DEF LockInv

-----------------------------------------------------------------------------
\* The loop.

\* What the other services know stays true: a step inside the lock only adds to
\* the record, and the others have nothing to say of what it lacks.
LEMMA OthersKeep ==
    ASSUME TypeOK, LockInv, LoopInv, NEW s \in Services, Frame(s), NEW t \in Services \ {s},
           \/ UNCHANGED database
           \/ pc[s] \in Locked /\ recorded \subseteq recorded' /\ recorded' \subseteq Versions
    PROVE  Place(t)'
  <1>1. Place(t) /\ UNCHANGED <<pc[t], at[t], pending[t]>>
    BY DEF LoopInv, Frame
  <1>2. CASE UNCHANGED database
    BY <1>1, <1>2 DEF Place, database
  <1>3. CASE pc[s] \in Locked /\ recorded \subseteq recorded' /\ recorded' \subseteq Versions
    <2>1. pc[t] \in {"down", "lock", "serving"}
      BY <1>3, Alone DEF Locked, Migrating, TypeOK
    <2>. QED  BY <1>1, <1>3, <2>1 DEF Place, LoopStates, Locked
  <1>. QED  BY <1>2, <1>3

\* A service that ends its session knows nothing, and needs nothing.
LEMMA PlaceAfterEnd ==
    ASSUME TypeOK, NEW s \in Services, NEW where \in {"down", "serving"}, EndSession(s, where),
           where = "serving" => recorded' = Versions
    PROVE  Place(s)'
  BY DEF TypeOK, EndSession, Goto, Place, LoopStates

LEMMA PlaceStep ==
    ASSUME TypeOK, LockInv, LoopInv, NEW s \in Services, ServiceStep(s)
    PROVE  Place(s)'
  <1>. USE MigrationsAssumption DEF local, database, LoopStates
  <1>0. /\ Place(s)
        /\ pc \in [Services -> ServiceStates]
        /\ at \in [Services -> 1..(N + 1)]
        /\ recorded \subseteq Versions
    BY DEF LoopInv, TypeOK
  <1>e. ASSUME Exit(s)
        PROVE  Place(s)'
    BY <1>e, PlaceAfterEnd DEF Exit
  <1>1. CASE AcquireLock(s)
    BY <1>0, <1>1, <1>e DEF AcquireLock, Goto, Place
  <1>2. CASE CreateTable(s)
    <2>1. CASE Goto(s, "check") /\ UNCHANGED <<local, pending, lock>>
      BY <1>0, <1>2, <2>1 DEF CreateTable, Goto, Place, Versions
    <2>. QED  BY <1>2, <2>1, <1>e DEF CreateTable
  <1>3. CASE CheckVersion(s)
    <2>1. CASE at[s] = N + 1 /\ Goto(s, "release") /\ UNCHANGED <<local, pending, lock, disturbed>>
      <3>1. pc'[s] = "release" /\ recorded' = recorded
        BY <1>0, <1>3, <2>1 DEF CheckVersion, Goto
      <3>2. \A v \in Versions : v \in recorded
        BY <1>0, <1>3, <2>1 DEF CheckVersion, Place, Versions
      <3>3. recorded = Versions
        BY <1>0, <3>2
      <3>. QED  BY <3>1, <3>3 DEF Place
    <2>2. CASE /\ at[s] \in recorded /\ at' = [at EXCEPT ![s] = @ + 1]
               /\ UNCHANGED <<pc, tries, pending, lock, disturbed>>
      BY <1>0, <1>3, <2>2 DEF CheckVersion, Place, Versions
    <2>3. CASE /\ at[s] \in Versions \ recorded /\ Goto(s, "apply")
               /\ UNCHANGED <<local, pending, lock, disturbed>>
      BY <1>0, <1>3, <2>3 DEF CheckVersion, Goto, Place
    <2>. QED  BY <1>3, <2>1, <2>2, <2>3, <1>e DEF CheckVersion
  <1>4. CASE ApplyFile(s)
    <2>1. CASE /\ Goto(s, "record")
               /\ pending' = [pending EXCEPT ![s] = at[s] \notin Ddl]
               /\ UNCHANGED <<local, lock>>
               /\ IF at[s] \in Ddl THEN Apply(at[s]) ELSE UNCHANGED applied
      <3>1. /\ pc[s] = "apply" /\ pc'[s] = "record"
            /\ at' = at /\ recorded' = recorded
            /\ at[s] \in Versions
        BY <1>0, <1>4, <2>1 DEF ApplyFile, Goto, Place
      <3>2. pending'[s] <=> at[s] \notin Ddl
        BY <2>1 DEF TypeOK
      <3>3. at[s] \in Ddl => applied'[at[s]] > 0
        BY <2>1, <3>1 DEF TypeOK, Apply
      <3>. QED  BY <1>0, <3>1, <3>2, <3>3 DEF Place
    <2>. QED  BY <1>4, <2>1, <1>e DEF ApplyFile, FileFails
  <1>5. CASE RecordVersion(s)
    <2>0. pc[s] = "record" /\ at[s] \in Versions /\ at[s] \notin recorded
      BY <1>0, <1>5 DEF RecordVersion, Place
    <2>1. CASE /\ Goto(s, "commit") /\ UNCHANGED <<local, pending, lock>>
               /\ recorded' = IF at[s] \in Ddl THEN recorded \cup {at[s]} ELSE recorded
      <3>1. pc'[s] = "commit" /\ UNCHANGED <<at, pending>>
        BY <1>0, <2>1 DEF Goto
      <3>. QED  BY <1>0, <2>0, <2>1, <3>1 DEF Place
    <2>. QED  BY <1>5, <2>0, <2>1, <1>e DEF RecordVersion, Outcomes
  <1>6. CASE CommitVersion(s)
    <2>0. /\ pc[s] = "commit" /\ at[s] \in Versions
          /\ pending[s] <=> at[s] \notin Ddl
          /\ at[s] \in recorded <=> at[s] \in Ddl
      BY <1>0, <1>6 DEF CommitVersion, Place
    <2>1. CASE /\ Goto(s, "check")
               /\ at' = [at EXCEPT ![s] = @ + 1]
               /\ IF pending[s] THEN recorded' = recorded \cup {at[s]} ELSE UNCHANGED recorded
      <3>1. /\ pc'[s] = "check" /\ at'[s] = at[s] + 1
            /\ recorded' = recorded \cup {at[s]}
        BY <1>0, <2>0, <2>1 DEF Goto
      <3>. QED  BY <1>0, <2>0, <3>1 DEF Place, Versions
    <2>. QED  BY <1>6, <2>1, <1>e DEF CommitVersion
  <1>7. CASE ReleaseLock(s)
    <2>1. recorded = Versions /\ recorded' = recorded
      BY <1>0, <1>7 DEF ReleaseLock, Place
    <2>2. CASE EndSession(s, "serving")
      BY <2>1, <2>2, PlaceAfterEnd
    <2>3. CASE Goto(s, "serving") /\ at' = [at EXCEPT ![s] = 1]
      BY <1>0, <2>1, <2>3 DEF Goto, Place
    <2>. QED  BY <1>7, <2>2, <2>3 DEF ReleaseLock
  <1>8. CASE Stop(s) \/ Crash(s)
    BY <1>8, <1>e DEF Stop, Crash
  <1>9. CASE Start(s) \/ ExpireConnection(s)
    BY <1>0, <1>9 DEF Start, ExpireConnection, Goto, Place
  <1>. QED
    BY <1>1, <1>2, <1>3, <1>4, <1>5, <1>6, <1>7, <1>8, <1>9 DEF ServiceStep, Migrate

LEMMA LoopStep ==
    ASSUME TypeOK, LockInv, LoopInv, NEW s \in Services, ServiceStep(s)
    PROVE  LoopInv'
  <1>1. Place(s)'
    BY PlaceStep
  <1>2. \/ UNCHANGED database
        \/ pc[s] \in Locked /\ recorded \subseteq recorded' /\ recorded' \subseteq Versions
    <2>. USE DEF database, Locked, Migrating, ServiceStates, TypeOK
    <2>1. CASE ApplyFile(s)
      BY <2>1 DEF ApplyFile
    <2>2. CASE RecordVersion(s) \/ CommitVersion(s)
      <3>1. at[s] \in Versions
        BY <2>2 DEF RecordVersion, CommitVersion, LoopInv, Place
      <3>. QED  BY <2>2, <3>1 DEF RecordVersion, CommitVersion
    <2>3. CASE UNCHANGED database
      BY <2>3
    <2>. QED
      BY <2>1, <2>2, <2>3 DEF ServiceStep, Migrate, AcquireLock, CreateTable, CheckVersion,
                              ReleaseLock, Start, ExpireConnection, Stop, Crash
  <1>3. \A t \in Services \ {s} : Place(t)'
    BY <1>2, FrameStep, OthersKeep
  <1>. QED  BY <1>1, <1>3 DEF LoopInv

-----------------------------------------------------------------------------
\* The record and the effects.

\* Only the COMMIT of a file, and the INSERT after DDL, add to the record, and what
\* they add is the version the loop is at.
LEMMA OrderStep ==
    ASSUME TypeOK, LoopInv, RecordedInOrder, NEW s \in Services, ServiceStep(s)
    PROVE  RecordedInOrder'
  <1>1. CASE recorded' = recorded
    BY <1>1 DEF RecordedInOrder
  <1>2. CASE (RecordVersion(s) \/ CommitVersion(s)) /\ recorded' = recorded \cup {at[s]}
    <2>1. at[s] \in Versions /\ \A v \in Versions : v < at[s] => v \in recorded
      BY <1>2 DEF RecordVersion, CommitVersion, LoopInv, Place, LoopStates
    <2>2. 1..at[s] \subseteq recorded'
      BY <1>2, <2>1, MigrationsAssumption DEF Versions
    <2>. QED  BY <1>2, <2>2 DEF RecordedInOrder
  <1>. QED
    BY <1>1, <1>2
       DEF ServiceStep, Migrate, AcquireLock, CreateTable, CheckVersion, ApplyFile,
           RecordVersion, CommitVersion, ReleaseLock, Start, ExpireConnection, Stop, Crash,
           database

\* A service in the loop that is not at "record" shows that nobody is.
LEMMA NobodyRecords ==
    ASSUME LockInv, NEW s \in Services, pc[s] \in Locked \ {"record"}, NEW v \in Versions
    PROVE  ~Recording(v)
  BY DEF LockInv, Recording, Locked, Migrating, ServiceStates

\* A step that writes nothing moves a service away from "record" only by a
\* disturbance.
LEMMA AppliedUnchanged ==
    ASSUME TypeOK, AppliedInv, UNCHANGED database,
           NEW s \in Services, Frame(s),
           disturbed' \in Nat, disturbed' >= disturbed,
           pc[s] = "record" => disturbed' > disturbed
    PROVE  AppliedInv'
  <1>. /\ applied \in [Versions -> Nat] /\ disturbed \in Nat /\ Before \in {0, 1}
       /\ applied' = applied /\ recorded' = recorded
    BY DEF TypeOK, database, Before
  <1>1. ASSUME NEW v \in Ddl
        PROVE  applied[v] <= Before + disturbed'
                               + (IF v \in recorded \/ Recording(v)' THEN 1 ELSE 0)
    <2>1. applied[v] \in Nat
      BY MigrationsAssumption
    <2>2. applied[v] <= Before + disturbed + (IF v \in recorded \/ Recording(v) THEN 1 ELSE 0)
      BY DEF AppliedInv
    <2>3. CASE pc[s] = "record"
      BY <2>1, <2>2, <2>3
    <2>4. CASE pc[s] # "record"
      <3>1. Recording(v) => Recording(v)'
        BY <2>4 DEF Recording, Frame
      <3>. QED  BY <2>1, <2>2, <3>1
    <2>. QED  BY <2>3, <2>4
  <1>2. Before' = Before
    BY DEF Before
  <1>. QED  BY <1>1, <1>2 DEF AppliedInv

LEMMA AppliedStep ==
    ASSUME TypeOK, LockInv, LoopInv, AppliedInv, NEW s \in Services, ServiceStep(s)
    PROVE  AppliedInv'
  <1>. /\ applied \in [Versions -> Nat] /\ disturbed \in Nat /\ Before \in {0, 1}
       /\ Ddl \subseteq Versions /\ Place(s) /\ Frame(s) /\ pc \in [Services -> ServiceStates]
    BY FrameStep, MigrationsAssumption DEF TypeOK, Before, LoopInv
  <1>b. Before' = Before
    BY DEF Before
  <1>1. CASE ApplyFile(s)
    <2>1. /\ pc[s] = "apply" /\ at[s] \in Versions /\ at[s] \notin recorded
          /\ recorded' = recorded
          /\ ~Recording(at[s])
      BY <1>1, NobodyRecords DEF ApplyFile, Place, Locked, Migrating, ServiceStates
    <2>2. PICK o \in Outcomes :
            /\ Outcome(o)
            /\ IF at[s] \in Ddl /\ o # "callError" THEN Apply(at[s]) ELSE UNCHANGED applied
            /\ o = "ok" => pc' = [pc EXCEPT ![s] = "record"] /\ at' = at
      BY <1>1 DEF ApplyFile, Goto, local
    <2>3. disturbed' = disturbed + (IF o = "ok" THEN 0 ELSE 1)
      BY <2>2, OutcomeType
    <2>4. CASE UNCHANGED applied
      BY <2>1, <2>3, <2>4, AppliedUnchanged DEF database
    <2>5. CASE at[s] \in Ddl /\ applied' = [applied EXCEPT ![at[s]] = @ + 1]
                /\ (o = "ok" \/ disturbed' = disturbed + 1)
      <3>1. ASSUME NEW v \in Ddl
            PROVE  applied'[v] <= Before + disturbed'
                                    + (IF v \in recorded \/ Recording(v)' THEN 1 ELSE 0)
        <4>1. ~Recording(v)
          BY <2>1, NobodyRecords DEF Locked, Migrating, ServiceStates
        <4>2. applied[v] <= Before + disturbed + (IF v \in recorded THEN 1 ELSE 0)
          BY <4>1 DEF AppliedInv
        <4>3. CASE v # at[s]
          BY <2>3, <2>5, <4>2, <4>3
        <4>4. CASE v = at[s] /\ o = "ok"
          <5>1. Recording(v)'
            BY <2>2, <4>4 DEF Recording
          <5>. QED  BY <2>1, <2>3, <2>5, <4>2, <4>4, <5>1
        <4>5. CASE v = at[s] /\ disturbed' = disturbed + 1
          BY <2>1, <2>5, <4>2, <4>5
        <4>. QED  BY <2>5, <4>3, <4>4, <4>5
      <3>2. \A v \in Versions \ Ddl : applied'[v] = applied[v]
        BY <2>5
      <3>3. \A v \in recorded : applied'[v] > 0
        BY <2>1, <2>5 DEF AppliedInv, TypeOK
      <3>. QED  BY <1>b, <2>1, <3>1, <3>2, <3>3 DEF AppliedInv
    <2>. QED  BY <2>2, <2>3, <2>4, <2>5 DEF Apply
  <1>2. CASE RecordVersion(s)
    <2>1. /\ pc[s] = "record" /\ at[s] \in Versions /\ at[s] \notin recorded
          /\ at[s] \in Ddl => applied[at[s]] > 0
          /\ applied' = applied
      BY <1>2 DEF RecordVersion, Place
    <2>2. PICK o \in Outcomes :
            /\ Outcome(o)
            /\ recorded' = IF o # "callError" /\ at[s] \in Ddl
                           THEN recorded \cup {at[s]} ELSE recorded
      BY <1>2 DEF RecordVersion
    <2>3. disturbed' = disturbed + (IF o = "ok" THEN 0 ELSE 1)
      BY <2>2, OutcomeType
    <2>4. ASSUME NEW v \in Ddl
          PROVE  applied[v] <= Before + disturbed'
                                 + (IF v \in recorded' \/ Recording(v)' THEN 1 ELSE 0)
      <3>1. Recording(v) => v = at[s]
        BY <2>1, Alone DEF Recording, Locked, Migrating, ServiceStates
      <3>2. /\ applied[v] \in Nat
            /\ applied[v] <= Before + disturbed + (IF v \in recorded \/ Recording(v) THEN 1 ELSE 0)
        BY DEF AppliedInv
      <3>3. CASE v # at[s]
        BY <2>2, <2>3, <3>1, <3>2, <3>3
      <3>4. CASE v = at[s] /\ o = "callError"
        BY <2>3, <3>2, <3>4
      <3>5. CASE v = at[s] /\ o # "callError"
        <4>1. v \in recorded'
          BY <2>2, <3>5
        <4>. QED  BY <2>3, <3>2, <4>1
      <3>. QED  BY <3>3, <3>4, <3>5
    <2>5. \A v \in recorded' : applied[v] > 0
      BY <2>1, <2>2 DEF AppliedInv
    <2>6. \A v \in Versions \ Ddl : v \in recorded' <=> v \in recorded
      BY <2>2
    <2>. QED  BY <1>b, <2>1, <2>4, <2>5, <2>6 DEF AppliedInv
  <1>3. CASE CommitVersion(s)
    <2>1. /\ pc[s] = "commit" /\ at[s] \in Versions
          /\ pending[s] <=> at[s] \notin Ddl
          /\ at[s] \in recorded <=> at[s] \in Ddl
      BY <1>3 DEF CommitVersion, Place
    <2>2. disturbed' \in Nat /\ disturbed' >= disturbed
      BY <1>3, OutcomeType DEF CommitVersion
    <2>3. CASE UNCHANGED database
      BY <2>1, <2>2, <2>3, AppliedUnchanged
    <2>4. CASE pending[s] /\ Apply(at[s]) /\ recorded' = recorded \cup {at[s]}
      <3>1. ASSUME NEW v \in Ddl
            PROVE  applied'[v] <= Before + disturbed'
                                    + (IF v \in recorded' \/ Recording(v)' THEN 1 ELSE 0)
        <4>1. ~Recording(v)
          BY <2>1, NobodyRecords DEF Locked, Migrating, ServiceStates
        <4>2. applied[v] <= Before + disturbed + (IF v \in recorded THEN 1 ELSE 0)
          BY <4>1 DEF AppliedInv
        <4>3. applied'[v] = applied[v] /\ applied[v] \in Nat
          BY <2>1, <2>4 DEF Apply
        <4>. QED  BY <2>2, <2>4, <4>2, <4>3
      <3>2. ASSUME NEW v \in Versions \ Ddl
            PROVE  applied'[v] = Before + (IF v \in recorded' THEN 1 ELSE 0)
        BY <2>1, <2>4, <3>2 DEF Apply, AppliedInv
      <3>3. \A v \in recorded' : applied'[v] > 0
        BY <2>1, <2>4 DEF Apply, AppliedInv, TypeOK
      <3>. QED  BY <1>b, <3>1, <3>2, <3>3 DEF AppliedInv
    <2>. QED  BY <1>3, <2>3, <2>4 DEF CommitVersion
  <1>4. CASE /\ AcquireLock(s) \/ CreateTable(s) \/ CheckVersion(s) \/ ReleaseLock(s)
                \/ Start(s) \/ ExpireConnection(s) \/ Stop(s) \/ Crash(s)
    <2>1. UNCHANGED database
      BY <1>4 DEF AcquireLock, CreateTable, CheckVersion, ReleaseLock, Start,
                  ExpireConnection, Stop, Crash, database
    <2>2. disturbed' \in Nat /\ disturbed' >= disturbed
      BY <1>4, OutcomeType, MigrationsAssumption
         DEF AcquireLock, CreateTable, CheckVersion, ReleaseLock, Start,
             ExpireConnection, Stop, Crash, Disturb
    <2>3. pc[s] = "record" => disturbed' > disturbed
      BY <1>4 DEF AcquireLock, CreateTable, CheckVersion, ReleaseLock, Start,
                  ExpireConnection, Stop, Crash, Disturb
    <2>. QED  BY <2>1, <2>2, <2>3, AppliedUnchanged
  <1>. QED  BY <1>1, <1>2, <1>3, <1>4 DEF ServiceStep, Migrate

-----------------------------------------------------------------------------
\* The theorems.

LEMMA MigrationsInvInit == Init => MigrationsInv
  <1>. SUFFICES ASSUME Init
                PROVE  MigrationsInv
    OBVIOUS
  <1>1. LockInv /\ RecordedInOrder
    BY DEF Init, LockInv, Locked, Migrating, RecordedInOrder
  <1>2. LoopInv
    BY DEF Init, LoopInv, Place, LoopStates
  <1>3. AppliedInv
    BY MigrationsAssumption DEF Init, AppliedInv, Before, Recording
  <1>. QED  BY <1>1, <1>2, <1>3 DEF MigrationsInv

LEMMA MigrationsInvStep ==
    ASSUME TypeOK, MigrationsInv, [Next]_vars
    PROVE  MigrationsInv'
  <1>1. ASSUME NEW s \in Services, ServiceStep(s)
        PROVE  MigrationsInv'
    BY <1>1, LockStep, LoopStep, OrderStep, AppliedStep DEF MigrationsInv
  <1>2. CASE UNCHANGED vars
    BY <1>2 DEF vars, MigrationsInv, LockInv, RecordedInOrder, LoopInv, Place, AppliedInv,
                Before, Recording
  <1>. QED  BY <1>1, <1>2 DEF Next, ServiceStep

\* The variables keep their types, and what the lock, the loop and the record say of
\* one another holds in every state of Spec.
THEOREM MigrationsInvariant == Spec => [](TypeOK /\ MigrationsInv)
  <1>1. TypeOK /\ MigrationsInv /\ [Next]_vars => (TypeOK /\ MigrationsInv)'
    BY TypeStep, MigrationsInvStep DEF MigrationsInv
  <1>. QED  BY TypeInit, MigrationsInvInit, <1>1, PTL DEF Spec

\* The type invariant of Migrations.
THEOREM MigrationsTypeCorrect == Spec => []TypeOK
  BY MigrationsInvariant, PTL

\* No version is recorded over a gap (runMigrations goes through sorted names).
THEOREM RecordedInOrderAlways == Spec => []RecordedInOrder
  BY MigrationsInvariant, PTL DEF MigrationsInv

\* A service that runMigrations has let through serves a schema all of whose files
\* are recorded and have taken effect.
THEOREM ServesMigratedAlways == Spec => []ServesMigrated
  <1>1. MigrationsInv => ServesMigrated
    BY DEF MigrationsInv, LoopInv, Place, AppliedInv, ServesMigrated
  <1>. QED  BY <1>1, MigrationsInvariant, PTL

\* No service applies or records a version that is recorded: the branches of
\* runMigrations for a duplicate key are never taken.
THEOREM NeverRecordedTwiceAlways == Spec => []NeverRecordedTwice
  <1>1. MigrationsInv => NeverRecordedTwice
    BY DEF MigrationsInv, LoopInv, Place, NeverRecordedTwice
  <1>. QED  BY <1>1, MigrationsInvariant, PTL

\* A file without DDL takes effect once, and exactly when it is recorded.
THEOREM AtomicWithoutDdlAlways == Spec => []AtomicWithoutDdl
  <1>1. MigrationsInv => AtomicWithoutDdl
    BY DEF MigrationsInv, AppliedInv, Before, AtomicWithoutDdl
  <1>. QED  BY <1>1, MigrationsInvariant, PTL

\* A file with DDL takes effect again only after a disturbance, once for each.
THEOREM RepeatedOnlyAfterDisturbanceAlways == Spec => []RepeatedOnlyAfterDisturbance
  <1>1. TypeOK /\ MigrationsInv => RepeatedOnlyAfterDisturbance
    <2>. SUFFICES ASSUME TypeOK, MigrationsInv, NEW v \in Ddl
                  PROVE  applied[v] <= (IF Preloaded THEN 2 ELSE 1) + disturbed
      BY DEF RepeatedOnlyAfterDisturbance
    <2>1. applied[v] \in Nat /\ disturbed \in Nat
      BY MigrationsAssumption DEF TypeOK
    <2>2. applied[v] <= Before + disturbed + (IF v \in recorded \/ Recording(v) THEN 1 ELSE 0)
      BY DEF MigrationsInv, AppliedInv
    <2>. QED  BY <2>1, <2>2 DEF Before
  <1>. QED  BY <1>1, MigrationsInvariant, PTL

-----------------------------------------------------------------------------
\* The refinement of SchemaVersions.

Prefix(n) == n \in 0..N /\ recorded = 1..n

Serving == {s \in Services : pc[s] = "serving"}

\* A record without gaps stands for one version.
LEMMA VersionIs ==
    ASSUME NEW n \in 0..N, NEW m \in 0..N, 1..n = 1..m
    PROVE  n = m
  <1>. n \in Nat /\ m \in Nat
    BY MigrationsAssumption
  <1>1. n # 0 => n \in 1..m
    OBVIOUS
  <1>2. m # 0 => m \in 1..n
    OBVIOUS
  <1>. QED  BY <1>1, <1>2

LEMMA VersionNow == ASSUME NEW n, Prefix(n) PROVE Version = n
  BY VersionIs DEF Prefix, Version

LEMMA VersionThen == ASSUME NEW n, Prefix(n)' PROVE Version' = n
  BY VersionIs DEF Prefix, Version

\* The version that the lock's holder is at, when it is not recorded, is the next one.
LEMMA NextVersion ==
    ASSUME TypeOK, NEW n, Prefix(n), NEW s \in Services, Place(s),
           pc[s] \in {"apply", "record", "commit"}, at[s] \notin recorded
    PROVE  at[s] = n + 1 /\ n + 1 \in Versions
  <1>. n \in Nat /\ N \in Nat /\ recorded = 1..n
    BY MigrationsAssumption DEF Prefix
  <1>1. at[s] \in 1..N /\ \A v \in 1..N : v < at[s] => v \in 1..n
    BY DEF Place, LoopStates, Versions
  <1>2. ~(n + 1 < at[s])
    BY <1>1
  <1>. QED  BY <1>1, <1>2 DEF Versions

\* A step that writes nothing can only take up service, at the last version, or end it.
LEMMA ServiceChange ==
    ASSUME TypeOK, NEW n, Prefix(n), NEW s \in Services, Frame(s), Place(s)',
           UNCHANGED database
    PROVE  Schema!Serve(s) \/ Schema!Leave(s)
  <1>1. Version = n /\ Version' = n /\ applied' = applied
    <2>1. Prefix(n)'
      BY DEF Prefix, database
    <2>. QED  BY <2>1, VersionNow, VersionThen DEF database
  <1>2. CASE pc'[s] = "serving"
    <2>1. 1..n = 1..N
      BY <1>2 DEF Place, Prefix, Versions, database
    <2>2. n = N
      BY <2>1, VersionIs, MigrationsAssumption DEF Prefix
    <2>3. Serving' = Serving \cup {s}
      BY <1>2 DEF Frame, Serving
    <2>. QED  BY <1>1, <2>2, <2>3 DEF Schema!Serve, Serving
  <1>3. CASE pc'[s] # "serving"
    <2>1. Serving' = Serving \ {s}
      BY <1>3 DEF Frame, Serving
    <2>. QED  BY <1>1, <2>1 DEF Schema!Leave, Serving
  <1>. QED  BY <1>2, <1>3

\* Recording a version is the upgrade to it, when its file has taken effect by then.
LEMMA RecordUpgrades ==
    ASSUME TypeOK, NEW n, Prefix(n), n + 1 \in Versions,
           recorded' = recorded \cup {n + 1}, UNCHANGED Serving,
           IF n + 1 \in Ddl
           THEN applied[n + 1] > 0 /\ UNCHANGED applied
           ELSE applied' = [applied EXCEPT ![n + 1] = @ + 1]
    PROVE  Schema!Upgrade /\ Prefix(n + 1)'
  <1>. n \in Nat /\ N \in Nat /\ n < N
    BY MigrationsAssumption DEF Prefix, Versions
  <1>1. Prefix(n + 1)'
    BY DEF Prefix
  <1>2. Version = n /\ Version' = n + 1
    BY <1>1, VersionNow, VersionThen
  <1>. QED  BY <1>1, <1>2 DEF Schema!Upgrade, Serving

\* Every step of a service is one of SchemaVersions, and leaves no gap.
LEMMA SchemaStep ==
    ASSUME TypeOK, MigrationsInv, NEW n, Prefix(n), NEW s \in Services, ServiceStep(s)
    PROVE  /\ [Schema!SchemaNext]_Schema!schemaVars
           /\ \E m \in 0..N : Prefix(m)'
  <1>. DEFINE Step == [Schema!SchemaNext]_Schema!schemaVars
              Goal == Step /\ \E m \in 0..N : Prefix(m)'
  <1>. SUFFICES Goal
    OBVIOUS
  <1>0. /\ Frame(s) /\ Place(s) /\ Place(s)'
        /\ n \in 0..N
    BY FrameStep, PlaceStep DEF MigrationsInv, LoopInv, Prefix
  <1>1. ASSUME UNCHANGED database
        PROVE  Goal
    <2>1. Schema!Serve(s) \/ Schema!Leave(s)
      BY <1>0, <1>1, ServiceChange
    <2>2. Prefix(n)'
      BY <1>1 DEF Prefix, database
    <2>. QED  BY <1>0, <2>1, <2>2 DEF Schema!SchemaNext
  <1>2. ASSUME pc[s] # "serving", pc'[s] # "serving"
        PROVE  UNCHANGED Serving
    BY <1>0, <1>2 DEF Frame, Serving
  <1>3. ASSUME n + 1 \in Versions, Schema!Upgrade /\ Prefix(n + 1)'
        PROVE  Goal
    <2>1. n + 1 \in 0..N
      BY <1>3, MigrationsAssumption DEF Versions
    <2>. QED  BY <1>3, <2>1 DEF Schema!SchemaNext
  <1>4. CASE ApplyFile(s)
    <2>1. /\ pc[s] = "apply" /\ recorded' = recorded
          /\ \/ UNCHANGED applied
             \/ at[s] \in Ddl /\ applied' = [applied EXCEPT ![at[s]] = @ + 1]
      BY <1>4 DEF ApplyFile, Apply
    <2>2. at[s] = n + 1
      BY <1>0, <2>1, NextVersion DEF Place
    <2>3. CASE UNCHANGED applied
      BY <1>1, <2>1, <2>3 DEF database
    <2>4. CASE at[s] \in Ddl /\ applied' = [applied EXCEPT ![at[s]] = @ + 1]
      <3>1. pc'[s] # "serving"
        BY <1>4 DEF ApplyFile, FileFails, Exit, EndSession, Goto, TypeOK
      <3>2. UNCHANGED Serving
        BY <1>2, <2>1, <3>1
      <3>3. Prefix(n)'
        BY <2>1 DEF Prefix
      <3>4. Version = n /\ Version' = n
        BY <3>3, VersionNow, VersionThen
      <3>5. Schema!RunAhead
        BY <2>2, <2>4, <3>2, <3>4 DEF Schema!RunAhead, Serving
      <3>. QED  BY <1>0, <3>3, <3>5 DEF Schema!SchemaNext
    <2>. QED  BY <2>1, <2>3, <2>4
  <1>5. CASE RecordVersion(s)
    <2>1. /\ pc[s] = "record" /\ pc'[s] # "serving" /\ applied' = applied
          /\ \/ recorded' = recorded
             \/ at[s] \in Ddl /\ recorded' = recorded \cup {at[s]}
      BY <1>5 DEF RecordVersion, Exit, EndSession, Goto, TypeOK
    <2>2. at[s] = n + 1 /\ n + 1 \in Versions
      BY <1>0, <2>1, NextVersion DEF Place
    <2>3. CASE recorded' = recorded
      BY <1>1, <2>1, <2>3 DEF database
    <2>4. CASE at[s] \in Ddl /\ recorded' = recorded \cup {at[s]}
      <3>1. UNCHANGED Serving
        BY <1>2, <2>1
      <3>2. applied[n + 1] > 0
        BY <1>0, <2>1, <2>2, <2>4 DEF Place
      <3>. QED  BY <1>3, <2>1, <2>2, <2>4, <3>1, <3>2, RecordUpgrades
    <2>. QED  BY <2>1, <2>3, <2>4
  <1>6. CASE CommitVersion(s)
    <2>1. /\ pc[s] = "commit" /\ pc'[s] # "serving"
          /\ \/ UNCHANGED database
             \/ /\ pending[s]
                /\ applied' = [applied EXCEPT ![at[s]] = @ + 1]
                /\ recorded' = recorded \cup {at[s]}
      BY <1>6 DEF CommitVersion, Apply, Exit, EndSession, Goto, TypeOK
    <2>2. CASE /\ pending[s]
               /\ applied' = [applied EXCEPT ![at[s]] = @ + 1]
               /\ recorded' = recorded \cup {at[s]}
      <3>1. at[s] \notin Ddl /\ at[s] \notin recorded
        BY <1>0, <2>1, <2>2 DEF Place
      <3>2. at[s] = n + 1 /\ n + 1 \in Versions
        BY <1>0, <2>1, <3>1, NextVersion
      <3>3. UNCHANGED Serving
        BY <1>2, <2>1
      <3>. QED  BY <1>3, <2>2, <3>1, <3>2, <3>3, RecordUpgrades
    <2>. QED  BY <1>1, <2>1, <2>2
  <1>7. CASE /\ AcquireLock(s) \/ CreateTable(s) \/ CheckVersion(s) \/ ReleaseLock(s)
                \/ Start(s) \/ ExpireConnection(s) \/ Stop(s) \/ Crash(s)
    <2>1. UNCHANGED database
      BY <1>7 DEF AcquireLock, CreateTable, CheckVersion, ReleaseLock, Start,
                  ExpireConnection, Stop, Crash, database
    <2>. QED  BY <1>1, <2>1
  <1>. QED  BY <1>4, <1>5, <1>6, <1>7 DEF ServiceStep, Migrate

\* For any number of services, files and disturbances, the schema goes through its
\* versions as if one hand ran the files: the lock of runMigrations, and the SELECT
\* it makes before each file, are enough for that.
THEOREM KeepsSchemaAlways == Spec => KeepsSchema
  <1>. DEFINE NoGap == \E n \in 0..N : Prefix(n)
  <1>1. Init => NoGap /\ Schema!SchemaInit
    <2>. SUFFICES ASSUME Init
                  PROVE  NoGap /\ Schema!SchemaInit
      OBVIOUS
    <2>1. Prefix(0)
      BY MigrationsAssumption DEF Init, Prefix
    <2>2. Version = 0 /\ 0 \in 0..N
      BY <2>1, VersionNow DEF Prefix
    <2>3. Serving = {}
      BY DEF Init, Serving
    <2>. QED
      BY <2>1, <2>2, <2>3 DEF Schema!SchemaInit, Serving, Init, Versions
  <1>2. TypeOK /\ MigrationsInv /\ NoGap /\ [Next]_vars
          => NoGap' /\ [Schema!SchemaNext]_Schema!schemaVars
    <2>. SUFFICES ASSUME TypeOK, MigrationsInv, NoGap, [Next]_vars
                  PROVE  NoGap' /\ [Schema!SchemaNext]_Schema!schemaVars
      OBVIOUS
    <2>. PICK n \in 0..N : Prefix(n)
      OBVIOUS
    <2>1. ASSUME NEW s \in Services, ServiceStep(s)
          PROVE  NoGap' /\ [Schema!SchemaNext]_Schema!schemaVars
      BY <2>1, SchemaStep
    <2>2. CASE UNCHANGED vars
      <3>1. Prefix(n)' /\ UNCHANGED <<applied, Serving>>
        BY <2>2 DEF vars, Prefix, Serving, database
      <3>2. UNCHANGED Version
        BY <3>1, VersionNow, VersionThen
      <3>3. UNCHANGED Schema!schemaVars
        BY <3>1, <3>2 DEF Schema!schemaVars, Serving
      <3>. QED  BY <3>1, <3>3
    <2>. QED  BY <2>1, <2>2 DEF Next, ServiceStep
  <1>. QED
    BY <1>1, <1>2, MigrationsInvariant, PTL DEF Spec, KeepsSchema, Schema!SchemaSpec

-----------------------------------------------------------------------------
\* The steps that a start has left, at most: the tries of the lock, then four for each
\* file that is not behind it, then the release.

Left(where, try, v) ==
    CASE where = "lock" -> 4 * N + 7 + (LockAttempts - try)
      [] where = "create" -> 4 * N + 6
      [] where = "check" -> 4 * (N + 1 - v) + 5
      [] where = "apply" -> 4 * (N + 1 - v) + 4
      [] where = "record" -> 4 * (N + 1 - v) + 3
      [] where = "commit" -> 4 * (N + 1 - v) + 2
      [] where = "release" -> 1
      [] where \in {"serving", "down"} -> 0

StepsLeft(s) == Left(pc[s], tries[s], at[s])

MostSteps == 4 * N + 6 + LockAttempts

LEMMA LeftIs ==
    ASSUME NEW try, NEW v
    PROVE  /\ Left("lock", try, v) = 4 * N + 7 + (LockAttempts - try)
           /\ Left("create", try, v) = 4 * N + 6
           /\ Left("check", try, v) = 4 * (N + 1 - v) + 5
           /\ Left("apply", try, v) = 4 * (N + 1 - v) + 4
           /\ Left("record", try, v) = 4 * (N + 1 - v) + 3
           /\ Left("commit", try, v) = 4 * (N + 1 - v) + 2
           /\ Left("release", try, v) = 1
           /\ Left("serving", try, v) = 0 /\ Left("down", try, v) = 0
  BY DEF Left

LEMMA StepsLeftType ==
    ASSUME TypeOK, NEW s \in Services
    PROVE  /\ StepsLeft(s) \in 0..MostSteps
           /\ pc[s] \in Migrating => StepsLeft(s) > 0
  <1>1. /\ pc[s] \in ServiceStates /\ at[s] \in 1..(N + 1) /\ tries[s] \in 1..LockAttempts
        /\ N \in Nat /\ LockAttempts \in Nat
    BY MigrationsAssumption DEF TypeOK
  <1>. QED  BY <1>1, LeftIs DEF StepsLeft, MostSteps, ServiceStates, Migrating

\* A service that is sent away has no steps left.
LEMMA ExitCountsDown ==
    ASSUME TypeOK, NEW s \in Services, pc[s] \in Migrating, Exit(s)
    PROVE  StepsLeft(s)' < StepsLeft(s)
  <1>1. pc'[s] = "down"
    BY DEF TypeOK, Exit, EndSession, Goto
  <1>2. StepsLeft(s)' = 0
    BY <1>1, LeftIs DEF StepsLeft
  <1>3. StepsLeft(s) \in Int /\ StepsLeft(s) > 0
    BY StepsLeftType, MigrationsAssumption DEF MostSteps
  <1>. QED  BY <1>2, <1>3

\* Each step of a start that does not end it takes one off.
LEMMA LeftFalls ==
    ASSUME NEW try \in Int, NEW v \in Int, NEW t \in Int, NEW w \in Int
    PROVE  /\ try <= LockAttempts => Left("create", t, w) < Left("lock", try, v)
           /\ Left("lock", try + 1, w) < Left("lock", try, v)
           /\ Left("check", t, 1) < Left("create", try, v)
           /\ v <= N + 1 => Left("release", t, w) < Left("check", try, v)
           /\ Left("check", t, v + 1) < Left("check", try, v)
           /\ Left("apply", t, v) < Left("check", try, v)
           /\ Left("record", t, v) < Left("apply", try, v)
           /\ Left("check", t, v + 1) < Left("record", try, v)
           /\ Left("commit", t, v) < Left("record", try, v)
           /\ Left("check", t, v + 1) < Left("commit", try, v)
           /\ Left("serving", t, w) < Left("release", try, v)
  <1>. N \in Nat /\ LockAttempts \in Nat
    BY MigrationsAssumption
  <1>1. /\ Left("lock", try, v) = 4 * N + 7 + (LockAttempts - try)
        /\ Left("lock", try + 1, w) = 4 * N + 7 + (LockAttempts - (try + 1))
        /\ Left("create", t, w) = 4 * N + 6 /\ Left("create", try, v) = 4 * N + 6
        /\ Left("check", t, 1) = 4 * (N + 1 - 1) + 5
        /\ Left("check", try, v) = 4 * (N + 1 - v) + 5
        /\ Left("check", t, v + 1) = 4 * (N + 1 - (v + 1)) + 5
        /\ Left("apply", try, v) = 4 * (N + 1 - v) + 4
        /\ Left("apply", t, v) = 4 * (N + 1 - v) + 4
        /\ Left("record", t, v) = 4 * (N + 1 - v) + 3
        /\ Left("record", try, v) = 4 * (N + 1 - v) + 3
        /\ Left("commit", t, v) = 4 * (N + 1 - v) + 2
        /\ Left("commit", try, v) = 4 * (N + 1 - v) + 2
        /\ Left("release", t, w) = 1 /\ Left("release", try, v) = 1
        /\ Left("serving", t, w) = 0
    BY LeftIs
  <1>. QED  BY <1>1

LEMMA MigrateCountsDown ==
    ASSUME TypeOK, TypeOK', MigrationsInv, NEW s \in Services, Migrate(s) \/ Crash(s)
    PROVE  pc[s] \in Migrating /\ StepsLeft(s)' < StepsLeft(s)
  <1>. USE DEF local
  <1>n. /\ pc \in [Services -> ServiceStates]
        /\ tries \in [Services -> 1..LockAttempts]
        /\ at \in [Services -> 1..(N + 1)]
    BY DEF TypeOK
  <1>t. /\ tries[s] \in Int /\ tries[s] <= LockAttempts
        /\ at[s] \in Int /\ at[s] <= N + 1
        /\ tries'[s] \in Int /\ at'[s] \in Int
    BY MigrationsAssumption DEF TypeOK
  <1>0. pc[s] \in Migrating
    BY DEF Migrate, Crash, AcquireLock, CreateTable, CheckVersion, ApplyFile, RecordVersion,
           CommitVersion, ReleaseLock, Migrating, ServiceStates
  <1>. SUFFICES StepsLeft(s)' < StepsLeft(s)
    BY <1>0
  <1>l. /\ StepsLeft(s) = Left(pc[s], tries[s], at[s])
        /\ StepsLeft(s)' = Left(pc'[s], tries'[s], at'[s])
    BY DEF StepsLeft
  <1>e. CASE Exit(s)
    BY <1>0, <1>e, ExitCountsDown
  <1>1. CASE AcquireLock(s) /\ ~Exit(s)
    <2>1. /\ pc[s] = "lock"
          /\ pc'[s] = "create" \/ (pc'[s] = "lock" /\ tries'[s] = tries[s] + 1)
      BY <1>1, <1>n DEF AcquireLock, Goto
    <2>. QED  BY <1>l, <1>t, <2>1, LeftFalls
  <1>2. CASE CreateTable(s) /\ ~Exit(s)
    <2>1. pc[s] = "create" /\ pc'[s] = "check" /\ at'[s] = at[s] /\ at[s] = 1
      BY <1>2, <1>n DEF CreateTable, Goto, Place, MigrationsInv, LoopInv
    <2>. QED  BY <1>l, <1>t, <2>1, LeftFalls
  <1>3. CASE CheckVersion(s) /\ ~Exit(s)
    <2>1. /\ pc[s] = "check"
          /\ \/ pc'[s] = "release"
             \/ pc'[s] = "check" /\ at'[s] = at[s] + 1
             \/ pc'[s] = "apply" /\ at'[s] = at[s]
      BY <1>3, <1>n DEF CheckVersion, Goto
    <2>. QED  BY <1>l, <1>t, <2>1, LeftFalls
  <1>4. CASE ApplyFile(s) /\ ~Exit(s)
    <2>1. pc[s] = "apply" /\ pc'[s] = "record" /\ at'[s] = at[s]
      BY <1>4, <1>n DEF ApplyFile, FileFails, Goto
    <2>. QED  BY <1>l, <1>t, <2>1, LeftFalls
  <1>5. CASE RecordVersion(s) /\ ~Exit(s)
    <2>1. /\ pc[s] = "record"
          /\ \/ pc'[s] = "check" /\ at'[s] = at[s] + 1
             \/ pc'[s] = "commit" /\ at'[s] = at[s]
      BY <1>5, <1>n DEF RecordVersion, Goto
    <2>. QED  BY <1>l, <1>t, <2>1, LeftFalls
  <1>6. CASE CommitVersion(s) /\ ~Exit(s)
    <2>1. pc[s] = "commit" /\ pc'[s] = "check" /\ at'[s] = at[s] + 1
      BY <1>6, <1>n DEF CommitVersion, Goto
    <2>. QED  BY <1>l, <1>t, <2>1, LeftFalls
  <1>7. CASE ReleaseLock(s)
    <2>1. pc[s] = "release" /\ pc'[s] = "serving"
      BY <1>7, <1>n DEF ReleaseLock, EndSession, Goto
    <2>. QED  BY <1>l, <1>t, <2>1, LeftFalls
  <1>8. CASE Crash(s)
    BY <1>8, <1>e DEF Crash
  <1>. QED
    BY <1>e, <1>1, <1>2, <1>3, <1>4, <1>5, <1>6, <1>7, <1>8 DEF Migrate

StartsCountDown ==
    \A s \in Services :
        pc[s] \in Migrating =>
            IF Migrate(s) \/ Crash(s)
            THEN StepsLeft(s)' < StepsLeft(s)
            ELSE StepsLeft(s)' = StepsLeft(s) /\ pc'[s] = pc[s]

\* A service that starts makes no more than 4 N + 6 + LockAttempts steps before it serves
\* or exits, and no other service can add one, however often those take the lock, run
\* files or die. That it makes its steps (WF of Migrate) is what StartEnds adds.
THEOREM StartsCountDownAlways ==
    Spec => /\ [](\A s \in Services : StepsLeft(s) \in 0..MostSteps)
            /\ [][StartsCountDown]_vars
  <1>1. TypeOK => \A s \in Services : StepsLeft(s) \in 0..MostSteps
    BY StepsLeftType
  <1>2. TypeOK /\ TypeOK' /\ MigrationsInv /\ [Next]_vars => [StartsCountDown]_vars
    <2>. SUFFICES ASSUME TypeOK, TypeOK', MigrationsInv, Next, NEW s \in Services,
                         pc[s] \in Migrating
                  PROVE  IF Migrate(s) \/ Crash(s)
                         THEN StepsLeft(s)' < StepsLeft(s)
                         ELSE StepsLeft(s)' = StepsLeft(s) /\ pc'[s] = pc[s]
      BY DEF StartsCountDown
    <2>1. CASE Migrate(s) \/ Crash(s)
      BY <2>1, MigrateCountsDown
    <2>2. CASE ~(Migrate(s) \/ Crash(s))
      <3>1. PICK t \in Services : ServiceStep(t)
        BY DEF Next, ServiceStep
      <3>2. t # s
        BY <2>2, <3>1
           DEF ServiceStep, Start, ExpireConnection, Stop, Migrating, ServiceStates
      <3>3. UNCHANGED <<pc[s], at[s], tries[s]>>
        BY <3>1, <3>2, FrameStep DEF Frame
      <3>. QED  BY <2>2, <3>3 DEF StepsLeft
    <2>. QED  BY <2>1, <2>2
  <1>. QED  BY <1>1, <1>2, MigrationsInvariant, PTL DEF Spec
=============================================================================
