------------------------- MODULE ReleaseAdmissionProofs -------------------------
(***************************************************************************)
(* No worker of another release, and no runtime before its migration, for  *)
(* any number of releases and manifests, wherever operations are           *)
(* interrupted and whatever comes in between.                              *)
(***************************************************************************)
EXTENDS ReleaseAdmission, TLAPS

\* Where an operation may be: the first places are those of apply, the others of a migration.
ReleasePlaces == {"pause", "pauseWait", "ack", "drain", "apply", "runtimeWait", "applied",
                  "revisions", "revisionsWait", "revised",
                  "resume", "resumeWait", "resumeAck", "complete"}
MigrationPlaces == {"migrationPause", "migrationPauseWait", "migrationAck", "migrationDrain",
                    "launch", "launched", "certify"}

Values == [runtime : Manifests, enabled : BOOLEAN]
Tasks == {"none", "running", "done", "failed"}
PlanRecord == [manifest : Manifests, enabled : BOOLEAN, required : BOOLEAN, state : {"none", "open", "void"}]
JournalRecord == [marks : SUBSET {"start", "runtime", "revisions", "complete"}, previous : Manifests]
MigrationRecord == [started : BOOLEAN, definition : {"none", "registered", "deregistered"},
                    task : Tasks, recorded : BOOLEAN]

ReleaseTypeOK ==
    /\ stack \in [runtime : Manifests, enabled : BOOLEAN, busy : BOOLEAN, ok : BOOLEAN, pending : Values]
    /\ ctl \in [runtime : Manifests, enabled : BOOLEAN, current : BOOLEAN]
    /\ workers \subseteq Manifests
    /\ plan \in [Releases -> PlanRecord]
    /\ journal \in [Releases -> JournalRecord]
    /\ migration \in [Expanded -> MigrationRecord]
    /\ database \in {"plain", "expanded"}
    /\ receipt \in BOOLEAN
    /\ op \in [pc : ReleasePlaces, id : Releases] \cup [pc : MigrationPlaces, id : Expanded] \cup {NoOp}

-----------------------------------------------------------------------------
(* The workers.                                                            *)

\* Whoever may start a worker starts one of the runtime that is deployed.
StartsAreCurrent ==
    /\ ctl.enabled => ctl.runtime = stack.runtime
    /\ stack.busy /\ stack.pending.enabled => stack.pending.runtime = stack.runtime

\* While another runtime is being deployed nobody works, and nobody may begin to.
Quiet == ~stack.enabled /\ ~ctl.enabled
ChangeIsQuiet ==
    stack.busy /\ stack.pending.runtime # stack.runtime => Quiet /\ ~stack.pending.enabled /\ workers = {}

\* A controller that is up to date has loaded what the stack says.
AcknowledgedIsTrue == ctl.current /\ ~stack.busy => ctl = Registered(stack, TRUE)

\* What a release has reached before it changes the runtime.
Places ==
    /\ At("pauseWait") => /\ stack.busy => ~stack.pending.enabled
                          /\ ~stack.busy /\ stack.ok => ~stack.enabled
    /\ op.pc \in {"ack", "drain", "apply"} => ~stack.busy /\ ~stack.enabled
    /\ op.pc \in {"drain", "apply"} => ~ctl.enabled
    /\ At("apply") => workers = {}

WorkersInv == StartsAreCurrent /\ ChangeIsQuiet /\ AcknowledgedIsTrue /\ Places /\ WorkersAreCurrent

-----------------------------------------------------------------------------
(* The migration.                                                          *)

Migrated == database = "expanded"

\* Evidence of a migration is true, and so is a runtime that needs it.
EvidenceIsTrue ==
    /\ stack.runtime \in Expanded => Migrated
    /\ stack.busy /\ stack.pending.runtime \in Expanded => Migrated
    /\ receipt => Migrated
    /\ \A m \in Expanded : migration[m].task = "done" => Migrated

\* A release of an expanded manifest has the receipt, or did not need one when it was planned.
PlansAreSafe ==
    \A r \in Releases :
      /\ plan[r].manifest \in Expanded /\ ~plan[r].required => Migrated
      /\ journal[r].marks # {} /\ plan[r].required => receipt
      /\ plan[r].state = "none" => journal[r].marks = {}
      /\ op.pc \in ReleasePlaces /\ op.id = r => journal[r].marks # {}

MigrationInv == EvidenceIsTrue /\ PlansAreSafe

ReleaseInv == ReleaseTypeOK /\ WorkersInv /\ MigrationInv


-----------------------------------------------------------------------------
(* Types.                                                                  *)

\* Who is at a place of apply works for a release, who is at one of a migration for a manifest.
LEMMA PlaceTypes ==
    ASSUME ReleaseTypeOK
    PROVE  /\ op.pc \in ReleasePlaces => op \in [pc : ReleasePlaces, id : Releases]
           /\ op.pc \in MigrationPlaces => op \in [pc : MigrationPlaces, id : Expanded]
BY DEF ReleaseTypeOK, ReleasePlaces, MigrationPlaces, NoOp

\* An operation stays what it is when it goes on, and is nobody's when it ends.
LEMMA GoesTypes ==
    ASSUME ReleaseTypeOK, NEW pc, Goes(pc),
           \/ op.pc \in ReleasePlaces /\ pc \in ReleasePlaces
           \/ op.pc \in MigrationPlaces /\ pc \in MigrationPlaces
    PROVE  /\ op' \in [pc : ReleasePlaces, id : Releases] \cup [pc : MigrationPlaces, id : Expanded]
           /\ op'.pc = pc /\ op'.id = op.id
BY PlaceTypes DEF Goes

LEMMA RecordsTypes ==
    ASSUME ReleaseTypeOK, NEW r \in Releases, NEW mark \in {"start", "runtime", "revisions", "complete"},
           Records(r, mark)
    PROVE  /\ journal' \in [Releases -> JournalRecord]
           /\ \A q \in Releases : journal'[q].marks # {} <=> journal[q].marks # {} \/ q = r
<1>1. journal \in [Releases -> JournalRecord] /\ journal[r] \in JournalRecord
  BY DEF ReleaseTypeOK
<1>2. journal[r].marks \cup {mark} \in SUBSET {"start", "runtime", "revisions", "complete"}
  BY <1>1 DEF JournalRecord
<1>3. journal' = [journal EXCEPT ![r].marks = @ \cup {mark}]
  BY DEF Records
<1>4. journal'[r] = [marks |-> journal[r].marks \cup {mark}, previous |-> journal[r].previous]
  BY <1>1, <1>3 DEF JournalRecord
<1>5. journal'[r] \in JournalRecord
  BY <1>1, <1>2, <1>4 DEF JournalRecord
<1> QED
  BY <1>1, <1>3, <1>4, <1>5

\* An execution voids open plans; it changes nothing else of them.
LEMMA ExecutesTypes ==
    ASSUME ReleaseTypeOK, NEW name, NEW target \in Values, Executes(name, target)
    PROVE  /\ stack' = [stack EXCEPT !.busy = TRUE, !.pending = target]
           /\ stack' \in [runtime : Manifests, enabled : BOOLEAN, busy : BOOLEAN, ok : BOOLEAN, pending : Values]
           /\ plan' \in [Releases -> PlanRecord]
           /\ \A r \in Releases : /\ plan'[r].manifest = plan[r].manifest
                                  /\ plan'[r].required = plan[r].required
                                  /\ plan'[r].enabled = plan[r].enabled
                                  /\ plan'[r].state = "none" <=> plan[r].state = "none"
<1>1. stack' = [stack EXCEPT !.busy = TRUE, !.pending = target]
  BY DEF Executes
<1>2. stack' \in [runtime : Manifests, enabled : BOOLEAN, busy : BOOLEAN, ok : BOOLEAN, pending : Values]
  BY <1>1 DEF ReleaseTypeOK
<1>3. ASSUME NEW r \in Releases
      PROVE  /\ plan'[r] \in PlanRecord
             /\ plan'[r].manifest = plan[r].manifest
             /\ plan'[r].required = plan[r].required
             /\ plan'[r].enabled = plan[r].enabled
             /\ plan'[r].state = "none" <=> plan[r].state = "none"
  <2>1. plan[r] \in PlanRecord
    BY DEF ReleaseTypeOK
  <2>2. plan'[r] = IF plan[r].state = "open" THEN [plan[r] EXCEPT !.state = "void"] ELSE plan[r]
    BY DEF Executes
  <2> QED
    BY <2>1, <2>2 DEF PlanRecord
<1>4. plan' \in [Releases -> PlanRecord]
  BY <1>3 DEF Executes
<1> QED
  BY <1>1, <1>2, <1>3, <1>4

\* Every execution of a change of the flags is one of the runtime that is deployed.
LEMMA ChangeTypes ==
    ASSUME ReleaseTypeOK, NEW stage, NEW enabled \in BOOLEAN, NEW wait, NEW then,
           ChangeBackground(stage, enabled, wait, then),
           \/ op.pc \in ReleasePlaces /\ {wait, then} \subseteq ReleasePlaces
           \/ op.pc \in MigrationPlaces /\ {wait, then} \subseteq MigrationPlaces
    PROVE  /\ ~stack.busy
           /\ op' \in [pc : ReleasePlaces, id : Releases] \cup [pc : MigrationPlaces, id : Expanded] \cup {NoOp}
           /\ op' # NoOp => op'.id = op.id
           /\ \/ stack' = stack /\ plan' = plan /\ op'.pc = then /\ stack.enabled = enabled
              \/ stack' = stack /\ plan' = plan /\ op' = NoOp
              \/ /\ \E name : Executes(name, [runtime |-> stack.runtime, enabled |-> enabled])
                 /\ op'.pc = wait
BY GoesTypes DEF ChangeBackground, Raises

LEMMA EnvironmentTypes ==
    ASSUME ReleaseTypeOK, Environment
    PROVE  ReleaseTypeOK'
<1>1. CASE UpdateEnds
  BY <1>1 DEF ReleaseTypeOK, UpdateEnds, Values
<1>2. CASE ControllerLoads
  <2>1. PICK v \in Values, c \in BOOLEAN : ctl' = Registered(v, c)
                                           \/ ctl' = [runtime |-> v.runtime, enabled |-> v.enabled, current |-> c]
    <3>1. stack.pending \in Values /\ [runtime |-> stack.runtime, enabled |-> stack.enabled] \in Values
      BY DEF ReleaseTypeOK, Values
    <3>2. (~stack.busy) \in BOOLEAN
      OBVIOUS
    <3>3. CASE ctl' = Registered(stack, ~stack.busy)
      <4> DEFINE v == [runtime |-> stack.runtime, enabled |-> stack.enabled]
      <4>1. ctl' = [runtime |-> v.runtime, enabled |-> v.enabled, current |-> ~stack.busy]
        BY <3>3 DEF Registered
      <4> QED
        BY <3>1, <3>2, <4>1
    <3>4. CASE ctl' = Registered(stack.pending, FALSE)
      BY <3>1, <3>4
    <3> QED
      BY <1>2, <3>3, <3>4 DEF ControllerLoads
  <2>2. ctl' \in [runtime : Manifests, enabled : BOOLEAN, current : BOOLEAN]
    BY <2>1 DEF Registered, Values
  <2> QED
    BY <1>2, <2>2 DEF ReleaseTypeOK, ControllerLoads
<1>3. CASE ControllerStartsWorker
  BY <1>3 DEF ReleaseTypeOK, ControllerStartsWorker
<1>4. CASE WorkerStops
  BY <1>4 DEF ReleaseTypeOK, WorkerStops
<1>5. CASE MigrationTaskEnds
  <2>1. PICK m \in Expanded : \E task \in {"done", "failed"} :
             migration' = [migration EXCEPT ![m] = [@ EXCEPT !.task = task]]
    BY <1>5 DEF MigrationTaskEnds
  <2>2. migration' \in [Expanded -> MigrationRecord]
    BY <2>1 DEF ReleaseTypeOK, MigrationRecord, Tasks
  <2>3. database' \in {"plain", "expanded"}
    BY <1>5 DEF ReleaseTypeOK, MigrationTaskEnds
  <2> QED
    BY <1>5, <2>2, <2>3 DEF ReleaseTypeOK, MigrationTaskEnds
<1>6. CASE OperationDies
  BY <1>6 DEF ReleaseTypeOK, OperationDies, Raises
<1> QED
  BY <1>1, <1>2, <1>3, <1>4, <1>5, <1>6 DEF Environment

\* The waits of both kinds of operation write nothing but where the operation is.
Waits ==
    \/ WaitStack("pauseWait", "ack") \/ WaitAck("ack", "drain") \/ WaitDrained("drain", "apply")
    \/ WaitStack("runtimeWait", "applied") \/ WaitStack("revisionsWait", "revised")
    \/ WaitStack("resumeWait", "resumeAck") \/ WaitAck("resumeAck", "complete")
    \/ WaitStack("migrationPauseWait", "migrationAck")
    \/ WaitAck("migrationAck", "migrationDrain") \/ WaitDrained("migrationDrain", "launch")

LEMMA WaitTypes ==
    ASSUME ReleaseTypeOK, Waits
    PROVE  /\ UNCHANGED <<stack, executed, ctl, workers, plan, journal, migration, database, receipt>>
           /\ op' # NoOp => op'.id = op.id /\ (op.pc \in ReleasePlaces <=> op'.pc \in ReleasePlaces)
           /\ ReleaseTypeOK'
<1>1. UNCHANGED <<stack, executed, ctl, workers, plan, journal, migration, database, receipt>>
  BY DEF Waits, WaitStack, WaitAck, WaitDrained
<1>2. CASE Raises
  BY <1>1, <1>2 DEF ReleaseTypeOK, Raises
<1>3. ASSUME NEW pc, Goes(pc),
             \/ op.pc \in ReleasePlaces /\ pc \in ReleasePlaces
             \/ op.pc \in MigrationPlaces /\ pc \in MigrationPlaces
      PROVE  /\ op'.id = op.id /\ (op.pc \in ReleasePlaces <=> op'.pc \in ReleasePlaces)
             /\ ReleaseTypeOK'
  <2>1. op' \in [pc : ReleasePlaces, id : Releases] \cup [pc : MigrationPlaces, id : Expanded]
        /\ op'.pc = pc /\ op'.id = op.id
    BY <1>3, GoesTypes
  <2>2. op.pc \in ReleasePlaces <=> op'.pc \in ReleasePlaces
    BY <1>3, <2>1 DEF ReleasePlaces, MigrationPlaces
  <2> QED
    BY <1>1, <2>1, <2>2 DEF ReleaseTypeOK
<1>4. Raises \/ \E pc : /\ Goes(pc)
                        /\ \/ op.pc \in ReleasePlaces /\ pc \in ReleasePlaces
                           \/ op.pc \in MigrationPlaces /\ pc \in MigrationPlaces
  BY DEF Waits, WaitStack, WaitAck, WaitDrained, At, ReleasePlaces, MigrationPlaces
<1> QED
  BY <1>1, <1>2, <1>3, <1>4 DEF Raises

LEMMA ReleaseStepTypes ==
    ASSUME ReleaseTypeOK, Release, ~Waits
    PROVE  ReleaseTypeOK'
<1>1. ASSUME NEW r \in Releases, Plan(r)
      PROVE  ReleaseTypeOK'
  <2>0. PICK m \in Manifests : \E e \in Flags(m) :
          plan' = [plan EXCEPT ![r] = [manifest |-> m, enabled |-> e,
                                       required |-> ExpansionRequired(m), state |-> "open"]]
    BY <1>1 DEF Plan
  <2>1. PICK e \in Flags(m) :
          plan' = [plan EXCEPT ![r] = [manifest |-> m, enabled |-> e,
                                       required |-> ExpansionRequired(m), state |-> "open"]]
    BY <2>0
  <2>2. e \in BOOLEAN /\ ExpansionRequired(m) \in BOOLEAN
    BY DEF Flags, ExpansionRequired, ReleaseTypeOK
  <2>3. plan' \in [Releases -> PlanRecord]
    BY <2>1, <2>2 DEF ReleaseTypeOK, PlanRecord
  <2> QED
    BY <1>1, <2>3 DEF ReleaseTypeOK, Plan
<1>2. ASSUME NEW r \in Releases, Start(r)
      PROVE  ReleaseTypeOK'
  <2>1. journal' \in [Releases -> JournalRecord]
    BY <1>2 DEF Start, ReleaseTypeOK, JournalRecord
  <2>2. op' \in [pc : ReleasePlaces, id : Releases]
    BY <1>2 DEF Start, ReleasePlaces
  <2> QED
    BY <1>2, <2>1, <2>2 DEF ReleaseTypeOK, Start
<1>3. ASSUME NEW r \in Releases, Resume(r)
      PROVE  ReleaseTypeOK'
  <2>1. op' \in [pc : ReleasePlaces, id : Releases]
    BY <1>3 DEF Resume, ReleasePlaces
  <2> QED
    BY <1>3, <2>1 DEF ReleaseTypeOK, Resume
<1>4. ASSUME NEW stage, NEW enabled \in BOOLEAN, NEW wait \in ReleasePlaces, NEW then \in ReleasePlaces,
             op.pc \in ReleasePlaces, ChangeBackground(stage, enabled, wait, then),
             UNCHANGED <<ctl, workers, journal, migration, database, receipt>>
      PROVE  ReleaseTypeOK'
  <2>1. op' \in [pc : ReleasePlaces, id : Releases] \cup [pc : MigrationPlaces, id : Expanded] \cup {NoOp}
    BY <1>4, ChangeTypes
  <2>2. \/ stack' = stack /\ plan' = plan
        \/ \E name : Executes(name, [runtime |-> stack.runtime, enabled |-> enabled])
    BY <1>4, ChangeTypes
  <2>3. [runtime |-> stack.runtime, enabled |-> enabled] \in Values
    BY DEF Values, ReleaseTypeOK
  <2>4. /\ stack' \in [runtime : Manifests, enabled : BOOLEAN, busy : BOOLEAN, ok : BOOLEAN, pending : Values]
        /\ plan' \in [Releases -> PlanRecord]
    BY <2>2, <2>3, ExecutesTypes DEF ReleaseTypeOK
  <2> QED
    BY <1>4, <2>1, <2>4 DEF ReleaseTypeOK
<1>5. CASE PauseForRelease
  BY <1>4, <1>5 DEF PauseForRelease, At, ReleasePlaces
<1>6. CASE ReviseRegistrations
  BY <1>4, <1>6 DEF ReviseRegistrations, At, ReleasePlaces
<1>7. CASE ResumeRegistrations
  <2>1. op.pc \in ReleasePlaces
    BY <1>7 DEF ResumeRegistrations, At, ReleasePlaces
  <2>2. plan[op.id].enabled \in BOOLEAN
    BY <2>1, PlaceTypes DEF ReleaseTypeOK, PlanRecord
  <2>3. "resumeWait" \in ReleasePlaces /\ "resumeAck" \in ReleasePlaces
    BY DEF ReleasePlaces
  <2> QED
    BY <1>4, <1>7, <2>1, <2>2, <2>3 DEF ResumeRegistrations
<1>8. CASE ApplyCandidate
  <2>1. op.pc \in ReleasePlaces /\ op.pc = "apply" /\ op.id \in Releases
    BY <1>8, PlaceTypes DEF ApplyCandidate, At, ReleasePlaces
  <2>2. \/ stack' = stack /\ plan' = plan
        \/ \E name : Executes(name, [runtime |-> plan[op.id].manifest, enabled |-> FALSE])
    BY <1>8 DEF ApplyCandidate
  <2>3. [runtime |-> plan[op.id].manifest, enabled |-> FALSE] \in Values
    BY <2>1 DEF Values, ReleaseTypeOK, PlanRecord
  <2>4. /\ stack' \in [runtime : Manifests, enabled : BOOLEAN, busy : BOOLEAN, ok : BOOLEAN, pending : Values]
        /\ plan' \in [Releases -> PlanRecord]
    BY <2>2, <2>3, ExecutesTypes DEF ReleaseTypeOK
  <2>5. op' = NoOp \/ Goes("applied") \/ Goes("runtimeWait")
    BY <1>8 DEF ApplyCandidate, Raises
  <2>6. op' \in [pc : ReleasePlaces, id : Releases] \cup {NoOp}
    BY <2>1, <2>5, PlaceTypes DEF Goes, ReleasePlaces
  <2> QED
    BY <1>8, <2>4, <2>6 DEF ReleaseTypeOK, ApplyCandidate
<1>9. ASSUME NEW mark \in {"runtime", "revisions", "complete"}, op.pc \in ReleasePlaces, Records(op.id, mark),
             Raises \/ \E pc \in ReleasePlaces : Goes(pc),
             UNCHANGED <<stack, executed, ctl, workers, plan, migration, database, receipt>>
      PROVE  ReleaseTypeOK'
  <2>1. op.id \in Releases
    BY <1>9, PlaceTypes
  <2>2. journal' \in [Releases -> JournalRecord]
    BY <1>9, <2>1, RecordsTypes
  <2>3. op' \in [pc : ReleasePlaces, id : Releases] \cup [pc : MigrationPlaces, id : Expanded] \cup {NoOp}
    BY <1>9, GoesTypes DEF Raises
  <2> QED
    BY <1>9, <2>2, <2>3 DEF ReleaseTypeOK
<1>10. CASE RecordRuntime \/ RecordRevisions \/ RecordComplete
  BY <1>9, <1>10 DEF RecordRuntime, RecordRevisions, RecordComplete, At, ReleasePlaces
<1> QED
  BY <1>1, <1>2, <1>3, <1>5, <1>6, <1>7, <1>8, <1>10 DEF Release, Waits

LEMMA MigrateStepTypes ==
    ASSUME ReleaseTypeOK, Migrate, ~Waits
    PROVE  ReleaseTypeOK'
<1>1. ASSUME NEW m \in Expanded, StartMigration(m)
      PROVE  ReleaseTypeOK'
  <2>1. migration' \in [Expanded -> MigrationRecord]
    BY <1>1 DEF StartMigration, ReleaseTypeOK, MigrationRecord
  <2>2. op' \in [pc : MigrationPlaces, id : Expanded]
    BY <1>1 DEF StartMigration, MigrationPlaces
  <2> QED
    BY <1>1, <2>1, <2>2 DEF ReleaseTypeOK, StartMigration
<1>2. CASE PauseForMigration
  <2>1. /\ op.pc \in MigrationPlaces /\ {"migrationPauseWait", "migrationAck"} \subseteq MigrationPlaces
        /\ ChangeBackground("migrationPause", FALSE, "migrationPauseWait", "migrationAck")
    BY <1>2 DEF PauseForMigration, At, MigrationPlaces
  <2>2. op' \in [pc : ReleasePlaces, id : Releases] \cup [pc : MigrationPlaces, id : Expanded] \cup {NoOp}
    BY <2>1, ChangeTypes
  <2>3. \/ stack' = stack /\ plan' = plan
        \/ \E name : Executes(name, [runtime |-> stack.runtime, enabled |-> FALSE])
    BY <2>1, ChangeTypes
  <2>4. [runtime |-> stack.runtime, enabled |-> FALSE] \in Values
    BY DEF Values, ReleaseTypeOK
  <2>5. /\ stack' \in [runtime : Manifests, enabled : BOOLEAN, busy : BOOLEAN, ok : BOOLEAN, pending : Values]
        /\ plan' \in [Releases -> PlanRecord]
    BY <2>3, <2>4, ExecutesTypes DEF ReleaseTypeOK
  <2> QED
    BY <1>2, <2>2, <2>5 DEF ReleaseTypeOK, PauseForMigration
<1>3. CASE RegisterMigration \/ RunMigration \/ RecordMigrationTask \/ CertifyMigration
  <2>1. op.pc \in MigrationPlaces /\ op.id \in Expanded /\ op \in [pc : MigrationPlaces, id : Expanded]
    BY <1>3, PlaceTypes DEF RegisterMigration, RunMigration, RecordMigrationTask, CertifyMigration,
       At, MigrationPlaces
  <2>2. migration[op.id] \in MigrationRecord
    BY <2>1 DEF ReleaseTypeOK
  <2>3. migration' \in [Expanded -> MigrationRecord]
    <3>1. CASE RegisterMigration
      BY <2>1, <2>2, <3>1 DEF RegisterMigration, ReleaseTypeOK, MigrationRecord
    <3>2. CASE RunMigration
      BY <2>1, <2>2, <3>2 DEF RunMigration, ReleaseTypeOK, MigrationRecord, Launched, Tasks
    <3>3. CASE RecordMigrationTask
      BY <2>1, <2>2, <3>3 DEF RecordMigrationTask, ReleaseTypeOK, MigrationRecord
    <3>4. CASE CertifyMigration
      BY <3>4 DEF CertifyMigration, ReleaseTypeOK
    <3> QED
      BY <1>3, <3>1, <3>2, <3>3, <3>4
  <2>4. op' \in [pc : MigrationPlaces, id : Expanded] \cup {NoOp}
    BY <1>3, <2>1 DEF RegisterMigration, RunMigration, RecordMigrationTask, CertifyMigration,
       Goes, Raises, MigrationPlaces
  <2>5. receipt' \in BOOLEAN
    BY <1>3, <2>1 DEF RegisterMigration, RunMigration, RecordMigrationTask, CertifyMigration,
       ReleaseTypeOK, MayCertify
  <2>6. UNCHANGED <<stack, ctl, workers, plan, journal, database>>
    BY <1>3 DEF RegisterMigration, RunMigration, RecordMigrationTask, CertifyMigration
  <2> QED
    BY <2>3, <2>4, <2>5, <2>6 DEF ReleaseTypeOK
<1> QED
  BY <1>1, <1>2, <1>3 DEF Migrate, Waits

LEMMA ReleaseTypesKept == ReleaseTypeOK /\ [Next]_vars => ReleaseTypeOK'
<1>1. ReleaseTypeOK /\ UNCHANGED vars => ReleaseTypeOK'
  BY DEF ReleaseTypeOK, vars
<1> QED
  BY <1>1, EnvironmentTypes, WaitTypes, ReleaseStepTypes, MigrateStepTypes DEF Next

-----------------------------------------------------------------------------
(* No worker of another release.                                           *)

LEMMA EnvironmentKeepsWorkers ==
    ASSUME ReleaseTypeOK, WorkersInv, Environment
    PROVE  WorkersInv'
<1> USE DEF WorkersInv, StartsAreCurrent, ChangeIsQuiet, Quiet, AcknowledgedIsTrue, Places, WorkersAreCurrent, At
<1>1. CASE UpdateEnds
  BY <1>1 DEF UpdateEnds, ReleaseTypeOK
<1>2. CASE ControllerLoads
  BY <1>2 DEF ControllerLoads, Registered, ReleaseTypeOK, Values
<1>3. CASE ControllerStartsWorker
  BY <1>3 DEF ControllerStartsWorker, ReleaseTypeOK
<1>4. CASE WorkerStops
  BY <1>4 DEF WorkerStops, ReleaseTypeOK
<1>5. CASE MigrationTaskEnds
  BY <1>5 DEF MigrationTaskEnds
<1>6. CASE OperationDies
  BY <1>6 DEF OperationDies, Raises, NoOp
<1> QED
  BY <1>1, <1>2, <1>3, <1>4, <1>5, <1>6 DEF Environment

LEMMA WaitsKeepWorkers ==
    ASSUME ReleaseTypeOK, WorkersInv, Waits
    PROVE  WorkersInv'
<1> USE DEF WorkersInv, StartsAreCurrent, ChangeIsQuiet, Quiet, AcknowledgedIsTrue, Places, WorkersAreCurrent
<1>1. UNCHANGED <<stack, ctl, workers>>
  BY WaitTypes
<1>2. op'.pc \in {"none", "ack", "drain", "apply", "applied", "revised", "resumeAck", "complete",
                  "migrationAck", "migrationDrain", "launch"}
  BY DEF Waits, WaitStack, WaitAck, WaitDrained, Goes, Raises, NoOp, ReleaseTypeOK
<1>3. op'.pc = "ack" => At("pauseWait") /\ ~stack.busy /\ stack.ok
  BY DEF Waits, WaitStack, WaitAck, WaitDrained, Goes, Raises, NoOp, ReleaseTypeOK
<1>4. op'.pc = "drain" => At("ack") /\ Acknowledged
  BY DEF Waits, WaitStack, WaitAck, WaitDrained, Goes, Raises, NoOp, ReleaseTypeOK
<1>5. op'.pc = "apply" => At("drain") /\ workers = {}
  BY DEF Waits, WaitStack, WaitAck, WaitDrained, Goes, Raises, NoOp, ReleaseTypeOK
<1> QED
  BY <1>1, <1>2, <1>3, <1>4, <1>5 DEF Acknowledged, At, Registered, ReleaseTypeOK

\* A change of the flags keeps the runtime.
LEMMA ChangesKeepWorkers ==
    ASSUME ReleaseTypeOK, WorkersInv, NEW stage, NEW enabled \in BOOLEAN, NEW wait, NEW then,
           ChangeBackground(stage, enabled, wait, then), UNCHANGED <<ctl, workers>>,
           \/ op.pc \in ReleasePlaces /\ {wait, then} \subseteq ReleasePlaces
           \/ op.pc \in MigrationPlaces /\ {wait, then} \subseteq MigrationPlaces,
           "drain" \notin {wait, then}, "apply" \notin {wait, then},
           wait # "ack", then # "pauseWait",
           "ack" = then => ~enabled, "pauseWait" = wait => ~enabled
    PROVE  WorkersInv'
<1> USE DEF WorkersInv, StartsAreCurrent, ChangeIsQuiet, Quiet, AcknowledgedIsTrue, Places, WorkersAreCurrent
<1>1. CASE stack' = stack /\ op'.pc = then /\ stack.enabled = enabled
  BY <1>1, ChangeTypes DEF At, ReleaseTypeOK
<1>2. CASE stack' = stack /\ op' = NoOp
  BY <1>2 DEF At, NoOp
<1>3. CASE op'.pc = wait /\ \E name : Executes(name, [runtime |-> stack.runtime, enabled |-> enabled])
  <2>1. stack' = [stack EXCEPT !.busy = TRUE, !.pending = [runtime |-> stack.runtime, enabled |-> enabled]]
    BY <1>3 DEF Executes
  <2> QED
    BY <1>3, <2>1 DEF At, ReleaseTypeOK
<1> QED
  BY <1>1, <1>2, <1>3, ChangeTypes

\* The runtime is changed where the release has seen that nobody works.
LEMMA ApplyKeepsWorkers ==
    ASSUME ReleaseTypeOK, WorkersInv, ApplyCandidate
    PROVE  WorkersInv'
<1> USE DEF WorkersInv, StartsAreCurrent, ChangeIsQuiet, Quiet, AcknowledgedIsTrue, Places, WorkersAreCurrent
<1>1. At("apply") /\ ~stack.busy /\ ~stack.enabled /\ ~ctl.enabled /\ workers = {} /\ UNCHANGED <<ctl, workers>>
  BY DEF ApplyCandidate, At
<1>2. op'.pc \in {"none", "applied", "runtimeWait"}
  BY DEF ApplyCandidate, Goes, Raises, NoOp, ReleaseTypeOK
<1>3. \/ stack' = stack
      \/ stack' = [stack EXCEPT !.busy = TRUE, !.pending = [runtime |-> plan[op.id].manifest, enabled |-> FALSE]]
  BY DEF ApplyCandidate, Executes
<1>4. CASE stack' = stack
  BY <1>1, <1>2, <1>4 DEF At
<1>5. CASE stack' = [stack EXCEPT !.busy = TRUE, !.pending = [runtime |-> plan[op.id].manifest, enabled |-> FALSE]]
  <2>1. stack'.busy /\ ~stack'.enabled /\ ~stack'.pending.enabled /\ stack'.runtime = stack.runtime
    BY <1>1, <1>5 DEF ReleaseTypeOK
  <2> QED
    BY <1>1, <1>2, <2>1 DEF At
<1> QED
  BY <1>3, <1>4, <1>5

\* What the other steps do to the stack, the controller and the workers: nothing.
LEMMA RecordsKeepWorkers ==
    ASSUME ReleaseTypeOK, WorkersInv, UNCHANGED <<stack, ctl, workers>>,
           op'.pc \notin {"pauseWait", "ack", "drain", "apply"} \/ UNCHANGED op
    PROVE  WorkersInv'
BY DEF WorkersInv, StartsAreCurrent, ChangeIsQuiet, Quiet, AcknowledgedIsTrue, Places, WorkersAreCurrent, At

LEMMA WorkersKept == ReleaseTypeOK /\ WorkersInv /\ [Next]_vars => WorkersInv'
<1> SUFFICES ASSUME ReleaseTypeOK, WorkersInv, [Next]_vars PROVE WorkersInv'
  OBVIOUS
<1>1. CASE Environment
  BY <1>1, EnvironmentKeepsWorkers
<1>2. CASE Waits
  BY <1>2, WaitsKeepWorkers
<1>3. CASE PauseForRelease
  <2>1. op.pc \in ReleasePlaces /\ {"pauseWait", "ack"} \subseteq ReleasePlaces
    BY <1>3 DEF PauseForRelease, At, ReleasePlaces
  <2>2. ChangeBackground("pause", FALSE, "pauseWait", "ack") /\ UNCHANGED <<ctl, workers>>
    BY <1>3 DEF PauseForRelease
  <2>3. "drain" \notin {"pauseWait", "ack"} /\ "apply" \notin {"pauseWait", "ack"} /\ "pauseWait" # "ack"
    OBVIOUS
  <2> QED
    BY <2>1, <2>2, <2>3, ChangesKeepWorkers
<1>4. CASE ReviseRegistrations
  <2>1. op.pc \in ReleasePlaces /\ {"revisionsWait", "revised"} \subseteq ReleasePlaces
    BY <1>4 DEF ReviseRegistrations, At, ReleasePlaces
  <2>2. ChangeBackground("revisions", FALSE, "revisionsWait", "revised") /\ UNCHANGED <<ctl, workers>>
    BY <1>4 DEF ReviseRegistrations
  <2>3. /\ {"drain", "apply"} \cap {"revisionsWait", "revised"} = {}
        /\ "revisionsWait" # "ack" /\ "revised" # "pauseWait" /\ "revised" # "ack" /\ "revisionsWait" # "pauseWait"
    OBVIOUS
  <2> QED
    BY <2>1, <2>2, <2>3, ChangesKeepWorkers
<1>5. CASE ResumeRegistrations
  <2>1. op.pc \in ReleasePlaces /\ {"resumeWait", "resumeAck"} \subseteq ReleasePlaces
    BY <1>5 DEF ResumeRegistrations, At, ReleasePlaces
  <2>2. plan[op.id].enabled \in BOOLEAN
    BY <2>1, PlaceTypes DEF ReleaseTypeOK, PlanRecord
  <2> QED
    BY <1>5, <2>1, <2>2, ChangesKeepWorkers DEF ResumeRegistrations
<1>6. CASE PauseForMigration
  <2>1. op.pc \in MigrationPlaces /\ {"migrationPauseWait", "migrationAck"} \subseteq MigrationPlaces
    BY <1>6 DEF PauseForMigration, At, MigrationPlaces
  <2>2. /\ ChangeBackground("migrationPause", FALSE, "migrationPauseWait", "migrationAck")
        /\ UNCHANGED <<ctl, workers>>
    BY <1>6 DEF PauseForMigration
  <2>3. /\ {"drain", "apply"} \cap {"migrationPauseWait", "migrationAck"} = {}
        /\ "migrationPauseWait" # "ack" /\ "migrationAck" # "pauseWait" /\ "migrationAck" # "ack" /\ "migrationPauseWait" # "pauseWait"
    OBVIOUS
  <2> QED
    BY <2>1, <2>2, <2>3, ChangesKeepWorkers
<1>7. CASE ApplyCandidate
  BY <1>7, ApplyKeepsWorkers
<1>8. CASE \E r \in Releases : Plan(r) \/ Start(r) \/ Resume(r)
  BY <1>8, RecordsKeepWorkers DEF Plan, Start, Resume
<1>9. CASE RecordRuntime \/ RecordRevisions \/ RecordComplete
  BY <1>9, RecordsKeepWorkers DEF RecordRuntime, RecordRevisions, RecordComplete, Goes, Raises, NoOp, ReleaseTypeOK
<1>10. CASE \E m \in Expanded : StartMigration(m)
  BY <1>10, RecordsKeepWorkers DEF StartMigration
<1>11. CASE RegisterMigration \/ RunMigration \/ RecordMigrationTask \/ CertifyMigration
  BY <1>11, RecordsKeepWorkers DEF RegisterMigration, RunMigration, RecordMigrationTask, CertifyMigration,
     Goes, Raises, NoOp, ReleaseTypeOK
<1>12. CASE UNCHANGED vars
  BY <1>12, RecordsKeepWorkers DEF vars
<1> QED
  BY <1>1, <1>2, <1>3, <1>4, <1>5, <1>6, <1>7, <1>8, <1>9, <1>10, <1>11, <1>12
     DEF Next, Release, Migrate, Waits

-----------------------------------------------------------------------------
(* The migration comes first, and once.                                    *)

\* An update deploys what it was asked for.
LEMMA EnvironmentKeepsMigration ==
    ASSUME ReleaseTypeOK, MigrationInv, Environment
    PROVE  MigrationInv'
<1> USE DEF MigrationInv, EvidenceIsTrue, PlansAreSafe, Migrated
<1>1. CASE UpdateEnds
  BY <1>1 DEF UpdateEnds, ReleaseTypeOK
<1>2. CASE ControllerLoads \/ ControllerStartsWorker \/ WorkerStops
  <2>1. UNCHANGED <<stack, plan, journal, migration, database, receipt, op>>
    BY <1>2 DEF ControllerLoads, ControllerStartsWorker, WorkerStops
  <2> QED
    BY <2>1
<1>3. CASE MigrationTaskEnds
  <2>1. PICK m \in Expanded :
          \/ /\ migration' = [migration EXCEPT ![m] = [@ EXCEPT !.task = "done"]]
             /\ database' = "expanded"
          \/ /\ migration' = [migration EXCEPT ![m] = [@ EXCEPT !.task = "failed"]]
             /\ UNCHANGED database
    BY <1>3 DEF MigrationTaskEnds
  <2>2. \A n \in Expanded : migration'[n].task = "done" => migration[n].task = "done" \/ database' = "expanded"
    BY <2>1 DEF ReleaseTypeOK, MigrationRecord
  <2> QED
    BY <1>3, <2>1, <2>2 DEF MigrationTaskEnds
<1>4. CASE OperationDies
  BY <1>4 DEF OperationDies, Raises, NoOp, ReleasePlaces
<1> QED
  BY <1>1, <1>2, <1>3, <1>4 DEF Environment

LEMMA WaitsKeepMigration ==
    ASSUME ReleaseTypeOK, MigrationInv, Waits
    PROVE  MigrationInv'
<1>1. UNCHANGED <<stack, plan, journal, migration, database, receipt>>
  BY WaitTypes
<1>2. op' = NoOp \/ (op'.id = op.id /\ (op.pc \in ReleasePlaces <=> op'.pc \in ReleasePlaces))
  BY WaitTypes
<1> QED
  BY <1>1, <1>2 DEF MigrationInv, EvidenceIsTrue, PlansAreSafe, Migrated, NoOp, ReleasePlaces

\* Voiding other plans, for a target that may be deployed.
LEMMA ExecutesKeepsMigration ==
    ASSUME ReleaseTypeOK, MigrationInv, NEW name, NEW target \in Values, Executes(name, target),
           target.runtime \in Expanded => Migrated,
           UNCHANGED <<journal, migration, database, receipt>>,
           op'.id = op.id /\ (op.pc \in ReleasePlaces <=> op'.pc \in ReleasePlaces)
    PROVE  MigrationInv'
<1>1. stack'.runtime = stack.runtime /\ stack'.pending = target
  BY ExecutesTypes DEF ReleaseTypeOK
<1>2. \A r \in Releases : /\ plan'[r].manifest = plan[r].manifest
                          /\ plan'[r].required = plan[r].required
                          /\ plan'[r].state = "none" <=> plan[r].state = "none"
  BY ExecutesTypes
<1> QED
  BY <1>1, <1>2 DEF MigrationInv, EvidenceIsTrue, PlansAreSafe, Migrated

LEMMA ChangesKeepMigration ==
    ASSUME ReleaseTypeOK, MigrationInv, NEW stage, NEW enabled \in BOOLEAN, NEW wait, NEW then,
           ChangeBackground(stage, enabled, wait, then), UNCHANGED <<journal, migration, database, receipt>>,
           \/ op.pc \in ReleasePlaces /\ {wait, then} \subseteq ReleasePlaces
           \/ op.pc \in MigrationPlaces /\ {wait, then} \subseteq MigrationPlaces
    PROVE  MigrationInv'
<1>1. CASE stack' = stack /\ plan' = plan /\ op'.pc = then
  <2>1. op' # NoOp
    BY <1>1 DEF NoOp, ReleasePlaces, MigrationPlaces
  <2>2. op'.id = op.id
    BY <2>1, ChangeTypes
  <2>3. op.pc \in ReleasePlaces <=> op'.pc \in ReleasePlaces
    BY <1>1 DEF ReleasePlaces, MigrationPlaces
  <2> QED
    BY <1>1, <2>2, <2>3 DEF MigrationInv, EvidenceIsTrue, PlansAreSafe, Migrated
<1>2. CASE stack' = stack /\ plan' = plan /\ op' = NoOp
  BY <1>2 DEF MigrationInv, EvidenceIsTrue, PlansAreSafe, Migrated, NoOp, ReleasePlaces
<1>3. CASE op'.pc = wait /\ \E name : Executes(name, [runtime |-> stack.runtime, enabled |-> enabled])
  <2> DEFINE target == [runtime |-> stack.runtime, enabled |-> enabled]
  <2>1. target \in Values
    BY DEF Values, ReleaseTypeOK
  <2>2. target.runtime \in Expanded => Migrated
    BY DEF MigrationInv, EvidenceIsTrue
  <2>3. op'.id = op.id /\ (op.pc \in ReleasePlaces <=> op'.pc \in ReleasePlaces)
    <3>1. op' # NoOp
      BY <1>3 DEF NoOp, ReleasePlaces, MigrationPlaces
    <3>2. op'.id = op.id
      BY <3>1, ChangeTypes
    <3> QED
      BY <1>3, <3>2 DEF ReleasePlaces, MigrationPlaces
  <2>4. PICK name : Executes(name, target)
    BY <1>3
  <2> HIDE DEF target
  <2> QED
    BY <2>1, <2>2, <2>3, <2>4, ExecutesKeepsMigration
<1> QED
  BY <1>1, <1>2, <1>3, ChangeTypes

LEMMA ReleaseKeepsMigration ==
    ASSUME ReleaseTypeOK, MigrationInv, Release, ~Waits
    PROVE  MigrationInv'
<1> USE DEF Migrated
<1>1. ASSUME NEW r \in Releases, Plan(r)
      PROVE  MigrationInv'
  <2>1. PICK m \in Manifests : \E e \in Flags(m) :
          plan' = [plan EXCEPT ![r] = [manifest |-> m, enabled |-> e,
                                       required |-> ExpansionRequired(m), state |-> "open"]]
    BY <1>1 DEF Plan
  <2>2. /\ plan'[r].manifest = m /\ plan'[r].required = ExpansionRequired(m) /\ plan'[r].state = "open"
        /\ \A q \in Releases \ {r} : plan'[q] = plan[q]
    BY <2>1 DEF ReleaseTypeOK
  <2>3. UNCHANGED <<stack, journal, migration, database, receipt, op>> /\ plan[r].state = "none"
    BY <1>1 DEF Plan
  <2>4. m \in Expanded /\ ~ExpansionRequired(m) => Migrated
    BY DEF ExpansionRequired, MigrationInv, EvidenceIsTrue
  <2>5. journal[r].marks = {}
    BY <2>3 DEF MigrationInv, PlansAreSafe
  <2> QED
    BY <2>2, <2>3, <2>4, <2>5 DEF MigrationInv, EvidenceIsTrue, PlansAreSafe
<1>2. ASSUME NEW r \in Releases, Start(r)
      PROVE  MigrationInv'
  <2>1. plan[r].state # "none" /\ (plan[r].required => receipt)
    BY <1>2 DEF Start, Guarded
  <2>2. /\ journal'[r].marks = {"start"} /\ op'.id = r
        /\ \A q \in Releases \ {r} : journal'[q] = journal[q]
    BY <1>2 DEF Start, ReleaseTypeOK
  <2> QED
    BY <1>2, <2>1, <2>2 DEF Start, MigrationInv, EvidenceIsTrue, PlansAreSafe
<1>3. ASSUME NEW r \in Releases, Resume(r)
      PROVE  MigrationInv'
  <2>1. journal[r].marks # {} /\ op'.id = r
    BY <1>3 DEF Resume
  <2> QED
    BY <1>3, <2>1 DEF Resume, MigrationInv, EvidenceIsTrue, PlansAreSafe
<1>4. CASE PauseForRelease
  BY <1>4, ChangesKeepMigration DEF PauseForRelease, At, ReleasePlaces
<1>5. CASE ReviseRegistrations
  BY <1>5, ChangesKeepMigration DEF ReviseRegistrations, At, ReleasePlaces
<1>6. CASE ResumeRegistrations
  <2>1. op.pc \in ReleasePlaces /\ {"resumeWait", "resumeAck"} \subseteq ReleasePlaces
    BY <1>6 DEF ResumeRegistrations, At, ReleasePlaces
  <2>2. plan[op.id].enabled \in BOOLEAN
    BY <2>1, PlaceTypes DEF ReleaseTypeOK, PlanRecord
  <2> QED
    BY <1>6, <2>1, <2>2, ChangesKeepMigration DEF ResumeRegistrations
<1>7. CASE ApplyCandidate
  <2>1. op.pc = "apply" /\ op.pc \in ReleasePlaces /\ op.id \in Releases
    BY <1>7, PlaceTypes DEF ApplyCandidate, At, ReleasePlaces
  <2>2. UNCHANGED <<journal, migration, database, receipt>>
    BY <1>7 DEF ApplyCandidate
  <2>3. CASE UNCHANGED <<stack, plan>> /\ (Raises \/ Goes("applied"))
    <3>1. op' = NoOp \/ op'.id = op.id
      BY <2>1, <2>3, GoesTypes DEF Raises, ReleasePlaces
    <3> QED
      BY <2>1, <2>2, <2>3, <3>1 DEF MigrationInv, EvidenceIsTrue, PlansAreSafe, NoOp, ReleasePlaces
  <2>4. CASE /\ \E name : Executes(name, [runtime |-> plan[op.id].manifest, enabled |-> FALSE])
             /\ Goes("runtimeWait")
    <3> DEFINE target == [runtime |-> plan[op.id].manifest, enabled |-> FALSE]
    <3>1. target \in Values
      BY <2>1 DEF Values, ReleaseTypeOK, PlanRecord
    <3>2. target.runtime \in Expanded => Migrated
      BY <2>1 DEF MigrationInv, EvidenceIsTrue, PlansAreSafe, ReleaseTypeOK, PlanRecord
    <3>3. op'.id = op.id /\ op'.pc \in ReleasePlaces
      BY <2>1, <2>4, GoesTypes DEF ReleasePlaces
    <3>4. PICK name : Executes(name, target)
      BY <2>4
    <3> HIDE DEF target
    <3> QED
      BY <2>1, <2>2, <3>1, <3>2, <3>3, <3>4, ExecutesKeepsMigration
  <2> QED
    BY <1>7, <2>3, <2>4 DEF ApplyCandidate
<1>8. ASSUME NEW mark \in {"runtime", "revisions", "complete"}, op.pc \in ReleasePlaces, Records(op.id, mark),
             Raises \/ \E pc \in ReleasePlaces : Goes(pc),
             UNCHANGED <<stack, plan, migration, database, receipt>>
      PROVE  MigrationInv'
  <2>1. op.id \in Releases
    BY <1>8, PlaceTypes
  <2>2. \A q \in Releases : journal'[q].marks # {} <=> journal[q].marks # {} \/ q = op.id
    BY <1>8, <2>1, RecordsTypes
  <2>3. op' = NoOp \/ op'.id = op.id
    BY <1>8, GoesTypes DEF Raises
  <2>4. \A q \in Releases : journal'[q].marks # {} <=> journal[q].marks # {}
    BY <1>8, <2>1, <2>2 DEF MigrationInv, PlansAreSafe
  <2> QED
    BY <1>8, <2>3, <2>4 DEF MigrationInv, EvidenceIsTrue, PlansAreSafe, NoOp, ReleasePlaces
<1>9. CASE RecordRuntime \/ RecordRevisions \/ RecordComplete
  BY <1>8, <1>9 DEF RecordRuntime, RecordRevisions, RecordComplete, At, ReleasePlaces
<1> QED
  BY <1>1, <1>2, <1>3, <1>4, <1>5, <1>6, <1>7, <1>9 DEF Release, Waits

\* What a migration has done stays done: its token launches one task only.
LEMMA MigrateKeepsMigration ==
    ASSUME ReleaseTypeOK, MigrationInv, Migrate, ~Waits
    PROVE  MigrationInv'
<1> USE DEF Migrated
<1>1. CASE PauseForMigration
  BY <1>1, ChangesKeepMigration DEF PauseForMigration, At, MigrationPlaces
<1>2. ASSUME op'.pc \notin ReleasePlaces, UNCHANGED <<stack, plan, journal, database>>,
             receipt => receipt', receipt' => Migrated,
             \A m \in Expanded : migration'[m].task = "done" => migration[m].task = "done"
      PROVE  MigrationInv'
  BY <1>2 DEF MigrationInv, EvidenceIsTrue, PlansAreSafe
<1>3. ASSUME NEW m \in Expanded, StartMigration(m)
      PROVE  MigrationInv'
  <2>1. \A n \in Expanded : migration'[n].task = migration[n].task
    BY <1>3 DEF StartMigration, ReleaseTypeOK, MigrationRecord
  <2> QED
    BY <1>2, <1>3, <2>1 DEF StartMigration, ReleasePlaces, MigrationInv, EvidenceIsTrue
<1>4. CASE RegisterMigration \/ RunMigration \/ RecordMigrationTask \/ CertifyMigration
  <2>1. op.pc \in MigrationPlaces /\ op.id \in Expanded /\ op \in [pc : MigrationPlaces, id : Expanded]
    BY <1>4, PlaceTypes DEF RegisterMigration, RunMigration, RecordMigrationTask, CertifyMigration,
       At, MigrationPlaces
  <2>2. migration[op.id] \in MigrationRecord
    BY <2>1 DEF ReleaseTypeOK
  <2>3. op'.pc \notin ReleasePlaces
    BY <1>4, <2>1 DEF RegisterMigration, RunMigration, RecordMigrationTask, CertifyMigration,
       Goes, Raises, NoOp, ReleasePlaces, MigrationPlaces
  <2>4. \A n \in Expanded : migration'[n].task = "done" => migration[n].task = "done"
    BY <1>4, <2>1, <2>2 DEF RegisterMigration, RunMigration, RecordMigrationTask, CertifyMigration,
       ReleaseTypeOK, MigrationRecord, Launched
  <2>5. (receipt => receipt') /\ (receipt' => Migrated)
    <3>1. (receipt => Migrated) /\ (migration[op.id].task = "done" => Migrated)
      BY <2>1 DEF MigrationInv, EvidenceIsTrue
    <3>2. CASE CertifyMigration
      <4>1. receipt' = (receipt \/ migration[op.id].task = "done")
        BY <3>2 DEF CertifyMigration, MayCertify
      <4> QED
        BY <3>1, <4>1, Zenon
    <3>3. CASE RegisterMigration \/ RunMigration \/ RecordMigrationTask
      <4>1. receipt' = receipt
        BY <3>3 DEF RegisterMigration, RunMigration, RecordMigrationTask
      <4> QED
        BY <3>1, <4>1, Zenon
    <3> QED
      BY <1>4, <3>2, <3>3
  <2>6. UNCHANGED <<stack, plan, journal, database>>
    BY <1>4 DEF RegisterMigration, RunMigration, RecordMigrationTask, CertifyMigration
  <2> QED
    BY <1>2, <2>3, <2>4, <2>5, <2>6
<1> QED
  BY <1>1, <1>3, <1>4 DEF Migrate, Waits

LEMMA MigrationKept == ReleaseTypeOK /\ MigrationInv /\ [Next]_vars => MigrationInv'
<1>1. MigrationInv /\ UNCHANGED vars => MigrationInv'
  BY DEF MigrationInv, EvidenceIsTrue, PlansAreSafe, Migrated, vars
<1> QED
  BY <1>1, EnvironmentKeepsMigration, WaitsKeepMigration, ReleaseKeepsMigration, MigrateKeepsMigration DEF Next

\* A task that has ended stays as it ended.
LEMMA EndedTasksStay ==
    ASSUME ReleaseTypeOK, [Next]_vars, NEW m \in Expanded, migration[m].task \in {"done", "failed"}
    PROVE  migration'[m].task = migration[m].task
<1>1. migration[m] \in MigrationRecord
  BY DEF ReleaseTypeOK
<1>2. CASE UNCHANGED migration
  BY <1>2
<1>3. CASE MigrationTaskEnds
  <2>1. PICK n \in Expanded : migration[n].task = "running" /\ \E task \in {"done", "failed"} :
             migration' = [migration EXCEPT ![n] = [@ EXCEPT !.task = task]]
    BY <1>3 DEF MigrationTaskEnds
  <2> QED
    BY <2>1 DEF ReleaseTypeOK
<1>4. CASE \E n \in Expanded : StartMigration(n)
  BY <1>1, <1>4 DEF StartMigration, ReleaseTypeOK, MigrationRecord
<1>5. CASE RegisterMigration \/ RunMigration \/ RecordMigrationTask
  <2>1. op.id \in Expanded
    BY <1>5, PlaceTypes DEF RegisterMigration, RunMigration, RecordMigrationTask, At, MigrationPlaces
  <2>2. migration[op.id] \in MigrationRecord
    BY <2>1 DEF ReleaseTypeOK
  <2> QED
    BY <1>1, <1>5, <2>1, <2>2 DEF RegisterMigration, RunMigration, RecordMigrationTask, ReleaseTypeOK,
       MigrationRecord, Launched
<1>6. Waits => UNCHANGED migration
  BY WaitTypes
<1>7. Release /\ ~Waits => UNCHANGED migration
  BY DEF Release, Waits, Plan, Start, Resume, PauseForRelease, ApplyCandidate, RecordRuntime,
     ReviseRegistrations, RecordRevisions, ResumeRegistrations, RecordComplete
<1>8. PauseForMigration \/ CertifyMigration \/ UNCHANGED vars => UNCHANGED migration
  BY DEF PauseForMigration, CertifyMigration, vars
<1>9. Environment => UNCHANGED migration \/ MigrationTaskEnds
  BY DEF Environment, UpdateEnds, ControllerLoads, ControllerStartsWorker, WorkerStops, OperationDies
<1> QED
  BY <1>2, <1>3, <1>4, <1>5, <1>6, <1>7, <1>8, <1>9 DEF Next, Migrate, Waits

-----------------------------------------------------------------------------
(* The theorems.                                                           *)

LEMMA ReleaseInvHolds == Spec => []ReleaseInv
<1>1. Init => ReleaseInv
  <2>1. Init => ReleaseTypeOK
    <3> SUFFICES ASSUME Init PROVE ReleaseTypeOK
      OBVIOUS
    <3>1. PICK e \in BOOLEAN :
            stack = [runtime |-> Current, enabled |-> e, busy |-> FALSE, ok |-> TRUE,
                     pending |-> [runtime |-> Current, enabled |-> e]]
      BY DEF Init
    <3>2. /\ stack \in [runtime : Manifests, enabled : BOOLEAN, busy : BOOLEAN, ok : BOOLEAN, pending : Values]
          /\ ctl \in [runtime : Manifests, enabled : BOOLEAN, current : BOOLEAN]
      BY <3>1, ReleaseConstants DEF Init, Registered, Values
    <3>3. plan \in [Releases -> PlanRecord] /\ journal \in [Releases -> JournalRecord]
      BY ReleaseConstants DEF Init, NoPlan, PlanRecord, JournalRecord
    <3>4. migration \in [Expanded -> MigrationRecord]
      BY DEF Init, NoMigration, MigrationRecord, Tasks
    <3> QED
      BY <3>2, <3>3, <3>4 DEF Init, ReleaseTypeOK
  <2>2. Init => WorkersInv
    BY DEF Init, WorkersInv, StartsAreCurrent, ChangeIsQuiet, AcknowledgedIsTrue, Places, WorkersAreCurrent,
       Registered, At, NoOp
  <2>3. Init => MigrationInv
    BY ReleaseConstants DEF Init, MigrationInv, EvidenceIsTrue, PlansAreSafe, Migrated, NoPlan, NoMigration,
       NoOp, ReleasePlaces
  <2> QED
    BY <2>1, <2>2, <2>3 DEF ReleaseInv
<1>2. ReleaseInv /\ [Next]_vars => ReleaseInv'
  BY ReleaseTypesKept, WorkersKept, MigrationKept DEF ReleaseInv
<1> QED
  BY <1>1, <1>2, PTL DEF Spec

\* scripts/release_admission.py: no background task of one release runs beside the runtime of
\* another, however many releases were interrupted and resumed.
THEOREM WorkersAlwaysCurrent == Spec => []WorkersAreCurrent
<1>1. ReleaseInv => WorkersAreCurrent
  BY DEF ReleaseInv, WorkersInv
<1> QED
  BY <1>1, ReleaseInvHolds, PTL

\* scripts/personal_migration.py: the migration's task is launched once, and done before a
\* runtime needs it and before there is a receipt of it.
THEOREM MigratedOnce == Spec => MigratedOnceBeforeUse
<1>1. ReleaseInv /\ ReleaseInv' /\ [Next]_vars
        => [/\ \A m \in Expanded : migration[m].task \in {"done", "failed"} =>
                                   migration'[m].task = migration[m].task
            /\ stack'.runtime \in Expanded \/ receipt' => database' = "expanded"]_vars
  BY EndedTasksStay DEF ReleaseInv, MigrationInv, EvidenceIsTrue, Migrated
<1> QED
  BY <1>1, ReleaseInvHolds, PTL DEF Spec, MigratedOnceBeforeUse

=============================================================================
