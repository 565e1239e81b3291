---------------------------- MODULE ReleaseAdmission ---------------------------
(***************************************************************************)
(* Releases of the personal deployment (scripts/personal_apply.py,         *)
(* scripts/release_admission.py) and its private migrations                *)
(* (scripts/personal_migration.py).  Metadata and ingestion workers are    *)
(* started by an admission controller on the host, from registrations that *)
(* belong to the stack of the runtime.  A release pauses the               *)
(* registrations, waits for the controller and for the workers, changes    *)
(* the stack, and resumes.  Its journal on S3 lets a dead one be run       *)
(* again; other operations may have come in between.                       *)
(*                                                                         *)
(* One operation runs at a time: the workflow has one concurrency group.   *)
(* CloudFormation, ECS and the controller are external.  The two flags     *)
(* (MetadataEnabled, IngestEnabled) are changed together and are one here. *)
(***************************************************************************)
EXTENDS Naturals, FiniteSets

CONSTANTS
    Manifests,  \* release manifests
    Current,    \* the one that is deployed at first
    Expanded,   \* those whose source has the migration that the others lack
    Legacy,     \* those of version 1
    Releases,   \* planned change sets
    NoRelease

ASSUME ReleaseConstants ==
    /\ Current \in Manifests \ Expanded
    /\ Expanded \subseteq Manifests /\ Legacy \subseteq Manifests
    /\ NoRelease \notin Releases \cup Expanded
    /\ Releases \cap Expanded = {}

VARIABLES
    stack,      \* sanchezcloud-scholight-personal-runtime
    executed,   \* names of the change sets that have been executed and are still known
    ctl,        \* what the admission controller has loaded last
    workers,    \* the manifests of the background tasks that have not stopped
    plan,       \* plan.json of each release
    journal,    \* the other checkpoints of each release
    migration,  \* checkpoints and task of the migration to each expanded manifest
    database,   \* "plain" or "expanded"
    receipt,    \* migration.json of the expanded contract exists
    op          \* the operation that runs: at what place and for whom

vars == <<stack, executed, ctl, workers, plan, journal, migration, database, receipt, op>>

NoPlan == [manifest |-> Current, enabled |-> FALSE, required |-> FALSE, state |-> "none"]
NoMigration == [started |-> FALSE, definition |-> "none", task |-> "none", recorded |-> FALSE]
NoOp == [pc |-> "none", id |-> NoRelease]

\* A registration tells the flag and the task definition together.
Registered(values, current) ==
    [runtime |-> values.runtime, enabled |-> values.enabled, current |-> current]

\* pending: what an update in progress will have written.  ok: the last one has not been
\* rolled back.
Init ==
    /\ stack \in {[runtime |-> Current, enabled |-> e, busy |-> FALSE, ok |-> TRUE,
                   pending |-> [runtime |-> Current, enabled |-> e]] : e \in BOOLEAN}
    /\ executed = {}
    /\ ctl = Registered(stack, TRUE)
    /\ workers = {}
    /\ plan = [r \in Releases |-> NoPlan]
    /\ journal = [r \in Releases |-> [marks |-> {}, previous |-> Current]]
    /\ migration = [m \in Expanded |-> NoMigration]
    /\ database = "plain"
    /\ receipt = FALSE
    /\ op = NoOp

At(pc) == op.pc = pc
Goes(pc) == op' = [op EXCEPT !.pc = pc]
Raises == op' = NoOp
Records(r, mark) == journal' = [journal EXCEPT ![r].marks = @ \cup {mark}]

-----------------------------------------------------------------------------
(* The environment.                                                        *)

\* An update ends, or is rolled back.  Registrations get a new version in both cases.
UpdateEnds ==
    /\ stack.busy
    /\ \/ stack' = [stack EXCEPT !.busy = FALSE, !.ok = TRUE,
                                 !.runtime = stack.pending.runtime, !.enabled = stack.pending.enabled]
       \/ stack' = [stack EXCEPT !.busy = FALSE, !.ok = FALSE]
    /\ ctl' = [ctl EXCEPT !.current = FALSE]
    /\ UNCHANGED <<executed, workers, plan, journal, migration, database, receipt, op>>

\* The controller loads the registrations, perhaps amid an update.
ControllerLoads ==
    /\ \/ ctl' = Registered(stack, ~stack.busy)
       \/ stack.busy /\ ctl' = Registered(stack.pending, FALSE)
    /\ UNCHANGED <<stack, executed, workers, plan, journal, migration, database, receipt, op>>

ControllerStartsWorker ==
    /\ ctl.enabled
    /\ workers' = workers \cup {ctl.runtime}
    /\ UNCHANGED <<stack, executed, ctl, plan, journal, migration, database, receipt, op>>

WorkerStops ==
    /\ \E m \in workers : workers' = workers \ {m}
    /\ UNCHANGED <<stack, executed, ctl, plan, journal, migration, database, receipt, op>>

MigrationTaskEnds ==
    /\ \E m \in Expanded :
         /\ migration[m].task = "running"
         /\ \/ /\ migration' = [migration EXCEPT ![m] = [@ EXCEPT !.task = "done"]]
               /\ database' = "expanded"
            \/ /\ migration' = [migration EXCEPT ![m] = [@ EXCEPT !.task = "failed"]]
               /\ UNCHANGED database
    /\ UNCHANGED <<stack, executed, ctl, workers, plan, journal, receipt, op>>

\* The job is cancelled, runs into one of its time limits or meets an error of AWS.
OperationDies ==
    /\ op # NoOp
    /\ Raises
    /\ UNCHANGED <<stack, executed, ctl, workers, plan, journal, migration, database, receipt>>

-----------------------------------------------------------------------------
(* Changing the stack.                                                     *)

\* execute_change_set: all other change sets of the stack are void, and CloudFormation may
\* forget the ones that were executed before.
Executes(name, target) ==
    /\ stack' = [stack EXCEPT !.busy = TRUE, !.pending = target]
    /\ executed' \in {executed \cup {name}, {name}}
    /\ plan' = [r \in Releases |-> IF plan[r].state = "open" THEN [plan[r] EXCEPT !.state = "void"]
                                                             ELSE plan[r]]

\* change_background, up to the execution: nothing is to be done, or the change set of this
\* stage is created (or found, if it was not executed) and executed; a second execution is
\* refused.  A change set that was only created leaves no trace: it is found or created again.
ChangeBackground(stage, enabled, wait, then) ==
    /\ ~stack.busy
    /\ IF stack.enabled = enabled
       THEN Goes(then) /\ UNCHANGED <<stack, executed, plan>>
       ELSE IF <<op.id, stage>> \in executed
       THEN Raises /\ UNCHANGED <<stack, executed, plan>>
       ELSE /\ Executes(<<op.id, stage>>, [runtime |-> stack.runtime, enabled |-> enabled])
            /\ Goes(wait)

\* wait_stack.
WaitStack(pc, then) ==
    /\ At(pc)
    /\ ~stack.busy
    /\ IF stack.ok THEN Goes(then) ELSE Raises
    /\ UNCHANGED <<stack, executed, ctl, workers, plan, journal, migration, database, receipt>>

\* Mutant of Acknowledged: the stack is believed, not the controller.
AcknowledgedUnseen == ~stack.busy

\* acknowledged: the controller has loaded what the stack says now.
Acknowledged == ctl.current /\ ~stack.busy

WaitAck(pc, then) ==
    /\ At(pc)
    /\ Acknowledged
    /\ Goes(then)
    /\ UNCHANGED <<stack, executed, ctl, workers, plan, journal, migration, database, receipt>>

WaitDrained(pc, then) ==
    /\ At(pc)
    /\ workers = {}
    /\ Goes(then)
    /\ UNCHANGED <<stack, executed, ctl, workers, plan, journal, migration, database, receipt>>

-----------------------------------------------------------------------------
(* personal_apply: plan and apply.                                         *)

\* release_parameters: a legacy manifest disables ingestion; otherwise the flags stay, or
\* both are set on request.
Flags(m) == IF m \in Legacy THEN {FALSE} ELSE {stack.enabled, TRUE}

\* expansion_required: of the images that are deployed now.
ExpansionRequired(m) == m \in Expanded /\ stack.runtime \notin Expanded

Plan(r) ==
    /\ op = NoOp
    /\ plan[r].state = "none"
    /\ ~stack.busy /\ stack.ok
    /\ \E m \in Manifests : \E e \in Flags(m) :
         plan' = [plan EXCEPT ![r] = [manifest |-> m, enabled |-> e,
                                      required |-> ExpansionRequired(m), state |-> "open"]]
    /\ UNCHANGED <<stack, executed, ctl, workers, journal, migration, database, receipt, op>>

\* guard_plan, require_migration_receipt: nobody has changed the runtime since.
Guarded(r) == plan[r].state = "open" /\ (plan[r].required => receipt)

\* apply of a release that has not begun: its context is recorded.
Start(r) ==
    /\ op = NoOp
    /\ plan[r].state # "none"
    /\ journal[r].marks = {}
    /\ Guarded(r)
    /\ ~stack.busy /\ stack.ok
    /\ journal' = [journal EXCEPT ![r] = [marks |-> {"start"}, previous |-> stack.runtime]]
    /\ op' = [pc |-> "pause", id |-> r]
    /\ UNCHANGED <<stack, executed, ctl, workers, plan, migration, database, receipt>>

\* apply of a release that has a context.
Resume(r) ==
    /\ op = NoOp
    /\ "start" \in journal[r].marks
    /\ "complete" \notin journal[r].marks
    /\ op' = [pc |-> IF "runtime" \notin journal[r].marks THEN "pause"
                     ELSE IF "revisions" \notin journal[r].marks THEN "revisions" ELSE "resume",
              id |-> r]
    /\ UNCHANGED <<stack, executed, ctl, workers, plan, journal, migration, database, receipt>>

PauseForRelease ==
    /\ At("pause")
    /\ ChangeBackground("pause", FALSE, "pauseWait", "ack")
    /\ UNCHANGED <<ctl, workers, journal, migration, database, receipt>>

\* guard_candidate_state: the runtime this release has started from, or its own, paused.
AllowedState(r) == ~stack.enabled /\ stack.runtime \in {journal[r].previous, plan[r].manifest}

\* apply_candidate: an update without changes, or one that has been executed and is in
\* effect, is done.
ApplyCandidate ==
    /\ At("apply")
    /\ ~stack.busy
    /\ LET r == op.id
           m == plan[op.id].manifest
       IN IF ~AllowedState(r) THEN Raises /\ UNCHANGED <<stack, executed, plan>>
          ELSE IF stack.runtime = m THEN Goes("applied") /\ UNCHANGED <<stack, executed, plan>>
          ELSE IF <<r, "runtime">> \in executed THEN Raises /\ UNCHANGED <<stack, executed, plan>>
          ELSE Executes(<<r, "runtime">>, [runtime |-> m, enabled |-> FALSE]) /\ Goes("runtimeWait")
    /\ UNCHANGED <<ctl, workers, journal, migration, database, receipt>>

RecordRuntime ==
    /\ At("applied")
    /\ Records(op.id, "runtime")
    /\ Goes("revisions")
    /\ UNCHANGED <<stack, executed, ctl, workers, plan, migration, database, receipt>>

ReviseRegistrations ==
    /\ At("revisions")
    /\ ChangeBackground("revisions", FALSE, "revisionsWait", "revised")
    /\ UNCHANGED <<ctl, workers, journal, migration, database, receipt>>

RecordRevisions ==
    /\ At("revised")
    /\ Records(op.id, "revisions")
    /\ Goes("resume")
    /\ UNCHANGED <<stack, executed, ctl, workers, plan, migration, database, receipt>>

ResumeRegistrations ==
    /\ At("resume")
    /\ ChangeBackground("resume", plan[op.id].enabled, "resumeWait", "resumeAck")
    /\ UNCHANGED <<ctl, workers, journal, migration, database, receipt>>

RecordComplete ==
    /\ At("complete")
    /\ Records(op.id, "complete")
    /\ Raises
    /\ UNCHANGED <<stack, executed, ctl, workers, plan, migration, database, receipt>>

Release ==
    \/ \E r \in Releases : Plan(r) \/ Start(r) \/ Resume(r)
    \/ PauseForRelease \/ WaitStack("pauseWait", "ack") \/ WaitAck("ack", "drain") \/ WaitDrained("drain", "apply")
    \/ ApplyCandidate \/ WaitStack("runtimeWait", "applied") \/ RecordRuntime
    \/ ReviseRegistrations \/ WaitStack("revisionsWait", "revised") \/ RecordRevisions
    \/ ResumeRegistrations \/ WaitStack("resumeWait", "resumeAck") \/ WaitAck("resumeAck", "complete")
    \/ RecordComplete

-----------------------------------------------------------------------------
(* personal_migration.                                                     *)

\* A migration that is certified already is not run; one that has begun goes on.
StartMigration(m) ==
    /\ op = NoOp
    /\ ~receipt
    /\ migration[m].started \/ (~stack.busy /\ stack.ok)
    /\ migration' = [migration EXCEPT ![m] = [@ EXCEPT !.started = TRUE]]
    /\ op' = [pc |-> "migrationPause", id |-> m]
    /\ UNCHANGED <<stack, executed, ctl, workers, plan, journal, database, receipt>>

PauseForMigration ==
    /\ At("migrationPause")
    /\ ChangeBackground("migrationPause", FALSE, "migrationPauseWait", "migrationAck")
    /\ UNCHANGED <<ctl, workers, journal, migration, database, receipt>>

\* The candidate definition is registered and the intent to launch it recorded, once.
RegisterMigration ==
    /\ At("launch")
    /\ ~migration[op.id].recorded
    /\ migration[op.id].definition = "none"
    /\ migration' = [migration EXCEPT ![op.id] = [@ EXCEPT !.definition = "registered"]]
    /\ UNCHANGED <<stack, executed, ctl, workers, plan, journal, database, receipt, op>>

\* Mutant of Launched: the token is drawn anew for every call.
LaunchedAgain(task) == "running"

\* run_task: one task per token.
Launched(task) == IF task = "none" THEN "running" ELSE task

\* A call that fails deregisters the definition, which stays in the intent.
RunMigration ==
    /\ At("launch")
    /\ ~migration[op.id].recorded
    /\ \/ /\ migration[op.id].definition = "registered"
          /\ migration' = [migration EXCEPT ![op.id].task = Launched(@)]
          /\ Goes("launched")
       \/ /\ migration[op.id].definition # "none"
          /\ migration' = [migration EXCEPT ![op.id] = [@ EXCEPT !.definition = "deregistered"]]
          /\ Raises
    /\ UNCHANGED <<stack, executed, ctl, workers, plan, journal, database, receipt>>

RecordMigrationTask ==
    /\ At("launched") \/ (At("launch") /\ migration[op.id].recorded)
    /\ migration' = [migration EXCEPT ![op.id] = [@ EXCEPT !.recorded = TRUE]]
    /\ Goes("certify")
    /\ UNCHANGED <<stack, executed, ctl, workers, plan, journal, database, receipt>>

\* Mutant of MayCertify: the exit code is not looked at.
MayCertifyStopped(task) == task \in {"done", "failed"}

MayCertify(task) == task = "done"

CertifyMigration ==
    /\ At("certify")
    /\ migration[op.id].task # "running"
    /\ receipt' = (receipt \/ MayCertify(migration[op.id].task))
    /\ Raises
    /\ UNCHANGED <<stack, executed, ctl, workers, plan, journal, migration, database>>

Migrate ==
    \/ \E m \in Expanded : StartMigration(m)
    \/ PauseForMigration \/ WaitStack("migrationPauseWait", "migrationAck")
    \/ WaitAck("migrationAck", "migrationDrain") \/ WaitDrained("migrationDrain", "launch")
    \/ RegisterMigration \/ RunMigration \/ RecordMigrationTask \/ CertifyMigration

Environment ==
    \/ UpdateEnds \/ ControllerLoads \/ ControllerStartsWorker \/ WorkerStops
    \/ MigrationTaskEnds \/ OperationDies

Next == Release \/ Migrate \/ Environment

Spec == Init /\ [][Next]_vars

-----------------------------------------------------------------------------
(* Properties.                                                             *)

\* "A release must observe the actual controller pause and actual task termination"
\* (tests/deploy/test_release_admission.py): no background task of one release runs beside
\* the runtime of another, whatever was interrupted and run again.
WorkersAreCurrent == workers \subseteq {stack.runtime}

\* A migration runs one task, whatever answers are lost and however often it is resumed,
\* and it has been done before a runtime is deployed that reads its tables and before its
\* receipt is written.
MigratedOnceBeforeUse ==
    [][/\ \A m \in Expanded : migration[m].task \in {"done", "failed"} =>
                              migration'[m].task = migration[m].task
       /\ stack'.runtime \in Expanded \/ receipt' => database' = "expanded"]_vars

=============================================================================
