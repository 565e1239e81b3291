----------------------------- MODULE SurveyCompute -----------------------------
(***************************************************************************)
(* Full surveys in "event" dispatch: no resident worker.  A control cycle  *)
(* (survey/control.py, serialized by a session lock) reserves an attempt   *)
(* for a job in survey_compute_attempts, launches it as one ECS task, and  *)
(* closes it when the task has stopped; the task (survey/one_shot.py)      *)
(* claims exactly that job and runs process_survey_job of SurveyQueue      *)
(* under the attempt's id.                                                 *)
(*                                                                         *)
(* The lease owners, Workers, are the ids of attempts here, numbered in    *)
(* the order in which they are drawn.  Surveys have been started before.   *)
(***************************************************************************)
EXTENDS SurveyQueue

CONSTANTS
    MaxComputeAttempts,   \* _MAX_COMPUTE_ATTEMPTS: tasks that may begin to execute a job
    ExtraArchiveAttempts  \* attempts beyond these for a job that is archiving, 8 in the code

Attempts == Workers
None == NoWorker

ASSUME ComputeConstants ==
    /\ Attempts \subseteq Nat
    /\ MaxComputeAttempts \in Nat
    /\ ExtraArchiveAttempts \in Nat
    /\ MaxRevision > 0  \* a survey that was started has a draft

VARIABLES
    attempt,   \* scholight.survey_compute_attempts, work_kind 'full'
    ecs,       \* what ECS knows of the task whose client token is the attempt's id
    control,   \* the control cycle: the attempt it has in hand and what it does with it
    deadline   \* survey_jobs.execution_deadline_at of a survey's job

computeVars == <<queueVars, attempt, ecs, control, deadline>>

Launchable == {"reserved", "launching", "launched"}
Working == Launchable \cup {"running"}  \* _ACTIVE_STATUSES
Closed == {"succeeded", "retryable", "failed"}
Stopped == {"zero", "error", "oom"}     \* by exit code and reason

\* "free": not inserted yet; "gone": removed with its job (ON DELETE CASCADE).
\* tracked: ecs_task_arn is set.  started: started_at is set.  high: the profile is
\* full-high-memory.  oom: failure_class is 'oom'.  due: next_launch_at has passed.
\* recorded: ecs_event_version is set.
Attempt == [status   : {"free", "gone"} \cup Working \cup Closed,
            survey   : Surveys \cup {NoSurveyId},
            tracked  : BOOLEAN,
            started  : BOOLEAN,
            high     : BOOLEAN,
            oom      : BOOLEAN,
            due      : BOOLEAN,
            recorded : BOOLEAN]
FreeAttempt == [status |-> "free", survey |-> NoSurveyId, tracked |-> FALSE, started |-> FALSE,
                high |-> FALSE, oom |-> FALSE, due |-> FALSE, recorded |-> FALSE]

Control == [pc      : {"idle", "run", "answered", "refused", "stop"},
            attempt : Attempts \cup {None},
            retry   : BOOLEAN]
IdleControl == [pc |-> "idle", attempt |-> None, retry |-> FALSE]
InHand(pc, a) == [pc |-> pc, attempt |-> a, retry |-> FALSE]

ComputeInit ==
    /\ survey \in [Surveys -> {[SurveyIn("queued", "reserved") EXCEPT !.notify = n] :
                                  n \in NotifyChoices}]
    /\ draft = [s \in Surveys |-> DraftIn("none", 1)]
    /\ job = [s \in Surveys |-> JobIn("queued")]
    /\ reserved = [l \in Ledgers |-> Cardinality({s \in Surveys : LedgerOf[s] = l})]
    /\ succeeded = [l \in Ledgers |-> 0]
    /\ notification = [s \in Surveys |-> NoNotification]
    /\ cleanup = {}
    /\ task = [a \in Attempts |-> IdleTask]
    /\ draftTask = [w \in DraftWorkers |-> IdleDraftTask]
    /\ workspace = {}
    /\ recovered = {}
    /\ attempt = [a \in Attempts |-> FreeAttempt]
    /\ ecs = [a \in Attempts |-> "none"]
    /\ control = IdleControl
    /\ deadline = [s \in Surveys |-> "none"]

Of(s) == {a \in Attempts : attempt[a].survey = s}
ActiveOf(s) == {a \in Of(s) : attempt[a].status \in Working}
StartedOf(s) == {a \in Of(s) : attempt[a].started}

-----------------------------------------------------------------------------
(* The control cycle: dispatch.                                            *)

\* Mutant of Occupied: an attempt takes a slot only when its task has claimed.
OccupiedByRunning == {a \in Attempts : attempt[a].status = "running"}

\* The attempts that count against the limits, whatever became of their leases.
Occupied == {a \in Attempts : attempt[a].status \in Working}

\* Mutant of Reservable: an expired lease is enough.
ReservableWhenExpired(s) ==
    /\ \/ job[s].status = "archiving" /\ Cardinality(Of(s)) < MaxComputeAttempts + ExtraArchiveAttempts
       \/ /\ job[s].status \in {"queued", "running"}
          /\ deadline[s] # "passed"
          /\ Cardinality(StartedOf(s)) < MaxComputeAttempts
    /\ job[s].lease # "live"

\* When the next archive attempt is due (next_archive_at) is not looked at.
Reservable(s) ==
    /\ \/ job[s].status = "archiving" /\ Cardinality(Of(s)) < MaxComputeAttempts + ExtraArchiveAttempts
       \/ /\ job[s].status \in {"queued", "running"}
          /\ deadline[s] # "passed"
          /\ Cardinality(StartedOf(s)) < MaxComputeAttempts
    /\ job[s].lease # "live"
    /\ ActiveOf(s) = {}

\* A fresh id: the ids drawn so far are those below it.
Fresh(a) == attempt[a].status = "free" /\ \A b \in Attempts : b < a => attempt[b].status # "free"

Reserve(s, a) ==
    /\ control = IdleControl
    /\ Cardinality(Occupied) < GlobalConcurrency
    /\ Cardinality({b \in Occupied : UserOf[attempt[b].survey] = UserOf[s]}) < PerUserConcurrency
    /\ Reservable(s)
    /\ Fresh(a)
    /\ attempt' = [attempt EXCEPT ![a] =
                     [FreeAttempt EXCEPT !.status = "reserved", !.survey = s, !.due = TRUE,
                                         !.high = \E b \in Of(s) : attempt[b].oom]]
    /\ UNCHANGED <<queueVars, ecs, control, deadline>>

MarkLaunching(a) ==
    /\ control = IdleControl
    /\ attempt[a].status \in {"reserved", "launching"}
    /\ attempt[a].due
    /\ attempt' = [attempt EXCEPT ![a].status = "launching"]
    /\ control' = InHand("run", a)
    /\ UNCHANGED <<queueVars, ecs, deadline>>

\* RunTask is idempotent in the client token.  It is refused, or accepted, and then
\* its answer may still be lost.
RunTask(a) ==
    /\ control = InHand("run", a)
    /\ \/ control' = InHand("refused", a) /\ UNCHANGED ecs
       \/ /\ \E pc \in {"answered", "refused"} : control' = InHand(pc, a)
          /\ ecs' = IF ecs[a] = "none" THEN [ecs EXCEPT ![a] = "pending"] ELSE ecs
    /\ UNCHANGED <<queueVars, attempt, deadline>>

\* A task may already run under the attempt: then nothing is recorded.
RecordLaunch(a) ==
    /\ control = InHand("answered", a)
    /\ attempt' = IF attempt[a].status \in Launchable
                  THEN [attempt EXCEPT ![a] = [@ EXCEPT !.status = "launched", !.tracked = TRUE]]
                  ELSE attempt
    /\ control' = IdleControl
    /\ UNCHANGED <<queueVars, ecs, deadline>>

RecordRefusal(a) ==
    /\ control = InHand("refused", a)
    /\ attempt' = IF attempt[a].status \in {"reserved", "launching"}
                  THEN [attempt EXCEPT ![a] = [@ EXCEPT !.status = "reserved", !.due = FALSE]]
                  ELSE attempt
    /\ control' = IdleControl
    /\ UNCHANGED <<queueVars, ecs, deadline>>

BackoffEnds(a) ==
    /\ attempt[a].status = "reserved"
    /\ ~attempt[a].due
    /\ attempt' = [attempt EXCEPT ![a].due = TRUE]
    /\ UNCHANGED <<queueVars, ecs, control, deadline>>

\* The function that runs the cycle dies, or a database error ends the cycle.
ControlStops ==
    /\ control # IdleControl
    /\ control' = IdleControl
    /\ UNCHANGED <<queueVars, attempt, ecs, deadline>>

-----------------------------------------------------------------------------
(* The task of an attempt: run_exact_job, then process_survey_job.         *)

ExactlyClaimable(a) ==
    LET s == attempt[a].survey
    IN  /\ attempt[a].status \in Launchable
        /\ job[s].lease # "live"
        /\ \/ job[s].status = "queued" /\ survey[s].status = "queued"
           \/ job[s].status = "running" /\ job[s].outcome = "none"
           \/ job[s].status = "archiving"

\* The run directory is restored from the last checkpoint, or created.
TaskClaims(a) ==
    LET s == attempt[a].survey
        archiving == job[s].status = "archiving"
    IN  /\ ecs[a] = "pending"
        /\ ExactlyClaimable(a)
        /\ ecs' = [ecs EXCEPT ![a] = "running"]
        /\ attempt' = [attempt EXCEPT ![a] = [@ EXCEPT !.status = "running", !.started = TRUE]]
        /\ job' = [job EXCEPT ![s] = [@ EXCEPT !.status = IF archiving THEN "archiving" ELSE "running",
                                               !.owner = a, !.lease = "live"]]
        /\ survey' = [survey EXCEPT ![s].status = IF archiving THEN @ ELSE "running"]
        /\ deadline' = [deadline EXCEPT ![s] = IF @ = "none" THEN "ahead" ELSE @]
        /\ SetTask(a, NewTask(s, IF archiving THEN "archive" ELSE "execute"))
        /\ workspace' = workspace \cup {<<HostOf[a], s>>}
        /\ UNCHANGED <<ledger, draft, notification, cleanup, draftTask, recovered, control>>

\* "not-claimed" is a clean exit.
TaskIsNotNeeded(a) ==
    /\ ecs[a] = "pending"
    /\ ~ExactlyClaimable(a)
    /\ ecs' = [ecs EXCEPT ![a] = "zero"]
    /\ UNCHANGED <<queueVars, attempt, control, deadline>>

\* The attempt and the job are renewed together.
TaskBeats(a) ==
    /\ ecs[a] = "running"
    /\ \/ attempt[a].status = "running" /\ WorkerBeats(a)
       \/ /\ attempt[a].status # "running"
          /\ task[a].beat
          /\ SetTask(a, [task[a] EXCEPT !.beat = FALSE, !.lost = TRUE])
          /\ UNCHANGED <<tables, draftTask, workspace, recovered>>
    /\ UNCHANGED <<attempt, ecs, control, deadline>>

TaskGivesUpLease(a) ==
    /\ ecs[a] = "running"
    /\ WorkerGivesUpLease(a)
    /\ UNCHANGED <<attempt, ecs, control, deadline>>

\* When process_survey_job returns, whatever for, the container exits with 0.
TaskProceeds(a) ==
    /\ ecs[a] = "running"
    /\ \/ WorkerExecutes(a) \/ WorkerSettles(a) \/ WorkerOpensArchive(a)
       \/ WorkerFinishesArchive(a) \/ WorkerDefersArchive(a) \/ WorkerFindsArchiveLost(a)
       \/ WorkerSweepsWorkspace(a)
    /\ ecs' = IF task'[a] = IdleTask THEN [ecs EXCEPT ![a] = "zero"] ELSE ecs
    /\ UNCHANGED <<attempt, control, deadline>>

\* The task cannot be started, dies, is stopped or killed, or raises.  Its disk is
\* never looked at again.
TaskFails(a) ==
    /\ \/ ecs[a] \in {"pending", "running"} /\ ecs' = [ecs EXCEPT ![a] = "error"]
       \/ ecs[a] = "running" /\ ecs' = [ecs EXCEPT ![a] = "oom"]
    /\ Ends(a)
    /\ UNCHANGED <<tables, draftTask, workspace, recovered, attempt, control, deadline>>

-----------------------------------------------------------------------------
(* The control cycle: stopped tasks.  A STOPPED event names its task, may  *)
(* come late, repeatedly or never; reconcile asks ECS about the attempts   *)
(* that are launched or running.  Either way the attempt is found by the   *)
(* task's ARN.                                                             *)

\* "... WHERE id = $1 AND lease_owner = $2"
ReleaseClaim(s, a) ==
    /\ job' = IF job[s].owner = a
              THEN [job EXCEPT ![s] = [@ EXCEPT !.owner = NoWorker, !.lease = "none"]]
              ELSE job
    /\ UNCHANGED <<ledger, survey, draft, notification, cleanup>>

\* Mutant of CloseCleanExit: an exit that left the job unfinished is not taken for an end.
CloseCleanExitWhenFinished(a) ==
    /\ job[attempt[a].survey].status = "finished"
    /\ attempt' = [attempt EXCEPT ![a] = [@ EXCEPT !.status = "succeeded", !.recorded = TRUE]]
    /\ UNCHANGED tables

CloseCleanExit(a) ==
    LET s == attempt[a].survey
        finished == job[s].status = "finished"
    IN  /\ attempt' = [attempt EXCEPT ![a] =
                         [@ EXCEPT !.status = IF finished THEN "succeeded" ELSE "retryable",
                                   !.recorded = TRUE]]
        /\ IF finished THEN UNCHANGED tables ELSE ReleaseClaim(s, a)

CleanExitIsSeen(a) ==
    /\ control = IdleControl
    /\ ecs[a] = "zero"
    /\ attempt[a].tracked
    /\ ~attempt[a].recorded
    /\ CloseCleanExit(a)
    /\ UNCHANGED <<task, draftTask, workspace, recovered, ecs, control, deadline>>

\* Mutant of FailExhausted: the settlement is made in the name of whoever owns the job.
FailExhaustedUnfenced(s, a) ==
    IF job[s].status = "running" /\ job[s].owner # NoWorker
    THEN SettleExecution(s, job[s].owner, "failed", "other", FALSE)
    ELSE UNCHANGED tables

\* handle_stopped_event settles the job as failed if the attempt still owns it.
FailExhausted(s, a) ==
    IF job[s].status = "running" /\ job[s].owner = a
    THEN SettleExecution(s, a, "failed", "other", FALSE)
    ELSE UNCHANGED tables

\* The number of started attempts is read, and the job settled if it is used up, before
\* the event's version is compared with the recorded one.
FailureIsSeen(a) ==
    LET s == attempt[a].survey
        retry == /\ Cardinality(StartedOf(s)) < MaxComputeAttempts
                 /\ ~(ecs[a] = "oom" /\ attempt[a].high)
    IN  /\ control = IdleControl
        /\ ecs[a] \in {"error", "oom"}
        /\ attempt[a].tracked
        /\ IF retry THEN UNCHANGED tables ELSE FailExhausted(s, a)
        /\ control' = [pc |-> "stop", attempt |-> a, retry |-> retry]
        /\ UNCHANGED <<task, draftTask, workspace, recovered, attempt, ecs, deadline>>

\* Of the events with one version the first is recorded.
RecordFailure(a) ==
    /\ control.pc = "stop"
    /\ control.attempt = a
    /\ IF attempt[a].status = "gone" \/ attempt[a].recorded
       THEN UNCHANGED <<attempt, tables>>
       ELSE /\ attempt' = [attempt EXCEPT ![a] =
                             [@ EXCEPT !.status = IF control.retry THEN "retryable" ELSE "failed",
                                       !.oom = ecs[a] = "oom", !.recorded = TRUE]]
            /\ ReleaseClaim(attempt[a].survey, a)
    /\ control' = IdleControl
    /\ UNCHANGED <<task, draftTask, workspace, recovered, ecs, deadline>>

-----------------------------------------------------------------------------
(* Users and clocks.                                                       *)

\* A job that is removed takes its attempts with it.
OwnerStep(s) ==
    /\ CancelSurvey(s) \/ DeleteSurvey(s)
    /\ attempt' = IF job'[s].status = "absent"
                  THEN [a \in Attempts |-> IF a \in Of(s) THEN [FreeAttempt EXCEPT !.status = "gone"]
                                                          ELSE attempt[a]]
                  ELSE attempt
    /\ UNCHANGED <<task, draftTask, workspace, recovered, ecs, control, deadline>>

LeaseExpires(s) ==
    /\ JobLeaseExpires(s)
    /\ UNCHANGED <<task, draftTask, workspace, recovered, attempt, ecs, control, deadline>>

DeadlinePasses(s) ==
    /\ deadline[s] = "ahead"
    /\ deadline' = [deadline EXCEPT ![s] = "passed"]
    /\ UNCHANGED <<queueVars, attempt, ecs, control>>

ComputeNext ==
    \/ \E s \in Surveys : \/ OwnerStep(s) \/ LeaseExpires(s) \/ DeadlinePasses(s)
                          \/ \E a \in Attempts : Reserve(s, a)
    \/ \E a \in Attempts :
         \/ MarkLaunching(a) \/ RunTask(a) \/ RecordLaunch(a) \/ RecordRefusal(a) \/ BackoffEnds(a)
         \/ TaskClaims(a) \/ TaskIsNotNeeded(a) \/ TaskBeats(a) \/ TaskGivesUpLease(a)
         \/ TaskProceeds(a) \/ TaskFails(a)
         \/ CleanExitIsSeen(a) \/ FailureIsSeen(a) \/ RecordFailure(a)
    \/ ControlStops

ComputeSpec == ComputeInit /\ [][ComputeNext]_computeVars

StopIsSeen(a) == CleanExitIsSeen(a) \/ (~attempt[a].recorded /\ FailureIsSeen(a))

ControlGoesOn ==
    \/ \E a \in Attempts : RunTask(a) \/ RecordLaunch(a) \/ RecordRefusal(a) \/ RecordFailure(a)
    \/ ControlStops

\* The cycle runs every minute and comes to an end; a stopped task that is tracked is
\* looked at again in every cycle, a reservable job likewise, and not every cycle dies.
ComputeFairness ==
    /\ WF_computeVars(ControlGoesOn)
    /\ \A a \in Attempts : SF_computeVars(StopIsSeen(a)) /\ SF_computeVars(RecordFailure(a))
    /\ \A s \in Surveys : SF_computeVars(\E a \in Attempts : Reserve(s, a))

ComputeFairSpec == ComputeSpec /\ ComputeFairness

-----------------------------------------------------------------------------
(* Properties.                                                             *)

\* The tasks that work on a job, as ECS sees them.
AtWork == {a \in Attempts : task[a].pc \in {"execute", "settle", "archive", "upload"}}

\* README: "PostgreSQL enforces the global and per-user limits atomically across every
\* task".  In this mode it does, for the tasks that really run: an attempt keeps its slot
\* until its task has stopped, whether or not its lease has expired.
TasksWithinLimits ==
    /\ Cardinality(AtWork) <= GlobalConcurrency
    /\ \A u \in Users :
         Cardinality({a \in AtWork : UserOf[task[a].survey] = u}) <= PerUserConcurrency

\* No two tasks work on one job, whatever leases expire, answers of RunTask get lost or
\* events come late; the unique index on the active attempts of a job is never tripped.
OneTaskPerJob ==
    /\ \A a, b \in AtWork : task[a].survey = task[b].survey => a = b
    /\ \A s \in Surveys : \A a, b \in ActiveOf(s) : a = b

\* A late, repeated or reordered report of a stopped task changes the job only if that
\* task's attempt still owns it; the successor's work is never settled or released.
LateStopIsHarmless ==
    [][\A a \in Attempts, s \in Surveys :
         /\ control' # control
         /\ "stop" \in {control.pc, control'.pc}
         /\ a \in {control.attempt, control'.attempt}
         /\ job[s].owner # a
         => job'[s] = job[s]]_computeVars

\* Every step is a step of the life cycle that SurveyQueue implements in the other mode.
StepsOfLifecycle == [][Lifecycle!Next]_(Lifecycle!vars)

\* reconcile: "Recover STOPPED tasks even when their EventBridge event was missed", for
\* the attempts whose launch was recorded.
TrackedStopIsRecorded ==
    \A a \in Attempts :
        (attempt[a].tracked /\ ecs[a] \in Stopped) ~> attempt[a].status \notin Working

=============================================================================
