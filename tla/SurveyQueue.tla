------------------------------ MODULE SurveyQueue ------------------------------
(***************************************************************************)
(* The Survey subsystem with resident workers ("legacy" dispatch): users,  *)
(* job workers (survey/worker.py), draft workers (survey/draft_worker.py), *)
(* the recovery sweeps of their supervisors, the email worker and the      *)
(* operator, all of them clients of the transactions of SurveyStore.       *)
(*                                                                         *)
(* A worker here is one claim slot of a supervisor: the code gives every   *)
(* claim a fresh worker_id, and a slot claims again only when its previous *)
(* task has returned or died, so the slot can stand for the id.  The slots *)
(* of one supervisor share its host's disk and die with it.                *)
(***************************************************************************)
EXTENDS SurveyStore

CONSTANTS
    Hosts, HostOf,  \* a host runs one supervisor
    DurableHosts,   \* those whose data_root outlives the supervisor
    NotifyChoices,  \* notify_on_completion, as users may set it
    Reports,        \* what executions may report, of Results
    NoSurveyId

Results == {"clean", "degraded", "contract", "broken", "cancelled"}

ASSUME QueueConstants ==
    /\ NotifyChoices \subseteq BOOLEAN
    /\ Reports \subseteq Results
    /\ HostOf \in [Workers -> Hosts]
    /\ DurableHosts \subseteq Hosts
    /\ NoSurveyId \notin Surveys

VARIABLES
    task,       \* of a worker: the asyncio task running process_survey_job
    draftTask,  \* of a draft worker: the task running process_survey_draft
    workspace,  \* <<host, survey>> pairs whose run directory exists
    recovered   \* history: surveys that an operator turned from failed to succeeded

queueVars == <<tables, task, draftTask, workspace, recovered>>

-----------------------------------------------------------------------------
(* What an execution reports: SurveyExecutionResult.                       *)

OutcomeOf(r) == CASE r \in {"clean", "degraded"} -> "succeeded"
                  [] r \in {"contract", "broken"} -> "failed"
                  [] OTHER -> "cancelled"
ErrorOf(r) == CASE r \in {"degraded", "contract"} -> r
                [] r = "broken" -> "other"
                [] OTHER -> "none"
ChargeableResult(r) == r # "degraded"

\* pc "start" is before the run directory exists, "execute" runs RCM, "settle" holds
\* its result, "archive" is before and "upload" inside _archive, "sweep" is between
\* the final commit and rmtree.
\* beat: the heartbeat loop runs.  lost, stop: ProcessControl's two events.
Task == [pc     : {"idle", "start", "execute", "settle", "archive", "upload", "sweep"},
         survey : Surveys \cup {NoSurveyId},
         result : Results \cup {"none"},
         beat   : BOOLEAN,
         lost   : BOOLEAN,
         stop   : BOOLEAN]
IdleTask == [pc |-> "idle", survey |-> NoSurveyId, result |-> "none",
             beat |-> FALSE, lost |-> FALSE, stop |-> FALSE]
NewTask(s, pc) == [IdleTask EXCEPT !.pc = pc, !.survey = s, !.beat = TRUE]

\* lost: the heartbeat of the draft has found the lease gone.
DraftTask == [survey : Surveys \cup {NoSurveyId}, lost : BOOLEAN]
IdleDraftTask == [survey |-> NoSurveyId, lost |-> FALSE]

Init ==
    /\ StoreInit
    /\ task = [w \in Workers |-> IdleTask]
    /\ draftTask = [w \in DraftWorkers |-> IdleDraftTask]
    /\ workspace = {}
    /\ recovered = {}

-----------------------------------------------------------------------------
(* Actors that have no state of their own.                                 *)

UserStep(s) ==
    /\ \/ CreateSurvey(s)
       \/ RequestGeneratedDraft(s)
       \/ CreateManualDraft(s)
       \/ \E notify \in NotifyChoices : StartSurvey(s, notify)
       \/ CancelSurvey(s)
       \/ DeleteSurvey(s)
    /\ UNCHANGED <<task, draftTask, workspace, recovered>>

\* The supervisors' periodic sweeps.  The code sweeps up to 20 rows in one
\* transaction; the rows are independent, so each is a step here.
SweepStep(s) ==
    /\ RecoverExpiredJob(s) \/ RecoverExpiredDraft(s)
    /\ UNCHANGED <<task, draftTask, workspace, recovered>>

ClockStep(s) ==
    /\ JobLeaseExpires(s) \/ DraftLeaseExpires(s) \/ ArchiveBecomesDue(s)
    /\ UNCHANGED <<task, draftTask, workspace, recovered>>

EmailStep(s) ==
    /\ ClaimNotification(s) \/ CloseNotification(s) \/ RetryNotification(s)
    /\ UNCHANGED <<task, draftTask, workspace, recovered>>

OperatorStep(s) ==
    /\ \/ /\ \E manifest \in {"original", "overlay"} : RecoverContractFailure(s, manifest)
          /\ recovered' = recovered \cup {s}
       \/ RepairDegradedEvidence(s) /\ UNCHANGED recovered
    /\ UNCHANGED <<task, draftTask, workspace>>

-----------------------------------------------------------------------------
(* Draft workers.                                                          *)

DraftWorkerClaims(w, s) ==
    /\ draftTask[w] = IdleDraftTask
    /\ ClaimDraft(s, w)
    /\ draftTask' = [draftTask EXCEPT ![w].survey = s]
    /\ UNCHANGED <<task, workspace, recovered>>

DraftWorkerBeats(w) ==
    LET s == draftTask[w].survey
    IN  /\ s # NoSurveyId
        /\ ~draftTask[w].lost
        /\ \/ HeartbeatDraft(s, w) /\ UNCHANGED draftTask
           \/ /\ ~OwnsDraft(s, w)
              /\ draftTask' = [draftTask EXCEPT ![w].lost = TRUE]
              /\ UNCHANGED tables
        /\ UNCHANGED <<task, workspace, recovered>>

\* Generation returned and the result is stored; a task that has lost its lease, or
\* whose transaction finds so, stores nothing; neither does one that died.
DraftWorkerReturns(w) ==
    LET s == draftTask[w].survey
    IN  /\ s # NoSurveyId
        /\ \/ ~draftTask[w].lost /\ (CompleteDraft(s, w) \/ FailDraft(s, w))
           \/ UNCHANGED tables
        /\ draftTask' = [draftTask EXCEPT ![w] = IdleDraftTask]
        /\ UNCHANGED <<task, workspace, recovered>>

-----------------------------------------------------------------------------
(* Job workers: process_survey_job, step by step.                          *)

SetTask(w, t) == task' = [task EXCEPT ![w] = t]
Ends(w) == SetTask(w, IdleTask)

WorkerClaims(w, s) ==
    /\ task[w].pc = "idle"
    /\ ClaimJob(s, w)
    /\ SetTask(w, NewTask(s, IF job[s].status = "queued" THEN "start" ELSE "archive"))
    /\ UNCHANGED <<draftTask, workspace, recovered>>

WorkerStarts(w) ==
    /\ task[w].pc = "start"
    /\ SetTask(w, [task[w] EXCEPT !.pc = "execute"])
    /\ workspace' = workspace \cup {<<HostOf[w], task[w].survey>>}
    /\ UNCHANGED <<tables, draftTask, recovered>>

\* The loop ends when it has seen a cancellation, and so does the renewal of the lease.
WorkerBeats(w) ==
    LET s == task[w].survey
    IN  /\ task[w].beat
        /\ \/ /\ HeartbeatJob(s, w)
              /\ IF job[s].cancel
                 THEN SetTask(w, [task[w] EXCEPT !.beat = FALSE, !.stop = TRUE])
                 ELSE UNCHANGED task
           \/ /\ ~OwnsJob(s, w)
              /\ SetTask(w, [task[w] EXCEPT !.beat = FALSE, !.lost = TRUE])
              /\ UNCHANGED tables
        /\ UNCHANGED <<draftTask, workspace, recovered>>

\* The database was out of reach for a whole lease since the last renewal.
WorkerGivesUpLease(w) ==
    /\ task[w].beat
    /\ ~(OwnsJob(task[w].survey, w) /\ job[task[w].survey].lease = "live")
    /\ SetTask(w, [task[w] EXCEPT !.beat = FALSE, !.lost = TRUE])
    /\ UNCHANGED <<tables, draftTask, workspace, recovered>>

\* execute_survey returns a result, "cancelled" only when it was stopped.
WorkerExecutes(w) ==
    /\ task[w].pc = "execute"
    /\ IF task[w].lost
       THEN Ends(w)
       ELSE \E r \in Reports :
              /\ r = "cancelled" => task[w].stop
              /\ SetTask(w, [task[w] EXCEPT !.pc = "settle", !.result = r])
    /\ UNCHANGED <<tables, draftTask, workspace, recovered>>

\* The loss of the lease was checked before: only the transaction checks it now.
WorkerSettles(w) ==
    LET s == task[w].survey
        r == task[w].result
        outcome == OutcomeOf(r)
    IN  /\ task[w].pc = "settle"
        /\ \/ /\ SettleExecution(s, w, outcome, ErrorOf(r), ChargeableResult(r))
              /\ SetTask(w, [task[w] EXCEPT !.pc = "archive", !.result = "none"])
           \/ /\ AlreadySettled(s, outcome)
              /\ SetTask(w, [task[w] EXCEPT !.pc = "archive", !.result = "none"])
              /\ UNCHANGED tables
           \/ /\ ~AlreadySettled(s, outcome)
              /\ ~(job[s].status = "running" /\ job[s].owner = w)
              /\ Ends(w)
              /\ UNCHANGED tables
        /\ UNCHANGED <<draftTask, workspace, recovered>>

\* _archive looks for the run directory on this host before it uploads.
WorkerOpensArchive(w) ==
    LET s == task[w].survey
        here == <<HostOf[w], s>>
    IN  /\ task[w].pc = "archive"
        /\ \/ /\ task[w].lost
              /\ Ends(w)
              /\ UNCHANGED <<tables, workspace>>
           \/ /\ ~task[w].lost
              /\ here \in workspace
              /\ SetTask(w, [task[w] EXCEPT !.pc = "upload"])
              /\ UNCHANGED <<tables, workspace>>
           \/ /\ ~task[w].lost
              /\ here \notin workspace
              /\ MarkWorkspaceMissing(s, w)
              /\ SetTask(w, [task[w] EXCEPT !.pc = "upload"])
              /\ workspace' = workspace \cup {here}
           \/ /\ ~task[w].lost
              /\ here \notin workspace
              /\ ~OwnsArchive(s, w)
              /\ Ends(w)
              /\ UNCHANGED <<tables, workspace>>
        /\ UNCHANGED <<draftTask, recovered>>

\* The upload and the final transaction: both succeed, or the archive is
\* deferred, or the lease turns out to belong to somebody else.
WorkerFinishesArchive(w) ==
    /\ task[w].pc = "upload"
    /\ FinishArchive(task[w].survey, w)
    /\ SetTask(w, [task[w] EXCEPT !.pc = "sweep"])
    /\ UNCHANGED <<draftTask, workspace, recovered>>

\* Mutant of WorkerDefersArchive: the run directory is removed although nothing is archived.
WorkerDefersArchiveSweeping(w) ==
    /\ task[w].pc = "upload"
    /\ DeferArchive(task[w].survey, w)
    /\ Ends(w)
    /\ workspace' = workspace \ {<<HostOf[w], task[w].survey>>}
    /\ UNCHANGED <<draftTask, recovered>>

WorkerDefersArchive(w) ==
    /\ task[w].pc = "upload"
    /\ DeferArchive(task[w].survey, w)
    /\ Ends(w)
    /\ UNCHANGED <<draftTask, workspace, recovered>>

WorkerFindsArchiveLost(w) ==
    /\ task[w].pc = "upload"
    /\ ~OwnsArchive(task[w].survey, w)
    /\ Ends(w)
    /\ UNCHANGED <<tables, draftTask, workspace, recovered>>

WorkerSweepsWorkspace(w) ==
    /\ task[w].pc = "sweep"
    /\ Ends(w)
    /\ workspace' = workspace \ {<<HostOf[w], task[w].survey>>}
    /\ UNCHANGED <<tables, draftTask, recovered>>

\* A database error outside _archive's try block escapes the task (_run_claimed_job).
TaskEscapes(w) ==
    /\ task[w].pc \in {"settle", "archive", "upload"}
    /\ Ends(w)
    /\ UNCHANGED <<tables, draftTask, workspace, recovered>>

\* A supervisor dies or is stopped; unless the disk is durable, its replacement may
\* start with an empty one.
HostStops(h) ==
    /\ \E w \in Workers : HostOf[w] = h /\ task[w] # IdleTask
    /\ task' = [w \in Workers |-> IF HostOf[w] = h THEN IdleTask ELSE task[w]]
    /\ \E kept \in BOOLEAN :
         /\ h \in DurableHosts => kept
         /\ workspace' = IF kept THEN workspace ELSE workspace \ ({h} \X Surveys)
    /\ UNCHANGED <<tables, draftTask, recovered>>

WorkerProceeds(w) ==
    \/ WorkerStarts(w) \/ WorkerExecutes(w) \/ WorkerSettles(w) \/ WorkerOpensArchive(w)
    \/ WorkerFinishesArchive(w) \/ WorkerFindsArchiveLost(w) \/ WorkerSweepsWorkspace(w)

WorkerFails(w) ==
    \/ WorkerGivesUpLease(w) \/ WorkerDefersArchive(w) \/ TaskEscapes(w)

Next ==
    \/ \E s \in Surveys : \/ UserStep(s) \/ SweepStep(s) \/ ClockStep(s)
                          \/ EmailStep(s) \/ OperatorStep(s)
    \/ \E w \in DraftWorkers : \/ \E s \in Surveys : DraftWorkerClaims(w, s)
                               \/ DraftWorkerBeats(w) \/ DraftWorkerReturns(w)
    \/ \E w \in Workers : \/ \E s \in Surveys : WorkerClaims(w, s)
                          \/ WorkerBeats(w) \/ WorkerProceeds(w) \/ WorkerFails(w)
    \/ \E h \in Hosts : HostStops(h)

Spec == Init /\ [][Next]_queueVars

-----------------------------------------------------------------------------
(* Fairness.  Tasks that are not waiting go on (WF); clocks and sweeps run;*)
(* a lease that nobody renews runs out; a queued or due job is claimed     *)
(* sooner or later, as the fair order of the candidates promises (SF); and *)
(* not every attempt to archive is interrupted before it succeeds (SF).    *)
(* Users, the operator and every failure are left without fairness.        *)

JobUnattended(s) == \A w \in Workers : task[w].survey = s => ~task[w].beat
DraftUnattended(s) == \A w \in DraftWorkers : draftTask[w].survey = s => draftTask[w].lost
ClockOnly == UNCHANGED <<task, draftTask, workspace, recovered>>

WorkerOpensOwnArchive(w) ==
    /\ task[w].pc = "archive"
    /\ ~task[w].lost
    /\ OwnsArchive(task[w].survey, w)
    /\ WorkerOpensArchive(w)

Fairness ==
    /\ \A s \in Surveys :
         /\ WF_queueVars(SweepStep(s))
         /\ WF_queueVars(ArchiveBecomesDue(s) /\ ClockOnly)
         /\ WF_queueVars(JobUnattended(s) /\ JobLeaseExpires(s) /\ ClockOnly)
         /\ WF_queueVars(DraftUnattended(s) /\ DraftLeaseExpires(s) /\ ClockOnly)
         /\ SF_queueVars(\E w \in Workers : WorkerClaims(w, s))
         /\ SF_queueVars(\E w \in DraftWorkers : DraftWorkerClaims(w, s))
    /\ \A w \in Workers :
         /\ WF_queueVars(WorkerProceeds(w))
         /\ SF_queueVars(WorkerOpensOwnArchive(w))
         /\ SF_queueVars(WorkerFinishesArchive(w))
    /\ \A w \in DraftWorkers : WF_queueVars(DraftWorkerReturns(w))

FairSpec == Spec /\ Fairness

-----------------------------------------------------------------------------
(* Properties.                                                             *)

\* Every table and every task is of its type.
TypeOK ==
    /\ StoreTypeOK
    /\ task \in [Workers -> Task]
    /\ draftTask \in [DraftWorkers -> DraftTask]
    /\ workspace \subseteq Hosts \X Surveys
    /\ recovered \subseteq Surveys

\* A user never holds more reservations and charged surveys of a day than the daily
\* limit, apart from failures that the operator later turned into charged successes.
DailyLimitHolds ==
    \A l \in Ledgers :
        reserved[l] + succeeded[l] <= DailyLimit + Cardinality({s \in recovered : LedgerOf[s] = l})

\* process_survey_job: "Execute a pending claim or resume archiving without rerunning
\* RCM".  However claims are lost and taken over, a survey is executed by one claim.
ExecutedOnce ==
    \A v, w \in Workers :
        /\ task[v].pc \in {"start", "execute", "settle"}
        /\ task[w].pc \in {"start", "execute", "settle"}
        /\ task[v].survey = task[w].survey
        => v = w

\* When one host with a durable disk runs every worker, a charged survey is never
\* shown as failed: the report of a settled success outlives crashes, lost leases,
\* takeovers and the clean-up of other tasks until it is archived.
ChargedMeansDelivered ==
    \A s \in Surveys : survey[s].quota = "consumed" =>
        survey[s].status \in {"archiving", "succeeded", "deleted"} /\ job[s].outcome # "failed"

\* A live lease fences: no step of another worker changes the job, however stale the
\* claim that worker still believes in.
LiveLeaseFences ==
    [][\A w \in Workers, s \in Surveys :
         /\ task'[w] # task[w]
         /\ job[s].lease = "live"
         /\ job[s].owner # w
         => job'[s] = job[s]]_queueVars

\* A survey that was started comes to an end, or is deleted before it runs: no crash,
\* lost lease, deferred archive or cancellation leaves it in between for ever.
StartedSurveyEnds ==
    \A s \in Surveys :
        survey[s].status \in {"queued", "running", "archiving"} ~>
            survey[s].status \in Terminal \cup {"deleted"}

\* A draft that was asked for is decided: a user is never locked out of revising or
\* starting the survey by a draft nobody works on.
DraftIsDecided ==
    \A s \in Surveys : draft[s].active # "none" ~> draft[s].active = "none"

-----------------------------------------------------------------------------
(* SurveyQueue implements SurveyLifecycle.                                 *)

PhaseOf(st) == CASE st = "absent" -> "none"
                 [] st = "drafting" -> "open"
                 [] st = "queued" -> "waiting"
                 [] st = "running" -> "running"
                 [] st = "archiving" -> "decided"
                 [] st \in Terminal -> "ended"
                 [] OTHER -> "gone"
ChargeOf(q) == CASE q = "reserved" -> "held"
                 [] q = "consumed" -> "spent"
                 [] q = "released" -> "free"
                 [] OTHER -> "none"
VerdictOf(s) == IF survey[s].status \in Terminal THEN survey[s].status ELSE job[s].outcome

Lifecycle == INSTANCE SurveyLifecycle WITH
    phase <- [s \in Surveys |-> PhaseOf(survey[s].status)],
    charge <- [s \in Surveys |-> ChargeOf(survey[s].quota)],
    verdict <- [s \in Surveys |-> VerdictOf(s)],
    asked <- [s \in Surveys |-> job[s].cancel]

\* Every step of workers, sweeps, users, clocks and the operator is a step of the
\* promised life cycle or leaves it alone: the counters, the leases and the takeovers
\* never let a survey be charged twice, charged against a cancellation, opened beyond
\* the day's limit, or changed after its end other than by the operator.
ImplementsLifecycle == Lifecycle!Spec

=============================================================================
