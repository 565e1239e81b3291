---------------------------- MODULE SurveyExecution ----------------------------
(***************************************************************************)
(* What one claim of a full Survey executes in the resident mode           *)
(* (survey/worker.py, execute_survey; survey/process.py): the RCM process, *)
(* its repetition after a failing provider, the assembly and the audit of  *)
(* the report, and the repair of single paper cards.  SurveyQueue takes    *)
(* the result of all this as given (Reports).                              *)
(*                                                                         *)
(* RCM and the models behind it are not modelled: a process leaves any     *)
(* files and any failures of model steps.  A step is what the coroutine    *)
(* does up to its next await; the heartbeat runs beside it.                *)
(***************************************************************************)
EXTENDS SurveyDiagnostics

CONSTANTS
    MaxAttempts, \* survey_provider_max_attempts
    MaxDefects   \* bound on what a process gets wrong, or right, at once

ASSUME ExecutionConstants ==
    /\ MaxAttempts \in Nat \ {0}
    /\ MaxDefects \in Nat

VARIABLES
    run,    \* the coroutine execute_survey
    child,  \* the process it has started last, ProcessControl.process
    told,   \* the events of ProcessControl: "lost", "cancel"
    disk,   \* the run directory
    seen    \* SurveyDiagnostics: what the events of the process have told

vars == <<run, child, told, disk, seen>>

-----------------------------------------------------------------------------
(* What a run of the whole workflow may leave.                             *)

PerfectDisk ==
    [EmptyDisk EXCEPT !.outline = "titled", !.cardPlan = {Cards}, !.sectionPlan = {Sections},
                      !.milestones = TRUE, !.verdicts = {"strong"}, !.cards = [c \in Cards |-> "reviewed"],
                      !.sections = [x \in Sections |-> "clean"]]

AllDisks ==
    [outline : {"absent", "bare", "titled", "leaky"}, cardPlan : {{}} \cup {{S} : S \in SUBSET Cards},
     sectionPlan : {{}} \cup {{S} : S \in SUBSET Sections}, aliased : SUBSET Cards,
     milestones : BOOLEAN, verdicts : {{}, {"strong"}, {"strong", "blocked"}, {"strong", "unreadable"}}, cards : [Cards -> CardStates],
     sections : [Sections -> SectionStates], report : {NoReport, ForeignReport}, index : {FALSE}]

\* In how many places two directories differ: an item counts once, for its file and for its
\* place in a plan.
Differences(d, e) ==
    Cardinality({f \in DOMAIN d \ {"cards", "sections", "cardPlan", "sectionPlan"} : d[f] # e[f]})
        + Cardinality({f \in {"cardPlan", "sectionPlan"} : (d[f] = {}) # (e[f] = {})})
        + Cardinality({c \in Cards : \/ d.cards[c] # e.cards[c]
                                     \/ d.cardPlan # {} /\ (c \in UNION d.cardPlan) # (c \in UNION e.cardPlan)})
        + Cardinality({x \in Sections : \/ d.sections[x] # e.sections[x]
                                        \/ d.sectionPlan # {} /\ (x \in UNION d.sectionPlan) # (x \in UNION e.sectionPlan)})
Surprises(g) == Cardinality({f \in DOMAIN g : g[f] # NothingLearnt[f]})

\* It has written everything, or nothing, and told nothing, but for a few places.
NearDisks == {d \in AllDisks : \E e \in {PerfectDisk, EmptyDisk} : Differences(d, e) <= MaxDefects}

Outcomes ==
    {[disk |-> o[1], seen |-> o[2]] :
       o \in {p \in NearDisks \X {g \in Observations : Surprises(g) <= MaxDefects} :
               \E e \in {PerfectDisk, EmptyDisk} :
                  Differences(p[1], e) + Surprises(p[2]) <= MaxDefects}}

-----------------------------------------------------------------------------
NoResult == [outcome |-> "none", code |-> "none", chargeable |-> FALSE]
Failed(code) == [outcome |-> "failed", code |-> code, chargeable |-> FALSE]
Cancelled == [NoResult EXCEPT !.outcome = "cancelled"]
Delivered(reasons) ==
    [outcome |-> "succeeded", code |-> IF reasons = {} THEN "none" ELSE "survey_quality_degraded",
     chargeable |-> reasons = {}]

\* work: the whole survey, or the repair of cards.
NoChild == [state |-> "none", work |-> "survey", ok |-> FALSE]

Init ==
    /\ run = [pc |-> "prepare", attempt |-> 1, then |-> "none", result |-> NoResult]
    /\ child = NoChild
    /\ told = {}
    /\ disk = EmptyDisk
    /\ seen = NothingLearnt

\* It has returned a result, raised SurveyLeaseLostError or another exception, or was cancelled.
Over == run.pc \in {"done", "lost", "raised", "interrupted"}

Goes(pc) == run' = [run EXCEPT !.pc = pc]
Returns(r) == run' = [run EXCEPT !.pc = "done", !.result = r]
Reviews(r) == run' = [run EXCEPT !.pc = "review", !.result = r]

\* An exception leaves execute_survey, and process_survey_job makes a failure of it, whatever
\* the result was that was about to be returned.
Raises == run' = [run EXCEPT !.pc = "raised", !.result = Failed("survey_runtime_unavailable")]

-----------------------------------------------------------------------------
(* Processes.                                                              *)

\* Mutant of Attached: a request that came while the process was created is forgotten.
AttachedRegardless(work) == [state |-> "alive", work |-> work, ok |-> FALSE]

\* attach: whoever was told to stop while the process was created ends it at once.
Attached(work) == [state |-> IF told = {} THEN "alive" ELSE "dying", work |-> work, ok |-> FALSE]

\* terminate_process_group: SIGTERM to the group, SIGKILL after ten seconds.
Terminated == IF child.state = "alive" THEN [child EXCEPT !.state = "dying"] ELSE child

\* The process is terminated and waited for, and then p happens.
Stop(p) ==
    /\ child' = Terminated
    /\ run' = [run EXCEPT !.pc = "stopping", !.then = p]
    /\ UNCHANGED <<told, disk, seen>>

\* The workflow ends by itself or is killed; what it has written until then is there.  The
\* writers of a repair write the cards they were given.
ProcessExits ==
    /\ child.state \in {"alive", "dying"}
    /\ \E ok \in BOOLEAN : child' = [child EXCEPT !.state = "exited", !.ok = ok]
    /\ IF child.work = "repair"
       THEN /\ \E cards \in [Cards -> CardStates] :
                 /\ \A c \in Cards \ InvalidCards(disk) : cards[c] = disk.cards[c]
                 /\ disk' = [disk EXCEPT !.cards = cards]
            /\ UNCHANGED seen
       ELSE \E o \in Outcomes : disk' = o.disk /\ seen' = o.seen
    /\ UNCHANGED <<run, told>>

\* The heartbeat has found the lease lost or a cancellation, stops whatever process there
\* is, and returns.
HeartbeatEnds ==
    /\ ~Over
    /\ told = {}
    /\ told' \in {{"lost"}, {"cancel"}}
    /\ child' = Terminated
    /\ UNCHANGED <<run, disk, seen>>

-----------------------------------------------------------------------------
(* _execute_survey_once.                                                   *)

\* The workspace is prepared, the process created and attached.
StartRun ==
    /\ run.pc = "prepare"
    /\ seen' = NothingLearnt
    /\ \/ Returns(Failed("survey_workflow_resources_unavailable")) /\ UNCHANGED child
       \/ Raises /\ UNCHANGED child
       \/ Goes("wait") /\ child' = Attached("survey")
    /\ UNCHANGED <<told, disk>>

LossEndsRun == run.pc = "wait" /\ "lost" \in told /\ Stop("lost")
CancelEndsRun == run.pc = "wait" /\ "cancel" \in told /\ Stop("cancelled")
RunTimesOut == run.pc = "wait" /\ child.state # "exited" /\ Stop("timed_out")

\* The process does not take its input, or its output cannot be read.
RunBreaks == run.pc = "wait" /\ child.state # "alive" /\ Stop("raised")

\* asyncio.CancelledError, when the worker shuts down.
IsInterrupted ==
    /\ run.pc \in {"wait", "repairWait", "finalize", "retry", "stopping"}
    /\ run.then # "interrupted"
    /\ Stop("interrupted")

Stopped ==
    /\ run.pc = "stopping"
    /\ child.state \in {"none", "exited"}
    /\ CASE run.then \in {"lost", "interrupted"} -> Goes(run.then)
         [] run.then = "raised" -> Raises
         [] run.then = "cancelled" -> Returns(Cancelled)
         [] run.then = "timed_out" -> Reviews(Failed("survey_timed_out"))
         [] run.then = "unrepaired" -> Returns(run.result)
    /\ child' = NoChild
    /\ UNCHANGED <<told, disk, seen>>

ReportIsValid == disk.report.kind # "none"

\* 08_survey.md, or 00_outline.md whatever it says: the directories were made before.
Materials == ReportIsValid \/ disk.outline # "absent"

\* stderr is read for a reason when no model step has failed.
RunFails ==
    /\ run.pc = "wait"
    /\ child.state = "exited"
    /\ ~child.ok
    /\ IF ModelFailure(seen) # "none" THEN Reviews(Failed(ModelFailure(seen)))
                                      ELSE \E code \in StderrCodes : Reviews(Failed(code))
    /\ child' = NoChild
    /\ UNCHANGED <<told, disk, seen>>

RunSucceeds ==
    /\ run.pc = "wait"
    /\ child.state = "exited"
    /\ child.ok
    /\ IF ModelFailure(seen) # "none" /\ ~Materials
       THEN Reviews(Failed(ModelFailure(seen))) ELSE Goes("finalize")
    /\ child' = NoChild
    /\ UNCHANGED <<told, disk, seen>>

-----------------------------------------------------------------------------
(* The end of a run: its files are audited, assembled and judged.          *)

\* Mutant of QualityReasons: the summary is only looked at when nothing was reviewed.
QualityReasonsUncounted(d, g, error, failure) ==
    {r \in {"model_step", "evidence_audit", "finalization", "workflow_quality_check"} :
       CASE r = "model_step" -> failure # "none"
         [] r = "evidence_audit" -> EvidenceError(d) # "none"
         [] r = "finalization" -> error # "none"
         [] r = "workflow_quality_check" -> Anomalies(d, g) # {}}

\* _publication_quality_reasons.  There is no summary when the audit has raised.
QualityReasons(d, g, error, failure) ==
    {r \in {"model_step", "evidence_audit", "evidence_coverage", "evidence_declarations",
            "finalization", "workflow_quality_check"} :
       CASE r = "model_step" -> failure # "none"
         [] r = "evidence_audit" -> EvidenceError(d) # "none"
         [] r = "evidence_coverage" -> EvidenceError(d) = "none" /\ CoverageIsLow(d)
         [] r = "evidence_declarations" ->
                EvidenceError(d) = "none" /\ InvalidCards(d) \cup Undeclared(d) \cup Marked(d) # {}
         [] r = "finalization" -> error # "none"
         [] r = "workflow_quality_check" -> Anomalies(d, g) # {}}

\* Between the audit and the assembly the progress is written to the database, and a
\* DBError of that statement is not caught.
ProgressFails == run.pc = "finalize" /\ Raises /\ UNCHANGED <<child, told, disk, seen>>

\* The code of a run without a report to show.
UnpublishedCode(d, error) ==
    CASE EvidenceError(d) # "none" -> EvidenceError(d)
      [] EvidenceError(d) = "none" /\ ModelFailure(seen) # "none" -> ModelFailure(seen)
      [] OTHER -> error

Finalize ==
    /\ run.pc = "finalize"
    /\ \E a \in Assemblies(disk) :
         /\ disk' = a.disk
         /\ Reviews(CASE a.error = "survey_report_internal_metadata_leaked" -> Failed(a.error)
                      [] a.error # "survey_report_internal_metadata_leaked"
                           /\ ~IsWritten(a.disk, "report") -> Failed(UnpublishedCode(a.disk, a.error))
                      [] OTHER -> Delivered(QualityReasons(a.disk, seen, a.error, seen.blocking)))
    /\ UNCHANGED <<child, told, seen>>

-----------------------------------------------------------------------------
(* execute_survey: what is done about a result.                            *)

Repairable == run.result.code = "survey_quality_degraded" /\ InvalidCards(disk) # {}

\* Mutant of Retried: a degraded report is taken for a failure of its provider.
RetriedWhenDegraded(r) ==
    r.code \in TransientCodes \cup {"survey_quality_degraded"} /\ run.attempt < MaxAttempts

Retried(r) == r.outcome = "failed" /\ r.code \in TransientCodes /\ run.attempt < MaxAttempts

\* _invalid_evidence_repair_items: only cards that the plan names can be repaired.
ArePlanned(cards) == cards \subseteq UNION disk.cardPlan

\* A result that is neither repaired nor retried is returned.
Review ==
    /\ run.pc = "review"
    /\ IF Repairable
       THEN IF ArePlanned(InvalidCards(disk)) THEN Goes("repair") ELSE Returns(run.result)
       ELSE IF Retried(run.result) THEN Goes("retry") ELSE Returns(run.result)
    /\ UNCHANGED <<child, told, disk, seen>>

\* Mutant of Retry: the attempt is not counted.
RetryUncounted ==
    /\ run.pc = "retry"
    /\ IF told # {}
       THEN /\ IF "lost" \in told THEN Goes("lost") ELSE Returns(Cancelled)
            /\ UNCHANGED disk
       ELSE /\ run' = [run EXCEPT !.pc = "prepare", !.result = NoResult]
            /\ disk' = EmptyDisk
    /\ UNCHANGED <<child, told, seen>>

\* The events are looked at before and after the delay; then the run directory is emptied.
Retry ==
    /\ run.pc = "retry"
    /\ IF told # {}
       THEN /\ IF "lost" \in told THEN Goes("lost") ELSE Returns(Cancelled)
            /\ UNCHANGED disk
       ELSE /\ run' = [run EXCEPT !.pc = "prepare", !.attempt = @ + 1, !.result = NoResult]
            /\ disk' = EmptyDisk
    /\ UNCHANGED <<child, told, seen>>

\* _repair_survey_artifacts, up to the creation of the process.
ScheduleRepair ==
    /\ run.pc = "repair"
    /\ IF told # {} THEN IF "lost" \in told THEN Goes("lost") ELSE Returns(Cancelled)
                    ELSE Goes("repairStart")
    /\ UNCHANGED <<child, told, disk, seen>>

\* No handler is there for a process that cannot be created or does not take its input.
StartRepair ==
    /\ run.pc = "repairStart"
    /\ \/ Raises /\ UNCHANGED child
       \/ Goes("repairWait") /\ child' = Attached("repair")
    /\ UNCHANGED <<told, disk, seen>>

RepairTimesOut == run.pc = "repairWait" /\ child.state # "exited" /\ Stop("unrepaired")
RepairBreaks == run.pc = "repairWait" /\ child.state # "alive" /\ Stop("raised")

\* A repair that was stopped or that failed leaves the result as it was.
RepairFails ==
    /\ run.pc = "repairWait"
    /\ child.state = "exited"
    /\ told # {} \/ ~child.ok
    /\ IF "lost" \in told THEN Goes("lost") ELSE Returns(run.result)
    /\ child' = NoChild
    /\ UNCHANGED <<told, disk, seen>>

\* SurveyDiagnostics is started afresh, and no model step is taken to have failed.
RepairSucceeds ==
    /\ run.pc = "repairWait"
    /\ child.state = "exited"
    /\ told = {} /\ child.ok
    /\ \/ EvidenceError(disk) # "none" /\ Returns(run.result) /\ UNCHANGED disk
       \/ /\ EvidenceError(disk) = "none"
          /\ \E a \in Assemblies(disk) :
               /\ disk' = a.disk
               /\ Returns(IF a.error = "none"
                          THEN Delivered(QualityReasons(a.disk, NothingLearnt, "none", "none"))
                          ELSE run.result)
    /\ child' = NoChild
    /\ UNCHANGED <<told, seen>>

Next ==
    \/ StartRun \/ LossEndsRun \/ CancelEndsRun \/ RunTimesOut \/ RunBreaks \/ RunFails \/ RunSucceeds
    \/ ProgressFails \/ Finalize \/ Review \/ Retry
    \/ ScheduleRepair \/ StartRepair \/ RepairTimesOut \/ RepairBreaks \/ RepairFails \/ RepairSucceeds
    \/ IsInterrupted \/ Stopped \/ ProcessExits \/ HeartbeatEnds

Spec == Init /\ [][Next]_vars

\* The event loop goes on, and a process that was told to terminate is killed in the end.
\* A process that runs need never end, and the time limits need not be waited for.
Proceeds ==
    \/ StartRun \/ LossEndsRun \/ CancelEndsRun \/ RunFails \/ RunSucceeds \/ Finalize \/ Review \/ Retry
    \/ ScheduleRepair \/ StartRepair \/ RepairFails \/ RepairSucceeds \/ Stopped

Fairness == WF_vars(Proceeds) /\ WF_vars(child.state = "dying" /\ ProcessExits)

FairSpec == Spec /\ Fairness

TimersFire == WF_vars(RunTimesOut \/ RepairTimesOut)

-----------------------------------------------------------------------------
(* Properties.                                                             *)

IsComplete(d) ==
    /\ d.report.kind = "built" /\ d.index
    /\ d.report.cards = Reviewed(d)
    /\ Planned(d) \subseteq CardsOf(d) \cup d.report.sections
    /\ InvalidCards(d) = {} /\ Undeclared(d) = {} /\ Marked(d) = {}
    /\ 5 * Cardinality(Reviewed(d)) >= 4 * Cardinality(CardsOf(d))

\* What is charged is complete as it is delivered: the cards on the disk are those that the
\* report counts, all of them are declared, four of five rest on a body, and every section
\* that was planned stands in the report, whatever was repaired.  Without a repair nothing
\* that the run promised is missing and no step but the image planner's has failed; and a
\* run that did all of its work is charged, whatever alarm was raised in between.
ChargedIsComplete ==
    /\ run.result.chargeable => IsComplete(disk)
    /\ (run.pc = "review" /\ run.result.chargeable) =>
          seen.blocking = "none" /\ seen.wanted \subseteq CardsOf(disk) \cup SectionsOf(disk)
    /\ (run.pc = "review" /\ run.result.outcome = "succeeded" /\ seen.blocking = "none"
          /\ disk = [PerfectDisk EXCEPT !.report = disk.report, !.index = TRUE]
          /\ IsComplete(disk)) => run.result.chargeable

\* The repair could not be started, or its process broke while its input was written or
\* its output was read.
RepairIsBroken ==
    \/ run.pc = "repairStart"
    \/ run.pc = "stopping" /\ run.then = "raised"

\* "make a readable report free, never hidden": once a run has ended with a readable
\* report, nothing that follows takes it away from the disk, and neither a repair that
\* fails, times out or is stopped, nor another attempt, turns the result into a failure.
\* Besides a cancellation only an exception of the repair's process does, which the code
\* catches too late to know the report.
ReadableIsNeverHidden ==
    [][run.result.outcome = "succeeded" =>
         /\ disk'.report.kind # "none"
         /\ run'.result.outcome # "succeeded" =>
               \/ run'.result = Cancelled /\ "cancel" \in told
               \/ run'.pc = "raised" /\ RepairIsBroken]_vars

\* "Terminate the entire RCM process group and reap its leader": once the claim was told to
\* stop no process is started that goes on working, whichever of the checks before it came
\* too early, and however execute_survey ends, none is left that could write into a run
\* directory which the archive reads or another claim works on.
NoStrayProcess ==
    [][/\ child.state # "alive" /\ child'.state = "alive" => told = {}
       /\ run'.pc \in {"done", "lost", "raised", "interrupted"} => child'.state = "none"]_vars

\* Every execution ends, whatever the processes do, when the time limits apply.
ExecutionEnds == TimersFire => <>Over

=============================================================================
