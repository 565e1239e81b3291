------------------------- MODULE SurveyExecutionProofs -------------------------
(***************************************************************************)
(* The execution of one claim: a readable report is never taken away, what *)
(* is charged is complete, and no process outlives the claim, for any      *)
(* papers, sections and failures.                                          *)
(***************************************************************************)
EXTENDS SurveyExecution, TLAPS, FiniteSetTheorems, WellFoundedInduction

DiskFields == {"outline", "cardPlan", "sectionPlan", "aliased", "milestones", "verdicts", "cards",
               "sections", "report", "index"}

DiskShape(d) == d = [f \in DiskFields |-> d[f]]

\* The variables are records with these fields.
Shapes ==
    /\ run = [pc |-> run.pc, attempt |-> run.attempt, then |-> run.then, result |-> run.result]
    /\ child = [state |-> child.state, work |-> child.work, ok |-> child.ok]
    /\ DiskShape(disk)
    /\ child.state \in {"none", "alive", "dying", "exited"}

StopReasons == {"lost", "cancelled", "timed_out", "unrepaired", "raised", "interrupted"}

\* There is a process only while somebody waits for it, and it does what it was started for.
ProcessFits ==
    /\ child.state # "none" => run.pc \in {"wait", "repairWait", "stopping"}
    /\ run.pc \in {"prepare", "wait"} => run.result = NoResult
    /\ run.pc = "wait" => child.work = "survey"
    /\ run.pc \in {"repair", "repairStart"} => run.result.code = "survey_quality_degraded"
    /\ run.pc = "repairWait" => child.work = "repair" /\ run.result.code = "survey_quality_degraded"
    /\ run.pc = "stopping" => run.then \in StopReasons

\* A report that can be read stays, and its result is not about to become a failure.
ReadableFits ==
    run.result.outcome = "succeeded" =>
        /\ disk.report.kind # "none"
        /\ run.pc \notin {"prepare", "wait", "finalize", "retry"}
        /\ run.pc = "stopping" => run.then \in {"unrepaired", "raised", "interrupted"}
        /\ child.state \in {"alive", "dying"} => child.work = "repair"

\* A charge is decided at the end of a run or of its repair, and nothing follows it.
ChargeFits ==
    run.result.chargeable =>
        /\ run.pc \in {"review", "done"}
        /\ run.result.code = "none"
        /\ IsComplete(disk)
        /\ run.pc = "review" =>
              seen.blocking = "none" /\ seen.wanted \subseteq CardsOf(disk) \cup SectionsOf(disk)

ExecutionInv == Shapes /\ ProcessFits /\ ReadableFits /\ ChargeFits

-----------------------------------------------------------------------------
(* The judgement of a report.                                              *)

LEMMA NoReasons ==
    ASSUME NEW d, NEW g, NEW error, NEW failure, QualityReasons(d, g, error, failure) = {}
    PROVE  /\ failure = "none" /\ error = "none" /\ EvidenceError(d) = "none"
           /\ ~CoverageIsLow(d) /\ Anomalies(d, g) = {}
           /\ InvalidCards(d) = {} /\ Undeclared(d) = {} /\ Marked(d) = {}
<1> DEFINE Reasons == {"model_step", "evidence_audit", "evidence_coverage", "evidence_declarations",
                       "finalization", "workflow_quality_check"}
           Applies(r) ==
       CASE r = "model_step" -> failure # "none"
         [] r = "evidence_audit" -> EvidenceError(d) # "none"
         [] r = "evidence_coverage" -> EvidenceError(d) = "none" /\ CoverageIsLow(d)
         [] r = "evidence_declarations" ->
                EvidenceError(d) = "none" /\ InvalidCards(d) \cup Undeclared(d) \cup Marked(d) # {}
         [] r = "finalization" -> error # "none"
         [] r = "workflow_quality_check" -> Anomalies(d, g) # {}
<1>1. \A r \in Reasons : ~Applies(r)
  BY DEF QualityReasons
<1>2. ~Applies("model_step") /\ ~Applies("evidence_audit") /\ ~Applies("finalization")
  BY <1>1
<1>3. ~Applies("evidence_coverage") /\ ~Applies("evidence_declarations")
  BY <1>1
<1>4. ~Applies("workflow_quality_check")
  BY <1>1
<1>5. failure = "none" /\ EvidenceError(d) = "none" /\ error = "none"
  BY <1>2
<1>6. ~CoverageIsLow(d) /\ InvalidCards(d) \cup Undeclared(d) \cup Marked(d) = {}
  BY <1>3, <1>5
<1>7. Anomalies(d, g) = {}
  BY <1>4
<1> QED
  BY <1>5, <1>6, <1>7

\* An assembly writes the report and the index and nothing else, and never removes a report.
LEMMA AssemblyWrites ==
    ASSUME NEW d, DiskShape(d), NEW a \in Assemblies(d)
    PROVE  /\ DiskShape(a.disk)
           /\ a.disk.cards = d.cards /\ a.disk.sections = d.sections
           /\ a.disk.report = d.report \/ a.disk.report.kind = "built"
           /\ a.error = "none" => /\ MaterialError(d) = "none"
                                  /\ a.disk.report = Built(d) /\ a.disk.index = TRUE
<1>1. /\ DiskShape([d EXCEPT !.report = Built(d), !.index = TRUE])
      /\ [d EXCEPT !.report = Built(d), !.index = TRUE].cards = d.cards
      /\ [d EXCEPT !.report = Built(d), !.index = TRUE].sections = d.sections
      /\ [d EXCEPT !.report = Built(d), !.index = TRUE].report = Built(d)
      /\ [d EXCEPT !.report = Built(d), !.index = TRUE].index = TRUE
  BY DEF DiskShape, DiskFields
<1>2. /\ DiskShape([d EXCEPT !.report = Built(d)])
      /\ [d EXCEPT !.report = Built(d)].cards = d.cards
      /\ [d EXCEPT !.report = Built(d)].sections = d.sections
      /\ [d EXCEPT !.report = Built(d)].report = Built(d)
  BY DEF DiskShape, DiskFields
<1>3. Built(d).kind = "built"
  BY DEF Built
<1>4. CASE MaterialError(d) # "none"
  <2>1. a = [error |-> MaterialError(d), disk |-> d]
    BY <1>4 DEF Assemblies
  <2> QED
    BY <1>4, <2>1
<1>5. CASE MaterialError(d) = "none" /\ a = [error |-> "none", disk |-> [d EXCEPT !.report = Built(d), !.index = TRUE]]
  BY <1>1, <1>3, <1>5
<1>6. CASE a = [error |-> "survey_finalization_write_failed", disk |-> [d EXCEPT !.report = Built(d)]]
  BY <1>2, <1>3, <1>6
<1>7. CASE a = [error |-> "survey_finalization_write_failed", disk |-> d]
  BY <1>7
<1> QED
  BY <1>4, <1>5, <1>6, <1>7 DEF Assemblies

\* What is found without a flaw is complete.
LEMMA FlawlessIsComplete ==
    ASSUME NEW d, DiskShape(d), NEW a \in Assemblies(d), NEW g, NEW failure,
           QualityReasons(a.disk, g, a.error, failure) = {}
    PROVE  /\ IsComplete(a.disk) /\ failure = "none"
           /\ g.wanted \subseteq CardsOf(a.disk) \cup SectionsOf(a.disk)
<1> DEFINE e == a.disk
<1>1. /\ failure = "none" /\ a.error = "none" /\ EvidenceError(e) = "none"
      /\ ~CoverageIsLow(e) /\ Anomalies(e, g) = {}
      /\ InvalidCards(e) = {} /\ Undeclared(e) = {} /\ Marked(e) = {}
  BY NoReasons
<1>2. /\ e.cards = d.cards /\ e.sections = d.sections /\ MaterialError(d) = "none"
      /\ e.report = Built(d) /\ e.index = TRUE
  BY <1>1, AssemblyWrites
<1> HIDE DEF e
<1>3. e.report.kind = "built" /\ e.report.cards = Cited(d) \cap Reviewed(d) /\ e.report.sections = SectionsOf(d)
  BY <1>2 DEF Built
<1>4. CardsOf(e) = CardsOf(d) /\ SectionsOf(e) = SectionsOf(d) /\ Reviewed(e) = Reviewed(d)
  BY <1>2 DEF CardsOf, SectionsOf, Reviewed
<1>5. Cited(d) = Cards
  <2>1. Cited(d) \cap CardsOf(d) # {}
    BY <1>2 DEF MaterialError
  <2> QED
    BY <2>1 DEF Cited
<1>6. Reviewed(e) \subseteq Cards /\ CardsOf(e) \subseteq Cards
  BY DEF Reviewed, CardsOf
<1>7. e.report.cards = Reviewed(e) /\ e.report.sections = SectionsOf(e)
  BY <1>3, <1>4, <1>5, <1>6
<1>8. Wanted(e, g) \ (CardsOf(e) \cup SectionsOf(e)) = {}
  BY <1>1 DEF Anomalies
<1>9. Planned(e) \cup g.wanted \subseteq CardsOf(e) \cup SectionsOf(e)
  BY <1>8 DEF Wanted
<1>10. 5 * Cardinality(Reviewed(e)) >= 4 * Cardinality(CardsOf(e))
  <2>1. Cardinality(Reviewed(e)) \in Nat /\ Cardinality(CardsOf(e)) \in Nat
    BY <1>6, DiagnosticsConstants, FS_Subset, FS_CardinalityType
  <2>2. ~(100 * Cardinality(Reviewed(e)) < 80 * Cardinality(CardsOf(e)))
    BY <1>1 DEF CoverageIsLow
  <2> QED
    BY <2>1, <2>2
<1>11. IsComplete(e)
  BY <1>1, <1>2, <1>3, <1>7, <1>9, <1>10 DEF IsComplete
<1> QED
  BY <1>1, <1>9, <1>11 DEF e

-----------------------------------------------------------------------------
(* The steps.                                                              *)

LEMMA OutcomeShape ==
    ASSUME NEW o \in Outcomes
    PROVE  DiskShape(o.disk)
<1>1. o.disk \in NearDisks
  BY DEF Outcomes
<1>2. o.disk \in AllDisks
  BY <1>1 DEF NearDisks
<1> QED
  BY <1>2 DEF AllDisks, DiskShape, DiskFields

LEMMA EmptyShape == DiskShape(EmptyDisk)
BY DEF EmptyDisk, DiskShape, DiskFields

\* Where run goes, keeping its result or with another one.
LEMMA Going ==
    ASSUME Shapes
    PROVE  /\ \A pc : Goes(pc) => /\ run'.pc = pc /\ run'.then = run.then
                                  /\ run'.result = run.result
                                  /\ run' = [pc |-> run'.pc, attempt |-> run'.attempt,
                                             then |-> run'.then, result |-> run'.result]
           /\ \A r : Returns(r) => /\ run'.pc = "done" /\ run'.result = r
                                   /\ run' = [pc |-> run'.pc, attempt |-> run'.attempt,
                                              then |-> run'.then, result |-> run'.result]
           /\ \A r : Reviews(r) => /\ run'.pc = "review" /\ run'.result = r
                                   /\ run' = [pc |-> run'.pc, attempt |-> run'.attempt,
                                              then |-> run'.then, result |-> run'.result]
           /\ Raises => /\ run'.pc = "raised" /\ run'.result = Failed("survey_runtime_unavailable")
                        /\ run' = [pc |-> run'.pc, attempt |-> run'.attempt,
                                   then |-> run'.then, result |-> run'.result]
BY DEF Shapes, Goes, Returns, Reviews, Raises

ChildShape == child = [state |-> child.state, work |-> child.work, ok |-> child.ok]

LEMMA Stopping ==
    ASSUME Shapes, NEW p, Stop(p)
    PROVE  /\ run'.pc = "stopping" /\ run'.then = p /\ run'.result = run.result
           /\ child'.work = child.work /\ UNCHANGED <<told, disk, seen>>
           /\ child'.state \in {child.state, "dying"} /\ child'.state # "alive"
           /\ child'.state = "dying" => child.state \in {"alive", "dying"}
           /\ Shapes'
BY DEF Shapes, Stop, Terminated

\* A step to a stop keeps what is known of the result.
LEMMA StopInv ==
    ASSUME ExecutionInv, NEW p \in StopReasons, Stop(p), run.pc \notin {"review", "done"},
           run.result.outcome = "succeeded" => p \in {"unrepaired", "raised", "interrupted"}
    PROVE  ExecutionInv'
<1>1. /\ run'.pc = "stopping" /\ run'.then = p /\ run'.result = run.result
      /\ child'.work = child.work /\ UNCHANGED <<told, disk, seen>>
      /\ child'.state = "dying" => child.state \in {"alive", "dying"}
      /\ child'.state # "alive"
      /\ Shapes'
  BY Stopping DEF ExecutionInv
<1>2. ProcessFits'
  BY <1>1 DEF ProcessFits
<1>3. ReadableFits'
  BY <1>1 DEF ExecutionInv, ReadableFits
<1>4. ChargeFits'
  BY <1>1 DEF ExecutionInv, ChargeFits
<1> QED
  BY <1>1, <1>2, <1>3, <1>4 DEF ExecutionInv

\* A failure is given to the review or returned, or made of an exception.
LEMMA FailureInv ==
    ASSUME Shapes, NEW code, Reviews(Failed(code)) \/ Returns(Failed(code)) \/ Raises,
           child' = NoChild \/ (child' = child /\ child.state = "none"), disk' = disk
    PROVE  ExecutionInv'
<1>1. /\ run'.pc \in {"review", "done", "raised"} /\ \E c : run'.result = Failed(c)
      /\ run' = [pc |-> run'.pc, attempt |-> run'.attempt, then |-> run'.then, result |-> run'.result]
  BY Going
<1>2. run'.result.outcome = "failed" /\ run'.result.chargeable = FALSE
  BY <1>1 DEF Failed
<1>3. child'.state = "none"
  BY DEF NoChild
<1>4. Shapes'
  BY <1>1 DEF Shapes, NoChild
<1>5. ProcessFits' /\ ReadableFits' /\ ChargeFits'
  BY <1>1, <1>2, <1>3 DEF ProcessFits, ReadableFits, ChargeFits
<1> QED
  BY <1>4, <1>5 DEF ExecutionInv

\* The result stays, without a process, or the run is cancelled.
LEMMA EndInv ==
    ASSUME ExecutionInv, UNCHANGED disk, child' = NoChild,
           \/ run.pc # "prepare" /\ Returns(run.result)
           \/ Returns(Cancelled)
           \/ run.pc \notin {"review", "done"} /\ \E pc \in {"lost", "interrupted"} : Goes(pc)
    PROVE  ExecutionInv'
<1>1. /\ run' = [pc |-> run'.pc, attempt |-> run'.attempt, then |-> run'.then, result |-> run'.result]
      /\ \/ run'.pc = "done" /\ run'.result = run.result
         \/ run'.pc = "done" /\ run'.result = Cancelled
         \/ /\ run'.pc \in {"lost", "interrupted"} /\ run'.result = run.result
            /\ run.pc \notin {"review", "done"}
  BY Going DEF ExecutionInv
<1>2. Cancelled.outcome = "cancelled" /\ Cancelled.chargeable = FALSE
  BY DEF Cancelled, NoResult
<1>3. child'.state = "none"
  BY DEF NoChild
<1>4. Shapes'
  BY <1>1 DEF ExecutionInv, Shapes, NoChild
<1>5. ProcessFits'
  BY <1>1, <1>3 DEF ProcessFits
<1>6. ReadableFits'
  BY <1>1, <1>2, <1>3 DEF ExecutionInv, ReadableFits
<1>7. ChargeFits'
  BY <1>1, <1>2 DEF ExecutionInv, ChargeFits
<1> QED
  BY <1>4, <1>5, <1>6, <1>7 DEF ExecutionInv

\* A claim that is told to stop while there is no process.
LEMMA AsideInv ==
    ASSUME ExecutionInv, UNCHANGED <<child, disk>>, child.state = "none", run.pc \in {"retry", "repair"},
           Goes("lost") \/ Returns(Cancelled)
    PROVE  ExecutionInv'
<1>1. /\ run' = [pc |-> run'.pc, attempt |-> run'.attempt, then |-> run'.then, result |-> run'.result]
      /\ \/ run'.pc = "done" /\ run'.result = Cancelled
         \/ run'.pc = "lost" /\ run'.result = run.result
  BY Going DEF ExecutionInv
<1>2. Cancelled.outcome = "cancelled" /\ Cancelled.chargeable = FALSE
  BY DEF Cancelled, NoResult
<1>3. Shapes'
  BY <1>1 DEF ExecutionInv, Shapes
<1>4. ProcessFits'
  BY <1>1 DEF ProcessFits
<1>5. ReadableFits' /\ ChargeFits'
  BY <1>1, <1>2 DEF ExecutionInv, ReadableFits, ChargeFits
<1> QED
  BY <1>3, <1>4, <1>5 DEF ExecutionInv

\* The heartbeat and the workflow.
LEMMA BesideInv ==
    ASSUME ExecutionInv, ProcessExits \/ HeartbeatEnds
    PROVE  ExecutionInv'
<1>1. CASE HeartbeatEnds
  <2>1. /\ child'.work = child.work /\ UNCHANGED <<run, disk, seen>>
        /\ child'.state \in {child.state, "dying"}
        /\ child'.state = "dying" => child.state \in {"alive", "dying"}
        /\ child' = [state |-> child'.state, work |-> child'.work, ok |-> child'.ok]
    BY <1>1 DEF HeartbeatEnds, Terminated, ExecutionInv, Shapes
  <2>2. Shapes'
    BY <2>1 DEF ExecutionInv, Shapes
  <2>3. ProcessFits' /\ ReadableFits' /\ ChargeFits'
    BY <2>1 DEF ExecutionInv, Shapes, ProcessFits, ReadableFits, ChargeFits
  <2> QED
    BY <2>2, <2>3 DEF ExecutionInv
<1>2. CASE ProcessExits
  <2>1. /\ child.state \in {"alive", "dying"} /\ child'.state = "exited" /\ child'.work = child.work
        /\ child' = [state |-> child'.state, work |-> child'.work, ok |-> child'.ok]
        /\ run' = run
    BY <1>2 DEF ProcessExits, ExecutionInv, Shapes
  <2>2. run.pc \in {"wait", "repairWait", "stopping"} /\ ~run.result.chargeable
    BY <2>1 DEF ExecutionInv, ProcessFits, ChargeFits
  <2>3. DiskShape(disk') /\ (child.work = "repair" => disk'.report = disk.report)
    <3>1. CASE child.work = "repair"
      <4>1. PICK cards \in [Cards -> CardStates] : disk' = [disk EXCEPT !.cards = cards]
        BY <1>2, <3>1 DEF ProcessExits
      <4> QED
        BY <4>1 DEF ExecutionInv, Shapes, DiskShape, DiskFields
    <3>2. CASE child.work # "repair"
      <4>1. PICK o \in Outcomes : disk' = o.disk
        BY <1>2, <3>2 DEF ProcessExits
      <4> QED
        BY <3>2, <4>1, OutcomeShape
    <3> QED
      BY <3>1, <3>2
  <2>4. Shapes'
    BY <2>1, <2>3 DEF ExecutionInv, Shapes
  <2>5. ProcessFits'
    BY <2>1 DEF ExecutionInv, ProcessFits
  <2>6. ReadableFits'
    BY <2>1, <2>3 DEF ExecutionInv, ReadableFits
  <2>7. ChargeFits'
    BY <2>1, <2>2 DEF ChargeFits
  <2> QED
    BY <2>4, <2>5, <2>6, <2>7 DEF ExecutionInv
<1> QED
  BY <1>1, <1>2

LEMMA DeliveredCharge ==
    ASSUME NEW reasons
    PROVE  /\ Delivered(reasons).outcome = "succeeded"
           /\ Delivered(reasons).chargeable => reasons = {} /\ Delivered(reasons).code = "none"
BY DEF Delivered

\* What is charged, at the end of a run or of its repair, is without a flaw.
LEMMA ChargedIsFlawless ==
    ASSUME DiskShape(disk), NEW a \in Assemblies(disk), disk' = a.disk,
           NEW g, NEW failure, NEW error, error = a.error,
           run'.result = Delivered(QualityReasons(a.disk, g, error, failure)),
           \/ run'.pc = "review" /\ seen' = g /\ failure = g.blocking
           \/ run'.pc = "done"
    PROVE  ChargeFits'
<1> SUFFICES ASSUME run'.result.chargeable
             PROVE  /\ run'.result.code = "none" /\ IsComplete(disk)'
                    /\ run'.pc = "review" =>
                          /\ seen'.blocking = "none"
                          /\ seen'.wanted \subseteq CardsOf(disk)' \cup SectionsOf(disk)'
  BY DEF ChargeFits
<1>1. QualityReasons(a.disk, g, a.error, failure) = {} /\ run'.result.code = "none"
  <2> DEFINE q == QualityReasons(a.disk, g, error, failure)
  <2>1. run'.result = Delivered(q) /\ run'.result.chargeable
    OBVIOUS
  <2> HIDE DEF q
  <2>2. q = {} /\ run'.result.code = "none"
    BY <2>1, DeliveredCharge
  <2> QED
    BY <2>2 DEF q
<1>2. /\ IsComplete(a.disk) /\ failure = "none"
      /\ g.wanted \subseteq CardsOf(a.disk) \cup SectionsOf(a.disk)
  BY <1>1, FlawlessIsComplete
<1>3. IsComplete(disk)' /\ CardsOf(disk)' = CardsOf(a.disk) /\ SectionsOf(disk)' = SectionsOf(a.disk)
  BY <1>2
<1> QED
  BY <1>1, <1>2, <1>3

LEMMA StartInv ==
    ASSUME ExecutionInv, StartRun \/ StartRepair
    PROVE  ExecutionInv'
<1>1. CASE StartRun
  <2>0. /\ run.pc = "prepare" /\ UNCHANGED <<told, disk>> /\ run.result = NoResult
        /\ child.state = "none"
    BY <1>1 DEF StartRun, ExecutionInv, ProcessFits, Shapes
  <2>01. NoResult.outcome = "none" /\ NoResult.chargeable = FALSE
    BY DEF NoResult
  <2>1. CASE Returns(Failed("survey_workflow_resources_unavailable")) /\ UNCHANGED child
    <3>1. /\ run'.pc = "done" /\ run'.result = Failed("survey_workflow_resources_unavailable")
          /\ run' = [pc |-> run'.pc, attempt |-> run'.attempt, then |-> run'.then, result |-> run'.result]
      BY <2>1, Going DEF ExecutionInv
    <3>2. run'.result.outcome = "failed" /\ run'.result.chargeable = FALSE
      BY <3>1 DEF Failed
    <3>3. Shapes'
      BY <2>0, <2>1, <3>1 DEF ExecutionInv, Shapes
    <3> QED
      BY <2>0, <2>1, <3>1, <3>2, <3>3 DEF ExecutionInv, ProcessFits, ReadableFits, ChargeFits
  <2>2. CASE Raises /\ UNCHANGED child
    BY <2>0, <2>2, FailureInv DEF ExecutionInv
  <2>3. CASE Goes("wait") /\ child' = Attached("survey")
    <3>1. /\ run'.pc = "wait" /\ run'.result = NoResult
          /\ run' = [pc |-> run'.pc, attempt |-> run'.attempt, then |-> run'.then, result |-> run'.result]
      BY <2>0, <2>3, Going DEF ExecutionInv
    <3>2. /\ child'.work = "survey" /\ child'.state \in {"alive", "dying"}
          /\ child' = [state |-> child'.state, work |-> child'.work, ok |-> child'.ok]
      BY <2>3 DEF Attached
    <3>3. Shapes'
      BY <2>0, <3>1, <3>2 DEF ExecutionInv, Shapes
    <3> QED
      BY <2>01, <3>1, <3>2, <3>3 DEF ExecutionInv, ProcessFits, ReadableFits, ChargeFits
  <2> QED
    BY <1>1, <2>1, <2>2, <2>3 DEF StartRun
<1>2. CASE StartRepair
  <2>0. /\ run.pc = "repairStart" /\ UNCHANGED <<told, disk, seen>>
        /\ child.state = "none" /\ run.result.chargeable = FALSE
        /\ run.result.code = "survey_quality_degraded"
        /\ run.result.outcome = "succeeded" => disk.report.kind # "none"
    BY <1>2 DEF StartRepair, ExecutionInv, ProcessFits, Shapes, ChargeFits, ReadableFits
  <2>1. CASE Raises /\ UNCHANGED child
    BY <2>0, <2>1, FailureInv DEF ExecutionInv
  <2>2. CASE Goes("repairWait") /\ child' = Attached("repair")
    <3>1. /\ run'.pc = "repairWait" /\ run'.result = run.result
          /\ run' = [pc |-> run'.pc, attempt |-> run'.attempt, then |-> run'.then, result |-> run'.result]
      BY <2>2, Going DEF ExecutionInv
    <3>2. /\ child'.work = "repair" /\ child'.state \in {"alive", "dying"}
          /\ child' = [state |-> child'.state, work |-> child'.work, ok |-> child'.ok]
      BY <2>2 DEF Attached
    <3>3. Shapes'
      BY <2>0, <3>1, <3>2 DEF ExecutionInv, Shapes
    <3> QED
      BY <2>0, <3>1, <3>2, <3>3 DEF ExecutionInv, ProcessFits, ReadableFits, ChargeFits
  <2> QED
    BY <1>2, <2>1, <2>2 DEF StartRepair
<1> QED
  BY <1>1, <1>2

LEMMA JudgeInv ==
    ASSUME ExecutionInv, Finalize \/ RepairSucceeds
    PROVE  ExecutionInv'
<1>0. Shapes
  BY DEF ExecutionInv
<1>1. CASE Finalize
  <2>0. run.pc = "finalize" /\ child.state = "none" /\ child' = child /\ seen' = seen
    BY <1>1 DEF Finalize, ExecutionInv, ProcessFits
  <2> DEFINE Q(a) == QualityReasons(a.disk, seen, a.error, seen.blocking)
  <2>1. PICK a \in Assemblies(disk) :
         /\ disk' = a.disk
         /\ Reviews(CASE a.error = "survey_report_internal_metadata_leaked" -> Failed(a.error)
                      [] a.error # "survey_report_internal_metadata_leaked"
                           /\ ~IsWritten(a.disk, "report") -> Failed(UnpublishedCode(a.disk, a.error))
                      [] OTHER -> Delivered(Q(a)))
    BY <1>1 DEF Finalize
  <2> HIDE DEF Q
  <2>2. ASSUME NEW code, Reviews(Failed(code))
        PROVE  ExecutionInv'
    <3>1. /\ run'.pc = "review" /\ run'.result = Failed(code)
          /\ run' = [pc |-> run'.pc, attempt |-> run'.attempt, then |-> run'.then, result |-> run'.result]
      BY <1>0, <2>2, Going
    <3>2. run'.result.outcome = "failed" /\ run'.result.chargeable = FALSE
      BY <3>1 DEF Failed
    <3>3. DiskShape(disk')
      BY <1>0, <2>1, AssemblyWrites DEF Shapes
    <3>4. Shapes'
      BY <1>0, <2>0, <3>1, <3>3 DEF Shapes
    <3> QED
      BY <2>0, <3>1, <3>2, <3>4 DEF ExecutionInv, ProcessFits, ReadableFits, ChargeFits
  <2>3. CASE Reviews(Delivered(Q(a))) /\ IsWritten(a.disk, "report")
    <3>1. a.disk.report.kind # "none"
      BY <2>3 DEF IsWritten
    <3>2. /\ run'.pc = "review" /\ run'.result = Delivered(Q(a))
          /\ run' = [pc |-> run'.pc, attempt |-> run'.attempt, then |-> run'.then, result |-> run'.result]
      BY <1>0, <2>3, Going
    <3>3. DiskShape(disk')
      BY <1>0, <2>1, AssemblyWrites DEF Shapes
    <3>4. Shapes'
      BY <1>0, <2>0, <3>2, <3>3 DEF Shapes
    <3>5. ProcessFits' /\ ReadableFits'
      BY <2>0, <2>1, <3>1, <3>2 DEF ProcessFits, ReadableFits
    <3>6. ChargeFits'
      BY <1>0, <2>0, <2>1, <3>2, ChargedIsFlawless DEF Q, Shapes
    <3> QED
      BY <3>4, <3>5, <3>6 DEF ExecutionInv
  <2> QED
    BY <2>1, <2>2, <2>3
<1>2. CASE RepairSucceeds
  <2>0. run.pc = "repairWait" /\ child' = NoChild /\ seen' = seen
    BY <1>2 DEF RepairSucceeds
  <2>1. CASE Returns(run.result) /\ UNCHANGED disk
    BY <2>0, <2>1, EndInv
  <2>2. CASE \E a \in Assemblies(disk) :
               /\ disk' = a.disk
               /\ Returns(IF a.error = "none"
                          THEN Delivered(QualityReasons(a.disk, NothingLearnt, "none", "none"))
                          ELSE run.result)
    <3>1. PICK a \in Assemblies(disk) :
               /\ disk' = a.disk
               /\ Returns(IF a.error = "none"
                          THEN Delivered(QualityReasons(a.disk, NothingLearnt, "none", "none"))
                          ELSE run.result)
      BY <2>2
    <3>2. /\ run'.pc = "done"
          /\ run'.result = IF a.error = "none"
                           THEN Delivered(QualityReasons(a.disk, NothingLearnt, "none", "none"))
                           ELSE run.result
          /\ run' = [pc |-> run'.pc, attempt |-> run'.attempt, then |-> run'.then, result |-> run'.result]
      BY <1>0, <3>1, Going
    <3>3. /\ DiskShape(disk')
          /\ a.disk.report = disk.report \/ a.disk.report.kind = "built"
          /\ a.error = "none" => a.disk.report.kind = "built"
      <4>1. Built(disk).kind = "built"
        BY DEF Built
      <4>2. /\ DiskShape(a.disk)
            /\ a.disk.report = disk.report \/ a.disk.report.kind = "built"
            /\ a.error = "none" => a.disk.report = Built(disk)
        BY <1>0, <3>1, AssemblyWrites DEF Shapes
      <4> QED
        BY <3>1, <4>1, <4>2
    <3>4. Shapes'
      BY <1>0, <2>0, <3>2, <3>3 DEF Shapes, NoChild
    <3>5. ProcessFits' /\ ReadableFits'
      BY <2>0, <3>1, <3>2, <3>3 DEF ExecutionInv, ProcessFits, ReadableFits, NoChild
    <3>6. ChargeFits'
      <4>1. CASE a.error = "none"
        BY <1>0, <3>1, <3>2, <4>1, ChargedIsFlawless DEF Shapes
      <4>2. CASE a.error # "none"
        <5>1. run'.result.chargeable = run.result.chargeable /\ ~run.result.chargeable
          BY <2>0, <3>2, <4>2 DEF ExecutionInv, ChargeFits
        <5> QED
          BY <5>1 DEF ChargeFits
      <4> QED
        BY <4>1, <4>2
    <3> QED
      BY <3>4, <3>5, <3>6 DEF ExecutionInv
  <2> QED
    BY <1>2, <2>1, <2>2 DEF RepairSucceeds
<1> QED
  BY <1>1, <1>2

\* The steps that stop the process or leave it, and what follows from its end.
LEMMA StopsInv ==
    ASSUME ExecutionInv,
           LossEndsRun \/ CancelEndsRun \/ RunTimesOut \/ RunBreaks \/ RepairTimesOut \/ RepairBreaks \/ IsInterrupted
    PROVE  ExecutionInv'
<1>1. CASE LossEndsRun \/ CancelEndsRun \/ RunTimesOut \/ RunBreaks
  <2>1. run.pc = "wait" /\ \E p \in StopReasons : Stop(p)
    BY <1>1 DEF StopReasons, LossEndsRun, CancelEndsRun, RunTimesOut, RunBreaks
  <2>2. run.result.outcome # "succeeded"
    BY <2>1 DEF ExecutionInv, ProcessFits, NoResult
  <2> QED
    BY <2>1, <2>2, StopInv
<1>2. CASE RepairTimesOut \/ RepairBreaks
  <2>1. run.pc = "repairWait" /\ \E p \in {"unrepaired", "raised"} : Stop(p)
    BY <1>2 DEF RepairTimesOut, RepairBreaks
  <2> QED
    BY <2>1, StopInv DEF StopReasons
<1>3. CASE IsInterrupted
  BY <1>3, StopInv DEF IsInterrupted, StopReasons
<1> QED
  BY <1>1, <1>2, <1>3

LEMMA StoppedInv ==
    ASSUME ExecutionInv, Stopped
    PROVE  ExecutionInv'
<1>0. run.pc = "stopping" /\ child' = NoChild /\ UNCHANGED <<told, disk, seen>>
  BY DEF Stopped
<1>00. Shapes /\ disk' = disk
  BY <1>0 DEF ExecutionInv
<1>1. CASE run.then \in {"lost", "interrupted"} /\ Goes(run.then)
  BY <1>0, <1>1, EndInv
<1>2. CASE Returns(Cancelled)
  BY <1>0, <1>2, EndInv
<1>3. CASE Reviews(Failed("survey_timed_out"))
  BY <1>0, <1>00, <1>3, FailureInv
<1>4. CASE Returns(run.result)
  BY <1>0, <1>4, EndInv
<1>5. CASE Raises
  BY <1>0, <1>00, <1>5, FailureInv
<1>6. \/ run.then \in {"lost", "interrupted"} /\ Goes(run.then)
      \/ run.then = "raised" /\ Raises
      \/ run.then = "cancelled" /\ Returns(Cancelled)
      \/ run.then = "timed_out" /\ Reviews(Failed("survey_timed_out"))
      \/ run.then = "unrepaired" /\ Returns(run.result)
  <2>1. run.then \in StopReasons
    BY <1>0 DEF ExecutionInv, ProcessFits
  <2> QED
    BY <2>1 DEF Stopped, StopReasons
<1> QED
  BY <1>1, <1>2, <1>3, <1>4, <1>5, <1>6

\* A run that has ended by itself.
LEMMA RunEndInv ==
    ASSUME ExecutionInv, RunFails \/ RunSucceeds
    PROVE  ExecutionInv'
<1>0. run.pc = "wait" /\ child' = NoChild /\ UNCHANGED <<told, disk, seen>> /\ Shapes /\ run.result = NoResult
  BY DEF RunFails, RunSucceeds, ExecutionInv, ProcessFits
<1>1. ASSUME NEW code, Reviews(Failed(code))
      PROVE  ExecutionInv'
  <2>1. disk' = disk
    BY <1>0
  <2> QED
    BY <1>0, <1>1, <2>1, FailureInv
<1>2. CASE Goes("finalize")
  <2>1. /\ run'.pc = "finalize" /\ run'.result = NoResult
        /\ run' = [pc |-> run'.pc, attempt |-> run'.attempt, then |-> run'.then, result |-> run'.result]
    BY <1>0, <1>2, Going
  <2>2. NoResult.outcome = "none" /\ NoResult.chargeable = FALSE
    BY DEF NoResult
  <2>3. Shapes'
    BY <1>0, <2>1 DEF Shapes, NoChild
  <2> QED
    BY <1>0, <2>1, <2>2, <2>3 DEF ExecutionInv, ProcessFits, ReadableFits, ChargeFits, NoChild
<1>3. Goes("finalize") \/ \E code : Reviews(Failed(code))
  BY DEF RunFails, RunSucceeds
<1> QED
  BY <1>1, <1>2, <1>3

\* The steps between two processes, none of which touches the files but Retry.
LEMMA BetweenInv ==
    ASSUME ExecutionInv, ProgressFails \/ Review \/ Retry \/ ScheduleRepair \/ RepairFails
    PROVE  ExecutionInv'
<1>0. Shapes
  BY DEF ExecutionInv
<1>1. CASE ProgressFails
  <2>1. Raises /\ child' = child /\ UNCHANGED disk /\ child.state = "none"
    BY <1>1 DEF ProgressFails, ExecutionInv, ProcessFits
  <2> QED
    BY <1>0, <2>1, FailureInv
<1>2. CASE Review
  <2>0. run.pc = "review" /\ UNCHANGED <<child, told, disk, seen>> /\ child.state = "none"
    BY <1>2 DEF Review, ExecutionInv, ProcessFits
  <2>1. CASE Repairable /\ Goes("repair")
    <3>1. /\ run'.pc = "repair" /\ run'.result = run.result
          /\ run' = [pc |-> run'.pc, attempt |-> run'.attempt, then |-> run'.then, result |-> run'.result]
      BY <1>0, <2>1, Going
    <3>2. run.result.code = "survey_quality_degraded" /\ ~run.result.chargeable
      BY <2>1 DEF Repairable, ExecutionInv, ChargeFits
    <3>3. Shapes'
      BY <1>0, <2>0, <3>1 DEF Shapes
    <3> QED
      BY <2>0, <3>1, <3>2, <3>3 DEF ExecutionInv, ProcessFits, ReadableFits, ChargeFits
  <2>2. CASE Returns(run.result)
    <3>1. /\ run'.pc = "done" /\ run'.result = run.result
          /\ run' = [pc |-> run'.pc, attempt |-> run'.attempt, then |-> run'.then, result |-> run'.result]
      BY <1>0, <2>2, Going
    <3>2. Shapes'
      BY <1>0, <2>0, <3>1 DEF Shapes
    <3>3. ChargeFits'
      BY <2>0, <3>1 DEF ExecutionInv, ChargeFits, IsComplete
    <3> QED
      BY <2>0, <3>1, <3>2, <3>3 DEF ExecutionInv, ProcessFits, ReadableFits
  <2>3. CASE Retried(run.result) /\ Goes("retry")
    <3>1. /\ run'.pc = "retry" /\ run'.result = run.result
          /\ run' = [pc |-> run'.pc, attempt |-> run'.attempt, then |-> run'.then, result |-> run'.result]
      BY <1>0, <2>3, Going
    <3>2. run.result.outcome = "failed" /\ run.result.code # "none"
      BY <2>3 DEF Retried, TransientCodes
    <3>3. ~run.result.chargeable
      BY <3>2 DEF ExecutionInv, ChargeFits
    <3>4. Shapes'
      BY <1>0, <2>0, <3>1 DEF Shapes
    <3> QED
      BY <2>0, <3>1, <3>2, <3>3, <3>4 DEF ExecutionInv, ProcessFits, ReadableFits, ChargeFits
  <2> QED
    BY <1>2, <2>1, <2>2, <2>3 DEF Review
<1>3. CASE Retry
  <2>0. run.pc = "retry" /\ UNCHANGED <<child, told, seen>> /\ child.state = "none"
    BY <1>3 DEF Retry, ExecutionInv, ProcessFits
  <2>1. CASE (Goes("lost") \/ Returns(Cancelled)) /\ UNCHANGED disk
    BY <1>0, <2>0, <2>1, AsideInv
  <2>2. CASE /\ run' = [run EXCEPT !.pc = "prepare", !.attempt = @ + 1, !.result = NoResult]
             /\ disk' = EmptyDisk
    <3>1. /\ run'.pc = "prepare" /\ run'.result = NoResult
          /\ run' = [pc |-> run'.pc, attempt |-> run'.attempt, then |-> run'.then, result |-> run'.result]
      BY <1>0, <2>2 DEF Shapes
    <3>2. NoResult.outcome = "none" /\ NoResult.chargeable = FALSE
      BY DEF NoResult
    <3>3. Shapes'
      BY <1>0, <2>0, <2>2, <3>1, EmptyShape DEF Shapes
    <3> QED
      BY <2>0, <3>1, <3>2, <3>3 DEF ExecutionInv, ProcessFits, ReadableFits, ChargeFits
  <2> QED
    BY <1>3, <2>1, <2>2 DEF Retry
<1>4. CASE ScheduleRepair
  <2>0. run.pc = "repair" /\ UNCHANGED <<child, told, disk, seen>> /\ child.state = "none"
    BY <1>4 DEF ScheduleRepair, ExecutionInv, ProcessFits
  <2>1. CASE Goes("lost") \/ Returns(Cancelled)
    BY <1>0, <2>0, <2>1, AsideInv
  <2>2. CASE Goes("repairStart")
    <3>1. /\ run'.pc = "repairStart" /\ run'.result = run.result
          /\ run' = [pc |-> run'.pc, attempt |-> run'.attempt, then |-> run'.then, result |-> run'.result]
      BY <1>0, <2>2, Going
    <3>2. Shapes'
      BY <1>0, <2>0, <3>1 DEF Shapes
    <3> QED
      BY <2>0, <3>1, <3>2 DEF ExecutionInv, ProcessFits, ReadableFits, ChargeFits
  <2> QED
    BY <1>4, <2>1, <2>2 DEF ScheduleRepair
<1>5. CASE RepairFails
  <2>1. /\ run.pc = "repairWait" /\ child' = NoChild /\ UNCHANGED disk
        /\ Goes("lost") \/ Returns(run.result)
    BY <1>5 DEF RepairFails
  <2> QED
    BY <2>1, EndInv
<1> QED
  BY <1>1, <1>2, <1>3, <1>4, <1>5

-----------------------------------------------------------------------------
(* The theorems.                                                           *)

LEMMA ExecutionInitial == Init => ExecutionInv
<1> SUFFICES ASSUME Init PROVE ExecutionInv
  OBVIOUS
<1>1. Shapes
  BY EmptyShape DEF Init, Shapes, NoChild
<1>2. run.pc = "prepare" /\ run.result = NoResult /\ child.state = "none"
  BY DEF Init, NoChild
<1>3. NoResult.outcome = "none" /\ NoResult.chargeable = FALSE
  BY DEF NoResult
<1> QED
  BY <1>1, <1>2, <1>3 DEF ExecutionInv, ProcessFits, ReadableFits, ChargeFits

LEMMA ExecutionSteps == ExecutionInv /\ [Next]_vars => ExecutionInv'
<1> SUFFICES ASSUME ExecutionInv, [Next]_vars PROVE ExecutionInv'
  OBVIOUS
<1>1. CASE StartRun \/ StartRepair
  BY <1>1, StartInv
<1>2. CASE LossEndsRun \/ CancelEndsRun \/ RunTimesOut \/ RunBreaks \/ RepairTimesOut \/ RepairBreaks \/ IsInterrupted
  BY <1>2, StopsInv
<1>3. CASE RunFails \/ RunSucceeds
  BY <1>3, RunEndInv
<1>4. CASE Finalize \/ RepairSucceeds
  BY <1>4, JudgeInv
<1>5. CASE ProgressFails \/ Review \/ Retry \/ ScheduleRepair \/ RepairFails
  BY <1>5, BetweenInv
<1>6. CASE Stopped
  BY <1>6, StoppedInv
<1>7. CASE ProcessExits \/ HeartbeatEnds
  BY <1>7, BesideInv
<1>8. CASE UNCHANGED vars
  <2>1. UNCHANGED <<run, child, told, disk, seen>>
    BY <1>8 DEF vars
  <2>2. Shapes' /\ ProcessFits' /\ ReadableFits'
    BY <2>1 DEF ExecutionInv, Shapes, ProcessFits, ReadableFits
  <2>3. ChargeFits'
    BY <2>1 DEF ExecutionInv, ChargeFits
  <2> QED
    BY <2>2, <2>3 DEF ExecutionInv
<1> QED
  BY <1>1, <1>2, <1>3, <1>4, <1>5, <1>6, <1>7, <1>8 DEF Next

\* Only the heartbeat tells anything.
ToldFits == told \subseteq {"lost", "cancel"}

LEMMA ToldSteps == ToldFits /\ [Next]_vars => ToldFits'
<1> SUFFICES ASSUME ToldFits, [Next]_vars PROVE ToldFits'
  OBVIOUS
<1>1. CASE HeartbeatEnds
  BY <1>1 DEF HeartbeatEnds, ToldFits
<1>2. ASSUME NEW p, Stop(p) PROVE told' = told
  BY <1>2 DEF Stop
<1>3. CASE LossEndsRun \/ CancelEndsRun \/ RunTimesOut \/ RunBreaks \/ RepairTimesOut \/ RepairBreaks \/ IsInterrupted
  <2>1. \E p : Stop(p)
    BY <1>3 DEF LossEndsRun, CancelEndsRun, RunTimesOut, RunBreaks, RepairTimesOut, RepairBreaks, IsInterrupted
  <2> QED
    BY <1>2, <2>1 DEF ToldFits
<1>4. CASE StartRun \/ RunFails \/ RunSucceeds \/ ProgressFails \/ Finalize \/ Review \/ Retry
  BY <1>4 DEF StartRun, RunFails, RunSucceeds, ProgressFails, Finalize, Review, Retry, ToldFits
<1>5. CASE ScheduleRepair \/ StartRepair \/ RepairFails \/ RepairSucceeds \/ Stopped \/ ProcessExits
  BY <1>5 DEF ScheduleRepair, StartRepair, RepairFails, RepairSucceeds, Stopped, ProcessExits, ToldFits
<1>6. CASE UNCHANGED vars
  BY <1>6 DEF vars, ToldFits
<1> QED
  BY <1>1, <1>3, <1>4, <1>5, <1>6 DEF Next

\* What becomes of a success.
Kept == run'.result.outcome = "succeeded"
GivenUp == run'.result = Cancelled /\ "cancel" \in told /\ UNCHANGED disk
Broken == run'.pc = "raised" /\ RepairIsBroken /\ UNCHANGED disk

LEMMA SuccessSteps ==
    ASSUME ExecutionInv, ToldFits, Next, run.result.outcome = "succeeded"
    PROVE  Kept \/ GivenUp \/ Broken
<1>0. /\ Shapes /\ run.pc \notin {"prepare", "wait", "finalize", "retry"}
      /\ run.pc = "stopping" => run.then \in {"unrepaired", "raised", "interrupted"}
  BY DEF ExecutionInv, ReadableFits
<1>1. CASE \E pc : Goes(pc)
  BY <1>0, <1>1, Going DEF Kept
<1>2. CASE Returns(run.result)
  BY <1>0, <1>2, Going DEF Kept
<1>3. CASE \E p : Stop(p)
  BY <1>0, <1>3, Stopping DEF Kept
<1>4. CASE RepairSucceeds
  <2>1. ASSUME NEW reasons, Returns(Delivered(reasons))
        PROVE  Kept
    BY <1>0, <2>1, Going, DeliveredCharge DEF Kept
  <2>2. Returns(run.result) \/ \E reasons : Returns(Delivered(reasons))
    BY <1>4 DEF RepairSucceeds
  <2> QED
    BY <1>2, <2>1, <2>2
<1>5. CASE Review
  BY <1>0, <1>1, <1>2, <1>5 DEF Review
<1>6. CASE ScheduleRepair
  <2>1. CASE told # {} /\ "lost" \notin told /\ Returns(Cancelled)
    <3>1. "cancel" \in told
      BY <2>1 DEF ToldFits
    <3>2. run'.result = Cancelled /\ UNCHANGED disk
      BY <1>0, <1>6, <2>1, Going DEF ScheduleRepair
    <3> QED
      BY <3>1, <3>2 DEF GivenUp
  <2> QED
    BY <1>1, <1>6, <2>1 DEF ScheduleRepair
<1>7. CASE StartRepair
  <2>1. CASE Raises
    <3>1. run'.pc = "raised" /\ run.pc = "repairStart" /\ UNCHANGED disk
      BY <1>0, <1>7, <2>1, Going DEF StartRepair
    <3> QED
      BY <3>1 DEF Broken, RepairIsBroken
  <2> QED
    BY <1>1, <1>7, <2>1 DEF StartRepair
<1>8. CASE RepairTimesOut \/ RepairBreaks \/ IsInterrupted
  BY <1>3, <1>8 DEF RepairTimesOut, RepairBreaks, IsInterrupted
<1>9. CASE RepairFails
  BY <1>1, <1>2, <1>9 DEF RepairFails
<1>10. CASE Stopped
  <2>1. CASE Raises /\ run.then = "raised"
    <3>1. run'.pc = "raised" /\ run.pc = "stopping" /\ UNCHANGED disk
      BY <1>0, <1>10, <2>1, Going DEF Stopped
    <3> QED
      BY <2>1, <3>1 DEF Broken, RepairIsBroken
  <2>2. run.pc = "stopping"
    BY <1>10 DEF Stopped
  <2>3. \/ Goes(run.then) \/ Returns(run.result)
        \/ Raises /\ run.then = "raised"
    BY <1>0, <1>10, <2>2 DEF Stopped
  <2> QED
    BY <1>1, <1>2, <2>1, <2>3
<1>11. CASE ProcessExits \/ HeartbeatEnds
  BY <1>11 DEF ProcessExits, HeartbeatEnds, Kept
<1>12. CASE \/ StartRun \/ LossEndsRun \/ CancelEndsRun \/ RunTimesOut \/ RunBreaks \/ RunFails
            \/ RunSucceeds \/ ProgressFails \/ Finalize \/ Retry
  BY <1>0, <1>12 DEF StartRun, LossEndsRun, CancelEndsRun, RunTimesOut, RunBreaks, RunFails,
                     RunSucceeds, ProgressFails, Finalize, Retry
<1> QED
  BY <1>4, <1>5, <1>6, <1>7, <1>8, <1>9, <1>10, <1>11, <1>12 DEF Next

\* Only a claim that was not told to stop attaches a process that goes on.
LEMMA StartSteps ==
    ASSUME Next, child.state # "alive", child'.state = "alive"
    PROVE  told = {}
<1>1. ASSUME NEW work, child' = Attached(work)
      PROVE  told = {}
  BY <1>1 DEF Attached
<1>2. ASSUME NEW p, Stop(p)
      PROVE  FALSE
  BY <1>2 DEF Stop, Terminated
<1>3. CASE StartRun \/ StartRepair
  BY <1>1, <1>3 DEF StartRun, StartRepair
<1>4. CASE LossEndsRun \/ CancelEndsRun \/ RunTimesOut \/ RunBreaks \/ RepairTimesOut \/ RepairBreaks \/ IsInterrupted
  BY <1>2, <1>4 DEF LossEndsRun, CancelEndsRun, RunTimesOut, RunBreaks, RepairTimesOut, RepairBreaks, IsInterrupted
<1>5. CASE Stopped \/ RunFails \/ RunSucceeds \/ RepairFails \/ RepairSucceeds
  <2>1. child' = NoChild
    BY <1>5 DEF Stopped, RunFails, RunSucceeds, RepairFails, RepairSucceeds
  <2> QED
    BY <2>1 DEF NoChild
<1>6. CASE ProgressFails \/ Finalize \/ Review \/ Retry \/ ScheduleRepair
  BY <1>6 DEF ProgressFails, Finalize, Review, Retry, ScheduleRepair
<1>7. CASE ProcessExits
  <2>1. PICK ok \in BOOLEAN : child' = [child EXCEPT !.state = "exited", !.ok = ok]
    BY <1>7 DEF ProcessExits
  <2>2. child'.state \in {child.state, "exited"}
    BY <2>1
  <2> QED
    BY <2>2
<1>8. CASE HeartbeatEnds
  BY <1>8 DEF HeartbeatEnds
<1> QED
  BY <1>3, <1>4, <1>5, <1>6, <1>7, <1>8 DEF Next

\* The inductive invariant of the execution of a claim.
THEOREM ExecutionInvariant == Spec => []ExecutionInv
<1>1. Init => ExecutionInv
  BY ExecutionInitial
<1>2. ExecutionInv /\ [Next]_vars => ExecutionInv'
  BY ExecutionSteps
<1> QED
  BY <1>1, <1>2, PTL DEF Spec

\* "make a readable report free, never hidden": whatever happens to the repair of a readable
\* report, it stays on the disk, and its result becomes a failure only by an exception of the
\* repair's process.
THEOREM ReadableStays == Spec => ReadableIsNeverHidden
<1>1. ExecutionInv /\ ExecutionInv' /\ ToldFits /\ [Next]_vars =>
        [run.result.outcome = "succeeded" =>
           /\ disk'.report.kind # "none"
           /\ run'.result.outcome # "succeeded" =>
                 \/ run'.result = Cancelled /\ "cancel" \in told
                 \/ run'.pc = "raised" /\ RepairIsBroken]_vars
  <2> SUFFICES ASSUME ExecutionInv, ExecutionInv', ToldFits, Next, run.result.outcome = "succeeded"
               PROVE  /\ disk'.report.kind # "none"
                      /\ run'.result.outcome # "succeeded" =>
                            \/ run'.result = Cancelled /\ "cancel" \in told
                            \/ run'.pc = "raised" /\ RepairIsBroken
    OBVIOUS
  <2>1. Kept \/ GivenUp \/ Broken
    BY SuccessSteps
  <2>2. disk.report.kind # "none" /\ (Kept => disk'.report.kind # "none")
    BY DEF ExecutionInv, ReadableFits, Kept
  <2> QED
    BY <2>1, <2>2 DEF Kept, GivenUp, Broken
<1>2. Spec => []ExecutionInv
  BY ExecutionInvariant
<1>3. Init => ToldFits
  BY DEF Init, ToldFits
<1> QED
  BY <1>1, <1>2, <1>3, ToldSteps, PTL DEF Spec, ReadableIsNeverHidden

\* "Terminate the entire RCM process group and reap its leader": no process is started that
\* goes on working once the claim was told to stop, and none is left when it is over.
THEOREM NoProcessIsLeft == Spec => NoStrayProcess
<1>1. ExecutionInv /\ ExecutionInv' /\ [Next]_vars =>
        [/\ child.state # "alive" /\ child'.state = "alive" => told = {}
         /\ run'.pc \in {"done", "lost", "raised", "interrupted"} => child'.state = "none"]_vars
  <2> SUFFICES ASSUME ExecutionInv', Next
               PROVE  /\ child.state # "alive" /\ child'.state = "alive" => told = {}
                      /\ run'.pc \in {"done", "lost", "raised", "interrupted"} => child'.state = "none"
    OBVIOUS
  <2>1. child.state # "alive" /\ child'.state = "alive" => told = {}
    BY StartSteps
  <2>2. run'.pc \in {"done", "lost", "raised", "interrupted"} => child'.state = "none"
    BY DEF ExecutionInv, ProcessFits
  <2> QED
    BY <2>1, <2>2
<1>2. Spec => []ExecutionInv
  BY ExecutionInvariant
<1> QED
  BY <1>1, <1>2, PTL DEF Spec, NoStrayProcess

-----------------------------------------------------------------------------
(* What the collector of events may come to: the recursion of a fold has a *)
(* solution, and each of its steps stays in a set.                         *)

\* The induction over the subsets of a finite set.
LEMMA SmallestSubset ==
    ASSUME NEW S, IsFiniteSet(S), NEW Bad \in SUBSET (SUBSET S), Bad # {}
    PROVE  \E T \in Bad : \A U \in SUBSET T : U # T => U \notin Bad
<1>1. IsWellFoundedOn(StrictSubsetOrdering(S), FiniteSubsetsOf(S))
  BY FS_StrictSubsetOrderingWellFounded
<1>2. Bad \subseteq FiniteSubsetsOf(S)
  BY FS_FiniteSubsetsOfFinite
<1>3. PICK T \in Bad : \A U \in Bad : ~(<<U, T>> \in StrictSubsetOrdering(S))
  BY <1>1, <1>2, WFMin
<1>4. ASSUME NEW U \in SUBSET T, U # T, U \in Bad PROVE FALSE
  <2>1. <<U, T>> \in StrictSubsetOrdering(S)
    BY <1>4 DEF StrictSubsetOrdering
  <2> QED
    BY <1>3, <1>4, <2>1
<1> QED
  BY <1>3, <1>4

LEMMA MaxIsMember ==
    ASSUME NEW S \in SUBSET Nat, IsFiniteSet(S), S # {}
    PROVE  Max(S) \in S
<1> DEFINE HasMax(T) == \E m \in T : \A x \in T : m >= x
           Bad == {T \in SUBSET S : T # {} /\ ~HasMax(T)}
<1>1. ASSUME Bad # {} PROVE FALSE
  <2>1. PICK T \in Bad : \A U \in SUBSET T : U # T => U \notin Bad
    <3>1. Bad \in SUBSET (SUBSET S)
      OBVIOUS
    <3> HIDE DEF Bad
    <3> QED
      BY ONLY <1>1, <3>1, IsFiniteSet(S), SmallestSubset
  <2>2. PICK x \in T : TRUE
    OBVIOUS
  <2>3. T \ {x} = {} \/ HasMax(T \ {x})
    BY <2>1
  <2>4. HasMax(T)
    <3>1. CASE T \ {x} = {}
      <4>1. \A y \in T : y = x
        BY <3>1
      <4> QED
        BY <4>1
    <3>2. CASE HasMax(T \ {x})
      <4>1. PICK m \in T \ {x} : \A y \in T \ {x} : m >= y
        BY <3>2
      <4>2. m \in Nat /\ x \in Nat /\ \A y \in T : y \in Nat
        OBVIOUS
      <4>3. CASE m >= x
        BY <4>1, <4>2, <4>3
      <4>4. CASE x >= m
        BY <4>1, <4>2, <4>4
      <4> QED
        BY <4>2, <4>3, <4>4
    <3> QED
      BY <2>3, <3>1, <3>2
  <2> QED
    BY <2>1, <2>4
<1>2. HasMax(S)
  BY <1>1
<1> QED
  BY <1>2 DEF Max

LEMMA LeastExists ==
    ASSUME NEW Bad \in SUBSET Nat, Bad # {}
    PROVE  \E n \in Bad : \A k \in 0..n - 1 : k \notin Bad
<1>1. IsWellFoundedOn(OpToRel(<, Nat), Nat)
  BY NatLessThanWellFounded
<1>2. PICK n \in Bad : \A y \in Bad : ~(<<y, n>> \in OpToRel(<, Nat))
  BY <1>1, WFMin
<1>3. ASSUME NEW k \in 0..n - 1, k \in Bad PROVE FALSE
  <2>1. <<k, n>> \in OpToRel(<, Nat)
    BY <1>3 DEF OpToRel
  <2> QED
    BY <1>2, <1>3, <2>1
<1> QED
  BY <1>3

\* Folds.tla: the recursion of a fold over the indices of a sequence has a solution.
IsFoldOf(f, D, V, base, step) ==
    /\ f \in [SUBSET D -> V]
    /\ \A s \in SUBSET D : f[s] = IF s = {} THEN base ELSE step[<<f[s \ {Max(s)}], Max(s)>>]

LEMMA FoldExists ==
    ASSUME NEW D, D \in SUBSET Nat, IsFiniteSet(D), NEW V, NEW base \in V,
           NEW step, step \in [V \X D -> V]
    PROVE  \E f : IsFoldOf(f, D, V, base, step)
<1> DEFINE Upto(k) == {s \in SUBSET D : Cardinality(s) <= k}
           IsFold(f, k) == \A s \in Upto(k) :
                              f[s] = IF s = {} THEN base ELSE step[<<f[s \ {Max(s)}], Max(s)>>]
           Good(k) == \E f \in [Upto(k) -> V] : IsFold(f, k)
           Bad == {k \in Nat : ~Good(k)}
<1>1. \A s \in SUBSET D : IsFiniteSet(s) /\ Cardinality(s) \in Nat
  BY FS_Subset, FS_CardinalityType
<1>2. \A s \in SUBSET D : s # {} =>
         Max(s) \in D /\ s \ {Max(s)} \in SUBSET D /\ Cardinality(s \ {Max(s)}) = Cardinality(s) - 1
  BY <1>1, MaxIsMember, FS_RemoveElement
<1>3. ASSUME Bad # {} PROVE FALSE
  <2>1. PICK k \in Bad : \A n \in 0..k - 1 : n \notin Bad
    <3> HIDE DEF Bad
    <3>1. Bad \in SUBSET Nat
      BY DEF Bad
    <3> QED
      BY <1>3, <3>1, LeastExists
  <2>2. CASE k = 0
    <3> DEFINE f == [s \in Upto(0) |-> base]
    <3>1. \A s \in Upto(0) : s = {}
      BY <1>1, FS_EmptySet
    <3>2. f \in [Upto(0) -> V] /\ IsFold(f, 0)
      BY <3>1
    <3>3. Good(0)
      <4> HIDE DEF f, IsFold, Upto
      <4> QED
        BY <3>2
    <3> HIDE DEF Good
    <3> QED
      BY <2>1, <2>2, <3>3
  <2>3. CASE k # 0
    <3>1. k - 1 \in Nat /\ k \in Nat
      BY <2>3
    <3>2. Good(k - 1)
      <4> HIDE DEF Good
      <4> QED
        BY <2>1, <3>1
    <3>3. PICK f \in [Upto(k - 1) -> V] : IsFold(f, k - 1)
      BY <3>2
    <3> DEFINE g == [s \in Upto(k) |-> IF Cardinality(s) <= k - 1 THEN f[s]
                                       ELSE step[<<f[s \ {Max(s)}], Max(s)>>]]
    <3>4. ASSUME NEW s \in Upto(k), s # {}
          PROVE  s \ {Max(s)} \in Upto(k - 1) /\ s \ {Max(s)} \in Upto(k) /\ Max(s) \in D
      BY <1>1, <1>2, <3>1, <3>4
    <3>5. \A s \in Upto(k) : Cardinality(s) <= k - 1 => s \in Upto(k - 1)
      OBVIOUS
    <3>6. \A s \in Upto(k) : s = {} => Cardinality(s) <= k - 1
      BY <3>1, FS_EmptySet
    <3>7. g \in [Upto(k) -> V]
      <4> SUFFICES ASSUME NEW s \in Upto(k)
            PROVE  (IF Cardinality(s) <= k - 1 THEN f[s] ELSE step[<<f[s \ {Max(s)}], Max(s)>>]) \in V
        OBVIOUS
      <4>1. CASE Cardinality(s) <= k - 1
        BY <4>1, <3>5
      <4>2. CASE ~(Cardinality(s) <= k - 1)
        <5>1. f[s \ {Max(s)}] \in V /\ Max(s) \in D
          BY <3>4, <3>6, <4>2
        <5> QED
          BY <5>1, <4>2
      <4> QED
        BY <4>1, <4>2
    <3>8. ASSUME NEW s \in Upto(k)
          PROVE  g[s] = IF s = {} THEN base ELSE step[<<g[s \ {Max(s)}], Max(s)>>]
      <4>1. CASE s = {}
        BY <4>1, <3>3, <3>5, <3>6
      <4>2. CASE s # {}
        <5>1. /\ s \ {Max(s)} \in Upto(k) /\ Cardinality(s \ {Max(s)}) <= k - 1
          BY <3>4, <4>2
        <5>2. g[s \ {Max(s)}] = f[s \ {Max(s)}]
          BY <5>1
        <5>3. g[s] = step[<<f[s \ {Max(s)}], Max(s)>>]
          BY <4>2, <3>3, <3>5
        <5> QED
          BY <4>2, <5>2, <5>3
      <4> QED
        BY <4>1, <4>2
    <3>9. Good(k)
      <4>1. IsFold(g, k)
        BY <3>8
      <4> HIDE DEF g, IsFold, Upto
      <4> QED
        BY <3>7, <4>1
    <3> HIDE DEF Good
    <3> QED
      BY <2>1, <3>9
  <2> QED
    BY <2>2, <2>3
<1> DEFINE n == Cardinality(D)
<1>4. n \in Nat /\ Upto(n) = SUBSET D
  BY FS_Subset, FS_CardinalityType
<1>5. Good(n)
  <2> HIDE DEF Good
  <2> QED
    BY <1>3, <1>4
<1> QED
  BY <1>4, <1>5 DEF IsFoldOf

-----------------------------------------------------------------------------
(* The collector.                                                          *)

FailureCodes ==
    {"none", "model_rate_limited", "model_timeout", "model_provider_unavailable",
     "model_authentication_failed", "model_request_rejected", "model_network_failed",
     "model_configuration_failed", "model_completion_failed"}

CollectorStates ==
    [active : SUBSET Components, pending : BOOLEAN, blocking : FailureCodes, image : FailureCodes,
     alarms : SUBSET DOMAIN Contract, wanted : SUBSET (Cards \cup Sections)]

\* The loop body of _collect_stage_timings.
CollectorStep(s, e) ==
    CASE e.type \in {"completion_start", "completion_failed", "hitch"} -> CompletionEvent(s, e)
      [] e.type \in {"component_start", "component_done"} -> ComponentEvent(s, e)
      [] e.type = "spawn" -> ToolEvent(s, e)

LEMMA CodesOfFailures ==
    ASSUME NEW r
    PROVE  CompletionCode(r) \in FailureCodes /\ HitchCode(r) \in FailureCodes
<1>1. \A status : StatusCode(status) \in FailureCodes
  BY DEF StatusCode, FailureCodes
<1>2. \A kind \in DOMAIN KindCodes : KindCodes[kind] \in FailureCodes
  BY DEF KindCodes, FailureCodes
<1>3. CompletionCode(r) \in FailureCodes
  BY <1>1, <1>2 DEF CompletionCode, FailureCodes
<1>4. HitchCode(r) \in FailureCodes
  <2> DEFINE timedOut == r.hitch = "timed out after"
             limited == r.hitch = "rate limit"
             timeout == r.hitch = "timeout" /\ r.status # 429
             unauthorized == r.hitch = "unauthorized" /\ r.status \notin {408, 425, 429} \cup (500..599)
             other == IF HasStatus(r) THEN StatusCode(r.status)
                      ELSE IF r.hitch = "connection" THEN "model_network_failed"
                      ELSE IF r.system THEN "model_configuration_failed" ELSE "model_completion_failed"
  <2>1. HitchCode(r) =
           CASE timedOut -> "model_timeout"
             [] limited -> "model_rate_limited"
             [] timeout -> "model_timeout"
             [] unauthorized -> "model_authentication_failed"
             [] OTHER -> other
    BY DEF HitchCode
  <2>2. other \in FailureCodes
    BY <1>1 DEF FailureCodes
  <2> HIDE DEF timedOut, limited, timeout, unauthorized, other
  <2> QED
    BY <2>1, <2>2 DEF FailureCodes
<1> QED
  BY <1>3, <1>4

LEMMA FailingStays ==
    ASSUME NEW s \in CollectorStates, NEW code \in FailureCodes
    PROVE  Fails(s, code) \in CollectorStates
BY DEF Fails, CollectorStates

\* Every event keeps what has been learnt within what there is to learn.
LEMMA CollectorStays ==
    ASSUME NEW s \in CollectorStates, NEW e \in Events
    PROVE  CollectorStep(s, e) \in CollectorStates
<1>1. CASE e.type \in {"completion_start", "completion_failed", "hitch"}
  <2>1. [s EXCEPT !.pending = FALSE] \in CollectorStates /\ [s EXCEPT !.pending = TRUE] \in CollectorStates
    BY DEF CollectorStates
  <2>2. CompletionCode(e.report) \in FailureCodes /\ HitchCode(e.report) \in FailureCodes
    BY CodesOfFailures
  <2>3. /\ Fails([s EXCEPT !.pending = TRUE], CompletionCode(e.report)) \in CollectorStates
        /\ Fails(s, HitchCode(e.report)) \in CollectorStates
    BY <2>1, <2>2, FailingStays
  <2>4. CompletionEvent(s, e) \in CollectorStates
    <3>1. CASE e.type = "completion_start"
      BY <2>1, <3>1 DEF CompletionEvent
    <3>2. CASE e.type = "completion_failed"
      BY <2>3, <3>2 DEF CompletionEvent
    <3>3. CASE e.type = "hitch"
      BY <2>1, <2>3, <3>3 DEF CompletionEvent
    <3> QED
      BY <1>1, <3>1, <3>2, <3>3
  <2> QED
    BY <1>1, <2>4 DEF CollectorStep
<1>2. CASE e.type \in {"component_start", "component_done"}
  <2>1. e.component \in Components
    BY <1>2 DEF Events
  <2>2. CASE e.type = "component_start"
    <3>1. ComponentEvent(s, e) = [s EXCEPT !.active = s.active \cup {e.component}]
      BY <2>2 DEF ComponentEvent
    <3>2. ComponentEvent(s, e) \in CollectorStates
      BY <2>1, <3>1 DEF CollectorStates
    <3> QED
      BY <1>2, <3>2 DEF CollectorStep
  <2>3. CASE e.type = "component_done"
    <3> DEFINE alarms == IF e.component \in DOMAIN Contract /\ ~e.written
                         THEN s.alarms \cup {e.component} ELSE s.alarms
               active == s.active \ {e.component}
    <3>1. ComponentEvent(s, e) = [s EXCEPT !.active = active, !.alarms = alarms]
      BY <2>3 DEF ComponentEvent, Finished
    <3>2. alarms \in SUBSET DOMAIN Contract /\ active \in SUBSET Components
      BY DEF CollectorStates
    <3> HIDE DEF alarms, active
    <3>3. ComponentEvent(s, e) \in CollectorStates
      BY <3>1, <3>2 DEF CollectorStates
    <3> QED
      BY <1>2, <3>3 DEF CollectorStep
  <2> QED
    BY <1>2, <2>2, <2>3
<1>3. CASE e.type = "spawn"
  <2>1. e.item \in Cards \cup Sections
    BY <1>3 DEF Events
  <2>2. ToolEvent(s, e) = [s EXCEPT !.wanted = s.wanted \cup {e.item}]
    BY DEF ToolEvent, Promises
  <2>3. ToolEvent(s, e) \in CollectorStates
    BY <2>1, <2>2 DEF CollectorStates
  <2> QED
    BY <1>3, <2>3 DEF CollectorStep
<1>4. e.type \in {"completion_start", "completion_failed", "hitch", "component_start", "component_done", "spawn"}
  BY DEF Events
<1> QED
  BY <1>1, <1>2, <1>3, <1>4

\* _collect_stage_timings: whatever the events are.
LEMMA CollectedStays ==
    ASSUME NEW events \in Seq(Events)
    PROVE  Collected(events) \in CollectorStates
<1> DEFINE D == DOMAIN events
           all == FoldLeft(LAMBDA s, e : CollectorStep(s, e), Fresh, events)
           IsFold(f) == f = [s \in SUBSET D |-> IF s = {} THEN Fresh
                                                ELSE CollectorStep(f[s \ {Max(s)}], events[Max(s)])]
           iter == CHOOSE f : IsFold(f)
<1>0. IsFiniteSet(D) /\ D \in SUBSET Nat
  <2>1. D = 1..Len(events) /\ Len(events) \in Nat
    OBVIOUS
  <2> QED
    BY <2>1, FS_Interval
<1>1. \A i \in D : events[i] \in Events
  OBVIOUS
<1>2. Collected(events) = all
  BY DEF Collected, CollectorStep
<1>3. all = iter[D]
  BY SMT DEF FoldLeft, MapThenFoldSet
<1>4. Fresh \in CollectorStates
  BY DEF Fresh, CollectorStates, FailureCodes
<1>5. \A s \in SUBSET D : IsFiniteSet(s) /\ s \in SUBSET Nat
  BY <1>0, FS_Subset
<1>6. \E f : IsFold(f)
  <2> DEFINE step == [p \in CollectorStates \X D |-> CollectorStep(p[1], events[p[2]])]
  <2>1. step \in [CollectorStates \X D -> CollectorStates]
    BY <1>1, CollectorStays
  <2>2. PICK f : IsFoldOf(f, D, CollectorStates, Fresh, step)
    <3> HIDE DEF step, D
    <3> QED
      BY ONLY <1>0, <1>4, <2>1, FoldExists
  <2>3. ASSUME NEW s \in SUBSET D, s # {}
        PROVE  step[<<f[s \ {Max(s)}], Max(s)>>] = CollectorStep(f[s \ {Max(s)}], events[Max(s)])
    <3>1. Max(s) \in D
      BY <1>5, <2>3, MaxIsMember
    <3>2. f[s \ {Max(s)}] \in CollectorStates
      BY <2>2 DEF IsFoldOf
    <3> QED
      BY <3>1, <3>2
  <2>4. \A s \in SUBSET D : f[s] = IF s = {} THEN Fresh
                                   ELSE CollectorStep(f[s \ {Max(s)}], events[Max(s)])
    <3> HIDE DEF step, D
    <3> QED
      BY <2>2, <2>3 DEF IsFoldOf
  <2>5. f = [s \in SUBSET D |-> f[s]]
    <3> HIDE DEF step, D
    <3> QED
      BY <2>2 DEF IsFoldOf
  <2> QED
    BY <2>4, <2>5
<1>7. IsFold(iter)
  <2> HIDE DEF IsFold
  <2> QED
    BY <1>6
<1>8. \A s \in SUBSET D : iter[s] = IF s = {} THEN Fresh
                                    ELSE CollectorStep(iter[s \ {Max(s)}], events[Max(s)])
  <2> HIDE DEF iter
  <2> QED
    BY <1>7
<1> HIDE DEF iter, IsFold, all
<1>9. \A s \in SUBSET D : iter[s] \in CollectorStates
  <2> DEFINE Bad == {s \in SUBSET D : iter[s] \notin CollectorStates}
  <2>1. SUFFICES ASSUME Bad # {} PROVE FALSE
    OBVIOUS
  <2>2. PICK s \in Bad : \A U \in SUBSET s : U # s => U \notin Bad
    <3>1. Bad \in SUBSET (SUBSET D)
      OBVIOUS
    <3> HIDE DEF Bad, D
    <3> QED
      BY ONLY <2>1, <3>1, <1>0, SmallestSubset
  <2>3. s # {}
    BY <1>4, <1>8
  <2>4. Max(s) \in s
    BY <1>5, <2>3, MaxIsMember
  <2>5. iter[s \ {Max(s)}] \in CollectorStates
    BY <2>2, <2>4
  <2>6. events[Max(s)] \in Events
    BY <1>1, <2>4
  <2>7. iter[s] = CollectorStep(iter[s \ {Max(s)}], events[Max(s)])
    BY <1>8, <2>3
  <2> QED
    BY <2>5, <2>6, <2>7, CollectorStays
<1> QED
  BY <1>2, <1>3, <1>9

\* What a run may have learnt of its process.
Learnt(g) == g.wanted \subseteq Cards \cup Sections /\ g.alarms \subseteq DOMAIN Contract

LEMMA ObservationsAreLearnt ==
    /\ \A g \in Observations : Learnt(g)
    /\ Learnt(NothingLearnt)
<1>1. ASSUME NEW s \in CollectorStates PROVE Learnt(Diagnostics(s))
  BY DEF CollectorStates, Diagnostics, Learnt
<1>2. \A events \in BoundedSeq(Events, MaxEvents) : events \in Seq(Events)
  <2> SUFFICES ASSUME NEW n \in 0..MaxEvents, NEW events \in [1..n -> Events]
               PROVE  events \in Seq(Events)
    BY DEF BoundedSeq, SeqOf
  <2>1. n \in Nat
    BY DiagnosticsConstants
  <2> QED
    BY <2>1
<1>3. Fresh \in CollectorStates
  BY DEF Fresh, CollectorStates, FailureCodes
<1> QED
  BY <1>1, <1>2, <1>3, CollectedStays DEF Observations, NothingLearnt

-----------------------------------------------------------------------------
(* A run that did all of its work.                                         *)

LEMMA PerfectHasNoReasons ==
    ASSUME NEW d, NEW g, Learnt(g),
           d = [PerfectDisk EXCEPT !.report = d.report, !.index = TRUE], IsComplete(d)
    PROVE  QualityReasons(d, g, "none", "none") = {}
<1>1. /\ d.outline = "titled" /\ d.cardPlan = {Cards} /\ d.sectionPlan = {Sections}
      /\ d.milestones = TRUE /\ d.verdicts = {"strong"} /\ d.aliased = {} /\ d.index = TRUE
      /\ d.cards = [c \in Cards |-> "reviewed"] /\ d.sections = [x \in Sections |-> "clean"]
  BY DEF PerfectDisk, EmptyDisk
<1>2. CardsOf(d) = Cards /\ Reviewed(d) = Cards /\ SectionsOf(d) = Sections
  BY <1>1 DEF CardsOf, Reviewed, SectionsOf
<1>3. InvalidCards(d) = {} /\ Undeclared(d) = {} /\ Marked(d) = {} /\ d.report.kind = "built"
  BY DEF IsComplete
<1>4. Cards # {} /\ Cards \cap Sections = {} /\ IsFiniteSet(Cards)
  BY DiagnosticsConstants
<1>5. EvidenceError(d) = "none"
  BY <1>2, <1>4 DEF EvidenceError
<1>6. ~CoverageIsLow(d)
  <2>1. Cardinality(Cards) \in Nat
    BY <1>4, FS_CardinalityType
  <2> QED
    BY <1>2, <1>4, <2>1 DEF CoverageIsLow
<1>7. SectionPlan(d) = {Sections} /\ Planned(d) = Cards \cup Sections
  BY <1>1 DEF SectionPlan, Planned
<1>8. Anomalies(d, g) = {}
  <2>1. \A a \in {"milestones", "outline", "report", "index"} : IsWritten(d, a)
    BY <1>1, <1>3 DEF IsWritten
  <2>2. Alarms(d, g) = {}
    <3>1. \A c \in g.alarms : Contract[c] \in {"milestones", "outline"}
      BY DEF Learnt, Contract
    <3> QED
      BY <2>1, <3>1 DEF Alarms
  <2>3. d.cardPlan # {} /\ SectionPlan(d) # {}
    BY <1>1, <1>7
  <2>4. ~VerdictFails(d)
    <3>1. Cardinality({"strong"}) = 1
      BY FS_Singleton
    <3> QED
      BY <1>1, <3>1 DEF VerdictFails
  <2>5. Wanted(d, g) \ (CardsOf(d) \cup SectionsOf(d)) = {}
    BY <1>2, <1>7 DEF Wanted, Learnt
  <2>6. Unassembled(d) = {}
    <3>1. Sections \subseteq d.report.sections
      BY <1>2, <1>4, <1>7 DEF IsComplete
    <3> QED
      BY <1>2, <3>1 DEF Unassembled
  <2> QED
    BY <2>1, <2>2, <2>3, <2>4, <2>5, <2>6 DEF Anomalies, When
<1>9. ASSUME NEW r \in QualityReasons(d, g, "none", "none") PROVE FALSE
  BY <1>3, <1>5, <1>6, <1>8 DEF QualityReasons
<1> QED
  BY <1>9

\* A result is that of the files, as they are on the disk while it is looked at.  There is
\* no index before an assembly, so that one tells that nothing of it has failed.
JudgedFits ==
    /\ Learnt(seen)
    /\ run.pc \in {"prepare", "wait", "finalize"} => disk.index = FALSE
    /\ run.pc = "review" /\ run.result.outcome = "succeeded" /\ disk.index = TRUE =>
          run.result = Delivered(QualityReasons(disk, seen, "none", seen.blocking))

LEMMA IndexIsWrittenLast ==
    ASSUME NEW d, DiskShape(d), d.index = FALSE, NEW a \in Assemblies(d), a.disk.index = TRUE
    PROVE  a.error = "none"
<1>1. [d EXCEPT !.report = Built(d)].index = FALSE
  BY DEF DiskShape, DiskFields
<1>2. CASE MaterialError(d) # "none"
  <2>1. a = [error |-> MaterialError(d), disk |-> d]
    BY <1>2 DEF Assemblies
  <2> QED
    BY <2>1
<1>3. CASE a.error = "none"
  BY <1>3
<1>4. CASE a = [error |-> "survey_finalization_write_failed", disk |-> [d EXCEPT !.report = Built(d)]]
  BY <1>1, <1>4
<1>5. CASE a = [error |-> "survey_finalization_write_failed", disk |-> d]
  BY <1>5
<1> QED
  BY <1>2, <1>3, <1>4, <1>5 DEF Assemblies

\* The steps after which no result is looked at, and those that end in a failure.
LEMMA AsideJudged ==
    ASSUME JudgedFits, seen' = seen,
           \/ run'.pc \notin {"prepare", "wait", "finalize", "review"}
           \/ run'.pc = "review" /\ run'.result.outcome # "succeeded"
           \/ run'.pc \in {"prepare", "wait", "finalize"} /\ disk'.index = FALSE
    PROVE  JudgedFits'
BY DEF JudgedFits, Learnt

LEMMA FinalizeJudged ==
    ASSUME ExecutionInv, JudgedFits, Finalize
    PROVE  JudgedFits'
<1>0. Shapes /\ DiskShape(disk) /\ run.pc = "finalize" /\ seen' = seen /\ disk.index = FALSE
  BY DEF ExecutionInv, Shapes, Finalize, JudgedFits
<1> DEFINE Q(a) == QualityReasons(a.disk, seen, a.error, seen.blocking)
<1>1. PICK a \in Assemblies(disk) :
       /\ disk' = a.disk
       /\ Reviews(CASE a.error = "survey_report_internal_metadata_leaked" -> Failed(a.error)
                    [] a.error # "survey_report_internal_metadata_leaked"
                         /\ ~IsWritten(a.disk, "report") -> Failed(UnpublishedCode(a.disk, a.error))
                    [] OTHER -> Delivered(Q(a)))
  BY DEF Finalize
<1> HIDE DEF Q
<1>2. CASE \E code : Reviews(Failed(code))
  <2>1. PICK code : Reviews(Failed(code))
    BY <1>2
  <2>2. run'.pc = "review" /\ run'.result = Failed(code)
    BY <1>0, <2>1, Going
  <2>3. run'.result.outcome # "succeeded"
    BY <2>2 DEF Failed
  <2> QED
    BY <1>0, <2>2, <2>3, AsideJudged
<1>3. CASE Reviews(Delivered(Q(a)))
  <2>1. run'.pc = "review" /\ run'.result = Delivered(Q(a))
    BY <1>0, <1>3, Going
  <2>2. ASSUME disk'.index = TRUE
        PROVE  Q(a) = QualityReasons(disk', seen', "none", seen'.blocking)
    <3>1. a.error = "none"
      BY <1>0, <1>1, <2>2, IndexIsWrittenLast
    <3> QED
      BY <1>0, <1>1, <3>1 DEF Q
  <2>3. disk'.index = TRUE => run'.result = Delivered(QualityReasons(disk', seen', "none", seen'.blocking))
    BY <2>1, <2>2
  <2>4. QualityReasons(disk', seen', "none", seen'.blocking) = QualityReasons(disk, seen, "none", seen.blocking)'
    OBVIOUS
  <2> QED
    BY <1>0, <2>1, <2>3, <2>4 DEF JudgedFits, Learnt
<1> QED
  BY <1>1, <1>2, <1>3

LEMMA ExitJudged ==
    ASSUME ExecutionInv, JudgedFits, ProcessExits
    PROVE  JudgedFits'
<1>1. run.pc \in {"wait", "repairWait", "stopping"} /\ run' = run
  BY DEF ProcessExits, ExecutionInv, ProcessFits
<1>2. CASE child.work = "repair"
  <2>1. seen' = seen /\ run.pc # "wait"
    BY <1>2 DEF ProcessExits, ExecutionInv, ProcessFits
  <2> QED
    BY <1>1, <2>1, AsideJudged
<1>3. CASE child.work # "repair"
  <2>1. PICK o \in Outcomes : disk' = o.disk /\ seen' = o.seen
    BY <1>3 DEF ProcessExits
  <2>2. o.disk \in AllDisks /\ o.seen \in Observations
    BY DEF Outcomes, NearDisks
  <2>3. disk'.index = FALSE
    BY <2>1, <2>2 DEF AllDisks
  <2>4. Learnt(seen')
    BY <2>1, <2>2, ObservationsAreLearnt
  <2> QED
    BY <1>1, <2>3, <2>4 DEF JudgedFits, Learnt
<1> QED
  BY <1>2, <1>3

LEMMA JudgedSteps == ExecutionInv /\ JudgedFits /\ [Next]_vars => JudgedFits'
<1> SUFFICES ASSUME ExecutionInv, JudgedFits, [Next]_vars PROVE JudgedFits'
  OBVIOUS
<1>0. Shapes
  BY DEF ExecutionInv
<1>1. ASSUME NEW pc \in {"raised", "lost", "interrupted", "repair", "retry", "repairStart", "repairWait"},
             Goes(pc) \/ Raises, seen' = seen
      PROVE  JudgedFits'
  <2>1. run'.pc \in {pc, "raised"}
    BY <1>0, <1>1, Going
  <2> QED
    BY <1>1, <2>1, AsideJudged
<1>2. ASSUME NEW r, Returns(r), seen' = seen PROVE JudgedFits'
  <2>1. run'.pc = "done"
    BY <1>0, <1>2, Going
  <2> QED
    BY <1>2, <2>1, AsideJudged
<1>3. ASSUME NEW code, Reviews(Failed(code)), seen' = seen PROVE JudgedFits'
  <2>1. run'.pc = "review" /\ run'.result = Failed(code)
    BY <1>0, <1>3, Going
  <2>2. run'.result.outcome # "succeeded"
    BY <2>1 DEF Failed
  <2> QED
    BY <1>3, <2>1, <2>2, AsideJudged
<1>4. ASSUME NEW p, Stop(p) PROVE JudgedFits'
  <2>1. run'.pc = "stopping" /\ seen' = seen
    BY <1>0, <1>4, Stopping DEF Stop
  <2> QED
    BY <2>1, AsideJudged
<1>5. CASE StartRun
  <2>1. /\ run.pc = "prepare" /\ seen' = NothingLearnt /\ disk' = disk
        /\ run'.pc \in {"done", "raised", "wait"}
    BY <1>0, <1>5, Going DEF StartRun
  <2> QED
    BY <2>1, ObservationsAreLearnt DEF JudgedFits, Learnt
<1>6. CASE StartRepair
  BY <1>1, <1>6 DEF StartRepair
<1>7. CASE LossEndsRun \/ CancelEndsRun \/ RunTimesOut \/ RunBreaks \/ RepairTimesOut \/ RepairBreaks \/ IsInterrupted
  BY <1>4, <1>7 DEF LossEndsRun, CancelEndsRun, RunTimesOut, RunBreaks, RepairTimesOut, RepairBreaks, IsInterrupted
<1>8. CASE Stopped
  <2>1. run.then \in StopReasons
    BY <1>8 DEF Stopped, ExecutionInv, ProcessFits
  <2>2. \/ run.then \in {"lost", "interrupted"} /\ Goes(run.then)
        \/ Raises
        \/ \E r : Returns(r)
        \/ Reviews(Failed("survey_timed_out"))
    BY <1>8, <2>1 DEF Stopped, StopReasons
  <2> QED
    BY <1>1, <1>2, <1>3, <1>8, <2>2 DEF Stopped
<1>9. CASE RunFails \/ RunSucceeds
  <2>1. /\ run.pc = "wait" /\ seen' = seen /\ disk' = disk
        /\ Goes("finalize") \/ \E code : Reviews(Failed(code))
    BY <1>9 DEF RunFails, RunSucceeds
  <2>2. CASE Goes("finalize")
    <3>1. run'.pc = "finalize" /\ disk'.index = FALSE
      BY <1>0, <2>1, <2>2, Going DEF JudgedFits
    <3> QED
      BY <2>1, <3>1, AsideJudged
  <2> QED
    BY <1>3, <2>1, <2>2
<1>10. CASE ProgressFails \/ Review \/ ScheduleRepair \/ RepairFails \/ RepairSucceeds
  <2>1. /\ seen' = seen
        /\ \/ Raises \/ Goes("lost") \/ Goes("repair") \/ Goes("retry") \/ Goes("repairStart")
           \/ \E r : Returns(r)
    BY <1>10 DEF ProgressFails, Review, ScheduleRepair, RepairFails, RepairSucceeds
  <2> QED
    BY <1>1, <1>2, <2>1
<1>11. CASE Retry
  <2>1. CASE Goes("lost") \/ Returns(Cancelled)
    BY <1>1, <1>2, <1>11, <2>1 DEF Retry
  <2>2. CASE run' = [run EXCEPT !.pc = "prepare", !.attempt = @ + 1, !.result = NoResult] /\ disk' = EmptyDisk
    <3>1. run'.pc = "prepare"
      BY <1>0, <2>2 DEF Shapes
    <3>2. disk'.index = FALSE /\ seen' = seen
      BY <1>11, <2>2 DEF EmptyDisk, Retry
    <3> QED
      BY <3>1, <3>2, AsideJudged
  <2> QED
    BY <1>11, <2>1, <2>2 DEF Retry
<1>12. CASE HeartbeatEnds \/ UNCHANGED vars
  <2>1. UNCHANGED <<run, disk, seen>>
    BY <1>12 DEF HeartbeatEnds, vars
  <2> QED
    BY <2>1 DEF JudgedFits, Learnt
<1> QED
  BY <1>5, <1>6, <1>7, <1>8, <1>9, <1>10, <1>11, <1>12, FinalizeJudged, ExitJudged DEF Next

\* The judgement goes with the charges: at the end of a run, what did all of its work is
\* charged, whatever alarm was raised in between.
LEMMA PerfectIsCharged ==
    ASSUME JudgedFits, run.pc = "review", run.result.outcome = "succeeded", seen.blocking = "none",
           disk = [PerfectDisk EXCEPT !.report = disk.report, !.index = TRUE], IsComplete(disk)
    PROVE  run.result.chargeable
<1>1. Learnt(seen) /\ QualityReasons(disk, seen, "none", "none") = {}
  BY PerfectHasNoReasons DEF JudgedFits
<1>2. disk.index = TRUE
  BY DEF PerfectDisk, EmptyDisk
<1>3. QualityReasons(disk, seen, "none", seen.blocking) = {}
  BY <1>1
<1>4. run.result = Delivered(QualityReasons(disk, seen, "none", seen.blocking))
  BY <1>2 DEF JudgedFits
<1>5. run.result = Delivered({})
  BY <1>3, <1>4
<1>6. Delivered({}).chargeable = TRUE
  <2>1. ({} = {}) = TRUE
    OBVIOUS
  <2> QED
    BY <2>1 DEF Delivered
<1> QED
  BY <1>5, <1>6

\* What is charged is complete as it is delivered, whatever was repaired or tried again;
\* and a run that did all of its work is charged.
THEOREM ChargedStaysComplete == Spec => []ChargedIsComplete
<1>1. Init => JudgedFits
  BY ObservationsAreLearnt DEF Init, JudgedFits, EmptyDisk
<1>2. ExecutionInv /\ JudgedFits => ChargedIsComplete
  BY PerfectIsCharged DEF ExecutionInv, ChargeFits, ChargedIsComplete
<1>3. Spec => []ExecutionInv
  BY ExecutionInvariant
<1> QED
  BY <1>1, <1>2, <1>3, JudgedSteps, PTL DEF Spec

=============================================================================
