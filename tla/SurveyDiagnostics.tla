--------------------------- MODULE SurveyDiagnostics ---------------------------
(***************************************************************************)
(* What the host learns of a Survey run without trusting it: from the      *)
(* events of the RCM process (survey/worker.py, _collect_stage_timings;    *)
(* survey/diagnostics.py) and from the files in its directory (diagnostics *)
(* .py, evidence.py, finalizer.py).  Operators only, used by               *)
(* SurveyExecution.                                                        *)
(*                                                                         *)
(* A text is the member of a small set that says what the code reads out   *)
(* of it.  A paper stands for its card, a section for its file.            *)
(***************************************************************************)
EXTENDS Naturals, FiniteSets, SequencesExt

CONSTANTS
    Cards,     \* papers that may get a card
    Sections,  \* sections that may be written
    Reports,   \* how a failed completion may be reported: [status, kind, hitch, system]
    MaxEvents  \* bound on the events of a process that matter here

ASSUME DiagnosticsConstants ==
    /\ Cards # {} /\ IsFiniteSet(Cards)
    /\ Sections # {} /\ IsFiniteSet(Sections)
    /\ Cards \cap Sections = {}
    /\ IsFiniteSet(Reports)
    /\ MaxEvents \in Nat

-----------------------------------------------------------------------------
(* Failed completions.                                                     *)

\* An HTTP status decides, whatever kind of failure is declared beside it.
StatusCode(status) ==
    CASE status = 429 -> "model_rate_limited"
      [] status = 408 -> "model_timeout"
      [] status = 425 \/ status \in 500..599 -> "model_provider_unavailable"
      [] status \in {401, 403} -> "model_authentication_failed"
      [] OTHER -> "model_request_rejected"

KindCodes ==
    [rate_limited |-> "model_rate_limited", authentication |-> "model_authentication_failed",
     timeout |-> "model_timeout", provider_unavailable |-> "model_provider_unavailable",
     provider_error |-> "model_provider_unavailable", network |-> "model_network_failed",
     invalid_request |-> "model_request_rejected", http_error |-> "model_request_rejected",
     configuration |-> "model_configuration_failed", unknown |-> "model_completion_failed"]

HasStatus(r) == r.status \in 400..599

\* _classify_completion_failure: a completion that ends with the outcome "failure".
CompletionCode(r) ==
    IF HasStatus(r) THEN StatusCode(r.status)
    ELSE IF r.kind \in DOMAIN KindCodes THEN KindCodes[r.kind] ELSE "model_completion_failed"

\* _classify_model_hitch: what the text of a hitch mentions, before its status and after it.
HitchCode(r) ==
    CASE r.hitch = "timed out after" -> "model_timeout"
      [] r.hitch = "rate limit" -> "model_rate_limited"
      [] r.hitch = "timeout" /\ r.status # 429 -> "model_timeout"
      [] r.hitch = "unauthorized" /\ r.status \notin {408, 425, 429} \cup (500..599) ->
             "model_authentication_failed"
      [] OTHER -> IF HasStatus(r) THEN StatusCode(r.status)
                  ELSE IF r.hitch = "connection" THEN "model_network_failed"
                  ELSE IF r.system THEN "model_configuration_failed" ELSE "model_completion_failed"

\* The code that the survey carries for it.
PublicCode(code) ==
    CASE code = "none" -> "none"
      [] code = "model_rate_limited" -> "survey_provider_rate_limited"
      [] code \in {"model_timeout", "model_provider_unavailable", "model_network_failed"} ->
             "survey_provider_unavailable"
      [] code = "model_authentication_failed" -> "survey_model_auth_failed"
      [] code = "model_request_rejected" -> "survey_model_request_rejected"
      [] code = "model_configuration_failed" -> "survey_model_configuration_failed"
      [] OTHER -> "survey_model_completion_failed"

\* What classify_rcm_error may read out of stderr; the first three are worth a repetition.
TransientCodes ==
    {"survey_mcp_unavailable", "survey_provider_rate_limited", "survey_provider_unavailable"}
StderrCodes == {"survey_mcp_unavailable", "survey_runtime_unavailable"}

-----------------------------------------------------------------------------
(* The events of a process.                                                *)

\* The components whose completion is observed: each promises a file.
Contract == [anchor |-> "milestones", survey_outline |-> "outline"]
Components == DOMAIN Contract \cup {"image_planner"}

Events ==
    [type : {"component_start"}, component : Components]
    \cup [type : {"component_done"}, component : Components, written : BOOLEAN]
    \cup {[type |-> "completion_start"]}
    \cup [type : {"completion_failed", "hitch"}, report : Reports]
    \cup [type : {"spawn"}, item : Cards \cup Sections]

\* blocking, image: the last failed completion of a step that blocks, and of the image
\* planner.  alarms: the components that finished without their file.  wanted: what the
\* run has promised to write.  pending: a hitch would repeat the failure just reported.
Fresh == [active |-> {}, pending |-> FALSE, blocking |-> "none", image |-> "none",
          alarms |-> {}, wanted |-> {}]

\* _active_model_component: a completion has an owner while exactly one component runs.
Owner(s) == IF Cardinality(s.active) = 1 THEN CHOOSE c \in s.active : TRUE ELSE "none"

\* Only a failure of the image planner does not block.
Fails(s, code) ==
    IF Owner(s) = "image_planner" THEN [s EXCEPT !.image = code] ELSE [s EXCEPT !.blocking = code]

\* A failure may be reported, and then told again in a hitch.
CompletionEvent(s, e) ==
    CASE e.type = "completion_start" -> [s EXCEPT !.pending = FALSE]
      [] e.type = "completion_failed" -> Fails([s EXCEPT !.pending = TRUE], CompletionCode(e.report))
      [] e.type = "hitch" ->
            IF s.pending THEN [s EXCEPT !.pending = FALSE] ELSE Fails(s, HitchCode(e.report))

\* component_finished raises an alarm when the promised file is not there.
Finished(s, e) ==
    [s EXCEPT !.active = @ \ {e.component},
              !.alarms = IF e.component \in DOMAIN Contract /\ ~e.written
                         THEN @ \cup {e.component} ELSE @]

ComponentEvent(s, e) ==
    IF e.type = "component_start" THEN [s EXCEPT !.active = @ \cup {e.component}] ELSE Finished(s, e)

Promises(s, item) == [s EXCEPT !.wanted = @ \cup {item}]

\* tool_event: what is given to a writer is to be written.
ToolEvent(s, e) == Promises(s, e.item)

\* _collect_stage_timings: the loop over the events.
Collected(events) ==
    FoldLeft(LAMBDA s, e :
        CASE e.type \in {"completion_start", "completion_failed", "hitch"} -> CompletionEvent(s, e)
          [] e.type \in {"component_start", "component_done"} -> ComponentEvent(s, e)
          [] e.type = "spawn" -> ToolEvent(s, e),
        Fresh, events)

\* What is kept of the state of the collector: SurveyDiagnostics.
Diagnostics(s) == [blocking |-> s.blocking, image |-> s.image, alarms |-> s.alarms, wanted |-> s.wanted]

NothingLearnt == Diagnostics(Fresh)

\* _public_model_failure: of the last step that blocked, or else of the image planner's.
ModelFailure(g) == PublicCode(IF g.blocking # "none" THEN g.blocking ELSE g.image)

\* Everything that the events of a process may tell.
Observations == {Diagnostics(Collected(e)) : e \in BoundedSeq(Events, MaxEvents)}

-----------------------------------------------------------------------------
(* The run directory.                                                      *)

\* The declaration in a card: of a read body, of a body with a reason that does not belong
\* to it, of an abstract, none, and of an abstract with the marker of a broken runtime.
CardStates == {"absent", "reviewed", "misdeclared", "abstract", "unknown", "marked"}

\* A clean section cites every paper, an uncited one none.
SectionStates == {"absent", "clean", "leaky", "uncited"}

\* A report that RCM itself has left is "foreign".  A built one lists what it came from.
NoReport == [kind |-> "none", cards |-> {}, sections |-> {}]
ForeignReport == [NoReport EXCEPT !.kind = "foreign"]

\* A plan is {S} when it plans S, and {} when the file is not there or not valid.  aliased:
\* the papers that the section plan names by the stem of their file.  verdicts: the values
\* that the lines with a verdict have.
EmptyDisk ==
    [outline |-> "absent", cardPlan |-> {}, sectionPlan |-> {}, aliased |-> {},
     milestones |-> FALSE, verdicts |-> {}, cards |-> [c \in Cards |-> "absent"],
     sections |-> [x \in Sections |-> "absent"], report |-> NoReport, index |-> FALSE]

\* read_durable_plan: {S}, or {} for None.  An alias needs the card plan to resolve it.
SectionPlan(d) == IF d.aliased \subseteq UNION d.cardPlan THEN d.sectionPlan ELSE {}

\* What the valid plans name: _register_durable_plan.
Planned(d) == UNION (d.cardPlan \cup SectionPlan(d))

\* observe_artifacts: the plans are read again and again, and what they name is promised.
Wanted(d, g) == Planned(d) \cup g.wanted

CardsOf(d) == {c \in Cards : d.cards[c] # "absent"}
SectionsOf(d) == {x \in Sections : d.sections[x] # "absent"}

-----------------------------------------------------------------------------
(* The evidence.                                                           *)

Reviewed(d) == {c \in Cards : d.cards[c] \in {"reviewed", "misdeclared"}}
Undeclared(d) == {c \in Cards : d.cards[c] = "unknown"}
Marked(d) == {c \in Cards : d.cards[c] = "marked"}

\* The reason is not one of the declared level's, and no level has no reason either.
InvalidCards(d) == {c \in Cards : d.cards[c] \in {"misdeclared", "unknown"}}

\* SurveyEvidenceSummary.coverage_percent is below 80.
CoverageIsLow(d) == CardsOf(d) = {} \/ 100 * Cardinality(Reviewed(d)) < 80 * Cardinality(CardsOf(d))

\* audit_survey_evidence: what it raises.
EvidenceError(d) ==
    CASE Reviewed(d) = {} /\ Marked(d) # {} -> "survey_full_text_runtime_unavailable"
      [] Reviewed(d) = {} /\ Marked(d) = {} /\ CardsOf(d) # {} -> "survey_full_text_evidence_missing"
      [] OTHER -> "none"

-----------------------------------------------------------------------------
(* The assembly of the report.                                             *)

Leaks(d) == d.outline = "leaky" \/ \E x \in Sections : d.sections[x] = "leaky"

\* _references: the papers that the sections cite.
Cited(d) == {c \in Cards : \E x \in Sections : d.sections[x] \in {"clean", "leaky"}}

Built(d) == [kind |-> "built", cards |-> Cited(d) \cap Reviewed(d), sections |-> SectionsOf(d)]

\* Neither 00_outline.json nor 00_outline.md gives a title and an abstract.
HasOutline(d) == d.outline \in {"titled", "leaky"}

\* What finalize_survey raises before it writes.
MaterialError(d) ==
    CASE ~HasOutline(d) -> "survey_outline_metadata_invalid"
      [] HasOutline(d) /\ SectionsOf(d) = {} -> "survey_section_contract_invalid"
      [] HasOutline(d) /\ SectionsOf(d) # {} /\ Leaks(d) -> "survey_report_internal_metadata_leaked"
      [] OTHER -> IF Cited(d) \cap CardsOf(d) = {} THEN "survey_reference_contract_invalid" ELSE "none"

\* finalize_survey: its error and the directory it leaves.  Either of its two writes may fail.
Assemblies(d) ==
    IF MaterialError(d) # "none" THEN {[error |-> MaterialError(d), disk |-> d]}
    ELSE {[error |-> "none", disk |-> [d EXCEPT !.report = Built(d), !.index = TRUE]],
          [error |-> "survey_finalization_write_failed", disk |-> [d EXCEPT !.report = Built(d)]],
          [error |-> "survey_finalization_write_failed", disk |-> d]}

-----------------------------------------------------------------------------
(* The audit of the contract: finalize_contract_audit.                     *)

\* _valid_artifact.
IsWritten(d, artifact) ==
    CASE artifact = "milestones" -> d.milestones
      [] artifact = "outline" -> d.outline # "absent"
      [] artifact = "report" -> d.report.kind # "none"
      [] artifact = "index" -> d.index

\* Mutant of Alarms: an alarm that the files disprove stays.
AlarmsKept(d, g) == {Contract[c] : c \in g.alarms}

\* _reconcile_resolved_anomalies: the alarms that the files have not disproved since.
Alarms(d, g) == {a \in {Contract[c] : c \in g.alarms} : ~IsWritten(d, a)}

\* _judge_verdict_candidate, _audit_judge_verdicts: no verdict, an unreadable one, or two.
VerdictFails(d) == d.verdicts = {} \/ "unreadable" \in d.verdicts \/ Cardinality(d.verdicts) > 1

\* _audit_final_report_content: sections that the report does not contain.
Unassembled(d) == {x \in SectionsOf(d) : IsWritten(d, "report") /\ x \notin d.report.sections}

\* _record_anomaly: an anomaly is kept once.
When(condition, anomaly) == IF condition THEN {anomaly} ELSE {}

\* Mutant of Anomalies: what was promised beyond the plans is not looked for.
AnomaliesOfPlans(d, g) ==
    {a \in {"milestones", "outline", "report", "index"} : ~IsWritten(d, a)}
    \cup Alarms(d, g)
    \cup When(d.cardPlan = {}, "cardPlan") \cup When(SectionPlan(d) = {}, "sectionPlan")
    \cup When(d.milestones /\ VerdictFails(d), "verdicts")
    \cup (Planned(d) \ (CardsOf(d) \cup SectionsOf(d)))
    \cup Unassembled(d)

\* The anomalies other than the missing image: of files that are required, of plans, of
\* what was promised, of verdicts, and of sections that the report does not contain.
Anomalies(d, g) ==
    {a \in {"milestones", "outline", "report", "index"} : ~IsWritten(d, a)}
    \cup Alarms(d, g)
    \cup When(d.cardPlan = {}, "cardPlan") \cup When(SectionPlan(d) = {}, "sectionPlan")
    \cup When(d.milestones /\ VerdictFails(d), "verdicts")
    \cup (Wanted(d, g) \ (CardsOf(d) \cup SectionsOf(d)))
    \cup Unassembled(d)

=============================================================================
