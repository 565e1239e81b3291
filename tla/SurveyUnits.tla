------------------------------ MODULE SurveyUnits -------------------------------
(***************************************************************************)
(* The units of the resumable workflow (survey/resumable_runner.py): the   *)
(* order of its steps, what the files say that fan a step out into units,  *)
(* and how a unit ends, whatever its processes do.                         *)
(*                                                                         *)
(* A unit is <<step, item>>.  A plan or a table is what the code reads in  *)
(* it; Junk stands for an entry that is malformed.                         *)
(***************************************************************************)
EXTENDS Naturals, Sequences, SequencesExt, FiniteSetsExt

CONSTANTS
    Steps,         \* the steps the instance keeps, in their order
    Papers, Slugs, \* arXiv papers and section slugs
    Junk, Whole,   \* no paper or slug; the item of a step that is one unit
    MaxCards, MaxSections, MaxSeeds,
    MaxTries,      \* survey_provider_max_attempts
    Seedings, CardPlans, SectionPlans, \* what citation_seed, card_plan, outline_plan may write
    Rewriters      \* the pairs of a task and a unit that may write its file a second time in it

\* The workflow; the steps that are not fanned out, and have no case below, are alike.
Workflow ==
    <<"anchor", "query_plan", "discovery", "citation_seed", "reference_seeds",
      "semantic_expansion", "cross_domain_expansion", "reference_merge", "expansion_merge",
      "rank_pool", "card_plan", "paper_cards", "research_map", "judge_panel", "image_planner",
      "outline_plan", "sections", "final_markdown">>

Place(step) == CHOOSE i \in DOMAIN Steps : Steps[i] = step

Rank(step) == CHOOSE i \in DOMAIN Workflow : Workflow[i] = step

ASSUME UnitConstants ==
    /\ Steps \in Seq(ToSet(Workflow))
    /\ \A i, j \in DOMAIN Steps : i < j => Rank(Steps[i]) < Rank(Steps[j])
    /\ {"citation_seed", "card_plan", "paper_cards", "outline_plan", "sections", "final_markdown"}
          \subseteq ToSet(Steps)
    /\ {Junk, Whole} \cap (Papers \cup Slugs) = {} /\ Papers \cap Slugs = {}
    /\ {MaxCards, MaxSections, MaxSeeds, MaxTries} \subseteq Nat \ {0}

-----------------------------------------------------------------------------
(* The fan-out.  NoUnits stands for SurveyStageContractError.              *)

NoUnits == [valid |-> FALSE, items |-> {}]
UnitsFor(items) == [valid |-> TRUE, items |-> items]

\* The arXiv column of the seed table, and without such a table every ID in the text.
SeedsFound(seeding) ==
    LET found == (IF seeding.table THEN seeding.column ELSE seeding.text) \cap Papers
    IN  IF Cardinality(found) \in 1..MaxSeeds THEN UnitsFor(found) ELSE NoUnits

\* The rows of a card plan are papers.
CardsPlanned(rows) ==
    IF /\ Len(rows) <= MaxCards
       /\ ToSet(rows) \subseteq Papers
       /\ IsInjective(rows)
    THEN UnitsFor(ToSet(rows))
    ELSE NoUnits

\* The rows of a section plan have a number, a slug and the cards they rest on.
SectionsPlanned(rows, cards) ==
    LET slugs == [i \in DOMAIN rows |-> rows[i].slug]
    IN  IF /\ Len(rows) \in 1..MaxSections
           /\ ToSet(slugs) \subseteq Slugs
           /\ IsInjective(slugs)
           /\ \A i, j \in DOMAIN rows : i < j => rows[i].n < rows[j].n
           /\ \A i \in DOMAIN rows : /\ ToSet(rows[i].cards) \subseteq cards
                                     /\ IsInjective(rows[i].cards)
        THEN UnitsFor(ToSet(slugs))
        ELSE NoUnits

-----------------------------------------------------------------------------
(* One unit.  A run of its workflow ends well or in one of the errors.     *)

RunResults == {"ok", "transient", "too_large", "bad_history", "failed"}

\* A transient error is tried again, up to MaxTries times.
Retried(tries) ==
    LET ends == {i \in DOMAIN tries : tries[i] # "transient"}
    IN  tries[IF ends = {} THEN MaxTries ELSE Min(ends)]

\* What _prepare_reference_input makes of the download.
Inputs == {"unavailable", "empty", "references"}

\* The model refused the request for its size, or for its history of tool calls: once more
\* with half of the bibliography, or without thinking.
Refusals == {"too_large", "bad_history"}

\* The host writes a failed result in the place of the seed's own.
SeedFails(input, result, again) ==
    \/ input # "references"
    \/ IF result \in Refusals THEN again # "ok" ELSE result # "ok"

\* What the result file of a card or the picture says; card: its artifact is there.
ShardResult(result, card) == IF result = "ok" /\ card THEN "completed" ELSE "failed"

\* What merge_reference_shards accepts as the status of a seed.
Statuses == {"completed", "empty", "partial", "failed"}

=============================================================================
