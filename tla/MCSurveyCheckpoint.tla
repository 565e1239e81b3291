--------------------------- MODULE MCSurveyCheckpoint --------------------------
(* Small instances of SurveyCheckpoint for TLC. *)
EXTENDS SurveyCheckpoint

CONSTANTS p1, s1, s2

\* The steps whose place in the workflow or whose ends differ.
ShortWorkflow ==
    <<"citation_seed", "reference_seeds", "reference_merge", "card_plan", "paper_cards",
      "outline_plan", "sections", "final_markdown">>

\* One seed; and none.
SomeSeeds == {[table |-> TRUE, column |-> {p1}, text |-> {}], [table |-> TRUE, column |-> {}, text |-> {p1}]}

\* One card; the same twice.
SomeCards == {<<p1>>, <<p1, p1>>}

\* Both sections on the card, and a section on a card that is not planned.
SomeSections ==
    {<<[n |-> 1, slug |-> s1, cards |-> <<p1>>], [n |-> 2, slug |-> s2, cards |-> << >>]>>,
     <<[n |-> 1, slug |-> s1, cards |-> <<Junk>>]>>}

\* In the first task one of the two sections changes its file while the other is published.
OneRewrites == {<<1, <<"sections", s2>>>>}

=============================================================================
