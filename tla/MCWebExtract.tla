------------------------------ MODULE MCWebExtract ------------------------------
(* Instances of WebExtract: small gates, a budget that two envelopes fill.  *)
EXTENDS WebExtract

OneSlot == [g \in Gates |-> 1]
OneWaiter == [g \in Gates |-> 1]

\* A startup does not fit beside the envelope of a stage.
SmallCost ==
    [s \in {"download", "body", "parser", "browser", "startup"} |->
        CASE s = "download" -> 1 [] s = "body" -> 2 [] OTHER -> 3]
================================================================================
