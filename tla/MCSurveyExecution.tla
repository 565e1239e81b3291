---------------------------- MODULE MCSurveyExecution --------------------------
(* Small instances of SurveyExecution for TLC. *)
EXTENDS SurveyExecution

CONSTANTS c1, c2, x1

\* A status against the declared kind, a kind alone, and a failure of the configuration.
FewReports ==
    {[status |-> 503, kind |-> "authentication", hitch |-> "unauthorized", system |-> FALSE],
     [status |-> 0, kind |-> "invalid_request", hitch |-> "connection", system |-> TRUE]}

=============================================================================
