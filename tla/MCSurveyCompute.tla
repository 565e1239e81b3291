---------------------------- MODULE MCSurveyCompute ----------------------------
(* Small instances of SurveyCompute for TLC. *)
EXTENDS SurveyCompute, TLC

CONSTANTS s1, s2, u1, l1

OneUser == [s \in Surveys |-> u1]
OneLedger == [s \in Surveys |-> l1]

\* Every task has a disk of its own.
OwnDisk == [a \in Attempts |-> a]

=============================================================================
