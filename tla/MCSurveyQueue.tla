---------------------------- MODULE MCSurveyQueue ----------------------------
(* Small instances of SurveyQueue for TLC. *)
EXTENDS SurveyQueue, TLC

CONSTANTS s1, s2, u1, l1, w1, w2, d1, h1, h2

\* One user, one day: the surveys compete for one ledger row and one user's slots.
OneUser == [s \in Surveys |-> u1]
OneLedger == [s \in Surveys |-> l1]

\* Every worker on its own host, and all of them on one.
OwnHost == [w \in Workers |-> IF w = w1 THEN h1 ELSE h2]
OneHost == [w \in Workers |-> h1]

WorkersAlike == Permutations(Workers)
SurveysAlike == Permutations(Surveys)
Alike == WorkersAlike \cup SurveysAlike

=============================================================================
