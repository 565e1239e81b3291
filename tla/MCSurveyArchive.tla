---------------------------- MODULE MCSurveyArchive ----------------------------
(* Instances of SurveyArchive; its tasks are model values.                  *)
EXTENDS SurveyArchive, TLC
================================================================================
