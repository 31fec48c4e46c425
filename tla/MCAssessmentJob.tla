-------------------------- MODULE MCAssessmentJob ---------------------------
(***************************************************************************)
(* Small instances of AssessmentJob for TLC: two districts below dams; the *)
(* river score of either may be missing.  The first one's services say     *)
(* anything, the second's a high figure or nothing: districts meet only in *)
(* the count of failures.                                                  *)
(***************************************************************************)
EXTENDS AssessmentJob

TwoDistricts == <<"Ho", "Tamale">>
Both == {"Ho", "Tamale"}
AnyThenSome == [Ho |-> Answer, Tamale |-> {Missing, "high"}]
=============================================================================
