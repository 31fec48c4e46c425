--------------------------- MODULE MCDecisionCard ---------------------------
(* A small instance of DistrictPage for TLC: rain of every tier and around *)
(* the dip of its curve, levels on each side of every threshold, a history *)
(* that is too short and another.                                          *)
EXTENDS DistrictPage

SomeRains == {0, 12, 25, 35, 49, 51, 81}
SomeLevels == 0 .. 3
SomeScales == {<< >>, <<1, 2, 3>>}
=============================================================================
