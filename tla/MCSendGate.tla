----------------------------- MODULE MCSendGate -----------------------------
(***************************************************************************)
(* Small instances of SendGate for TLC: workers and alerts are             *)
(* interchangeable.                                                        *)
(***************************************************************************)
EXTENDS SendGate, TLC

Sym == Permutations(Worker) \cup Permutations(Alert)
=============================================================================
