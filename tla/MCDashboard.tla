---------------------------- MODULE MCDashboard ----------------------------
(* An instance of Dashboard for TLC. *)
EXTENDS Dashboard
=============================================================================
