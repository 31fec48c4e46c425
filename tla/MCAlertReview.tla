--------------------------- MODULE MCAlertReview ---------------------------
(* A small instance of AlertReview for TLC. *)
EXTENDS AlertReview
=============================================================================
