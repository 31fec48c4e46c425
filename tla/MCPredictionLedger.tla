------------------------ MODULE MCPredictionLedger -------------------------
(***************************************************************************)
(* Small instances of PredictionLedger for TLC.  Days are scaled: MinAge,  *)
(* Window and MaxAge keep the order of the code's 3, 14 and 30, ImageDays  *)
(* lies between MinAge and Window as 12 lies between 3 and 14.             *)
(***************************************************************************)
EXTENDS PredictionLedger, TLC

CONSTANTS east, west

\* Two districts the news know under one name, like the Accra split.
OneCity == [d \in {east, west} |-> "city"]

\* OneCity treats the two districts alike.
LedgerSymmetry ==
  Permutations(Worker) \cup Permutations(Runner) \cup Permutations({east, west})
=============================================================================
