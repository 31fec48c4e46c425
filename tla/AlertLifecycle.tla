-------------------------- MODULE AlertLifecycle ---------------------------
(***************************************************************************)
(* What the human review queue promises about one assessed alert, with no  *)
(* worker, no request and no engine in sight: an alert is queued, a human  *)
(* decides, and the public hears about it at most once per provider, only  *)
(* after an approval, and hears a retraction at most once per provider,    *)
(* only under a cancellation.  Drills are silent.  A decision may be       *)
(* handed back only while nothing of it has gone out.                      *)
(*                                                                         *)
(* AlertReview.tla, translated from the code, implements this module.      *)
(***************************************************************************)
EXTENDS Integers

CONSTANTS
  Alert,      \* identifiers of rows of the review queue
  Provider    \* the delivery providers (WhatsApp, Telegram, ...)

VARIABLES
  phase,      \* where each alert stands
  drill,      \* the alerts queued as drills (cap_status 'Exercise')
  announced,  \* how often an alert was handed to a provider
  withdrawn   \* how often its retraction was handed to a provider

vars == <<phase, drill, announced, withdrawn>>

Silent(calls, a) == \A p \in Provider : calls[<<a, p>>] = 0

Init ==
  /\ phase = [a \in Alert |-> "absent"]
  /\ drill = {}
  /\ announced = [ap \in Alert \X Provider |-> 0]
  /\ withdrawn = [ap \in Alert \X Provider |-> 0]

Move(a, from, to) ==
  /\ phase[a] = from
  /\ phase' = [phase EXCEPT ![a] = to]

Queue(a) ==
  /\ Move(a, "absent", "pending")
  /\ drill' \in {drill, drill \cup {a}}
  /\ UNCHANGED <<announced, withdrawn>>

Decide(a) ==
  /\ \/ Move(a, "pending", "approved")
     \/ Move(a, "pending", "dismissed")
     \/ Move(a, "approved", "cancelled")
  /\ UNCHANGED <<drill, announced, withdrawn>>

\* An approval comes undone only while no provider was asked to announce it.
HandBack(a) ==
  /\ Move(a, "approved", "pending")
  /\ Silent(announced, a)
  /\ UNCHANGED <<drill, announced, withdrawn>>

\* A cancellation comes undone only while no retraction was asked for.
Reinstate(a) ==
  /\ Move(a, "cancelled", "approved")
  /\ Silent(withdrawn, a)
  /\ UNCHANGED <<drill, announced, withdrawn>>

\* An announcement already under way may go on after a cancellation.
Announce(a, p) ==
  /\ phase[a] \in {"approved", "cancelled"} /\ a \notin drill
  /\ announced[<<a, p>>] = 0
  /\ announced' = [announced EXCEPT ![<<a, p>>] = 1]
  /\ UNCHANGED <<phase, drill, withdrawn>>

Withdraw(a, p) ==
  /\ phase[a] = "cancelled" /\ a \notin drill
  /\ withdrawn[<<a, p>>] = 0
  /\ withdrawn' = [withdrawn EXCEPT ![<<a, p>>] = 1]
  /\ UNCHANGED <<phase, drill, announced>>

Next ==
  \E a \in Alert :
    \/ Queue(a) \/ Decide(a) \/ HandBack(a) \/ Reinstate(a)
    \/ \E p \in Provider : Announce(a, p) \/ Withdraw(a, p)

Spec == Init /\ [][Next]_vars

=============================================================================
