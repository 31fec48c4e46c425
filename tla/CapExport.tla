------------------------------ MODULE CapExport ------------------------------
(***************************************************************************)
(* The CAP messages exported for one alert of the review queue, over time  *)
(* (src/src/api/routes/cap_export.py).  An export writes what the row says *)
(* at that moment; nothing remembers what was exported before.  The review *)
(* is its claims and releases: AlertReview has the handlers.               *)
(***************************************************************************)
EXTENDS Naturals

CONSTANT Horizon  \* bound on time

VARIABLES
  now,      \* the clock
  row,      \* the alert: status, created_at, reviewed_at (0: never)
  exported  \* the messages handed out

vars == <<now, row, exported>>

Init ==
  /\ now = 1
  /\ row = [status |-> "pending", created |-> 1, reviewed |-> 0]
  /\ exported = {}

Tick == now < Horizon /\ now' = now + 1 /\ UNCHANGED <<row, exported>>

\* transition_pending_alert_status stamps every transition, a release as well.
\* The clock is read to the microsecond: no two stamps are the same.
Stamp(to) ==
  /\ now > row.created /\ now > row.reviewed
  /\ row' = [row EXCEPT !.status = to, !.reviewed = now]
  /\ UNCHANGED <<now, exported>>

Transition(from, to) == row.status = from /\ Stamp(to)

\* Approved, dismissed or retracted; a send that fails releases its claim.
Review ==
  \/ Transition("pending", "approved") \/ Transition("approved", "pending")
  \/ Transition("approved", "cancelled") \/ Transition("cancelled", "approved")
  \/ Transition("pending", "dismissed")

\* Mutant: every message is sent when the alert was created.
SentAtCreation == row.created

\* When the row was last reviewed, or created.
SentAt == IF row.reviewed = 0 THEN row.created ELSE row.reviewed

Type == IF row.status = "cancelled" THEN "Cancel" ELSE "Alert"

\* _build_cap_alert: the identifier tells a cancellation from all else; what it
\* cancels it names by the time that the alert was created.
Message ==
  [type |-> Type, sent |-> SentAt,
   reference |-> IF Type = "Cancel" THEN row.created ELSE 0]

Export ==
  /\ exported' = exported \cup {Message}
  /\ UNCHANGED <<now, row>>

Next == Tick \/ Review \/ Export

Spec == Init /\ [][Next]_vars
-----------------------------------------------------------------------------
(* Properties. *)

\* The messages of an alert are in the order of its decisions: however late one
\* is handed out, by a page rendered before the last decision or after a
\* cancellation that was taken back, none is newer than the row, and one as new
\* as the row says what the row says.  So the newest message that a receiver
\* holds tells whether the alert stood when it was exported.
NewestMessageStands ==
  \A m \in exported : m.sent <= SentAt /\ (m.sent = SentAt => m.type = Type)
=============================================================================
