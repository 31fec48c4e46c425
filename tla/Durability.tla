----------------------------- MODULE Durability -----------------------------
(***************************************************************************)
(* The review queue over a database that can fall back.  The container's   *)
(* SQLite file is lost with it; Litestream copies the writes, in order and *)
(* some time later, to a replica, from which a fresh container restores    *)
(* (src/entrypoint.sh, src/litestream.yml).  Cloud Run keeps one instance. *)
(*                                                                         *)
(* AlertReview has the handlers' steps and shows that a decision is made   *)
(* once; here a decision is its claim, one write, and its broadcast.       *)
(* Reviewers decide by the row id of a page that may be older than the     *)
(* database (src/hackathon/app/pages/dashboard.py), and AUTOINCREMENT      *)
(* counts from what the restored file remembers.                           *)
(***************************************************************************)
EXTENDS Integers, Sequences, FiniteSets

CONSTANTS
  Alert,      \* assessments above the threshold
  Reviewer,   \* browsers with the review queue open
  MaxRestores \* bound on replaced containers

ASSUME BoundAssumption == MaxRestores \in Nat

VARIABLES
  log,       \* the writes to pending_alerts, in commit order
  replica,   \* how many of them the replica holds
  claimed,   \* decisions written and not yet broadcast
  sent,      \* broadcasts made, by alert and decision
  page,      \* what each reviewer's browser shows: row id, alert and status
  strayed,   \* history: decisions of another alert than the reviewer saw
  lost,      \* history: writes that no restore brought back, by restore
  restores

vars == <<log, replica, claimed, sent, page, strayed, lost, restores>>

Kind == {"approved", "cancelled"}
\* "pending" inserts a row, the others are the claim's UPDATE.
Write == [id : Nat \ {0}, alert : Alert, status : {"pending", "approved", "cancelled", "dismissed"}]

Init ==
  /\ log = << >> /\ replica = 0
  /\ claimed = {}
  /\ sent = [ak \in Alert \X Kind |-> 0]
  /\ page = [v \in Reviewer |-> {}]
  /\ strayed = {} /\ lost = {}
  /\ restores = 0
-----------------------------------------------------------------------------
\* The table: each id's last write.
Rows == {log[k] : k \in {j \in DOMAIN log : \A i \in DOMAIN log : log[i].id = log[j].id => i <= j}}

\* AUTOINCREMENT: one more than the largest id of the file.
NextId == Cardinality({w.id : w \in Rows}) + 1

\* save_pending_alert, for an assessment not queued before.
Queue(a) ==
  /\ \A w \in Rows \cup {l.write : l \in lost} : w.alert # a
  /\ log' = Append(log, [id |-> NextId, alert |-> a, status |-> "pending"])
  /\ UNCHANGED <<replica, claimed, sent, page, strayed, lost, restores>>

\* GET /pending, and the dashboard's page.
Look(v) ==
  /\ page' = [page EXCEPT ![v] = Rows]
  /\ UNCHANGED <<log, replica, claimed, sent, strayed, lost, restores>>

\* What each decision follows: only a sent alert can be retracted.
From(to) == IF to = "cancelled" THEN "approved" ELSE "pending"

\* Mutant: the claim takes the status from the reviewer's page.
ClaimableOnPage(shown, row, to) == row.id = shown.id /\ shown.status = From(to)

\* The claim: by id, on the status the row has now.
Claimable(shown, row, to) == row.id = shown.id /\ row.status = From(to)

\* A reviewer decides a row of the page; the handler claims the row that has
\* this id now.  A broadcast follows, but for a dismissal.
Decide(v, shown, row, to) ==
  /\ shown \in page[v] /\ shown.status = From(to)
  /\ row \in Rows /\ Claimable(shown, row, to)
  /\ log' = Append(log, [row EXCEPT !.status = to])
  /\ claimed' = IF to \in Kind THEN claimed \cup {<<row.alert, to>>} ELSE claimed
  /\ strayed' = IF row.alert = shown.alert THEN strayed
                ELSE strayed \cup {[shown |-> shown, row |-> row]}
  /\ UNCHANGED <<replica, sent, page, lost, restores>>

Broadcast(ak) ==
  /\ ak \in claimed
  /\ sent' = [sent EXCEPT ![ak] = @ + 1]
  /\ claimed' = claimed \ {ak}
  /\ UNCHANGED <<log, replica, page, strayed, lost, restores>>

\* Litestream copies the writes in order.
Replicate ==
  /\ replica < Len(log)
  /\ replica' = replica + 1
  /\ UNCHANGED <<log, claimed, sent, page, strayed, lost, restores>>

\* Mutant: the fresh container starts on an empty file.
RestoredEmpty == << >>

Restored == SubSeq(log, 1, replica)

\* The container is replaced: handlers end, the file is the replica's.
Replace ==
  /\ restores < MaxRestores
  /\ restores' = restores + 1
  /\ log' = Restored
  /\ replica' = Len(Restored)
  /\ claimed' = {}
  /\ lost' = lost \cup {[at |-> restores + 1, write |-> log[k]] : k \in replica + 1 .. Len(log)}
  /\ UNCHANGED <<sent, page, strayed>>
-----------------------------------------------------------------------------
Next ==
  \/ \E a \in Alert : Queue(a)
  \/ \E v \in Reviewer : Look(v)
  \/ \E v \in Reviewer : \E shown \in page[v], row \in Rows, to \in Kind \cup {"dismissed"} :
       Decide(v, shown, row, to)
  \/ \E ak \in claimed : Broadcast(ak)
  \/ Replicate
  \/ Replace

Spec == Init /\ [][Next]_vars
-----------------------------------------------------------------------------
(* Properties. *)

\* The shape of the state: ids count the rows without a gap.
TypeOK ==
  /\ log \in Seq(Write) /\ replica \in 0 .. Len(log)
  /\ {w.id : w \in Rows} = 1 .. Cardinality({w.id : w \in Rows})
  /\ claimed \subseteq Alert \X Kind
  /\ sent \in [Alert \X Kind -> Nat]
  /\ page \in [Reviewer -> SUBSET Write]
  /\ strayed \subseteq [shown : Write, row : Write]
  /\ lost \subseteq [at : 1 .. MaxRestores, write : Write]
  /\ restores \in 0 .. MaxRestores

\* The restores that took back a decision about an alert.
Undone(a, kind) == {l.at : l \in {m \in lost : m.write.alert = a /\ m.write.status = kind}}

\* A decision is broadcast once, and once more only for each restore that took
\* it back: what the replica holds is never sent again.
RepeatsAreLosses ==
  \A a \in Alert, kind \in Kind :
    sent[<<a, kind>>] <= Cardinality(Undone(a, kind)) + 1

\* What the replica holds as decided is not open to a second decision of the
\* same kind, restored or not, and what is open was not sent but for a loss.
OpenMeansUnsentOrLost ==
  \A w \in Rows : w.status = "pending" =>
    sent[<<w.alert, "approved">>] <= Cardinality(Undone(w.alert, "approved"))

\* A decision lands on the alert its reviewer saw, unless a restore lost that
\* alert's row and its id was given to another.
DecisionsHitWhatWasSeen ==
  \A d \in strayed : \E l \in lost :
    l.write.status = "pending" /\ l.write.id = d.shown.id /\ l.write.alert = d.shown.alert
=============================================================================
