---------------------------- MODULE AlertReview ----------------------------
(***************************************************************************)
(* The human review queue of the alert platform: the pending_alerts table  *)
(* (src/src/database/alert_db.py), the handlers that fill and decide it    *)
(* (src/src/api/routes/alert_review.py) and the part of the alert engine   *)
(* they call (AlertEngine.process with force=True).                        *)
(*                                                                         *)
(* A container runs several uvicorn worker processes over one SQLite file. *)
(* No handler awaits between its database and engine calls, so a worker    *)
(* executes one handler at a time; workers interleave at each SQL          *)
(* statement and at each provider call.  pc[w] is where worker w is inside *)
(* the handler: "claim" (the row was read and checked), "build" (the claim *)
(* is won, the engine is entered), "send" (inside the provider loop),      *)
(* "release" (the engine raised).                                          *)
(*                                                                         *)
(* The rate limiter's count and the alert-history rows that process()      *)
(* writes after the loop decide nothing on this path (force=True) and are  *)
(* not part of this module's state.                                        *)
(***************************************************************************)
EXTENDS Integers

CONSTANTS
  Worker,         \* uvicorn worker processes (entrypoint.sh runs 4)
  Alert,          \* row ids of pending_alerts
  NumProviders,   \* length of AlertEngine.providers
  Score,          \* assessed risk scores, in 0..100
  DrillTier,      \* tiers a drill is created for
  Threshold,      \* values of ALERT_THRESHOLD_MODERATE a deployment may have
  KeyConfigured,  \* whether ALERT_APPROVAL_KEY is set
  MaxRestarts     \* bound on crashes and redeployments

ASSUME NumProvidersAssumption == NumProviders \in Nat
ASSUME ScoreAssumption == Score \subseteq 0 .. 100
ASSUME ThresholdAssumption == Threshold \subseteq Int
ASSUME KeyAssumption == KeyConfigured \in BOOLEAN
ASSUME RestartsAssumption == MaxRestarts \in Nat
ASSUME DrillTierAssumption ==
  DrillTier \subseteq {"MODERATE", "HIGH", "CRITICAL", "EXTREME"}

\* AlertEngine.providers is a list, tried in order.
Provider == 1 .. NumProviders
Op == {"approve", "cancel", "dismiss"}
Status == {"absent", "pending", "approved", "cancelled", "dismissed"}

\* The columns a decision reads back; none is ever updated after the insert.
\* "named": the location is not the empty string.
Row == [cap : {"Actual", "Exercise"}, named : BOOLEAN, score : 0 .. 100]
BlankRow == [cap |-> "Actual", named |-> FALSE, score |-> 0]

\* Whether a request carries the approval key ("absent": none, or a wrong one).
Key == {"valid", "absent"}

\* A request under way: what it asks, and the row as its first read saw it.
Job == [op : Op, alert : Alert, key : Key, seen : Row]
NoJob == [op |-> "none"]

VARIABLES
  status,        \* pending_alerts.status ("absent": no such row)
  row,           \* the other columns of the row
  pc, job,       \* each worker's place in the handler and its request
  cursor,        \* the next provider of a worker's provider loop
  originals,     \* provider.send calls made for an alert, per provider
  retractions,   \* provider.send calls made for its retraction
  delivered,     \* <<alert, provider>> whose original send reported success
  moderate,      \* ALERT_THRESHOLD_MODERATE of the running deployment
  restarts       \* crashes and redeployments so far

table == <<status, row>>
outbox == <<originals, retractions, delivered>>
deployment == <<moderate, restarts>>
vars == <<table, pc, job, cursor, outbox, deployment>>
-----------------------------------------------------------------------------
From(op) == IF op = "cancel" THEN "approved" ELSE "pending"

To(op) ==
  CASE op = "approve" -> "approved"
    [] op = "cancel"  -> "cancelled"
    [] op = "dismiss" -> "dismissed"

Init ==
  /\ status = [a \in Alert |-> "absent"]
  /\ row = [a \in Alert |-> BlankRow]
  /\ pc = [w \in Worker |-> "idle"]
  /\ job = [w \in Worker |-> NoJob]
  /\ cursor = [w \in Worker |-> 1]
  /\ originals = [ap \in Alert \X Provider |-> 0]
  /\ retractions = [ap \in Alert \X Provider |-> 0]
  /\ delivered = {}
  /\ moderate \in Threshold
  /\ restarts = 0

Goto(w, label) == pc' = [pc EXCEPT ![w] = label]
-----------------------------------------------------------------------------

(* Filling the queue. *)

\* POST /alerts/assess: a score below the review threshold queues nothing.
AssessDistrict(a, named, score, exercise) ==
  /\ status[a] = "absent"
  /\ score >= moderate
  /\ status' = [status EXCEPT ![a] = "pending"]
  /\ row' = [row EXCEPT ![a] =
       [cap |-> IF exercise THEN "Exercise" ELSE "Actual",
        named |-> named, score |-> score]]
  /\ UNCHANGED <<pc, job, cursor, outbox, deployment>>

TierMidpointScore ==
  [MODERATE |-> 40, HIGH |-> 60, CRITICAL |-> 77, EXTREME |-> 92]

\* POST /alerts/exercise: a drill, whatever the weather.
CreateExerciseAlert(a, named, tier) ==
  /\ status[a] = "absent"
  /\ status' = [status EXCEPT ![a] = "pending"]
  /\ row' = [row EXCEPT ![a] =
       [cap |-> "Exercise", named |-> named, score |-> TierMidpointScore[tier]]]
  /\ UNCHANGED <<pc, job, cursor, outbox, deployment>>
-----------------------------------------------------------------------------
(* Deciding: approve, cancel and dismiss. *)

\* Mutant: the approval key is never asked for.
KeyNotAsked(key, seen) == TRUE

\* A drill needs no approval key; neither does a deployment without one.
KeyAccepted(key, seen) ==
  seen.cap = "Exercise" \/ key = "valid" \/ ~KeyConfigured

\* get_pending_alert, the status check and enforce_approval_key.  A 404, a
\* 409 or a 401/403 ends the request with nothing changed.
ReadForDecision(w, op, a, key) ==
  /\ pc[w] = "idle"
  /\ status[a] = From(op)
  /\ KeyAccepted(key, row[a])
  /\ job' = [job EXCEPT ![w] =
               [op |-> op, alert |-> a, key |-> key, seen |-> row[a]]]
  /\ Goto(w, "claim")
  /\ UNCHANGED <<table, cursor, outbox, deployment>>

EndRequest(w) ==
  /\ Goto(w, "idle")
  /\ job' = [job EXCEPT ![w] = NoJob]
  /\ cursor' = [cursor EXCEPT ![w] = 1]

\* Mutant: the UPDATE matches the id alone, a read-then-check.
MatchesById(a, from) == status[a] # "absent"

\* UPDATE pending_alerts SET status = to WHERE id = a AND status = from.
Matches(a, from) == status[a] = from

\* Mutant: the handlers have no separate branch for drills.
DrillReachesEngine(j) == j.op # "dismiss"

\* A drill and a dismissal end with the claim; only a real alert, or its
\* real retraction, goes on to the engine.
ReachesEngine(j) == j.op # "dismiss" /\ j.seen.cap = "Actual"

ClaimWon(w) ==
  LET j == job[w] IN
  /\ pc[w] = "claim"
  /\ Matches(j.alert, From(j.op))
  /\ status' = [status EXCEPT ![j.alert] = To(j.op)]
  /\ IF ReachesEngine(j)
     THEN Goto(w, "build") /\ UNCHANGED <<job, cursor>>
     ELSE EndRequest(w)
  /\ UNCHANGED <<row, outbox, deployment>>

\* 409: another worker decided the alert between the read and the claim.
ClaimLost(w) ==
  /\ pc[w] = "claim"
  /\ ~Matches(job[w].alert, From(job[w].op))
  /\ EndRequest(w)
  /\ UNCHANGED <<table, outbox, deployment>>
-----------------------------------------------------------------------------
(* AlertEngine.process(force=True), with the values of the first read. *)

\* AlertPayload raises on an empty location, before any provider is called.
PayloadRejected(w) ==
  /\ pc[w] = "build"
  /\ ~job[w].seen.named
  /\ Goto(w, "release")
  /\ UNCHANGED <<table, job, cursor, outbox, deployment>>

\* A score below the threshold of the running deployment: process returns
\* alert_sent False without calling a provider.
BelowThreshold(w) ==
  /\ pc[w] = "build"
  /\ job[w].seen.named
  /\ job[w].seen.score < moderate
  /\ EndRequest(w)
  /\ UNCHANGED <<table, outbox, deployment>>

EnterProviderLoop(w) ==
  /\ pc[w] = "build"
  /\ job[w].seen.named
  /\ job[w].seen.score >= moderate
  /\ Goto(w, "send")
  /\ UNCHANGED <<table, job, cursor, outbox, deployment>>

\* Mutant: a provider that fails ends the loop.
SendViaStopsAtFailure(w, ok) ==
  /\ pc[w] = "send"
  /\ cursor[w] <= NumProviders
  /\ originals' = IF job[w].op = "approve"
                  THEN [originals EXCEPT ![<<job[w].alert, cursor[w]>>] = @ + 1]
                  ELSE originals
  /\ cursor' = [cursor EXCEPT ![w] = IF ok THEN @ + 1 ELSE NumProviders + 1]
  /\ UNCHANGED <<table, pc, job, retractions, delivered, deployment>>

\* One provider.send; a reported failure and an exception (caught in the
\* loop) both go on to the next provider.
SendVia(w, ok) ==
  LET a == job[w].alert
      ap == <<a, cursor[w]>>
      Called(calls) == [calls EXCEPT ![ap] = @ + 1]
  IN
  /\ pc[w] = "send"
  /\ cursor[w] <= NumProviders
  /\ IF job[w].op = "approve"
     THEN /\ originals' = Called(originals)
          /\ delivered' = IF ok THEN delivered \cup {ap} ELSE delivered
          /\ UNCHANGED retractions
     ELSE /\ retractions' = Called(retractions)
          /\ UNCHANGED <<originals, delivered>>
  /\ cursor' = [cursor EXCEPT ![w] = @ + 1]
  /\ UNCHANGED <<table, pc, job, deployment>>

\* Mutant: an error while the history rows are saved leaves process().
FinishRaises(w) ==
  /\ pc[w] = "send"
  /\ cursor[w] > NumProviders
  /\ Goto(w, "release")
  /\ UNCHANGED <<table, job, cursor, outbox, deployment>>

\* The loop is done: process returns, whatever the providers answered.
FinishProcess(w) ==
  /\ pc[w] = "send"
  /\ cursor[w] > NumProviders
  /\ EndRequest(w)
  /\ UNCHANGED <<table, outbox, deployment>>

\* _send_or_release: the engine raised; hand the alert back, if it still
\* stands where this request put it.
Release(w) ==
  LET j == job[w] IN
  /\ pc[w] = "release"
  /\ status' = IF Matches(j.alert, To(j.op))
               THEN [status EXCEPT ![j.alert] = From(j.op)]
               ELSE status
  /\ EndRequest(w)
  /\ UNCHANGED <<row, outbox, deployment>>
-----------------------------------------------------------------------------
(* Crashes and redeployments; the database file survives both here. *)

WorkerDies(w) ==
  /\ restarts < MaxRestarts
  /\ pc[w] # "idle"
  /\ EndRequest(w)
  /\ restarts' = restarts + 1
  /\ UNCHANGED <<table, outbox, moderate>>

\* Every worker is replaced, possibly under another threshold.
Redeploy(t) ==
  /\ restarts < MaxRestarts
  /\ pc' = [w \in Worker |-> "idle"]
  /\ job' = [w \in Worker |-> NoJob]
  /\ cursor' = [w \in Worker |-> 1]
  /\ moderate' = t
  /\ restarts' = restarts + 1
  /\ UNCHANGED <<table, outbox>>
-----------------------------------------------------------------------------
Process(w) ==
  \/ PayloadRejected(w) \/ BelowThreshold(w) \/ EnterProviderLoop(w)
  \/ \E ok \in BOOLEAN : SendVia(w, ok)
  \/ FinishProcess(w)

\* What a worker does on its own once a request is inside a handler.
Handle(w) == ClaimWon(w) \/ ClaimLost(w) \/ Process(w) \/ Release(w)

Next ==
  \/ \E a \in Alert, named \in BOOLEAN :
       \/ \E score \in Score, exercise \in BOOLEAN :
            AssessDistrict(a, named, score, exercise)
       \/ \E tier \in DrillTier : CreateExerciseAlert(a, named, tier)
  \/ \E w \in Worker :
       \/ \E op \in Op, a \in Alert, key \in Key :
            ReadForDecision(w, op, a, key)
       \/ Handle(w)
       \/ WorkerDies(w)
  \/ \E t \in Threshold : Redeploy(t)

\* The steps of a handler that end by themselves: all but the provider calls.
OwnStep(w) ==
  \/ ClaimWon(w) \/ ClaimLost(w) \/ Release(w)
  \/ PayloadRejected(w) \/ BelowThreshold(w) \/ EnterProviderLoop(w)
  \/ FinishProcess(w)

\* A worker inside a handler keeps executing: the code between two steps is
\* synchronous.  Nothing makes a provider call return (Telegram's has a
\* timeout; Twilio's and SMTP's have none), a human decide or a district be
\* assessed.
Fairness == \A w \in Worker : WF_vars(OwnStep(w))

Spec == Init /\ [][Next]_vars /\ Fairness
-----------------------------------------------------------------------------

(* Properties. *)

Silent(calls, a) == \A p \in Provider : calls[<<a, p>>] = 0

InEngine(w, op) == pc[w] \in {"build", "send", "release"} /\ job[w].op = op

\* Types of every variable.
TypeOK ==
  /\ status \in [Alert -> Status]
  /\ row \in [Alert -> Row]
  /\ pc \in [Worker -> {"idle", "claim", "build", "send", "release"}]
  /\ job \in [Worker -> Job \cup {NoJob}]
  /\ cursor \in [Worker -> 1 .. NumProviders + 1]
  /\ originals \in [Alert \X Provider -> Nat]
  /\ retractions \in [Alert \X Provider -> Nat]
  /\ delivered \subseteq Alert \X Provider
  /\ moderate \in Threshold
  /\ restarts \in 0 .. MaxRestarts

\* The public hears an alert, and its retraction, at most once per provider,
\* however requests, crashes and handed-back decisions interleave: what
\* transition_pending_alert_status and _send_or_release are for.
AtMostOneBroadcast ==
  \A ap \in Alert \X Provider : originals[ap] <= 1 /\ retractions[ap] <= 1

\* Nothing has gone out for an alert that is still, or again, open to
\* review, nor for a dismissed one: handing an alert back is only sound
\* because process() raises before its first provider call or never.
OpenMeansSilent ==
  \A a \in Alert : status[a] \in {"absent", "pending", "dismissed"} =>
    Silent(originals, a) /\ Silent(retractions, a)

\* A retraction went out only for an alert that is cancelled now: a
\* cancellation is never undone once a provider was asked to retract.
RetractedStaysCancelled ==
  \A a \in Alert : ~Silent(retractions, a) => status[a] = "cancelled"

\* No drill is ever handed to a provider, whatever a reviewer clicks and
\* whatever the engine does (alert_review.py: approve and cancel of an
\* Exercise alert never reach AlertEngine).
DrillsStaySilent ==
  \A a \in Alert : row[a].cap = "Exercise" =>
    Silent(originals, a) /\ Silent(retractions, a)

\* Two workers are never inside the engine with the same alert for the same
\* decision: a double-click that lands on two processes sends once.
OneSenderPerDecision ==
  \A v, w \in Worker, op \in Op :
    InEngine(v, op) /\ InEngine(w, op) /\ job[v].alert = job[w].alert => v = w

\* With an approval key configured, a worker about to decide or to send for
\* a real alert holds a request that carried the key, although the check
\* looks at the row as the first read saw it.
KeyGuardsRealAlerts ==
  KeyConfigured =>
    \A w \in Worker : pc[w] # "idle" /\ row[job[w].alert].cap = "Actual" =>
      job[w].key = "valid"

\* The queue implements what AlertLifecycle promises of it.
Lifecycle ==
  INSTANCE AlertLifecycle WITH
    phase <- status,
    drill <- {a \in Alert : status[a] # "absent" /\ row[a].cap = "Exercise"},
    announced <- originals,
    withdrawn <- retractions

ImplementsLifecycle == Lifecycle!Spec

\* Worker w has an approval of alert a in hand and stands in a provider call.
StandsInCall(a) ==
  \E w \in Worker :
    /\ pc[w] = "send" /\ cursor[w] <= NumProviders
    /\ job[w].alert = a /\ job[w].op = "approve"

\* A won approval of a well-formed alert at or above the threshold is
\* eventually handed to every provider, however the providers before it
\* fail, unless something restarts or one provider call never returns:
\* nothing else in process() ends the loop early.
ApprovalReachesEveryProvider ==
  \A a \in Alert, p \in Provider :
    (\E w \in Worker : InEngine(w, "approve") /\ job[w].alert = a
                       /\ row[a].named /\ row[a].score >= moderate)
      ~> (\/ originals[<<a, p>>] = 1
          \/ restarts > 0
          \/ []StandsInCall(a))
=============================================================================
