----------------------------- MODULE Dashboard -----------------------------
(***************************************************************************)
(* A session of the operators' dashboard                                   *)
(* (src/hackathon/app/pages/dashboard.py): the stakeholder demo, which     *)
(* plays the stages of a flood through the real review queue and waits for *)
(* the operator where an exercise alert was queued, and the review page,   *)
(* with what it hands out as CAP messages (CapExport).                     *)
(*                                                                         *)
(* Streamlit runs the whole script anew at every interaction; what is to   *)
(* survive is kept in the session, and a run that is over, that sleeps or  *)
(* that waits for the API is thrown away: it dies where it next touches    *)
(* the session.  Every call to the API may fail before the server handled  *)
(* it, or after (a time-out): the page learns the same.                    *)
(***************************************************************************)
EXTENDS CapExport, Integers, Sequences, FiniteSets

CONSTANTS
  Stages,    \* the number of the demo's stages
  AtRisk,    \* those whose rain is above the review threshold
  Showings,  \* bound on showings of the demo
  Faults,    \* bound on calls that fail
  Room       \* bound on exercise alerts

ASSUME StagesAssumption == Stages \in Nat \ {0} /\ AtRisk \subseteq 0 .. Stages - 1
ASSUME ShowingsAssumption == {Showings, Faults, Room} \subseteq Nat

VARIABLES
  view,      \* the sidebar's toggles: "home", "demo" or "review"
  stage,     \* demo_stage_idx
  assessed,  \* demo_alert_assessed_for_stage
  prompt,    \* demo_pending_alert, or 0
  outcome,   \* demo_last_outcome: "issued", "error" or "none"
  run,       \* the script: "due", "asking" (the API), "idle" (over), "paused",
             \* "asleep" or "broken"
  call,      \* what it asks of the API, and what the API made of it
  showing,   \* the number of demos started
  alerts,    \* the exercise alerts that the demo queued, in order
  faults,    \* calls that failed
  page       \* the review page: the row and the CAP message it was rendered with

demo == <<view, stage, assessed, prompt, outcome, run, call, showing, alerts, faults>>
cap == <<now, row, exported>>

Off == -1
NoPage == [status |-> "none"]

\* A call is for "assess", "approved" or "dismissed".
NoCall == [for |-> "nothing", got |-> "nothing"]

DashboardInit ==
  /\ Init
  /\ view \in {"home", "review"}
  /\ stage = Off /\ assessed = Off /\ prompt = 0 /\ outcome = "none"
  /\ run = "idle" /\ call = NoCall /\ showing = 0 /\ alerts = << >> /\ faults = 0
  /\ page = NoPage

\* An exercise alert, as queued; what became of the run of the script that asked
\* for it ("told" of it, its answer "lost", or thrown away, and the alert "left"),
\* and whether the operator clicked to decide it.
Exercise == [showing |-> showing, stage |-> stage, status |-> "pending",
             asker |-> "left", clicked |-> FALSE]

\* What the approval that the page waits for came to, for all that it hears.
Outcome(heard) == IF heard /\ call.got = "done" THEN "issued" ELSE "error"
-----------------------------------------------------------------------------
(* The sidebar (main). *)

\* _clear_demo_alert_state.
ClearDemoState == assessed' = Off /\ prompt' = 0 /\ outcome' = "none"

\* Another view is chosen; what leaves the demo stops it.
SwitchView(v) ==
  /\ view' = v /\ v # view
  /\ IF v = "demo" \/ (v = "review" /\ stage = Off)
     THEN UNCHANGED <<stage, assessed, prompt, outcome>>
     ELSE stage' = Off /\ ClearDemoState
  /\ run' = "due" /\ call' = NoCall
  /\ UNCHANGED <<showing, alerts, faults, page, cap>>

StartDemo ==
  /\ view = "demo" /\ showing < Showings /\ now = 1 /\ page = NoPage
  /\ stage' = 0 /\ ClearDemoState
  /\ showing' = showing + 1
  /\ run' = "due" /\ call' = NoCall
  /\ UNCHANGED <<view, alerts, faults, page, cap>>

\* Some other widget, or the map when it mounts: the script starts over.  The
\* run before it may have written the first of its two keys.
Interact ==
  /\ run' = "due" /\ call' = NoCall
  /\ \/ UNCHANGED <<assessed, outcome>>
     \/ call.for = "assess" /\ assessed' = stage /\ UNCHANGED outcome
     \/ call.for = "approved" /\ outcome' = Outcome(TRUE) /\ UNCHANGED assessed
  /\ UNCHANGED <<view, stage, prompt, showing, alerts, faults, page, cap>>
-----------------------------------------------------------------------------
(* A run of the script. *)

\* Outside the demo, or with all stages played, nothing is due.
RenderOther ==
  /\ run = "due"
  /\ \/ view = "home"
     \/ view = "review" /\ showing > 0
     \/ view = "demo" /\ stage \in {Off, Stages}
  /\ run' = "idle"
  /\ UNCHANGED <<view, stage, assessed, prompt, outcome, call, showing, alerts, faults, page, cap>>

\* Whether an alert is to be queued: once per stage, and not over a prompt.
Assesses == prompt = 0 /\ assessed # stage

\* Mutant: the timer does not mind the prompt.
EndsAsleep(asked) == "asleep"

\* How the run ends: the outcome of a refused approval has no id to show; a
\* prompt pauses the demo; otherwise it sleeps until the next stage.
EndsAs(asked) ==
  IF outcome = "error" THEN "broken" ELSE IF asked # 0 THEN "paused" ELSE "asleep"

AskFor(what) == run' = "asking" /\ call' = [for |-> what, got |-> "nothing"]

\* The rest of the run, with nothing to assess.
RunOn == run' = EndsAs(prompt) /\ outcome' = "none" /\ UNCHANGED call

\* render_broadcast_view, of a stage that is calm: where its situation could
\* not be had it passes for MODERATE, and is assessed in vain.
RenderCalm ==
  /\ run = "due" /\ view = "demo" /\ stage \in (0 .. Stages - 1) \ AtRisk
  /\ \/ run' = "asleep" /\ UNCHANGED <<call, outcome, faults>>
     \/ /\ faults < Faults /\ faults' = faults + 1
        /\ IF Assesses THEN AskFor("assess") /\ UNCHANGED outcome ELSE RunOn
  /\ UNCHANGED <<view, stage, assessed, prompt, showing, alerts, page, cap>>

\* render_broadcast_view, of a stage at risk.
RenderAtRisk ==
  /\ run = "due" /\ view = "demo" /\ stage \in AtRisk
  /\ IF Assesses THEN AskFor("assess") /\ UNCHANGED outcome ELSE RunOn
  /\ UNCHANGED <<view, stage, assessed, prompt, showing, alerts, faults, page, cap>>

\* The API assesses the stage; it keeps no account of what it queued before.  A
\* call whose run is thrown away may still be handled: as if just before.
Assess ==
  /\ run = "asking" /\ call.for = "assess" /\ call.got = "nothing"
  /\ Len(alerts) < Room
  /\ IF stage \in AtRisk
     THEN alerts' = Append(alerts, Exercise) /\ call' = [call EXCEPT !.got = "queued"]
     ELSE UNCHANGED alerts /\ call' = [call EXCEPT !.got = "calm"]
  /\ UNCHANGED <<view, stage, assessed, prompt, outcome, run, showing, faults, page, cap>>

\* The API decides the alert, if nobody did.
Resolve ==
  /\ run = "asking" /\ call.for \in {"approved", "dismissed"} /\ call.got = "nothing"
  /\ IF alerts[prompt].status = "pending"
     THEN /\ alerts' = [alerts EXCEPT ![prompt].status = call.for]
          /\ call' = [call EXCEPT !.got = "done"]
     ELSE UNCHANGED alerts /\ call' = [call EXCEPT !.got = "refused"]
  /\ UNCHANGED <<view, stage, assessed, prompt, outcome, run, showing, faults, page, cap>>

\* The run that asked gets its answer, or none in time.
Hears(heard) ==
  /\ run = "asking" /\ (heard => call.got # "nothing")
  /\ faults' = IF heard THEN faults ELSE faults + 1
  /\ faults' <= Faults
  /\ call' = NoCall

\* Of the assessment: the stage is noted as assessed either way.
HearAssessed ==
  /\ call.for = "assess"
  /\ \E heard \in BOOLEAN :
       LET queued == call.got = "queued"
           asked == IF heard /\ queued THEN Len(alerts) ELSE 0
       IN  /\ Hears(heard)
           /\ alerts' = IF queued
                        THEN [alerts EXCEPT ![Len(alerts)].asker = IF heard THEN "told" ELSE "lost"]
                        ELSE alerts
           /\ assessed' = stage
           /\ prompt' = asked
           /\ run' = EndsAs(asked)
  /\ outcome' = "none"
  /\ UNCHANGED <<view, stage, showing, page, cap>>

TimerFires ==
  /\ run = "asleep"
  /\ stage' = stage + 1
  /\ run' = "due"
  /\ UNCHANGED <<view, assessed, prompt, outcome, call, showing, alerts, faults, page, cap>>

\* The operator approves or dismisses.
Decide(d) ==
  /\ run = "paused"
  /\ alerts' = [alerts EXCEPT ![prompt].clicked = TRUE]
  /\ AskFor(d)
  /\ UNCHANGED <<view, stage, assessed, prompt, outcome, showing, faults, page, cap>>

\* Of the decision: whatever the answer, the prompt goes.
HearDecided ==
  /\ call.for \in {"approved", "dismissed"}
  /\ \E heard \in BOOLEAN :
       /\ Hears(heard)
       /\ outcome' = IF call.for = "approved" THEN Outcome(heard) ELSE outcome
  /\ prompt' = 0
  /\ run' = "due"
  /\ UNCHANGED <<view, stage, assessed, showing, alerts, page, cap>>

\* Somebody decides an exercise alert on a review page.
DecideElsewhere(i) ==
  /\ alerts[i].status = "pending"
  /\ \E d \in {"approved", "dismissed"} : alerts' = [alerts EXCEPT ![i].status = d]
  /\ UNCHANGED <<view, stage, assessed, prompt, outcome, run, call, showing, faults, page, cap>>
-----------------------------------------------------------------------------
(* The review page, with one alert of the queue.  A behaviour is about it or *)
(* about the demo: neither touches what the other does. *)

\* render_alert_review_queue: the alert is listed while it waits or was sent,
\* with the CAP message of this moment.
RenderReview ==
  /\ run = "due" /\ view = "review" /\ showing = 0
  /\ page' = IF row.status \in {"pending", "approved"}
             THEN [status |-> row.status, message |-> Message] ELSE NoPage
  /\ run' = "idle"
  /\ UNCHANGED <<view, stage, assessed, prompt, outcome, call, showing, alerts, faults, cap>>

\* A button of the page.  The row may have moved on: then nothing is changed
\* (409); a send that raises leaves it as it was, but for the stamp.
Click(from, to) ==
  /\ run = "idle" /\ view = "review" /\ page.status = from
  /\ \/ Transition(from, to)
     \/ row.status = from /\ to # "dismissed" /\ Stamp(from)
     \/ UNCHANGED cap
  /\ run' = "due"
  /\ UNCHANGED <<view, stage, assessed, prompt, outcome, call, showing, alerts, faults, page>>

\* The download button hands out what the page was rendered with.
Download ==
  /\ run = "idle" /\ view = "review" /\ page # NoPage
  /\ exported' = exported \cup {page.message}
  /\ UNCHANGED <<now, row, demo, page>>

\* Time passes, other reviewers decide, other clients export.
Elsewhere == showing = 0 /\ Next /\ UNCHANGED <<demo, page>>

Operator ==
  \/ \E v \in {"home", "demo", "review"} : SwitchView(v)
  \/ StartDemo \/ Interact
  \/ \E d \in {"approved", "dismissed"} : Decide(d)
  \/ Click("pending", "approved") \/ Click("pending", "dismissed")
  \/ Click("approved", "cancelled") \/ Download

DashboardNext ==
  \/ Operator
  \/ RenderOther \/ RenderCalm \/ RenderAtRisk \/ RenderReview \/ TimerFires
  \/ Assess \/ Resolve \/ HearAssessed \/ HearDecided
  \/ \E i \in DOMAIN alerts : DecideElsewhere(i)
  \/ Elsewhere

DashboardSpec == DashboardInit /\ [][DashboardNext]_<<demo, page, cap>>
-----------------------------------------------------------------------------
(* Properties. *)

\* The demo holds for the decision: it leaves a stage whose alert is undecided
\* only if it was not told of the alert, or the operator clicked to decide it;
\* and however often the script starts over it queues no second alert for a
\* stage but where it starts over while it asks for one.
DemoHoldsForDecision ==
  [][stage # Off /\ stage' = stage + 1 =>
       LET here == {i \in DOMAIN alerts :
                      alerts[i].showing = showing /\ alerts[i].stage = stage}
       IN  /\ \A i \in here :
                alerts[i].status = "pending" => alerts[i].asker # "told" \/ alerts[i].clicked
           /\ Cardinality({i \in here : alerts[i].asker # "left"}) <= 1]_<<demo, page, cap>>
=============================================================================
