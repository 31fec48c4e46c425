---------------------------- MODULE Screens_proofs ----------------------------
(***************************************************************************)
(* Proofs about what is shown and handed out: the CAP messages and the     *)
(* dashboard's demo (CapExport, Dashboard), the readings behind the        *)
(* screens (LiveSources), and the decision card, its evidence and the page *)
(* of a district (RiskFusion, DecisionCard, DistrictPage).  The three      *)
(* share nothing.                                                          *)
(***************************************************************************)
EXTENDS Dashboard, LiveSources, DistrictPage, FiniteSetTheorems, WellFoundedInduction, TLAPS
-----------------------------------------------------------------------------
(* CAP messages: no message is newer than the row, and one as new as the     *)
(* row is what the row would say now, as no two stamps are the same.         *)

\* What is so of a message when it is made, and remains so.
CapMessage(m) ==
  /\ m.sent \in Nat /\ m.sent <= SentAt
  /\ m.sent = SentAt => m.type = Type

CapInv ==
  /\ now \in Nat
  /\ row \in [status : {"pending", "approved", "cancelled", "dismissed"},
              created : Nat, reviewed : Nat]
  /\ \A m \in exported : CapMessage(m)

\* The page holds a message that was one when it was rendered.
SheetInv == page # NoPage => CapMessage(page.message)
-----------------------------------------------------------------------------
(* The demo.  The alerts of a showing are of stages that the demo has        *)
(* reached; of a stage's alerts one at most was asked for by a run that      *)
(* lived to note it; the prompt shows the one it was told of until the       *)
(* operator clicks; the demo sleeps without a prompt only; and what a run    *)
(* asks for while it waits is an alert for a stage not noted as assessed, or *)
(* a decision that the operator clicked on.                                  *)

AlertRecord == [showing : Nat, stage : AtRisk, status : {"pending", "approved", "dismissed"},
                asker : {"left", "lost", "told"}, clicked : BOOLEAN]

DemoTypes ==
  /\ stage \in Int /\ stage >= Off
  /\ showing \in Nat
  /\ prompt \in Nat
  /\ alerts \in Seq(AlertRecord)
  /\ call \in [for : {"nothing", "assess", "approved", "dismissed"},
               got : {"nothing", "queued", "calm", "done", "refused"}]

\* An alert that this stage of this showing queued.
Here(i) == i \in DOMAIN alerts /\ alerts[i].showing = showing /\ alerts[i].stage = stage

StagesInv ==
  /\ \A i \in DOMAIN alerts :
       /\ alerts[i].showing <= showing
       /\ alerts[i].showing = showing /\ stage # Off => alerts[i].stage <= stage
  /\ \A i \in DOMAIN alerts : Here(i) /\ alerts[i].asker # "left" => assessed = stage
  /\ \A i, j \in DOMAIN alerts :
       /\ alerts[i].showing = alerts[j].showing /\ alerts[i].stage = alerts[j].stage
       /\ alerts[i].asker # "left" /\ alerts[j].asker # "left"
       => i = j

PromptInv ==
  /\ prompt # 0 => Here(prompt)
  /\ run = "asleep" => prompt = 0 /\ stage # Off
  /\ run = "paused" => prompt # 0
  /\ \A i \in DOMAIN alerts :
       Here(i) /\ alerts[i].status = "pending" =>
         alerts[i].asker # "told" \/ alerts[i].clicked \/ prompt = i

CallInv ==
  /\ run = "asking" <=> call.for # "nothing"
  /\ call.for = "assess" => stage # Off /\ Assesses
  /\ call.for = "assess" /\ call.got = "queued" =>
       Here(Len(alerts)) /\ alerts[Len(alerts)].asker = "left"
  /\ call.for \in {"approved", "dismissed"} => prompt # 0 /\ alerts[prompt].clicked

DemoInv == DemoTypes /\ StagesInv /\ PromptInv /\ CallInv
-----------------------------------------------------------------------------
(* CAP messages. *)

\* A stamp is later than all before it.
LEMMA StampKeeps ==
  ASSUME CapInv, SheetInv, NEW to \in {"pending", "approved", "cancelled", "dismissed"}, Stamp(to),
         UNCHANGED page
  PROVE  CapInv' /\ SheetInv'
<1> USE DEF CapInv
<1>1. /\ now \in Nat /\ now' = now /\ exported' = exported
      /\ row' = [row EXCEPT !.status = to, !.reviewed = now]
      /\ now > row.created /\ now > row.reviewed
      /\ row.created \in Nat /\ row.reviewed \in Nat
  BY DEF Stamp
<1>2. row' \in [status : {"pending", "approved", "cancelled", "dismissed"},
                created : Nat, reviewed : Nat]
  BY <1>1
<1>3. SentAt' = now /\ SentAt < now /\ SentAt \in Nat
  BY <1>1 DEF SentAt
<1>4. \A m : CapMessage(m) => CapMessage(m)'
  BY <1>1, <1>3 DEF CapMessage
<1>5. CapInv'
  BY <1>1, <1>2, <1>4
<1>6. SheetInv'
  BY <1>4 DEF SheetInv, NoPage
<1> QED BY <1>5, <1>6

\* What does not touch the row leaves the messages as they are.
LEMMA RowKeeps ==
  ASSUME CapInv, SheetInv, UNCHANGED row, now' \in Nat,
         \A m \in exported' : CapMessage(m),
         page' # NoPage => CapMessage(page'.message)
  PROVE  CapInv' /\ SheetInv'
<1>1. SentAt' = SentAt /\ Type' = Type
  BY DEF SentAt, Type
<1>2. \A m : CapMessage(m)' = CapMessage(m)
  BY <1>1 DEF CapMessage
<1> QED BY <1>2 DEF CapInv, SheetInv, NoPage

\* What is exported now is as it should be.
LEMMA MessageIsOne == CapInv => CapMessage(Message)
BY DEF CapInv, CapMessage, Message, SentAt

LEMMA CapStep == CapInv /\ SheetInv /\ [DashboardNext]_<<demo, page, cap>> => CapInv' /\ SheetInv'
<1> SUFFICES ASSUME CapInv, SheetInv, [DashboardNext]_<<demo, page, cap>>
             PROVE  CapInv' /\ SheetInv'
  OBVIOUS
<1>1. CASE UNCHANGED <<page, cap>>
  BY <1>1, RowKeeps DEF cap, CapInv, SheetInv
<1>2. CASE Elsewhere
  <2>1. CASE Tick
    BY <1>2, <2>1, RowKeeps DEF Elsewhere, Tick, CapInv, SheetInv
  <2>2. CASE Export
    BY <1>2, <2>2, RowKeeps, MessageIsOne DEF Elsewhere, Export, CapInv, SheetInv
  <2>3. CASE Review
    BY <1>2, <2>3, StampKeeps DEF Elsewhere, Review, Transition
  <2> QED BY <1>2, <2>1, <2>2, <2>3 DEF Elsewhere, Next
<1>3. CASE RenderReview
  <2>1. page' # NoPage => page'.message = Message
    BY <1>3 DEF RenderReview
  <2> QED BY <1>3, <2>1, RowKeeps, MessageIsOne DEF RenderReview, cap, CapInv, SheetInv
<1>4. CASE Download
  BY <1>4, RowKeeps DEF Download, CapInv, SheetInv
<1>5. ASSUME NEW from \in {"pending", "approved"}, NEW to \in {"approved", "dismissed", "cancelled"},
             Click(from, to)
      PROVE  CapInv' /\ SheetInv'
  <2>1. CASE UNCHANGED cap
    BY <1>5, <2>1, RowKeeps DEF Click, cap, CapInv, SheetInv
  <2>2. CASE Stamp(to) \/ Stamp(from)
    BY <1>5, <2>2, StampKeeps DEF Click
  <2> QED BY <1>5, <2>1, <2>2 DEF Click, Transition
<1>6. \/ UNCHANGED <<page, cap>> \/ Elsewhere \/ RenderReview \/ Download
      \/ \E from \in {"pending", "approved"}, to \in {"approved", "dismissed", "cancelled"} :
           Click(from, to)
  BY DEF DashboardNext, Operator, SwitchView, StartDemo, Interact, Decide, RenderOther,
         RenderCalm, RenderAtRisk, TimerFires, Assess, Resolve, HearAssessed, HearDecided,
         DecideElsewhere
<1> QED BY <1>1, <1>2, <1>3, <1>4, <1>5, <1>6

LEMMA CapInit == DashboardInit => CapInv /\ SheetInv
BY DEF DashboardInit, Init, CapInv, SheetInv

\* The newest message of an alert that anybody holds says what the row said
\* when it was exported, however late pages hand theirs out (_build_cap_alert).
THEOREM ExportsInOrder == DashboardSpec => []NewestMessageStands
<1>1. CapInv => NewestMessageStands
  BY DEF CapInv, CapMessage, NewestMessageStands
<1> QED BY <1>1, CapInit, CapStep, PTL DEF DashboardSpec
-----------------------------------------------------------------------------
(* The demo. *)

LEMMA AlertTypes ==
  ASSUME DemoTypes, NEW i \in DOMAIN alerts
  PROVE  /\ i \in Nat \ {0} /\ alerts[i] \in AlertRecord
         /\ alerts[i].showing \in Nat
         /\ alerts[i].stage \in AtRisk /\ alerts[i].stage \in Nat /\ alerts[i].stage # Off
<1>1. i \in Nat \ {0} /\ alerts[i] \in AlertRecord
  BY DEF DemoTypes
<1>2. alerts[i].showing \in Nat /\ alerts[i].stage \in AtRisk
  BY <1>1 DEF AlertRecord
<1>3. \A k \in AtRisk : k \in Nat /\ k # Off
  BY StagesAssumption DEF Off
<1> QED BY <1>1, <1>2, <1>3

\* Where nothing moves but the page or the script, which neither goes to sleep
\* nor asks.
LEMMA RestKeeps ==
  ASSUME DemoInv, UNCHANGED <<stage, assessed, prompt, showing, alerts, call>>,
         run' = run \/ (run # "asking" /\ run' \notin {"asleep", "asking", "paused"})
  PROVE  DemoInv'
<1> USE DEF DemoInv
<1>1. \A i : Here(i)' = Here(i)
  BY DEF Here
<1>2. DemoTypes' /\ StagesInv'
  BY <1>1 DEF DemoTypes, StagesInv
<1>3. PromptInv'
  BY <1>1 DEF PromptInv
<1>4. CallInv'
  BY <1>1 DEF CallInv, Assesses
<1> QED BY <1>2, <1>3, <1>4

\* A run is thrown away; it may have noted that it asked.
LEMMA InteractKeeps ==
  ASSUME DemoInv, Interact
  PROVE  DemoInv'
<1> USE DEF DemoInv
<1>1. /\ run' = "due" /\ call' = NoCall /\ UNCHANGED <<stage, prompt, showing, alerts>>
      /\ assessed' = assessed \/ assessed' = stage
  BY DEF Interact
<1>2. \A i : Here(i)' = Here(i)
  BY <1>1 DEF Here
<1>3. DemoTypes' /\ StagesInv' /\ PromptInv' /\ CallInv'
  BY <1>1, <1>2 DEF DemoTypes, StagesInv, PromptInv, CallInv, NoCall
<1> QED BY <1>3

\* The toggles leave the demo as it is, or end the showing.
LEMMA SwitchKeeps ==
  ASSUME DemoInv, NEW v \in {"home", "demo", "review"}, SwitchView(v)
  PROVE  DemoInv'
<1> USE DEF DemoInv
<1>1. run' = "due" /\ call' = NoCall /\ UNCHANGED <<showing, alerts>>
  BY DEF SwitchView
<1>2. CallInv'
  BY <1>1 DEF CallInv, NoCall
<1>3. CASE UNCHANGED <<stage, assessed, prompt>>
  <2>1. \A i : Here(i)' = Here(i)
    BY <1>1, <1>3 DEF Here
  <2>2. DemoTypes' /\ StagesInv' /\ PromptInv'
    BY <1>1, <1>3, <2>1 DEF DemoTypes, StagesInv, PromptInv, NoCall
  <2> QED BY <1>2, <2>2
<1>4. CASE stage' = Off /\ ClearDemoState
  <2>1. \A i \in DOMAIN alerts : alerts[i].stage # Off
    BY AlertTypes
  <2>2. DemoTypes'
    BY <1>1, <1>4 DEF DemoTypes, Off, ClearDemoState, NoCall
  <2>3. StagesInv'
    BY <1>1, <1>4, <2>1 DEF StagesInv, Here
  <2>4. PromptInv'
    BY <1>1, <1>4, <2>1 DEF PromptInv, Here, ClearDemoState
  <2> QED BY <1>2, <2>2, <2>3, <2>4
<1> QED BY <1>3, <1>4 DEF SwitchView

\* No alert is of a showing that only starts.
LEMMA StartDemoKeeps ==
  ASSUME DemoInv, StartDemo
  PROVE  DemoInv'
<1> USE DEF DemoInv
<1>1. \A i \in DOMAIN alerts : alerts[i].showing # showing + 1
  BY DEF DemoTypes, StagesInv
<1>2. /\ stage' = 0 /\ showing' = showing + 1 /\ alerts' = alerts
      /\ prompt' = 0 /\ run' = "due" /\ call' = NoCall
  BY DEF StartDemo, ClearDemoState
<1>3. DemoTypes'
  BY <1>2 DEF DemoTypes, Off, NoCall
<1>4. StagesInv'
  <2>1. \A i \in DOMAIN alerts : alerts[i].showing <= showing + 1
    BY AlertTypes DEF StagesInv, DemoTypes
  <2> QED BY <1>1, <1>2, <2>1 DEF StagesInv, Here
<1>5. PromptInv' /\ CallInv'
  BY <1>1, <1>2 DEF PromptInv, CallInv, Here, NoCall
<1> QED BY <1>3, <1>4, <1>5

\* A run of a stage asks for an alert, pauses for the prompt, or sleeps.
LEMMA RenderKeeps ==
  ASSUME DemoInv, RenderCalm \/ RenderAtRisk
  PROVE  DemoInv'
<1> USE DEF DemoInv
<1>1. /\ UNCHANGED <<stage, assessed, prompt, showing, alerts>> /\ run = "due"
      /\ stage \in 0 .. Stages - 1 \/ stage \in AtRisk
  BY DEF RenderCalm, RenderAtRisk
<1>2. stage # Off /\ call.for = "nothing"
  BY <1>1, StagesAssumption DEF Off, CallInv
<1>3. \A i : Here(i)' = Here(i)
  BY <1>1 DEF Here
<1>4. StagesInv'
  BY <1>1, <1>3 DEF StagesInv
<1>5. CASE AskFor("assess") /\ Assesses
  <2>1. DemoTypes'
    BY <1>1, <1>5 DEF DemoTypes, AskFor
  <2>2. PromptInv'
    BY <1>1, <1>3, <1>5 DEF PromptInv, AskFor
  <2>3. CallInv'
    BY <1>1, <1>2, <1>5 DEF CallInv, AskFor, Assesses
  <2> QED BY <1>4, <2>1, <2>2, <2>3
<1>6. CASE UNCHANGED call /\ run' \in {"asleep", "paused", "broken"}
             /\ (run' = "asleep" => prompt = 0) /\ (run' = "paused" => prompt # 0)
  <2>1. DemoTypes'
    BY <1>1, <1>6 DEF DemoTypes
  <2>2. PromptInv'
    BY <1>1, <1>2, <1>3, <1>6 DEF PromptInv
  <2>3. CallInv'
    BY <1>2, <1>6 DEF CallInv
  <2> QED BY <1>4, <2>1, <2>2, <2>3
<1>7. RunOn => UNCHANGED call /\ run' \in {"asleep", "paused", "broken"}
                 /\ (run' = "asleep" => prompt = 0) /\ (run' = "paused" => prompt # 0)
  BY DEF RunOn, EndsAs
<1>8. CASE RenderAtRisk
  BY <1>5, <1>6, <1>7, <1>8 DEF RenderAtRisk
<1>9. CASE RenderCalm
  <2>1. \A i \in DOMAIN alerts : ~Here(i)
    BY <1>9, AlertTypes DEF RenderCalm, Here
  <2>2. prompt = 0
    BY <2>1 DEF PromptInv, Here
  <2> QED BY <1>5, <1>6, <1>7, <1>9, <2>2 DEF RenderCalm
<1> QED BY <1>8, <1>9

\* The alert that is queued is the last, and nobody was told of it.
LEMMA AssessKeeps ==
  ASSUME DemoInv, Assess
  PROVE  DemoInv'
<1> USE DEF DemoInv
<1>1. /\ UNCHANGED <<stage, showing, assessed, prompt, run>> /\ call.for = "assess"
      /\ call'.for = "assess" /\ call'.got \in {"queued", "calm"}
      /\ stage # Off /\ Assesses
  BY DEF Assess, CallInv, DemoTypes
<1>2. call' \in [for : {"nothing", "assess", "approved", "dismissed"},
                 got : {"nothing", "queued", "calm", "done", "refused"}]
  BY DEF Assess, DemoTypes
<1>3. CASE alerts' = alerts /\ call'.got = "calm"
  <2>1. \A i : Here(i)' = Here(i)
    BY <1>1, <1>3 DEF Here
  <2>2. DemoTypes' /\ StagesInv'
    BY <1>1, <1>2, <1>3, <2>1 DEF DemoTypes, StagesInv
  <2>3. PromptInv' /\ CallInv'
    BY <1>1, <1>3, <2>1 DEF PromptInv, CallInv, Assesses
  <2> QED BY <2>2, <2>3
<1>4. CASE stage \in AtRisk /\ alerts' = Append(alerts, Exercise)
  <2> DEFINE e == Exercise
  <2>1. PICK n \in Nat : n = Len(alerts) + 1
    BY DEF DemoTypes
  <2>2. stage \in Nat /\ showing \in Nat
    BY <1>4, StagesAssumption DEF DemoTypes
  <2>3. /\ e \in AlertRecord /\ e.showing = showing /\ e.stage = stage /\ e.asker = "left"
        /\ alerts' = Append(alerts, e)
    BY <1>4, <2>2 DEF Exercise, AlertRecord
  <2>4. alerts \in Seq(AlertRecord)
    BY DEF DemoTypes
  <2>5. /\ DOMAIN alerts' = DOMAIN alerts \cup {n} /\ n \notin DOMAIN alerts
        /\ alerts'[n] = e /\ \A i \in DOMAIN alerts : alerts'[i] = alerts[i]
        /\ alerts' \in Seq(AlertRecord) /\ Len(alerts') = n
    <3> HIDE DEF e
    <3> QED BY <2>1, <2>3, <2>4
  <2> HIDE DEF e
  <2>6. \A i \in DOMAIN alerts : Here(i)' = Here(i)
    BY <1>1, <2>5 DEF Here
  <2>7. DemoTypes'
    BY <1>1, <1>2, <2>5 DEF DemoTypes
  <2>8. StagesInv'
    BY <1>1, <2>2, <2>3, <2>5, <2>6 DEF StagesInv
  <2>9. PromptInv'
    <3>1. prompt # 0 => prompt \in DOMAIN alerts
      BY DEF PromptInv, Here
    <3> QED BY <1>1, <2>3, <2>5, <2>6, <3>1 DEF PromptInv
  <2>10. CallInv'
    <3>1. Here(Len(alerts))'
      BY <1>1, <2>3, <2>5 DEF Here
    <3>2. alerts'[Len(alerts')].asker = "left"
      BY <2>3, <2>5
    <3>3. Assesses' /\ stage' # Off /\ (run' = "asking" <=> call'.for # "nothing")
      BY <1>1 DEF CallInv, Assesses
    <3>4. call'.for \notin {"approved", "dismissed"}
      BY <1>1
    <3> HIDE DEF DemoInv
    <3> QED BY <3>1, <3>2, <3>3, <3>4, Zenon DEF CallInv
  <2> QED BY <2>7, <2>8, <2>9, <2>10
<1>5. \/ stage \in AtRisk /\ alerts' = Append(alerts, Exercise)
      \/ alerts' = alerts /\ call'.got = "calm"
  BY DEF Assess, DemoTypes
<1> QED BY <1>3, <1>4, <1>5

\* The run that asked lives to note it: the stage had no alert so noted.
LEMMA HearAssessedKeeps ==
  ASSUME DemoInv, HearAssessed
  PROVE  DemoInv'
<1> USE DEF DemoInv
<1>1. PICK heard \in BOOLEAN :
        LET queued == call.got = "queued"
            asked == IF heard /\ queued THEN Len(alerts) ELSE 0
        IN  /\ Hears(heard)
            /\ alerts' = IF queued
                         THEN [alerts EXCEPT ![Len(alerts)].asker = IF heard THEN "told" ELSE "lost"]
                         ELSE alerts
            /\ assessed' = stage
            /\ prompt' = asked
            /\ run' = EndsAs(asked)
  BY DEF HearAssessed
<1>2. /\ UNCHANGED <<stage, showing>> /\ call.for = "assess" /\ call' = NoCall
      /\ stage # Off /\ prompt = 0 /\ assessed # stage
  BY <1>1 DEF HearAssessed, Hears, CallInv, Assesses
<1>3. /\ run' \in {"asleep", "paused", "broken"}
      /\ run' = "asleep" => prompt' = 0
      /\ run' = "paused" => prompt' # 0
  BY <1>1 DEF EndsAs
<1>4. CallInv'
  BY <1>2, <1>3 DEF CallInv, NoCall
<1>5. \A i \in DOMAIN alerts : Here(i) => alerts[i].asker = "left"
  BY <1>2 DEF StagesInv
<1>6. CASE call.got # "queued"
  <2>1. alerts' = alerts /\ prompt' = 0
    BY <1>1, <1>6
  <2>2. \A i : Here(i)' = Here(i)
    BY <1>2, <2>1 DEF Here
  <2>3. DemoTypes'
    BY <1>2, <2>1 DEF DemoTypes, NoCall
  <2>4. StagesInv'
    BY <1>1, <1>2, <2>1, <2>2 DEF StagesInv
  <2>5. PromptInv'
    BY <1>2, <1>3, <2>1, <2>2 DEF PromptInv
  <2> QED BY <1>4, <2>3, <2>4, <2>5
<1>7. CASE call.got = "queued"
  <2>1. PICK n : n = Len(alerts)
    OBVIOUS
  <2>2. Here(n) /\ n \in DOMAIN alerts /\ n \in Nat /\ n # 0
    BY <1>2, <1>7, <2>1, AlertTypes DEF CallInv, Here
  <2> DEFINE e == [alerts[n] EXCEPT !.asker = IF heard THEN "told" ELSE "lost"]
  <2>3. alerts' = [alerts EXCEPT ![n] = e] /\ prompt' = IF heard THEN n ELSE 0
    BY <1>1, <1>7, <2>1
  <2>4. alerts[n] \in AlertRecord
    BY <2>2, AlertTypes
  <2>5. /\ e \in AlertRecord /\ e.asker = IF heard THEN "told" ELSE "lost"
        /\ e.showing = alerts[n].showing /\ e.stage = alerts[n].stage
    BY <2>4 DEF AlertRecord
  <2> HIDE DEF e
  <2>6. alerts \in Seq(AlertRecord)
    BY DEF DemoTypes
  <2>7. /\ alerts' \in Seq(AlertRecord) /\ DOMAIN alerts' = DOMAIN alerts
        /\ alerts'[n] = e /\ \A j \in DOMAIN alerts : j # n => alerts'[j] = alerts[j]
    BY <2>2, <2>3, <2>5, <2>6
  <2>8. \A j \in DOMAIN alerts : /\ alerts'[j].showing = alerts[j].showing
                                 /\ alerts'[j].stage = alerts[j].stage
    BY <2>5, <2>7
  <2>9. \A j : Here(j)' = Here(j)
    BY <1>2, <2>7, <2>8 DEF Here
  <2>10. DemoTypes'
    BY <1>2, <2>2, <2>3, <2>7 DEF DemoTypes, NoCall
  <2>11. StagesInv'
    <3>1. \A j \in DOMAIN alerts :
            alerts[j].showing = alerts[n].showing /\ alerts[j].stage = alerts[n].stage =>
              j = n \/ alerts'[j].asker = "left"
      BY <1>5, <2>2, <2>7 DEF Here
    <3>2. \A i, j \in DOMAIN alerts' :
            /\ alerts'[i].showing = alerts'[j].showing /\ alerts'[i].stage = alerts'[j].stage
            /\ alerts'[i].asker # "left" /\ alerts'[j].asker # "left"
            => i = j
      BY <2>7, <2>8, <3>1 DEF StagesInv
    <3>3. \A i \in DOMAIN alerts' :
            /\ alerts'[i].showing <= showing'
            /\ alerts'[i].showing = showing' /\ stage' # Off => alerts'[i].stage <= stage'
      BY <1>2, <2>7, <2>8 DEF StagesInv
    <3>4. assessed' = stage'
      BY <1>1, <1>2
    <3> QED BY <3>2, <3>3, <3>4 DEF StagesInv
  <2>12. PromptInv'
    <3>1. \A i \in DOMAIN alerts' : i # n => (Here(i)' => alerts'[i].asker # "told")
      BY <1>5, <2>7, <2>9
    <3>2. alerts'[n].asker # "told" \/ prompt' = n
      BY <2>3, <2>5, <2>7
    <3>3. prompt' # 0 => Here(prompt)'
      BY <2>2, <2>3, <2>9
    <3> QED BY <1>2, <1>3, <3>1, <3>2, <3>3 DEF PromptInv
  <2> QED BY <1>4, <2>10, <2>11, <2>12
<1> QED BY <1>6, <1>7

\* The next stage has no alert yet, and nobody is asked.
LEMMA TimerKeeps ==
  ASSUME DemoInv, TimerFires
  PROVE  DemoInv'
<1> USE DEF DemoInv
<1>1. /\ prompt = 0 /\ stage # Off /\ stage \in Nat /\ stage' = stage + 1 /\ run' = "due"
      /\ UNCHANGED <<assessed, prompt, showing, alerts, call>> /\ call.for = "nothing"
  BY DEF TimerFires, PromptInv, CallInv, DemoTypes, Off
<1>2. \A i \in DOMAIN alerts : alerts[i].stage \in Nat
  BY AlertTypes
<1>3. \A i \in DOMAIN alerts : ~Here(i)'
  BY <1>1, <1>2 DEF StagesInv, Here
<1>4. DemoTypes'
  BY <1>1 DEF DemoTypes, Off
<1>5. StagesInv'
  BY <1>1, <1>2, <1>3 DEF StagesInv, Here
<1>6. PromptInv' /\ CallInv'
  BY <1>1, <1>3 DEF PromptInv, CallInv
<1> QED BY <1>4, <1>5, <1>6

\* Decisions change what became of an alert, not which it is.
LEMMA DecidedKeeps ==
  ASSUME DemoTypes, StagesInv, PromptInv, NEW i \in DOMAIN alerts, NEW e \in AlertRecord,
         alerts' = [alerts EXCEPT ![i] = e],
         e.showing = alerts[i].showing, e.stage = alerts[i].stage, e.asker = alerts[i].asker,
         e.status # "pending" \/ e.clicked,
         alerts[i].clicked => e.clicked,
         UNCHANGED <<stage, assessed, showing, prompt>>,
         run' = run \/ run' = "asking"
  PROVE  /\ alerts' \in Seq(AlertRecord) /\ StagesInv' /\ PromptInv'
         /\ Len(alerts') = Len(alerts) /\ alerts'[i] = e
         /\ \A j : Here(j)' = Here(j)
         /\ \A j \in DOMAIN alerts : /\ alerts'[j].asker = alerts[j].asker
                                     /\ alerts[j].clicked => alerts'[j].clicked
<1>1. alerts \in Seq(AlertRecord)
  BY DEF DemoTypes
<1>2. /\ alerts' \in Seq(AlertRecord) /\ DOMAIN alerts' = DOMAIN alerts
      /\ Len(alerts') = Len(alerts)
      /\ alerts'[i] = e /\ \A j \in DOMAIN alerts : j # i => alerts'[j] = alerts[j]
  BY <1>1
<1>3. \A j \in DOMAIN alerts : /\ alerts'[j].showing = alerts[j].showing
                               /\ alerts'[j].stage = alerts[j].stage
                               /\ alerts'[j].asker = alerts[j].asker
                               /\ alerts[j].clicked => alerts'[j].clicked
  BY <1>2
<1>4. \A j : Here(j)' = Here(j)
  BY <1>2, <1>3 DEF Here
<1>5. StagesInv'
  BY <1>2, <1>3, <1>4 DEF StagesInv
<1>6. PromptInv'
  BY <1>2, <1>3, <1>4 DEF PromptInv
<1> QED BY <1>2, <1>3, <1>4, <1>5, <1>6

\* The operator clicks on the prompt's alert.
LEMMA DecideKeeps ==
  ASSUME DemoInv, NEW d \in {"approved", "dismissed"}, Decide(d)
  PROVE  DemoInv'
<1> USE DEF DemoInv
<1>1. /\ run = "paused" /\ run' = "asking" /\ call' = [for |-> d, got |-> "nothing"]
      /\ alerts' = [alerts EXCEPT ![prompt].clicked = TRUE]
      /\ UNCHANGED <<stage, assessed, showing, prompt>>
  BY DEF Decide, AskFor
<1>2. prompt # 0 /\ prompt \in DOMAIN alerts
  BY <1>1 DEF PromptInv, Here
<1> DEFINE e == [alerts[prompt] EXCEPT !.clicked = TRUE]
<1>3. alerts[prompt] \in AlertRecord
  BY <1>2, AlertTypes
<1>4. /\ e \in AlertRecord /\ e.clicked /\ e.showing = alerts[prompt].showing
      /\ e.stage = alerts[prompt].stage /\ e.asker = alerts[prompt].asker
  BY <1>3 DEF AlertRecord
<1>5. alerts' = [alerts EXCEPT ![prompt] = e]
  BY <1>1
<1> HIDE DEF e
<1>6. /\ alerts' \in Seq(AlertRecord) /\ StagesInv' /\ PromptInv'
      /\ alerts'[prompt] = e
  BY <1>1, <1>2, <1>4, <1>5, DecidedKeeps
<1>7. DemoTypes'
  BY <1>1, <1>6 DEF DemoTypes
<1>8. CallInv'
  BY <1>1, <1>2, <1>4, <1>6 DEF CallInv
<1> QED BY <1>6, <1>7, <1>8

\* An alert is decided, by the page's call or by somebody else.
LEMMA StatusKeeps ==
  ASSUME DemoInv, NEW i \in DOMAIN alerts, NEW d \in {"approved", "dismissed"},
         alerts' = [alerts EXCEPT ![i].status = d],
         UNCHANGED <<stage, assessed, showing, prompt, run>>,
         call'.for = call.for, call'.got = call.got \/ call.for # "assess",
         call' \in [for : {"nothing", "assess", "approved", "dismissed"},
                    got : {"nothing", "queued", "calm", "done", "refused"}]
  PROVE  DemoInv'
<1> USE DEF DemoInv
<1> DEFINE e == [alerts[i] EXCEPT !.status = d]
<1>1. alerts[i] \in AlertRecord
  BY AlertTypes
<1>2. /\ e \in AlertRecord /\ e.status # "pending" /\ e.clicked = alerts[i].clicked
      /\ e.showing = alerts[i].showing /\ e.stage = alerts[i].stage /\ e.asker = alerts[i].asker
  BY <1>1 DEF AlertRecord
<1>3. alerts' = [alerts EXCEPT ![i] = e]
  OBVIOUS
<1> HIDE DEF e
<1>4. /\ alerts' \in Seq(AlertRecord) /\ StagesInv' /\ PromptInv'
      /\ Len(alerts') = Len(alerts)
      /\ \A j : Here(j)' = Here(j)
      /\ \A j \in DOMAIN alerts : /\ alerts'[j].asker = alerts[j].asker
                                  /\ alerts[j].clicked => alerts'[j].clicked
  <2>1. run' = run /\ UNCHANGED <<stage, assessed, showing, prompt>>
    OBVIOUS
  <2>2. e.status # "pending" \/ e.clicked
    BY <1>2
  <2>3. alerts[i].clicked => e.clicked
    BY <1>2
  <2> QED BY <1>2, <1>3, <2>1, <2>2, <2>3, DecidedKeeps
<1>5. DemoTypes'
  BY <1>4 DEF DemoTypes
<1>6. CallInv'
  <2>1. prompt # 0 => prompt \in DOMAIN alerts
    BY DEF PromptInv, Here
  <2>2. Here(Len(alerts)) => Len(alerts) \in DOMAIN alerts
    BY DEF Here
  <2> QED BY <1>4, <2>1, <2>2 DEF CallInv, Assesses
<1> QED BY <1>4, <1>5, <1>6

\* The API decides the alert of the prompt, or finds it decided.
LEMMA ResolveKeeps ==
  ASSUME DemoInv, Resolve
  PROVE  DemoInv'
<1> USE DEF DemoInv
<1>1. /\ call.for \in {"approved", "dismissed"} /\ prompt \in DOMAIN alerts
      /\ UNCHANGED <<stage, assessed, showing, prompt, run>>
  BY DEF Resolve, CallInv, PromptInv, Here
<1>2. /\ call'.for = call.for
      /\ call' \in [for : {"nothing", "assess", "approved", "dismissed"},
                    got : {"nothing", "queued", "calm", "done", "refused"}]
  BY DEF Resolve, DemoTypes
<1>3. CASE alerts' = [alerts EXCEPT ![prompt].status = call.for]
  BY <1>1, <1>2, <1>3, StatusKeeps
<1>4. CASE alerts' = alerts
  <2>1. \A i : Here(i)' = Here(i)
    BY <1>1, <1>4 DEF Here
  <2>2. DemoTypes' /\ StagesInv'
    BY <1>1, <1>2, <1>4, <2>1 DEF DemoTypes, StagesInv
  <2>3. PromptInv' /\ CallInv'
    BY <1>1, <1>2, <1>4, <2>1 DEF PromptInv, CallInv, Assesses
  <2> QED BY <2>2, <2>3
<1> QED BY <1>3, <1>4 DEF Resolve

\* The prompt goes once the operator clicked.
LEMMA HearDecidedKeeps ==
  ASSUME DemoInv, HearDecided
  PROVE  DemoInv'
<1> USE DEF DemoInv
<1>1. /\ UNCHANGED <<stage, assessed, showing, alerts>> /\ prompt' = 0 /\ run' = "due"
      /\ call.for \in {"approved", "dismissed"}
  BY DEF HearDecided
<1>2. call' = NoCall
  BY DEF HearDecided, Hears
<1>3. alerts[prompt].clicked
  BY <1>1 DEF CallInv
<1>4. \A i : Here(i)' = Here(i)
  BY <1>1 DEF Here
<1>5. DemoTypes' /\ StagesInv'
  BY <1>1, <1>2, <1>4 DEF DemoTypes, StagesInv, NoCall
<1>6. PromptInv' /\ CallInv'
  BY <1>1, <1>2, <1>3, <1>4 DEF PromptInv, CallInv, NoCall
<1> QED BY <1>5, <1>6

LEMMA DemoStep == DemoInv /\ [DashboardNext]_<<demo, page, cap>> => DemoInv'
<1> SUFFICES ASSUME DemoInv, [DashboardNext]_<<demo, page, cap>> PROVE DemoInv'
  OBVIOUS
<1>1. ASSUME NEW v \in {"home", "demo", "review"}, SwitchView(v) PROVE DemoInv'
  BY <1>1, SwitchKeeps
<1>2. CASE StartDemo \/ Interact
  BY <1>2, StartDemoKeeps, InteractKeeps
<1>3. CASE RenderCalm \/ RenderAtRisk
  BY <1>3, RenderKeeps
<1>4. CASE Assess \/ HearAssessed
  BY <1>4, AssessKeeps, HearAssessedKeeps
<1>5. CASE Resolve \/ HearDecided \/ TimerFires
  BY <1>5, ResolveKeeps, HearDecidedKeeps, TimerKeeps
<1>6. ASSUME NEW d \in {"approved", "dismissed"}, Decide(d) PROVE DemoInv'
  BY <1>6, DecideKeeps
<1>7. ASSUME NEW i \in DOMAIN alerts, DecideElsewhere(i) PROVE DemoInv'
  <2>1. PICK d \in {"approved", "dismissed"} : alerts' = [alerts EXCEPT ![i].status = d]
    BY <1>7 DEF DecideElsewhere
  <2>2. UNCHANGED <<stage, assessed, showing, prompt, run, call>>
    BY <1>7 DEF DecideElsewhere
  <2> QED BY <2>1, <2>2, StatusKeeps DEF DemoInv, DemoTypes
<1>8. CASE \/ RenderOther \/ RenderReview \/ Download \/ Elsewhere
           \/ Click("pending", "approved") \/ Click("pending", "dismissed")
           \/ Click("approved", "cancelled")
           \/ UNCHANGED <<demo, page, cap>>
  <2>1. /\ UNCHANGED <<stage, assessed, prompt, showing, alerts, call>>
        /\ run' = run \/ (run # "asking" /\ run' \notin {"asleep", "asking", "paused"})
    BY <1>8 DEF RenderOther, RenderReview, Download, Elsewhere, Click, demo
  <2> QED BY <2>1, RestKeeps
<1> QED BY <1>1, <1>2, <1>3, <1>4, <1>5, <1>6, <1>7, <1>8 DEF DashboardNext, Operator

LEMMA DemoInit == DashboardInit => DemoInv
BY DEF DashboardInit, DemoInv, DemoTypes, StagesInv, PromptInv, CallInv, Here, Off, NoCall

\* Only the timer takes the demo to the next stage, and it fires only where
\* nobody is asked.
LEMMA OnlyTheTimer ==
  ASSUME DemoInv, [DashboardNext]_<<demo, page, cap>>, stage # Off, stage' = stage + 1
  PROVE  TimerFires
<1>1. stage \in Nat
  BY DEF DemoInv, DemoTypes, Off
<1>2. stage' # stage /\ stage' # Off /\ stage' # 0
  BY <1>1 DEF Off
<1> QED BY <1>2 DEF DashboardNext, Operator, SwitchView, StartDemo, Interact, Decide, RenderOther,
     RenderCalm, RenderAtRisk, Assess, Resolve, HearAssessed, HearDecided, DecideElsewhere,
     Click, Download, RenderReview, Elsewhere, demo

\* The demo leaves no stage whose alert it knows to be undecided before the
\* operator clicked, and of the alerts that it queued for it one at most was asked
\* for by a run that was not thrown away (render_broadcast_view).
THEOREM DemoHolds == DashboardSpec => DemoHoldsForDecision
<1>1. DemoInv /\ [DashboardNext]_<<demo, page, cap>> =>
        [stage # Off /\ stage' = stage + 1 =>
           LET here == {i \in DOMAIN alerts :
                          alerts[i].showing = showing /\ alerts[i].stage = stage}
           IN  /\ \A i \in here :
                    alerts[i].status = "pending" => alerts[i].asker # "told" \/ alerts[i].clicked
               /\ Cardinality({i \in here : alerts[i].asker # "left"}) <= 1]_<<demo, page, cap>>
  <2> DEFINE here == {i \in DOMAIN alerts :
                        alerts[i].showing = showing /\ alerts[i].stage = stage}
             noted == {i \in here : alerts[i].asker # "left"}
  <2> SUFFICES ASSUME DemoInv, [DashboardNext]_<<demo, page, cap>>,
                      stage # Off, stage' = stage + 1
               PROVE  /\ \A i \in here :
                           alerts[i].status = "pending" => alerts[i].asker # "told" \/ alerts[i].clicked
                      /\ Cardinality(noted) <= 1
    OBVIOUS
  <2>1. run = "asleep"
    BY OnlyTheTimer DEF TimerFires
  <2>2. \A i \in here : i # 0 /\ Here(i)
    BY DEF Here, DemoInv, DemoTypes
  <2>3. \A i \in here :
          alerts[i].status = "pending" => alerts[i].asker # "told" \/ alerts[i].clicked
    BY <2>1, <2>2 DEF DemoInv, PromptInv
  <2>4. \A i, j \in noted : i = j
    BY DEF DemoInv, StagesInv
  <2>5. Cardinality(noted) <= 1
    <3>1. CASE noted = {}
      BY <3>1, FS_EmptySet
    <3>2. CASE noted # {}
      <4>1. PICK i \in noted : noted = {i}
        BY <2>4, <3>2
      <4>2. Cardinality({i}) = 1
        BY FS_Singleton
      <4> QED BY <4>1, <4>2
    <3> QED BY <3>1, <3>2
  <2> QED BY <2>3, <2>5
<1> QED BY <1>1, DemoInit, DemoStep, PTL DEF DashboardSpec, DemoHoldsForDecision
-----------------------------------------------------------------------------
(* The sources.  What a worker keeps it read well, or the service was empty  *)
(* since; and what the dashboard keeps was told within the life of a         *)
(* worker's cache.                                                           *)

\* What is told and what is kept.
Kind == {"reading", "dry", "list", "scale", "none"}
ToldRecord == [kind : Kind, obs : Int, at : Int, flag : BOOLEAN]

\* The types, and that the clock does not run behind the newest observation.
SourceTypes ==
  /\ source \in Source /\ screen \in Screens
  /\ service \in {"up", "empty", "down"}
  /\ clock \in Nat /\ newest \in 0 .. clock
  /\ emptyAt = Never \/ emptyAt \in 0 .. clock
  /\ login \in [Worker -> BOOLEAN]
  /\ cache \in [Worker -> ToldRecord]

\* The service was empty at t or later.
EmptySince(t) == service = "empty" \/ (emptyAt # Never /\ t <= emptyAt)

\* A reading made at r.at, then within the source's window, and flagged by its age then.
WellRead(r) ==
  /\ r.kind = "reading" /\ r.obs \in 0 .. r.at
  /\ r.at - r.obs <= Window[source]
  /\ r.flag <=> FlagsAge /\ r.at - r.obs > StaleAfter[source]

\* What a worker may keep, by source.
KeptWell(k) ==
  \/ k = Nothing
  \/ /\ k.at \in 0 .. clock
     /\ \/ source \notin {"gauges", "rainfall"} /\ WellRead(k)
        \/ source = "gauges" /\ k.kind = "list"
        \/ source = "rainfall" /\ k.kind = "scale"
        \/ source \in {"forecast", "rainfall"} /\ k.kind = "dry" /\ EmptySince(k.at)
        \/ source \in {"discharge", "gauges"} /\ k.kind = "none" /\ EmptySince(k.at)

\* So it is with every worker.
CachesInv == \A w \in Worker : KeptWell(cache[w])

\* What the dashboard keeps was told within the life of a worker's cache.
PageInv ==
  pageCache.at # Never =>
    LET p == pageCache.what IN
    /\ pageCache.at \in 0 .. clock
    /\ \/ p.kind = "none"
       \/ /\ p.kind \in {"reading", "dry"} /\ p.at \in 0 .. pageCache.at
          /\ p.at = pageCache.at \/ pageCache.at - p.at < Life[source]
          /\ p.kind = "dry" =>
               \/ source = "forecast" /\ EmptySince(p.at)
               \/ screen = "map" /\ p.at = pageCache.at

SourcesInv == SourceTypes /\ CachesInv /\ PageInv
-----------------------------------------------------------------------------
(* The sources at work. *)

\* Two times of one day are less than a day apart, and so are those between.
LEMMA SameDay ==
  ASSUME NEW t \in Nat, NEW u \in Nat, NEW L \in Nat, L > 0, t <= u, t \div L = u \div L
  PROVE  /\ u - t < L
         /\ \A e \in t .. u : e \div L = u \div L
<1>1. u - t < L
  OBVIOUS
<1>2. ASSUME NEW e \in t .. u PROVE e \div L = u \div L
  OBVIOUS
<1> QED BY <1>1, <1>2

\* What lives was made less than a life ago, and what was made later lives as well.
LEMMA LifeBounds ==
  ASSUME source \in Source, clock \in Nat, NEW t \in 0 .. clock, InLife(t)
  PROVE  /\ clock - t < Life[source]
         /\ \A e \in t .. clock : InLife(e)
<1>1. Life[source] \in Nat
  BY LifeAssumption
<1>2. CASE source \in {"discharge", "rainfall"}
  <2>1. Life[source] > 0 /\ t \div Life[source] = clock \div Life[source]
    BY <1>1, <1>2, LifeAssumption DEF InLife
  <2>2. /\ clock - t < Life[source]
        /\ \A e \in t .. clock : e \div Life[source] = clock \div Life[source]
    BY <1>1, <2>1, SameDay
  <2> QED BY <1>2, <2>2 DEF InLife, Never
<1>3. CASE source \notin {"discharge", "rainfall"}
  BY <1>1, <1>3 DEF InLife, Never
<1> QED BY <1>2, <1>3

\* Caches that keep what they may.
Caches(c) == c \in [Worker -> ToldRecord] /\ \A w \in Worker : KeptWell(c[w])

\* What is cached and still lives: when it was made, and with it what came later.
LEMMA HeldLives ==
  ASSUME SourceTypes, NEW c, Caches(c), NEW w \in Worker, Holds(c, w)
  PROVE  /\ c[w] # Nothing /\ c[w].at \in 0 .. clock /\ clock - c[w].at < Life[source]
         /\ \A e \in c[w].at .. clock : InLife(e)
<1>1. c[w].at # Never
  BY DEF Holds, InLife
<1>2. c[w].at \in 0 .. clock /\ c[w] # Nothing
  BY <1>1 DEF Caches, KeptWell, Nothing, Never
<1> QED BY <1>2, LifeBounds DEF Holds, SourceTypes

\* What a caller may be told by worker w.
ToldWell(t, w) ==
  /\ t \in ToldRecord /\ t.kind \in {"reading", "dry", "none"}
  /\ t.kind # "none" =>
       t.at \in 0 .. clock /\ (t.at = clock \/ clock - t.at < Life[source])
  /\ t.kind = "reading" =>
       \/ WellRead(t)
       \/ /\ source = "rainfall" /\ t.obs \in 0 .. clock /\ t.at = clock
          /\ ~t.flag => clock - t.obs <= StaleAfter[source] \/ clock - t.obs <= Window[source]
  /\ t.kind = "dry" => source = "rainfall" \/ (source = "forecast" /\ EmptySince(t.at))
  /\ HasData /\ t.kind # "reading" =>
       \/ source = "satellite" /\ ~login[w]
       \/ source \in {"forecast", "discharge", "gauges", "rainfall"} /\ InLife(emptyAt)

\* Nothing is well told where nothing could be reached.
LEMMA NothingTold ==
  ASSUME SourceTypes, NEW w \in Worker,
         ~HasData \/ (source = "satellite" /\ ~login[w])
                  \/ (source \in {"forecast", "discharge", "gauges", "rainfall"} /\ InLife(emptyAt))
  PROVE  ToldWell(Nothing, w) /\ KeptWell(Nothing)
<1>1. Nothing \in ToldRecord /\ Nothing.kind = "none"
  BY DEF Nothing, ToldRecord, Kind, Never
<1> QED BY <1>1 DEF ToldWell, KeptWell

\* What is fetched now.
LEMMA FetchedWell ==
  ASSUME SourceTypes, NEW w \in Worker, source # "rainfall"
  PROVE  /\ ToldWell(Fetched(w), w)
         /\ Fetched(w) = Nothing \/ Fetched(w).at = clock
         /\ Fetched(w).kind = "reading" => WellRead(Fetched(w))
         /\ Fetched(w).kind = "none" => Fetched(w) = Nothing
         /\ Fetched(w).kind = "dry" => source = "forecast" /\ EmptySince(clock)
<1> USE DEF SourceTypes
<1>1. CASE ~Reached(w)
  <2>1. Fetched(w) = Nothing
    BY <1>1 DEF Fetched
  <2>2. ~HasData \/ (source = "satellite" /\ ~login[w])
    BY <1>1 DEF Reached, HasData
  <2>3. Nothing.kind = "none"
    BY DEF Nothing
  <2> QED BY <2>1, <2>2, <2>3, NothingTold
<1>2. CASE Reached(w) /\ HasData
  <2> DEFINE t == Told("reading", Observed, Old(Observed))
  <2>1. Fetched(w) = t
    BY <1>2 DEF Fetched
  <2>2. t.kind = "reading" /\ t.obs = Observed /\ t.at = clock /\ t.flag = Old(Observed)
    BY DEF Told
  <2>3. Observed \in 0 .. clock /\ clock - Observed <= Window[source]
    BY <1>2 DEF Observed, HasData
  <2>4. t \in ToldRecord
    BY <2>3 DEF Told, Kind, ToldRecord, Old, FlagsAge
  <2>5. WellRead(t)
    BY <2>2, <2>3 DEF WellRead, Old
  <2> HIDE DEF t
  <2> QED BY <2>1, <2>2, <2>4, <2>5 DEF ToldWell
<1>3. CASE Reached(w) /\ ~HasData /\ source = "forecast"
  <2>1. Fetched(w) = Told("dry", clock, FALSE)
    BY <1>3 DEF Fetched
  <2>2. service = "empty"
    <3>1. Observed = clock /\ Window[source] \in Nat
      BY <1>3, LifeAssumption DEF Observed
    <3> QED BY <1>3, <3>1 DEF HasData, Reached
  <2> QED BY <1>3, <2>1, <2>2 DEF ToldWell, Told, Kind, ToldRecord, EmptySince, HasData
<1>4. CASE Reached(w) /\ ~HasData /\ source # "forecast"
  <2>1. Fetched(w) = Nothing /\ Nothing.kind = "none"
    BY <1>4 DEF Fetched, Nothing
  <2> QED BY <1>4, <2>1, NothingTold
<1> QED BY <1>1, <1>2, <1>3, <1>4

\* An empty answer that lives speaks of a service that was empty not long ago.
LEMMA EmptyLives ==
  ASSUME SourceTypes, NEW c, Caches(c), NEW w \in Worker, Holds(c, w), EmptySince(c[w].at), HasData
  PROVE  InLife(emptyAt)
<1>1. emptyAt # Never /\ c[w].at <= emptyAt
  BY DEF EmptySince, HasData
<1>2. c[w].at \in 0 .. clock /\ emptyAt \in c[w].at .. clock
  BY <1>1, HeldLives DEF SourceTypes
<1> QED BY <1>2, HeldLives

\* The answers of the sources that keep what they were told.
LEMMA PlainAnswers ==
  ASSUME SourceTypes, NEW c, Caches(c), NEW w \in Worker, NEW a \in Answers(c, w),
         source \notin {"gauges", "rainfall"}
  PROVE  ToldWell(a.told, w) /\ a.kept \in ToldRecord /\ KeptWell(a.kept)
<1>1. CASE Holds(c, w)
  <2>1. a.told = c[w] /\ a.kept = c[w]
    BY <1>1 DEF Answers
  <2>2. c[w] \in ToldRecord /\ KeptWell(c[w])
    BY DEF Caches
  <2>3. /\ c[w] # Nothing /\ c[w].at \in 0 .. clock /\ clock - c[w].at < Life[source]
        /\ c[w].kind \in {"none", "dry"} => (HasData => InLife(emptyAt))
    <3>1. c[w].kind \in {"none", "dry"} => EmptySince(c[w].at)
      BY <2>2, <1>1, HeldLives DEF KeptWell, WellRead
    <3> QED BY <1>1, <3>1, HeldLives, EmptyLives
  <2> QED BY <2>1, <2>2, <2>3 DEF ToldWell, KeptWell, WellRead
<1>2. CASE ~Holds(c, w)
  <2>1. a.told = Fetched(w) /\ a.kept = Keeps(w)
    BY <1>2 DEF Answers
  <2>2. CASE source = "discharge" /\ Reached(w) /\ ~HasData
    <3>1. a.kept = Told("none", Never, FALSE)
      BY <2>1, <2>2 DEF Keeps
    <3>2. service = "empty"
      <4>1. Observed = clock /\ Window[source] \in Nat
        BY <2>2, LifeAssumption DEF Observed, SourceTypes
      <4> QED BY <2>2, <4>1 DEF HasData, Reached, SourceTypes
    <3> QED BY <2>1, <2>2, <3>1, <3>2, FetchedWell
            DEF SourceTypes, Told, ToldRecord, Kind, Never, KeptWell, EmptySince
  <2>3. CASE ~(source = "discharge" /\ Reached(w) /\ ~HasData)
    <3>1. a.kept = Fetched(w)
      BY <2>1, <2>3 DEF Keeps
    <3>2. KeptWell(Fetched(w))
      <4> DEFINE t == Fetched(w)
      <4>1. /\ t \in ToldRecord /\ t.kind \in {"reading", "dry", "none"}
            /\ t.kind = "none" \/ t = Nothing \/ t.at = clock
        BY FetchedWell DEF ToldWell
      <4>2. clock \in 0 .. clock
        BY DEF SourceTypes
      <4> QED BY <4>1, <4>2, FetchedWell DEF KeptWell
    <3> QED BY <2>1, <3>1, <3>2, FetchedWell DEF ToldWell
  <2> QED BY <2>2, <2>3
<1> QED BY <1>1, <1>2

\* The gauges: the list is kept, the levels are read live.
LEMMA GaugeAnswers ==
  ASSUME SourceTypes, NEW c, Caches(c), NEW w \in Worker, NEW a \in Answers(c, w), source = "gauges"
  PROVE  ToldWell(a.told, w) /\ a.kept \in ToldRecord /\ KeptWell(a.kept)
<1> DEFINE list == ListOf(c, w)
<1>1. a.told = GaugeForecast(list, w) /\ a.kept = list
  BY DEF Answers
<1>2. /\ list \in ToldRecord /\ KeptWell(list)
      /\ HasData => list.kind = "list" \/ InLife(emptyAt)
  <2>1. CASE Holds(c, w)
    <3>1. list = c[w] /\ list \in ToldRecord /\ KeptWell(list)
      BY <2>1 DEF ListOf, Caches
    <3>2. list # Nothing
      BY <2>1, <3>1, HeldLives
    <3>3. list.kind = "list" \/ EmptySince(list.at)
      BY <3>1, <3>2 DEF KeptWell
    <3> QED BY <2>1, <3>1, <3>3, EmptyLives
  <2>2. CASE ~Holds(c, w) /\ service = "down"
    <3>1. list = Nothing /\ ~HasData
      BY <2>2 DEF ListOf, HasData
    <3> QED BY <3>1 DEF Nothing, ToldRecord, Kind, Never, KeptWell
  <2>3. CASE ~Holds(c, w) /\ service = "up"
    <3>1. list = Told("list", Never, FALSE)
      BY <2>3 DEF ListOf
    <3> QED BY <3>1 DEF Told, ToldRecord, Kind, Never, KeptWell, SourceTypes
  <2>4. CASE ~Holds(c, w) /\ service = "empty"
    <3>1. list = Told("none", Never, FALSE) /\ ~HasData
      BY <2>4 DEF ListOf, HasData
    <3> QED BY <2>4, <3>1 DEF Told, ToldRecord, Kind, Never, KeptWell, EmptySince, SourceTypes
  <2> QED BY <2>1, <2>2, <2>3, <2>4 DEF SourceTypes
<1> HIDE DEF list
<1>3. CASE list.kind = "list"
  BY <1>1, <1>2, <1>3, FetchedWell DEF GaugeForecast
<1>4. CASE list.kind # "list"
  <2>1. a.told = Nothing
    BY <1>1, <1>4 DEF GaugeForecast
  <2> QED BY <1>1, <1>2, <1>4, <2>1, NothingTold
<1> QED BY <1>3, <1>4

\* The rainfall: the scale is kept, the days are read live.
LEMMA RainfallAnswers ==
  ASSUME SourceTypes, NEW c, Caches(c), NEW w \in Worker, NEW a \in Answers(c, w), source = "rainfall"
  PROVE  ToldWell(a.told, w) /\ a.kept \in ToldRecord /\ KeptWell(a.kept)
<1>1. CASE service = "down"
  <2>1. a.told = Nothing /\ a.kept = c[w]
    BY <1>1 DEF Answers
  <2>2. ~HasData
    BY <1>1 DEF HasData
  <2> QED BY <2>1, <2>2, NothingTold DEF Caches
<1>2. CASE service # "down"
  <2>1. PICK factor \in ScaleOf(c, w) : \E t \in Rainfall(factor) : a = [told |-> t, kept |-> factor]
    BY <1>2 DEF Answers
  <2>2. PICK t \in Rainfall(factor) : a = [told |-> t, kept |-> factor]
    BY <2>1
  <2>3. a.told = t /\ a.kept = factor
    BY <2>2
  <2>4. /\ factor \in ToldRecord /\ KeptWell(factor)
        /\ HasData /\ factor.kind = "dry" => InLife(emptyAt)
    <3>1. CASE Holds(c, w)
      <4>1. factor = c[w] /\ factor \in ToldRecord /\ KeptWell(factor)
        BY <3>1 DEF ScaleOf, Caches
      <4>2. factor # Nothing
        BY <3>1, <4>1, HeldLives
      <4>3. factor.kind = "dry" => EmptySince(factor.at)
        BY <4>1, <4>2 DEF KeptWell
      <4> QED BY <3>1, <4>1, <4>3, EmptyLives
    <3>2. CASE ~Holds(c, w)
      <4>1. \/ factor = Told("scale", Never, FALSE)
            \/ service = "empty" /\ factor = Told("dry", Never, FALSE)
        BY <3>2 DEF ScaleOf
      <4> QED
        <5>1. clock \in 0 .. clock /\ clock \in Int
          BY DEF SourceTypes
        <5>2. CASE factor = Told("scale", Never, FALSE)
          BY <5>1, <5>2 DEF Told, ToldRecord, Kind, Never, KeptWell
        <5>3. CASE service = "empty" /\ factor = Told("dry", Never, FALSE)
          BY <5>1, <5>3 DEF Told, ToldRecord, Kind, Never, KeptWell, EmptySince, HasData
        <5> QED BY <4>1, <5>2, <5>3
    <3> QED BY <3>1, <3>2
  <2>5. ToldWell(t, w)
    <3>1. CASE HasData
      <4>1. t = Told(IF factor.kind = "dry" THEN "dry" ELSE "reading", newest, FALSE)
        BY <3>1 DEF Rainfall
      <4>2. clock - newest <= Window[source]
        BY <3>1 DEF HasData, Observed
      <4> QED BY <2>4, <3>1, <4>1, <4>2 DEF Told, ToldRecord, Kind, ToldWell, SourceTypes
    <3>2. CASE ~HasData /\ t = Nothing
      BY <3>2, NothingTold
    <3>3. CASE ~HasData /\ t # Nothing
      <4>1. PICK o \in 0 .. newest : t = Told("reading", o, Old(o))
        BY <3>3 DEF Rainfall
      <4>2. o \in 0 .. clock
        BY DEF SourceTypes
      <4>3. t.kind = "reading" /\ t.obs = o /\ t.at = clock /\ t.flag = Old(o) /\ t \in ToldRecord
        BY <4>1, <4>2 DEF Told, ToldRecord, Kind, SourceTypes, Old, FlagsAge
      <4>4. StaleAfter[source] \in Nat
        BY LifeAssumption DEF SourceTypes
      <4>5. ~Old(o) => clock - o <= StaleAfter[source]
        BY <4>2, <4>4 DEF Old, FlagsAge, SourceTypes
      <4> QED BY <3>3, <4>2, <4>3, <4>5 DEF ToldWell, SourceTypes
    <3> QED BY <3>1, <3>2, <3>3
  <2> QED BY <2>3, <2>4, <2>5
<1> QED BY <1>1, <1>2

\* Whatever is told, and then kept, is told and kept well.
LEMMA AnswersWell ==
  ASSUME SourceTypes, NEW c, Caches(c), NEW w \in Worker, NEW a \in Answers(c, w)
  PROVE  /\ ToldWell(a.told, w) /\ a.kept \in ToldRecord /\ KeptWell(a.kept)
         /\ Caches([c EXCEPT ![w] = a.kept])
<1>1. ToldWell(a.told, w) /\ a.kept \in ToldRecord /\ KeptWell(a.kept)
  BY PlainAnswers, GaugeAnswers, RainfallAnswers
<1>2. Caches([c EXCEPT ![w] = a.kept])
  BY <1>1 DEF Caches
<1> QED BY <1>1, <1>2
-----------------------------------------------------------------------------
(* The sources: what holds throughout. *)

\* Nothing is cached at first.
LEMMA SourcesStart == SourcesInit => SourcesInv
<1> SUFFICES ASSUME SourcesInit PROVE SourcesInv
  OBVIOUS
<1>1. Nothing \in ToldRecord
  BY DEF Nothing, ToldRecord, Kind, Never
<1>2. SourceTypes
  BY <1>1 DEF SourcesInit, SourceTypes
<1>3. CachesInv
  BY DEF SourcesInit, CachesInv, KeptWell
<1>4. PageInv
  BY DEF SourcesInit, PageInv
<1> QED BY <1>2, <1>3, <1>4 DEF SourcesInv

\* What was empty stays so in the record, as time, readings and outages go by.
Elapsed ==
  /\ source' = source /\ screen' = screen /\ Screens' = Screens
  /\ clock' \in Nat /\ clock <= clock'
  /\ \A t \in 0 .. clock : EmptySince(t) => EmptySince(t)'

\* What a worker may keep it may keep later,
LEMMA StillKept ==
  ASSUME SourceTypes, Elapsed, NEW k, KeptWell(k)
  PROVE  KeptWell(k)'
<1>1. k.at \in 0 .. clock => k.at \in 0 .. clock'
  BY DEF SourceTypes, Elapsed
<1>2. WellRead(k) => WellRead(k)'
  BY DEF WellRead, FlagsAge, Elapsed
<1>3. k.at \in 0 .. clock => (EmptySince(k.at) => EmptySince(k.at)')
  BY DEF Elapsed
<1> QED BY <1>1, <1>2, <1>3 DEF KeptWell, Elapsed

\* and so the dashboard.
LEMMA StillPaged ==
  ASSUME SourceTypes, Elapsed, PageInv, UNCHANGED pageCache
  PROVE  PageInv'
<1>1. CASE pageCache.at = Never
  BY <1>1 DEF PageInv
<1>2. CASE pageCache.at # Never
  <2> DEFINE p == pageCache.what
  <2>1. pageCache.at \in 0 .. clock /\ pageCache.at \in 0 .. clock'
    BY <1>2 DEF PageInv, SourceTypes, Elapsed
  <2>2. p.at \in 0 .. pageCache.at => p.at \in 0 .. clock
    BY <2>1 DEF SourceTypes
  <2>3. p.at \in 0 .. clock => (EmptySince(p.at) => EmptySince(p.at)')
    BY DEF Elapsed
  <2> QED BY <1>2, <2>1, <2>2, <2>3 DEF PageInv, Elapsed
<1> QED BY <1>1, <1>2

\* The readers change nothing but caches and what is shown.
LEMMA NothingElapsed ==
  ASSUME SourceTypes, UNCHANGED <<source, screen, clock, service, emptyAt>>
  PROVE  Elapsed
BY DEF SourceTypes, Elapsed, EmptySince, Screens

\* The caches of a state that keeps the invariant are such.
LEMMA CachesAre == SourceTypes /\ CachesInv => Caches(cache)
BY DEF SourceTypes, CachesInv, Caches

\* A reader may keep other things, as long as it may keep them.
LEMMA StillCached ==
  ASSUME SourceTypes, UNCHANGED <<source, screen, clock, service, newest, emptyAt, login>>,
         Caches(cache')
  PROVE  SourceTypes' /\ CachesInv'
<1>1. Elapsed
  BY NothingElapsed
<1>2. SourceTypes'
  BY <1>1 DEF SourceTypes, Caches, Elapsed
<1>3. CachesInv'
  BY <1>1, StillKept DEF CachesInv, Caches
<1> QED BY <1>2, <1>3

\* Time, readings and outages leave the caches alone.
LEMMA WorldStep ==
  ASSUME SourcesInv, TimePasses \/ Publish \/ ServiceTurns
  PROVE  SourcesInv'
<1> USE DEF SourcesInv
<1>1. Elapsed /\ SourceTypes'
  <2>1. CASE TimePasses
    <3>1. clock' = clock + 1 /\ clock' \in Nat /\ clock <= clock' /\ UNCHANGED <<service, emptyAt>>
      BY <2>1 DEF TimePasses, SourceTypes
    <3>2. Elapsed
      BY <2>1, <3>1 DEF TimePasses, SourceTypes, Elapsed, EmptySince, Screens
    <3> QED BY <2>1, <3>1, <3>2 DEF TimePasses, SourceTypes, Elapsed
  <2>2. CASE Publish
    <3>1. UNCHANGED <<source, screen, clock, service, emptyAt, login, cache>> /\ newest' = clock
      BY <2>2 DEF Publish
    <3>2. Elapsed
      BY <3>1, NothingElapsed
    <3> QED BY <3>1, <3>2 DEF SourceTypes, Elapsed
  <2>3. CASE ServiceTurns
    <3>1. PICK s \in {"up", "empty", "down"} \ {service} :
            service' = s /\ emptyAt' = IF "empty" \in {s, service} THEN clock ELSE emptyAt
      BY <2>3 DEF ServiceTurns
    <3>2. UNCHANGED <<source, screen, clock, newest, login, cache>>
      BY <2>3 DEF ServiceTurns
    <3>3. \A t \in 0 .. clock : EmptySince(t) => EmptySince(t)'
      BY <3>1 DEF EmptySince, SourceTypes, Never
    <3>4. Elapsed
      BY <3>2, <3>3 DEF Elapsed, SourceTypes, Screens
    <3>5. emptyAt' = Never \/ emptyAt' \in 0 .. clock
      BY <3>1 DEF SourceTypes
    <3> QED BY <3>1, <3>2, <3>4, <3>5 DEF SourceTypes, Elapsed
  <2> QED BY <2>1, <2>2, <2>3
<1>2. UNCHANGED cache /\ UNCHANGED pageCache
  BY DEF TimePasses, Publish, ServiceTurns
<1>3. CachesInv'
  BY <1>1, <1>2, StillKept DEF CachesInv
<1>4. PageInv'
  BY <1>1, <1>2, StillPaged
<1> QED BY <1>1, <1>3, <1>4

\* A worker that is replaced has an empty cache.
LEMMA RestartStep ==
  ASSUME SourcesInv, NEW v \in Worker, Restart(v)
  PROVE  SourcesInv'
<1> USE DEF SourcesInv
<1>1. UNCHANGED <<source, screen, clock, service, newest, emptyAt, pageCache>>
  BY DEF Restart
<1>2. Elapsed
  BY <1>1, NothingElapsed
<1>3. Nothing \in ToldRecord
  BY DEF Nothing, ToldRecord, Kind, Never
<1>4. SourceTypes'
  BY <1>1, <1>2, <1>3 DEF Restart, SourceTypes, Elapsed
<1>5. CachesInv'
  <2> SUFFICES ASSUME NEW w \in Worker PROVE KeptWell(cache[w])'
    BY DEF CachesInv
  <2>1. cache'[w] = Nothing \/ cache'[w] = cache[w]
    BY DEF Restart, SourceTypes
  <2>2. KeptWell(Nothing) /\ KeptWell(cache[w])
    BY DEF KeptWell, CachesInv
  <2>3. KeptWell(Nothing)' /\ \A k : KeptWell(k) => KeptWell(k)'
    BY <1>2, StillKept DEF KeptWell
  <2> QED BY <2>1, <2>2, <2>3 DEF KeptWell
<1>6. PageInv'
  BY <1>1, <1>2, StillPaged
<1> QED BY <1>4, <1>5, <1>6

\* An unflagged reading is no older than what a source trusts and a cache's
\* life only if the windows fit: the days of rain that are asked for are not
\* flagged, and what is flagged the quality report does not pass.
Fitting ==
  /\ Window["rainfall"] <= StaleAfter["rainfall"]
  /\ \A s \in {"soil", "altimetry"} : Graded[s] <= StaleAfter[s]

\* The caches of the screens keep something at all.
Lasting == Life["forecast"] > 0 /\ PageLife > 0

AnswerExplained ==
  /\ Fitting => FreshOrFlagged
  /\ OutagesPass
  /\ Lasting => LiveScreensExplained

\* Where nobody was told anything, there is nothing to explain.
LEMMA SilentExplained == answer' = Silent => AnswerExplained'
BY DEF Silent, AnswerExplained, FreshOrFlagged, OutagesPass, LiveScreensExplained

\* A caller is told what a worker had or fetched, which explains itself.
LEMMA ReadSourceStep ==
  ASSUME SourcesInv, NEW v \in Worker, ReadSource(v)
  PROVE  SourcesInv' /\ AnswerExplained'
<1> USE DEF SourcesInv
<1>1. PICK a \in Answers(cache, v) :
        /\ cache' = [cache EXCEPT ![v] = a.kept]
        /\ answer' = [to |-> "caller", from |-> {v}, as |-> "told", what |-> a.told]
  BY DEF ReadSource
<1>2. UNCHANGED <<source, screen, clock, service, newest, emptyAt, login, pageCache>>
  BY DEF ReadSource
<1>3. Caches(cache') /\ ToldWell(a.told, v)
  BY <1>1, CachesAre, AnswersWell
<1>4. SourcesInv'
  BY <1>2, <1>3, StillCached, NothingElapsed, StillPaged
<1> DEFINE t == a.told
<1>5. answer'.to = "caller" /\ answer'.from = {v} /\ answer'.as = "told" /\ answer'.what = t
  BY <1>1
<1>6. ASSUME Fitting PROVE FreshOrFlagged'
  <2> HIDE DEF t
  <2> SUFFICES ASSUME t.kind = "reading"
      PROVE  /\ \/ t.flag \/ source \in {"gauges", "proxy"}
                \/ clock - t.obs <= Trusted \/ clock - t.obs < Trusted + Life[source]
             /\ source = "rainfall" /\ t.flag => PresentFor(t, 50) = {}
             /\ source \in {"soil", "altimetry"} /\ t.flag => Grade(t) = "fail"
    <3>1. Aged' = clock - t.obs /\ Trusted' = Trusted
      BY <1>2, <1>5 DEF Aged, Trusted, FlagsAge
    <3>2. PresentFor(t, 50)' = PresentFor(t, 50) /\ Grade(t)' = Grade(t)
      BY <1>2 DEF PresentFor, CountsAsPresent, Grade, TooOld
    <3>3. \A others : PresentFor(t, 50) = {} => PresentFor(t, 50) \cup others = others
      OBVIOUS
    <3>4. \A others : Grade(t) = "fail" => SystemStatus(others \cup {Grade(t)}) # "healthy"
      BY DEF SystemStatus
    <3>5. t.kind = "reading" =>
          (\/ answer.what.flag \/ source \in {"gauges", "proxy"}
           \/ Aged <= Trusted \/ Aged < Trusted + Life[source])'
      BY <1>2, <1>5, <3>1
    <3>a. t.kind = "reading" /\ source' = "rainfall" /\ answer'.what.flag =>
            PresentFor(answer.what, 50)' = {}
      BY <1>2, <1>5, <3>2
    <3>b. PresentFor(answer.what, 50)' = {} =>
            (\A others : Unified(PresentFor(answer.what, 50) \cup others) = Unified(others))'
      <4>1. ASSUME PresentFor(answer.what, 50)' = {}, NEW others
            PROVE  PresentFor(answer.what, 50)' \cup others = others
        BY <4>1
      <4> QED BY <4>1 DEF Unified
    <3>6. t.kind = "reading" =>
          (source = "rainfall" /\ answer.what.flag =>
             \A others \in SUBSET [of : {"discharge", "gauges"}, risk : {0, 100}] :
               Unified(PresentFor(answer.what, 50) \cup others) = Unified(others))'
      BY <3>a, <3>b, Zenon
    <3>7. t.kind = "reading" =>
          (source \in {"soil", "altimetry"} /\ answer.what.flag =>
             \A others \in SUBSET {"pass", "suspect", "missing", "fail"} :
               SystemStatus(others \cup {Grade(answer.what)}) # "healthy")'
      BY <1>2, <1>5, <3>2, <3>4 DEF SystemStatus
    <3> QED BY <1>5, <3>5, <3>6, <3>7 DEF FreshOrFlagged
  <2>1. Window[source] \in Nat /\ StaleAfter[source] \in Nat /\ Graded[source] \in Nat /\ Life[source] \in Nat
    BY LifeAssumption DEF SourceTypes
  <2>2. /\ t.at \in 0 .. clock /\ (t.at = clock \/ clock - t.at < Life[source]) /\ t \in ToldRecord
        /\ \/ WellRead(t)
           \/ /\ source = "rainfall" /\ t.obs \in 0 .. clock /\ t.at = clock
              /\ ~t.flag => clock - t.obs <= StaleAfter[source] \/ clock - t.obs <= Window[source]
    BY <1>3 DEF ToldWell, t
  <2>3. clock \in Nat /\ t.at \in Nat /\ t.obs \in Nat
    BY <2>2 DEF SourceTypes, WellRead
  <2>4. CASE WellRead(t)
    <3>1. ~t.flag => t.at - t.obs <= Trusted
      BY <2>1, <2>3, <2>4 DEF WellRead, Trusted
    <3>2. Trusted \in Nat
      BY <2>1 DEF Trusted
    <3>3. ~t.flag => clock - t.obs <= Trusted \/ clock - t.obs < Trusted + Life[source]
      BY <2>1, <2>2, <2>3, <3>1, <3>2
    <3>4. source \in {"soil", "altimetry"} /\ t.flag => Grade(t) = "fail"
      <4> SUFFICES ASSUME source \in {"soil", "altimetry"}, t.flag PROVE Grade(t) = "fail"
        OBVIOUS
      <4>1. t.at - t.obs > StaleAfter[source] /\ Graded[source] <= StaleAfter[source]
        BY <1>6, <2>4 DEF WellRead, Fitting
      <4>2. clock - t.obs > Graded[source]
        BY <2>1, <2>2, <2>3, <4>1
      <4> QED BY <4>2 DEF Grade, TooOld
    <3>5. source = "rainfall" /\ t.flag => PresentFor(t, 50) = {}
      BY DEF PresentFor, CountsAsPresent
    <3> QED BY <3>3, <3>4, <3>5
  <2>5. CASE ~WellRead(t)
    <3>1. source = "rainfall" /\ (~t.flag => clock - t.obs <= Trusted)
      BY <1>6, <2>1, <2>2, <2>3, <2>5 DEF Fitting, Trusted, FlagsAge
    <3>2. t.flag => PresentFor(t, 50) = {}
      BY <3>1 DEF PresentFor, CountsAsPresent
    <3> QED BY <3>1, <3>2
  <2> QED BY <2>4, <2>5
<1>7. OutagesPass'
  <2>1. HasData /\ t.kind # "reading" =>
          \/ source = "satellite" /\ Overall({Reported(v)}) = "degraded"
          \/ source \in {"forecast", "discharge", "gauges", "rainfall"} /\ InLife(emptyAt)
    BY <1>3 DEF ToldWell, Overall, Reported
  <2>2. service = "up" /\ ~HasData =>
          \/ clock - Observed > Window[source]
          \/ source = "satellite" /\ ~HasBaseline
    <3>1. clock \in Int /\ Observed \in Int /\ Window[source] \in Int
      BY LifeAssumption DEF SourceTypes, Observed
    <3> QED BY <3>1 DEF HasData
  <2>3. UNCHANGED <<images, pass>>
    BY DEF ReadSource
  <2>4. /\ HasBaseline' = HasBaseline /\ InLife(emptyAt)' = InLife(emptyAt)
        /\ Reported(v)' = Reported(v) /\ Observed' = Observed
    BY <1>2, <2>3 DEF HasBaseline, Observed, InLife, Reported
  <2> HIDE DEF t
  <2> QED BY <1>2, <1>5, <2>1, <2>2, <2>4 DEF OutagesPass, Overall
<1>8. LiveScreensExplained'
  BY <1>5 DEF LiveScreensExplained
<1> QED BY <1>4, <1>6, <1>7, <1>8 DEF AnswerExplained, Fitting

\* A screen that shows what a worker told just now.
LEMMA ShownNow ==
  ASSUME SourceTypes, NEW w \in Worker, NEW t, ToldWell(t, w), source = "forecast", Lasting,
         UNCHANGED <<source, clock, service, emptyAt>>,
         answer'.what = t, t.kind # "none"
  PROVE  LiveScreensExplained'
<1>1. /\ Life[source] \in Nat /\ Life[source] > 0 /\ PageLife \in Nat
      /\ ScreenLife' \in Nat /\ Life[source] <= ScreenLife'
  BY LifeAssumption DEF Lasting, ScreenLife, SourceTypes
<1>2. /\ t.at \in 0 .. clock /\ (t.at = clock \/ clock - t.at < Life[source])
      /\ t.kind \in {"reading", "dry"} /\ (t.kind = "dry" => EmptySince(t.at))
  BY DEF ToldWell
<1>3. clock \in Nat /\ clock - t.at < ScreenLife'
  BY <1>1, <1>2 DEF SourceTypes
<1>4. t.kind = "dry" => service = "empty" \/ (emptyAt # Never /\ clock - emptyAt < ScreenLife')
  BY <1>1, <1>2, <1>3 DEF EmptySince, SourceTypes, Never
<1> QED BY <1>1, <1>2, <1>3, <1>4 DEF LiveScreensExplained

\* A question to the copilot reads the forecast as any caller does.
LEMMA AskCopilotStep ==
  ASSUME SourcesInv, AskCopilot
  PROVE  SourcesInv' /\ AnswerExplained'
<1> USE DEF SourcesInv
<1>1. PICK w \in Worker, given, fails \in BOOLEAN : \E a \in Answers(cache, w) :
        /\ cache' = IF given THEN cache ELSE [cache EXCEPT ![w] = a.kept]
        /\ answer' = [to |-> "copilot", from |-> {}, what |-> IF given THEN Nothing ELSE a.told,
                      as |-> IF fails THEN "refused" ELSE IF given THEN "scenario"
                             ELSE ToolAnswer(a.told)]
  BY DEF AskCopilot
<1>2. PICK a \in Answers(cache, w) :
        /\ cache' = IF given THEN cache ELSE [cache EXCEPT ![w] = a.kept]
        /\ answer'.to = "copilot"
        /\ answer'.as = "live" => answer'.what = a.told /\ a.told.kind # "none"
  BY <1>1 DEF ToolAnswer, NoRain
<1>3. UNCHANGED <<source, screen, clock, service, newest, emptyAt, login, pageCache>>
  BY DEF AskCopilot
<1>4. Caches(cache') /\ ToldWell(a.told, w)
  BY <1>2, CachesAre, AnswersWell
<1>5. SourcesInv'
  BY <1>3, <1>4, StillCached, NothingElapsed, StillPaged
<1>6. source = "forecast"
  BY DEF AskCopilot, SourceTypes, Screens
<1>7. ASSUME Lasting PROVE LiveScreensExplained'
  <2>1. CASE answer'.as # "live"
    BY <2>1 DEF LiveScreensExplained
  <2>2. CASE answer'.as = "live"
    BY <1>2, <1>3, <1>4, <1>6, <1>7, <2>2, ShownNow
  <2> QED BY <2>1, <2>2
<1> QED BY <1>2, <1>5, <1>7 DEF AnswerExplained, FreshOrFlagged, OutagesPass, Lasting

\* The kiosk's refresh asks two workers, one after the other.
LEMMA KioskStep ==
  ASSUME SourcesInv, KioskRefresh
  PROVE  SourcesInv' /\ AnswerExplained'
<1> USE DEF SourcesInv
<1>1. PICK v, w \in Worker, failed, again \in BOOLEAN : \E a \in Answers(cache, v) :
        LET wet == FirstCall(a.told, failed)
            connected == SecondCall(wet, again)
            first == IF failed THEN cache ELSE [cache EXCEPT ![v] = a.kept]
        IN  \E b \in Answers(first, w) :
              /\ cache' = IF connected THEN [first EXCEPT ![w] = b.kept] ELSE first
              /\ good' = IF connected THEN wet ELSE good
              /\ answer' = [to |-> "kiosk", from |-> {}, as |-> KioskShows(connected),
                            what |-> IF connected THEN wet ELSE good]
  BY Zenon DEF KioskRefresh
<1>2. PICK a \in Answers(cache, v) :
        LET wet == FirstCall(a.told, failed)
            connected == SecondCall(wet, again)
            first == IF failed THEN cache ELSE [cache EXCEPT ![v] = a.kept]
        IN  \E b \in Answers(first, w) :
              /\ cache' = IF connected THEN [first EXCEPT ![w] = b.kept] ELSE first
              /\ good' = IF connected THEN wet ELSE good
              /\ answer' = [to |-> "kiosk", from |-> {}, as |-> KioskShows(connected),
                            what |-> IF connected THEN wet ELSE good]
  BY <1>1, Zenon
<1> DEFINE wet == FirstCall(a.told, failed)
           connected == SecondCall(wet, again)
           first == IF failed THEN cache ELSE [cache EXCEPT ![v] = a.kept]
<1>b. PICK b \in Answers(first, w) :
        /\ cache' = IF connected THEN [first EXCEPT ![w] = b.kept] ELSE first
        /\ good' = IF connected THEN wet ELSE good
        /\ answer' = [to |-> "kiosk", from |-> {}, as |-> KioskShows(connected),
                      what |-> IF connected THEN wet ELSE good]
  BY <1>2, Zenon
<1>3. /\ cache' \in {first, [first EXCEPT ![w] = b.kept]}
      /\ answer'.to = "kiosk" /\ answer'.as = KioskShows(connected)
      /\ answer'.what = IF connected THEN wet ELSE good
  <2> HIDE DEF first, wet, connected
  <2> QED BY <1>b
<1>4. UNCHANGED <<source, screen, clock, service, newest, emptyAt, login, pageCache>>
  BY DEF KioskRefresh
<1>5. Caches(first) /\ ToldWell(a.told, v)
  BY CachesAre, AnswersWell
<1>6. SourcesInv'
  <2>1. Caches(cache')
    <3> HIDE DEF first
    <3> QED BY <1>3, <1>5, AnswersWell
  <2> QED BY <1>4, <2>1, StillCached, NothingElapsed, StillPaged
<1>7. source = "forecast"
  BY DEF KioskRefresh, SourceTypes, Screens
<1>8. ASSUME Lasting PROVE LiveScreensExplained'
  <2>1. CASE ~connected
    <3>1. answer'.as # "live"
      BY <1>3, <2>1 DEF KioskShows
    <3> QED BY <3>1 DEF LiveScreensExplained
  <2>2. CASE connected /\ failed
    <3>1. answer'.what = Told("dry", clock, FALSE) /\ answer'.to = "kiosk"
      BY <1>3, <2>2 DEF FirstCall
    <3> QED BY <1>4, <3>1 DEF LiveScreensExplained, Told
  <2>3. CASE connected /\ ~failed
    <3>1. answer'.what = a.told /\ a.told.kind # "none"
      BY <1>3, <2>3 DEF FirstCall, SecondCall
    <3> QED BY <1>4, <1>5, <1>7, <1>8, <3>1, ShownNow
  <2> QED BY <2>1, <2>2, <2>3
<1> QED BY <1>3, <1>6, <1>8 DEF AnswerExplained, FreshOrFlagged, OutagesPass, Lasting

\* The first page or the map shows what the dashboard's cache holds, or asks a
\* worker, and keeps what it was wet.
LEMMA OpenHomeStep ==
  ASSUME SourcesInv, OpenHome
  PROVE  SourcesInv' /\ AnswerExplained'
<1> USE DEF SourcesInv
<1>1. PICK w \in Worker, failed, moved \in BOOLEAN : \E a \in Answers(cache, w) :
       LET asked == ~PageHolds /\ ~failed
           shown == IF PageHolds THEN pageCache.what
                    ELSE IF failed THEN Nothing ELSE Counted(a.told)
       IN  /\ screen = "map" => ~moved
           /\ cache' = IF asked THEN [cache EXCEPT ![w] = a.kept] ELSE cache
           /\ pageCache' = IF PageHolds THEN pageCache ELSE [at |-> clock, what |-> shown]
           /\ answer' = [to |-> screen, from |-> {}, what |-> shown,
                         as |-> IF moved \/ shown.kind = "none" THEN "scenario" ELSE "live"]
  BY Zenon DEF OpenHome
<1> DEFINE Shown(a) == IF PageHolds THEN pageCache.what
                       ELSE IF failed THEN Nothing ELSE Counted(a.told)
<1>a. PICK a \in Answers(cache, w) :
        /\ screen = "map" => ~moved
        /\ cache' = IF ~PageHolds /\ ~failed THEN [cache EXCEPT ![w] = a.kept] ELSE cache
        /\ pageCache' = IF PageHolds THEN pageCache ELSE [at |-> clock, what |-> Shown(a)]
        /\ answer' = [to |-> screen, from |-> {}, what |-> Shown(a),
                      as |-> IF moved \/ Shown(a).kind = "none" THEN "scenario" ELSE "live"]
  BY <1>1, Zenon
<1>x. PICK shown : shown = Shown(a)
  OBVIOUS
<1>2. /\ cache' \in {cache, [cache EXCEPT ![w] = a.kept]}
      /\ pageCache' = IF PageHolds THEN pageCache ELSE [at |-> clock, what |-> shown]
      /\ answer'.to = screen /\ answer'.what = shown
      /\ answer'.as = "live" => shown.kind # "none"
  <2> HIDE DEF Shown
  <2> QED BY <1>a, <1>x
<1>3. /\ UNCHANGED <<source, screen, clock, service, newest, emptyAt, login>>
      /\ screen \in {"home", "map"}
      /\ screen = "home" => source = "forecast"
      /\ screen = "map" => source = "discharge"
  BY DEF OpenHome, SourceTypes, Screens
<1>4. Caches(cache') /\ ToldWell(a.told, w)
  <2>1. Caches(cache) /\ Caches([cache EXCEPT ![w] = a.kept]) /\ ToldWell(a.told, w)
    BY CachesAre, AnswersWell
  <2>2. cache' = cache \/ cache' = [cache EXCEPT ![w] = a.kept]
    BY <1>2
  <2> QED BY <2>1, <2>2, Zenon
<1>5. SourceTypes' /\ CachesInv' /\ Elapsed
  BY <1>3, <1>4, StillCached, NothingElapsed
<1>6. clock \in Nat /\ Life[source] \in Nat /\ PageLife \in Nat
  BY LifeAssumption DEF SourceTypes
<1>7. CASE ~PageHolds
  <2>1. shown = Nothing \/ shown = Counted(a.told)
    BY <1>7, <1>x
  <2>2. \/ shown.kind = "none"
        \/ /\ shown.kind \in {"reading", "dry"} /\ shown.at \in 0 .. clock
           /\ shown.at = clock \/ clock - shown.at < Life[source]
           /\ shown.kind = "dry" =>
                \/ source = "forecast" /\ EmptySince(shown.at)
                \/ screen = "map" /\ shown.at = clock
    <3>1. CASE shown = Nothing
      BY <3>1 DEF Nothing
    <3>2. CASE shown = a.told
      BY <1>3, <1>4, <3>2 DEF ToldWell
    <3>3. CASE shown = Told("dry", clock, FALSE) /\ screen = "map"
      BY <1>6, <3>3 DEF Told
    <3> QED BY <2>1, <3>1, <3>2, <3>3 DEF Counted
  <2>3. pageCache' = [at |-> clock, what |-> shown] /\ answer'.to = screen /\ answer'.what = shown
        /\ (answer'.as = "live" => shown.kind # "none")
    BY <1>2, <1>7
  <2>4. PageInv'
    <3>1. pageCache'.at = clock /\ pageCache'.what = shown
      BY <2>3
    <3>2. shown.at \in 0 .. clock => (EmptySince(shown.at) => EmptySince(shown.at)')
      BY <1>5 DEF Elapsed
    <3> QED BY <1>3, <1>6, <2>2, <3>1, <3>2 DEF PageInv
  <2>5. ASSUME Lasting PROVE LiveScreensExplained'
    <3> SUFFICES ASSUME answer'.as = "live" PROVE LiveScreensExplained'
      BY DEF LiveScreensExplained
    <3>1. shown.kind # "none"
      BY <2>3
    <3>2. ScreenLife' = Life[source] + PageLife /\ PageLife > 0
      BY <1>3, <2>3, <2>5 DEF ScreenLife, Lasting
    <3>3. clock - shown.at < ScreenLife' /\ (shown.at = clock => clock - shown.at < PageLife)
      BY <1>6, <2>2, <3>1, <3>2
    <3>4. EmptySince(shown.at) /\ shown.at \in 0 .. clock =>
            service = "empty" \/ (emptyAt # Never /\ clock - emptyAt < ScreenLife')
      BY <1>6, <3>2, <3>3 DEF EmptySince, SourceTypes, Never
    <3> QED BY <1>3, <2>2, <2>3, <3>1, <3>3, <3>4 DEF LiveScreensExplained
  <2> QED BY <1>3, <1>5, <2>3, <2>4, <2>5 DEF AnswerExplained, FreshOrFlagged, OutagesPass, Lasting
<1>8. CASE PageHolds
  <2>1. UNCHANGED pageCache /\ answer'.to = screen /\ answer'.what = pageCache.what
        /\ (answer'.as = "live" => pageCache.what.kind # "none")
    BY <1>2, <1>8, <1>x
  <2>2. PageInv'
    BY <1>5, <2>1, StillPaged
  <2>3. ASSUME Lasting PROVE LiveScreensExplained'
    <3> SUFFICES ASSUME answer'.as = "live" PROVE LiveScreensExplained'
      BY DEF LiveScreensExplained
    <3> DEFINE p == pageCache.what
    <3>1. p.kind # "none" /\ pageCache.at # Never /\ clock - pageCache.at < PageLife
      BY <1>8, <2>1 DEF PageHolds
    <3>2. /\ pageCache.at \in 0 .. clock
          /\ p.kind \in {"reading", "dry"} /\ p.at \in 0 .. pageCache.at
          /\ p.at = pageCache.at \/ pageCache.at - p.at < Life[source]
          /\ p.kind = "dry" =>
               \/ source = "forecast" /\ EmptySince(p.at)
               \/ screen = "map" /\ p.at = pageCache.at
      BY <3>1 DEF PageInv
    <3>3. ScreenLife' = Life[source] + PageLife
      BY <1>3, <2>1 DEF ScreenLife
    <3>4. clock - p.at < ScreenLife' /\ (p.at = pageCache.at => clock - p.at < PageLife)
      BY <1>6, <3>1, <3>2, <3>3
    <3>5. EmptySince(p.at) => service = "empty" \/ (emptyAt # Never /\ clock - emptyAt < ScreenLife')
      BY <1>6, <3>2, <3>3, <3>4 DEF EmptySince, SourceTypes, Never
    <3> QED BY <1>3, <2>1, <3>2, <3>4, <3>5 DEF LiveScreensExplained
  <2> QED BY <1>3, <1>5, <2>1, <2>2, <2>3 DEF AnswerExplained, FreshOrFlagged, OutagesPass, Lasting
<1> QED BY <1>7, <1>8

\* Every step keeps the caches as they may be, and explains its answer.
LEMMA SourcesStep ==
  ASSUME SourcesInv, AnswerExplained, [SourcesNext]_sourceVars
  PROVE  SourcesInv' /\ AnswerExplained'
<1>1. CASE TimePasses \/ Publish \/ ServiceTurns
  <2>1. answer' = Silent
    BY <1>1 DEF TimePasses, Publish, ServiceTurns
  <2> QED BY <1>1, <2>1, WorldStep, SilentExplained
<1>2. ASSUME NEW w \in Worker, Restart(w) PROVE SourcesInv' /\ AnswerExplained'
  <2>1. answer' = Silent
    BY <1>2 DEF Restart
  <2> QED BY <1>2, <2>1, RestartStep, SilentExplained
<1>3. CASE UNCHANGED sourceVars
  <2>1. SourcesInv'
    BY <1>3 DEF sourceVars, SourcesInv, SourceTypes, CachesInv, PageInv, KeptWell, WellRead,
                FlagsAge, EmptySince, Screens
  <2> USE <1>3 DEF sourceVars
  <2>2. /\ Observed' = Observed /\ HasBaseline' = HasBaseline
        /\ InLife(emptyAt)' = InLife(emptyAt) /\ Trusted' = Trusted
        /\ Aged' = Aged /\ ScreenLife' = ScreenLife
        /\ \A w : Reported(w)' = Reported(w)
    BY DEF HasBaseline, Observed, InLife, Reported, Trusted, FlagsAge, Aged, ScreenLife
  <2>3. \A r : PresentFor(answer.what, r)' = PresentFor(answer.what, r)
    BY DEF PresentFor, CountsAsPresent
  <2>4. Grade(answer.what)' = Grade(answer.what)
    BY DEF Grade, TooOld
  <2>5. FreshOrFlagged' = FreshOrFlagged
    <3>1. PresentFor(answer.what, 50)' = PresentFor(answer.what, 50)
      BY <2>3
    <3>2. source' = source /\ answer' = answer
      OBVIOUS
    <3> QED BY <2>2, <2>4, <3>1, <3>2, Zenon DEF FreshOrFlagged
  <2>6. OutagesPass => OutagesPass'
    BY <2>2 DEF OutagesPass, Overall
  <2>7. LiveScreensExplained => LiveScreensExplained'
    BY <2>2 DEF LiveScreensExplained
  <2>8. AnswerExplained'
    BY <2>5, <2>6, <2>7 DEF AnswerExplained, Fitting, Lasting
  <2> QED BY <2>1, <2>8
<1> QED BY <1>1, <1>2, <1>3, ReadSourceStep, AskCopilotStep, KioskStep, OpenHomeStep DEF SourcesNext

\* The induction.
LEMMA SourcesHold == SourcesSpec => [](SourcesInv /\ AnswerExplained)
<1>1. SourcesInit => SourcesInv /\ AnswerExplained
  <2>1. SourcesInit => AnswerExplained
    BY DEF SourcesInit, Silent, AnswerExplained, FreshOrFlagged, OutagesPass, LiveScreensExplained
  <2> QED BY <2>1, SourcesStart
<1>2. SourcesInv /\ AnswerExplained /\ [SourcesNext]_sourceVars => (SourcesInv /\ AnswerExplained)'
  BY SourcesStep
<1> QED BY <1>1, <1>2, PTL DEF SourcesSpec

\* Once the service is back, whoever asks is told a reading, unless nothing was
\* observed lately, the service was empty within a cache's life, the satellite has
\* no baseline or the worker no login to Earth Engine, and says so: no failure is cached (openmeteo_forecast.py, glofas_api.py, flood_hub_api.py,
\* antecedent_rainfall.py).
THEOREM OutagesDoPass == SourcesSpec => []OutagesPass
<1>1. AnswerExplained => OutagesPass
  BY DEF AnswerExplained
<1> QED BY <1>1, SourcesHold, PTL

\* A reading without a flag is as young as its source trusts, but for a cache's
\* life; one with a flag stays out of the fusion or spoils the quality report.
THEOREM FreshReadings == ASSUME Fitting PROVE SourcesSpec => []FreshOrFlagged
<1>1. AnswerExplained => FreshOrFlagged
  BY DEF AnswerExplained
<1> QED BY <1>1, SourcesHold, PTL

\* What a screen calls live was told within the lives of the caches before it, or
\* is the zero that stands for no figures, a failed call or an unknown district.
THEOREM ScreensExplained == ASSUME Lasting PROVE SourcesSpec => []LiveScreensExplained
<1>1. AnswerExplained => LiveScreensExplained
  BY DEF AnswerExplained
<1> QED BY <1>1, SourcesHold, PTL
-----------------------------------------------------------------------------
(* Sums and products over finite sets.  A fold of the library is a function  *)
(* over the subsets that is chosen by its equation; that there is one, and   *)
(* what it does, is shown by a least subset for which it were not so.        *)

\* Every set of numbers has a least.
LEMMA LeastNatural ==
  ASSUME NEW T, T \subseteq Nat, T # {}
  PROVE  \E x \in T : \A y \in T : x <= y
<1> DEFINE less == OpToRel(<, Nat)
<1>1. IsWellFoundedOn(less, Nat)
  BY NatLessThanWellFounded
<1>2. \A x, y \in Nat : <<x, y>> \in less <=> x < y
  BY DEF OpToRel
<1> HIDE DEF less
<1>3. PICK x \in T : \A y \in T : ~(<<y, x>> \in less)
  BY <1>1, WFMin
<1>4. ASSUME NEW y \in T PROVE x <= y
  <2>1. x \in Nat /\ y \in Nat
    OBVIOUS
  <2>2. ~(y < x)
    BY <1>2, <1>3, <2>1
  <2> QED BY <2>1, <2>2
<1> QED BY <1>4

\* Induction over the subsets of a finite set, as every set of them has a least.
LEMMA LeastSubset ==
  ASSUME NEW S, IsFiniteSet(S), NEW Bad, Bad \subseteq SUBSET S, Bad # {}
  PROVE  \E s \in Bad : \A t \in SUBSET s : t # s => t \notin Bad
<1> DEFINE Sizes == {Cardinality(s) : s \in Bad}
<1>1. \A s \in SUBSET S : IsFiniteSet(s) /\ Cardinality(s) \in Nat
  BY FS_Subset, FS_CardinalityType
<1>2. Sizes \subseteq Nat /\ Sizes # {}
  BY <1>1
<1>3. PICK k \in Sizes : \A n \in Sizes : k <= n
  <2> HIDE DEF Sizes
  <2> QED BY <1>2, LeastNatural
<1>4. PICK s \in Bad : Cardinality(s) = k
  BY <1>3
<1>5. ASSUME NEW t \in SUBSET s, t # s, t \in Bad PROVE FALSE
  <2>1. IsFiniteSet(s) /\ Cardinality(t) < Cardinality(s)
    BY <1>1, <1>5, FS_Subset
  <2>2. k <= Cardinality(t) /\ Cardinality(t) \in Nat /\ k \in Nat
    BY <1>1, <1>2, <1>3, <1>5
  <2> QED BY <1>4, <2>1, <2>2
<1> QED BY <1>5

\* The element of a set that the folds of the library take first.
Chosen(s) == CHOOSE x \in s : TRUE

\* It is one of them.
LEMMA ChosenIn == ASSUME NEW s, s # {} PROVE Chosen(s) \in s
BY DEF Chosen

\* What it is to be the fold of g over the subsets of S, from base.
Folds(it, S, g, base) ==
  \A s \in SUBSET S : it[s] = IF s = {} THEN base ELSE g[<<Chosen(s), it[s \ {Chosen(s)}]>>]

\* A fold over a finite set is well defined: by the least size for which it were not.
LEMMA FoldExists ==
  ASSUME NEW S, IsFiniteSet(S), NEW g \in [S \X Nat -> Nat], NEW base \in Nat
  PROVE  \E it \in [SUBSET S -> Nat] : Folds(it, S, g, base)
<1> DEFINE Step(it, s) == IF s = {} THEN base ELSE g[<<Chosen(s), it[s \ {Chosen(s)}]>>]
           Good(it, k) == \A s \in SUBSET S : Cardinality(s) <= k => it[s] = Step(it, s)
           Bad == {k \in Nat : \A it \in [SUBSET S -> Nat] : ~Good(it, k)}
<1>s. \A s \in SUBSET S : IsFiniteSet(s) /\ Cardinality(s) \in Nat
  BY FS_Subset, FS_CardinalityType
<1>t. ASSUME NEW it \in [SUBSET S -> Nat], NEW s \in SUBSET S PROVE Step(it, s) \in Nat
  <2>1. CASE s = {}
    BY <2>1
  <2>2. CASE s # {}
    <3>1. Chosen(s) \in S /\ s \ {Chosen(s)} \in SUBSET S
      BY <2>2, ChosenIn
    <3>2. it[s \ {Chosen(s)}] \in Nat
      BY <3>1
    <3> QED BY <2>2, <3>1, <3>2
  <2> QED BY <2>1, <2>2
<1>1. Bad = {}
  <2> SUFFICES ASSUME Bad # {} PROVE FALSE
    OBVIOUS
  <2>1. PICK k \in Bad : \A n \in Bad : k <= n
    <3>1. Bad \subseteq Nat
      OBVIOUS
    <3> HIDE DEF Bad
    <3> QED BY <3>1, LeastNatural
  <2>2. CASE k = 0
    <3> DEFINE it == [s \in SUBSET S |-> base]
    <3>1. it \in [SUBSET S -> Nat]
      OBVIOUS
    <3>2. ASSUME NEW s \in SUBSET S, Cardinality(s) <= k PROVE it[s] = Step(it, s)
      <4>1. s = {}
        BY <1>s, <2>2, <3>2, FS_EmptySet
      <4> QED BY <4>1
    <3>3. Good(it, k)
      BY <3>2
    <3> QED BY <3>1, <3>3
  <2>3. CASE k # 0
    <3>1. k \in Nat /\ k - 1 \in Nat /\ k - 1 \notin Bad
      <4>1. k \in Nat
        BY <2>1
      <4>2. k - 1 \in Nat /\ ~(k <= k - 1)
        BY <2>3, <4>1
      <4> HIDE DEF Bad
      <4> QED BY <2>1, <4>1, <4>2
    <3>2. PICK old \in [SUBSET S -> Nat] : Good(old, k - 1)
      BY <3>1
    <3> DEFINE it == [s \in SUBSET S |-> Step(old, s)]
    <3>3. it \in [SUBSET S -> Nat]
      BY <1>t
    <3>4. ASSUME NEW s \in SUBSET S, Cardinality(s) <= k, s # {} PROVE it[s] = Step(it, s)
      <4> DEFINE rest == s \ {Chosen(s)}
      <4>1. Chosen(s) \in s /\ rest \in SUBSET S
        BY <3>4, ChosenIn
      <4>2. Cardinality(rest) <= k - 1
        BY <1>s, <3>1, <3>4, <4>1, FS_RemoveElement
      <4>3. it[rest] = Step(old, rest)
        BY <4>1
      <4>4. old[rest] = Step(old, rest)
        BY <3>2, <4>1, <4>2
      <4> QED BY <3>4, <4>3, <4>4
    <3>5. Good(it, k)
      <4>1. \A s \in SUBSET S : s = {} => it[s] = Step(it, s)
        OBVIOUS
      <4> QED BY <3>4, <4>1
    <3> HIDE DEF it, Good
    <3> QED BY <3>3, <3>5
  <2> QED BY <2>2, <2>3
<1>2. Cardinality(S) \notin Bad
  BY <1>1
<1>3. PICK it \in [SUBSET S -> Nat] : Good(it, Cardinality(S))
  BY <1>2, <1>s
<1>4. \A s \in SUBSET S : Cardinality(s) <= Cardinality(S)
  BY FS_Subset
<1>5. \A s \in SUBSET S : it[s] = Step(it, s)
  BY <1>3, <1>4
<1> QED BY <1>5 DEF Folds

\* The sum of f over a set, as MapThenSumSet unfolds it.
Sums(it, f, S) ==
  it = [s \in SUBSET S |-> IF s = {} THEN 0 ELSE f[Chosen(s)] + it[s \ {Chosen(s)}]]

\* There is such a sum, and it is a number.
LEMMA SumExists ==
  ASSUME NEW S, IsFiniteSet(S), NEW f \in [S -> Nat]
  PROVE  \E it \in [SUBSET S -> Nat] : Sums(it, f, S)
<1> DEFINE g == [p \in S \X Nat |-> f[p[1]] + p[2]]
<1>1. g \in [S \X Nat -> Nat]
  OBVIOUS
<1>2. PICK it \in [SUBSET S -> Nat] : Folds(it, S, g, 0)
  <2> HIDE DEF g
  <2>1. 0 \in Nat
    OBVIOUS
  <2> QED BY <1>1, <2>1, FoldExists, Zenon
<1>3. ASSUME NEW s \in SUBSET S, s # {}
      PROVE  g[<<Chosen(s), it[s \ {Chosen(s)}]>>] = f[Chosen(s)] + it[s \ {Chosen(s)}]
  <2>1. Chosen(s) \in S /\ s \ {Chosen(s)} \in SUBSET S
    BY <1>3, ChosenIn
  <2> QED BY <2>1
<1> HIDE DEF g
<1>4. \A s \in SUBSET S : it[s] = IF s = {} THEN 0 ELSE f[Chosen(s)] + it[s \ {Chosen(s)}]
  BY <1>2, <1>3 DEF Folds
<1> QED BY <1>4 DEF Sums

\* One step of a sum.
LEMMA SumStep ==
  ASSUME NEW S, NEW f, NEW it, Sums(it, f, S), NEW s \in SUBSET S, s # {}
  PROVE  /\ Chosen(s) \in s /\ s \ {Chosen(s)} \in SUBSET S /\ s \ {Chosen(s)} # s
         /\ it[s] = f[Chosen(s)] + it[s \ {Chosen(s)}]
BY ChosenIn DEF Sums

\* What is said to be one is a number, for any of the subsets.
LEMMA SumNat ==
  ASSUME NEW S, IsFiniteSet(S), NEW f \in [S -> Nat], NEW it, Sums(it, f, S)
  PROVE  \A s \in SUBSET S : it[s] \in Nat
<1> DEFINE Bad == {s \in SUBSET S : it[s] \notin Nat}
<1> SUFFICES ASSUME Bad # {} PROVE FALSE
  OBVIOUS
<1>1. PICK s \in Bad : \A t \in SUBSET s : t # s => t \notin Bad
  <2>1. Bad \subseteq SUBSET S
    OBVIOUS
  <2> HIDE DEF Bad
  <2> QED BY <2>1, LeastSubset
<1>2. s # {}
  BY DEF Sums
<1>3. it[s \ {Chosen(s)}] \in Nat /\ f[Chosen(s)] \in Nat
  BY <1>1, <1>2, SumStep
<1>4. it[s] \in Nat
  <2>1. s \in SUBSET S
    BY <1>1
  <2> HIDE DEF Bad
  <2>2. it[s] = f[Chosen(s)] + it[s \ {Chosen(s)}]
    BY <1>2, <2>1, SumStep
  <2> QED BY <1>3, <2>2
<1> QED BY <1>1, <1>4

\* A sum may take any element first.
LEMMA SumRemove ==
  ASSUME NEW S, IsFiniteSet(S), NEW f \in [S -> Nat], NEW it, Sums(it, f, S)
  PROVE  \A s \in SUBSET S : \A x \in s : it[s] = f[x] + it[s \ {x}]
<1> DEFINE Bad == {s \in SUBSET S : \E x \in s : it[s] # f[x] + it[s \ {x}]}
<1> SUFFICES ASSUME Bad # {} PROVE FALSE
  OBVIOUS
<1>1. PICK s \in Bad : \A t \in SUBSET s : t # s => t \notin Bad
  <2>1. Bad \subseteq SUBSET S
    OBVIOUS
  <2> HIDE DEF Bad
  <2> QED BY <2>1, LeastSubset
<1>2. PICK x \in s : it[s] # f[x] + it[s \ {x}]
  BY <1>1
<1> DEFINE c == Chosen(s)
           rest == (s \ {c}) \ {x}
<1>3. c \in s /\ it[s] = f[c] + it[s \ {c}]
  BY <1>2, SumStep
<1>4. c # x
  BY <1>2, <1>3
<1>5. it[s \ {c}] = f[x] + it[rest]
  <2>1. s \ {c} \in SUBSET s /\ s \ {c} # s /\ x \in s \ {c} /\ s \ {c} \in SUBSET S
    BY <1>3, <1>4
  <2> QED BY <1>1, <2>1
<1>6. it[s \ {x}] = f[c] + it[rest]
  <2>1. s \ {x} \in SUBSET s /\ s \ {x} # s /\ c \in s \ {x} /\ s \ {x} \in SUBSET S
    BY <1>3, <1>4
  <2>2. (s \ {x}) \ {c} = rest
    OBVIOUS
  <2>3. s \ {x} \notin Bad
    BY <1>1, <2>1
  <2>4. it[s \ {x}] = f[c] + it[(s \ {x}) \ {c}]
    BY <2>1, <2>3
  <2> HIDE DEF rest
  <2> QED BY <2>2, <2>4
<1>7. f[x] \in Nat /\ f[c] \in Nat /\ it[rest] \in Nat
  <2>1. x \in S /\ c \in S /\ rest \in SUBSET S
    BY <1>3
  <2> QED BY <2>1, SumNat
<1> HIDE DEF c, rest
<1> QED BY <1>2, <1>3, <1>5, <1>6, <1>7

\* Less of everything makes a sum no greater.
LEMMA SumCompare ==
  ASSUME NEW S, IsFiniteSet(S), NEW f \in [S -> Nat], NEW it, Sums(it, f, S),
         NEW T \in SUBSET S, NEW g \in [T -> Nat], NEW jt, Sums(jt, g, T),
         \A x \in T : g[x] <= f[x]
  PROVE  \A s \in SUBSET T : jt[s] <= it[s]
<1> DEFINE Bad == {s \in SUBSET T : ~(jt[s] <= it[s])}
<1> SUFFICES ASSUME Bad # {} PROVE FALSE
  OBVIOUS
<1>f. IsFiniteSet(T)
  BY FS_Subset
<1>1. PICK s \in Bad : \A t \in SUBSET s : t # s => t \notin Bad
  <2>1. Bad \subseteq SUBSET T
    OBVIOUS
  <2> HIDE DEF Bad
  <2> QED BY <1>f, <2>1, LeastSubset
<1>2. s # {}
  BY DEF Sums
<1> DEFINE c == Chosen(s)
           rest == s \ {c}
<1>3. c \in s /\ rest \in SUBSET T /\ rest \in SUBSET S /\ rest # s /\ s \in SUBSET S
  BY <1>2, ChosenIn
<1>4. it[s] = f[c] + it[rest] /\ jt[s] = g[c] + jt[rest]
  BY <1>2, <1>3, SumStep
<1>5. jt[rest] <= it[rest]
  BY <1>1, <1>3
<1>6. f[c] \in Nat /\ g[c] \in Nat /\ it[rest] \in Nat /\ jt[rest] \in Nat /\ g[c] <= f[c]
  BY <1>f, <1>3, SumNat
<1>7. ~(jt[s] <= it[s])
  BY <1>1
<1> HIDE DEF c, rest, Bad
<1> QED BY <1>4, <1>5, <1>6, <1>7

\* The sums of one and of two.
LEMMA SumOne ==
  ASSUME NEW a, NEW f \in [{a} -> Nat], NEW it, Sums(it, f, {a})
  PROVE  it[{a}] = f[a]
<1>1. Chosen({a}) = a
  BY ChosenIn
<1>2. it[{}] = 0
  BY DEF Sums
<1>3. it[{a}] = f[a] + it[{a} \ {a}]
  BY <1>1 DEF Sums
<1> QED BY <1>2, <1>3

LEMMA SumTwo ==
  ASSUME NEW a, NEW b, a # b, NEW f \in [{a, b} -> Nat], NEW it, Sums(it, f, {a, b})
  PROVE  it[{a, b}] = f[a] + f[b]
<1>1. \A s \in SUBSET {a, b} : s # {} => it[s] = f[Chosen(s)] + it[s \ {Chosen(s)}]
  BY DEF Sums
<1>2. it[{}] = 0
  BY DEF Sums
<1>3. ASSUME NEW x \in {a, b} PROVE it[{x}] = f[x]
  <2>1. Chosen({x}) = x
    BY ChosenIn
  <2>2. it[{x}] = f[x] + it[{x} \ {x}]
    BY <1>1, <2>1
  <2> QED BY <1>2, <2>2
<1>4. Chosen({a, b}) \in {a, b} /\ f[a] \in Nat /\ f[b] \in Nat
  BY ChosenIn
<1>5. it[{a, b}] = f[Chosen({a, b})] + it[{a, b} \ {Chosen({a, b})}]
  BY <1>1
<1>6. CASE Chosen({a, b}) = a
  <2>1. {a, b} \ {a} = {b}
    OBVIOUS
  <2> QED BY <1>3, <1>5, <1>6, <2>1
<1>7. CASE Chosen({a, b}) = b
  <2>1. {a, b} \ {b} = {a}
    OBVIOUS
  <2>2. it[{a}] = f[a]
    BY <1>3
  <2>3. it[{a, b}] = f[b] + f[a]
    BY <1>5, <1>7, <2>1, <2>2
  <2> QED BY <1>4, <2>3
<1> QED BY <1>4, <1>6, <1>7

\* Chances, and the product of two, in hundredths of a per cent.
Whole == 10000
Chance == {n \in Nat : n <= Whole}
Times(x, y) == (x * y) \div 10000

\* What the noisy-or leaves dry: the product over a set, truncated at each step.
Joined(it, d, S) ==
  it = [s \in SUBSET S |-> IF s = {} THEN Whole ELSE Times(it[s \ {Chosen(s)}], d[Chosen(s)])]

\* A product of chances is one, and no greater than either.
LEMMA Product ==
  ASSUME NEW x \in Chance, NEW y \in Chance
  PROVE  /\ Times(x, y) \in Chance
         /\ Times(x, y) <= x /\ Times(x, y) <= y
<1>1. x * y \in Nat /\ x * y <= 10000 * x /\ x * y <= 10000 * y
  BY DEF Chance, Whole
<1> QED BY <1>1 DEF Times, Chance, Whole

\* It grows with both.
LEMMA ProductGrows ==
  ASSUME NEW x \in Chance, NEW y \in Chance, NEW u \in Chance, NEW v \in Chance,
         x <= u, y <= v
  PROVE  Times(x, y) <= Times(u, v)
<1>1. x * y \in Nat /\ x * y <= u * y /\ u * y <= u * v /\ u * v \in Nat /\ u * y \in Nat
  BY DEF Chance, Whole
<1> QED BY <1>1 DEF Times

\* There is such a product.
LEMMA JoinExists ==
  ASSUME NEW S, IsFiniteSet(S), NEW d \in [S -> Chance]
  PROVE  \E it : Joined(it, d, S)
<1> DEFINE g == [p \in S \X Nat |-> Times(p[2], d[p[1]])]
<1>1. g \in [S \X Nat -> Nat]
  <2>1. ASSUME NEW x \in S, NEW n \in Nat PROVE Times(n, d[x]) \in Nat
    <3>1. \A m \in Nat : Times(n, m) \in Nat
      <4>1. ASSUME NEW m \in Nat PROVE (n * m) \div 10000 \in Nat
        <5>1. n * m \in Nat
          OBVIOUS
        <5> QED BY <5>1
      <4> QED BY <4>1 DEF Times
    <3> QED BY <3>1 DEF Chance
  <2> QED BY <2>1
<1>2. PICK it \in [SUBSET S -> Nat] : Folds(it, S, g, Whole)
  <2> HIDE DEF g
  <2>1. Whole \in Nat
    BY DEF Whole
  <2> QED BY <1>1, <2>1, FoldExists, Zenon
<1>3. ASSUME NEW s \in SUBSET S, s # {}
      PROVE  g[<<Chosen(s), it[s \ {Chosen(s)}]>>] = Times(it[s \ {Chosen(s)}], d[Chosen(s)])
  <2>1. Chosen(s) \in S /\ s \ {Chosen(s)} \in SUBSET S
    BY <1>3, ChosenIn
  <2> QED BY <2>1
<1> HIDE DEF g
<1>4. \A s \in SUBSET S :
        it[s] = IF s = {} THEN Whole ELSE Times(it[s \ {Chosen(s)}], d[Chosen(s)])
  BY <1>2, <1>3 DEF Folds
<1> QED BY <1>4 DEF Joined

\* Its step.
LEMMA JoinStep ==
  ASSUME NEW S, NEW d, NEW it, Joined(it, d, S), NEW s \in SUBSET S, s # {}
  PROVE  /\ Chosen(s) \in s /\ s \ {Chosen(s)} \in SUBSET S /\ s \ {Chosen(s)} # s
         /\ it[s] = Times(it[s \ {Chosen(s)}], d[Chosen(s)])
BY ChosenIn DEF Joined

\* The product is no greater than any of its factors, nor than that of any two.
LEMMA JoinBounds ==
  ASSUME NEW S, IsFiniteSet(S), NEW d \in [S -> Chance], NEW it, Joined(it, d, S)
  PROVE  \A s \in SUBSET S :
           /\ it[s] \in Chance
           /\ \A x \in s : it[s] <= d[x]
           /\ \A x, y \in s : x # y => it[s] <= Times(d[x], d[y])
<1> DEFINE Good(s) == /\ it[s] \in Chance
                      /\ \A x \in s : it[s] <= d[x]
                      /\ \A x, y \in s : x # y => it[s] <= Times(d[x], d[y])
           Bad == {s \in SUBSET S : ~Good(s)}
<1> SUFFICES ASSUME Bad # {} PROVE FALSE
  OBVIOUS
<1>1. PICK s \in Bad : \A t \in SUBSET s : t # s => t \notin Bad
  <2>1. Bad \subseteq SUBSET S
    OBVIOUS
  <2> HIDE DEF Bad
  <2> QED BY <2>1, LeastSubset
<1>2. s \in SUBSET S /\ ~Good(s)
  BY <1>1
<1>3. s # {}
  <2>1. it[{}] = Whole
    BY DEF Joined
  <2>2. Good({})
    BY <2>1 DEF Chance, Whole
  <2> HIDE DEF Good
  <2> QED BY <1>2, <2>2
<1>4. PICK c \in s : /\ c = Chosen(s) /\ s \ {c} \in SUBSET S /\ s \ {c} # s
                     /\ it[s] = Times(it[s \ {c}], d[c])
  <2>0. s \in SUBSET S
    BY <1>2
  <2> HIDE DEF Good, Bad
  <2>1. /\ Chosen(s) \in s /\ s \ {Chosen(s)} \in SUBSET S /\ s \ {Chosen(s)} # s
        /\ it[s] = Times(it[s \ {Chosen(s)}], d[Chosen(s)])
    BY <1>3, <2>0, JoinStep
  <2> QED BY <2>1
<1>5. PICK rest : rest = s \ {c}
  OBVIOUS
<1>6. Good(rest)
  <2> HIDE DEF Good
  <2> QED BY <1>1, <1>4, <1>5
<1> HIDE DEF Bad
<1>7. it[rest] \in Chance /\ d[c] \in Chance /\ it[s] = Times(it[rest], d[c])
  BY <1>2, <1>4, <1>5, <1>6
<1>8. it[s] \in Chance /\ it[s] <= it[rest] /\ it[s] <= d[c]
  BY <1>7, Product
<1>9. ASSUME NEW x \in s PROVE it[s] <= d[x]
  <2>1. CASE x = c
    BY <1>8, <2>1
  <2>2. CASE x # c
    <3>1. x \in rest /\ d[x] \in Chance
      BY <1>2, <1>5, <2>2
    <3> QED BY <1>6, <1>7, <1>8, <3>1 DEF Chance
  <2> QED BY <2>1, <2>2
<1>10. ASSUME NEW x \in s, x # c PROVE it[s] <= Times(d[x], d[c])
  <2>1. x \in rest /\ d[x] \in Chance
    BY <1>2, <1>5, <1>10
  <2>2. it[rest] <= d[x]
    BY <1>6, <2>1
  <2>3. d[c] <= d[c]
    BY <1>7 DEF Chance
  <2> QED BY <1>7, <2>1, <2>2, <2>3, ProductGrows
<1>11. ASSUME NEW x \in s, NEW y \in s, x # y PROVE it[s] <= Times(d[x], d[y])
  <2>0. Times(d[x], d[y]) = Times(d[y], d[x])
    <3>1. d[x] \in Nat /\ d[y] \in Nat
      BY <1>2 DEF Chance
    <3>2. d[x] * d[y] = d[y] * d[x]
      BY <3>1
    <3> QED BY <3>2 DEF Times
  <2>1. CASE x = c \/ y = c
    BY <1>10, <1>11, <2>0, <2>1
  <2>2. CASE x # c /\ y # c
    <3>1. x \in rest /\ y \in rest
      BY <1>5, <2>2
    <3>2. it[rest] <= Times(d[x], d[y])
      BY <1>6, <1>11, <3>1
    <3>3. Times(d[x], d[y]) \in Chance
      BY <1>2, Product
    <3> QED BY <1>7, <1>8, <3>2, <3>3 DEF Chance
  <2> QED BY <2>1, <2>2
<1>12. Good(s)
  BY <1>8, <1>9, <1>11
<1> HIDE DEF Good
<1> QED BY <1>2, <1>12

\* Greater factors make it no smaller.
LEMMA JoinCompare ==
  ASSUME NEW S, IsFiniteSet(S), NEW d \in [S -> Chance], NEW it, Joined(it, d, S),
         NEW e \in [S -> Chance], NEW jt, Joined(jt, e, S), \A x \in S : d[x] <= e[x]
  PROVE  \A s \in SUBSET S : it[s] <= jt[s]
<1> DEFINE Bad == {s \in SUBSET S : ~(it[s] <= jt[s])}
<1> SUFFICES ASSUME Bad # {} PROVE FALSE
  OBVIOUS
<1>1. PICK s \in Bad : \A t \in SUBSET s : t # s => t \notin Bad
  <2>1. Bad \subseteq SUBSET S
    OBVIOUS
  <2> HIDE DEF Bad
  <2> QED BY <2>1, LeastSubset
<1>2. s \in SUBSET S /\ ~(it[s] <= jt[s])
  BY <1>1
<1>3. s # {}
  <2>1. it[{}] = Whole /\ jt[{}] = Whole /\ Whole <= Whole
    BY DEF Joined, Whole
  <2> QED BY <1>2, <2>1
<1>4. PICK c \in s : /\ s \ {c} \in SUBSET S /\ s \ {c} # s
                     /\ it[s] = Times(it[s \ {c}], d[c])
                     /\ jt[s] = Times(jt[s \ {c}], e[c])
  <2> HIDE DEF Bad
  <2>1. /\ Chosen(s) \in s /\ s \ {Chosen(s)} \in SUBSET S /\ s \ {Chosen(s)} # s
        /\ it[s] = Times(it[s \ {Chosen(s)}], d[Chosen(s)])
        /\ jt[s] = Times(jt[s \ {Chosen(s)}], e[Chosen(s)])
    BY <1>2, <1>3, JoinStep
  <2> QED BY <2>1
<1>5. it[s \ {c}] <= jt[s \ {c}]
  BY <1>1, <1>4
<1>6. /\ it[s \ {c}] \in Chance /\ jt[s \ {c}] \in Chance
      /\ d[c] \in Chance /\ e[c] \in Chance /\ d[c] <= e[c]
  <2> HIDE DEF Bad
  <2> QED BY <1>2, <1>4, JoinBounds
<1>8. Times(it[s \ {c}], d[c]) <= Times(jt[s \ {c}], e[c])
  BY <1>5, <1>6, ProductGrows
<1> QED BY <1>2, <1>4, <1>8

\* What Weight, Weighted and Squares sum.
LEMMA WeightSums ==
  ASSUME NEW S, IsFiniteSet(S), \A s \in S : s.weight \in Nat
  PROVE  \E it : Sums(it, [s \in S |-> s.weight], S) /\ Weight(S) = it[S]
<1> DEFINE f == [s \in S |-> s.weight]
           Entry(it) == [s \in SUBSET S |-> IF s = {} THEN 0
                          ELSE LET x == CHOOSE x \in s : TRUE IN x.weight + it[s \ {x}]]
<1>1. ASSUME NEW it PROVE it = Entry(it) <=> Sums(it, f, S)
  <2>1. ASSUME NEW s \in SUBSET S, s # {} PROVE f[Chosen(s)] = Chosen(s).weight
    BY <2>1, ChosenIn
  <2>2. \A s \in SUBSET S : Entry(it)[s] = IF s = {} THEN 0 ELSE f[Chosen(s)] + it[s \ {Chosen(s)}]
    BY <2>1 DEF Chosen
  <2> HIDE DEF f
  <2>3. Entry(it) = [s \in SUBSET S |-> IF s = {} THEN 0 ELSE f[Chosen(s)] + it[s \ {Chosen(s)}]]
    BY <2>2
  <2> QED BY <2>3 DEF Sums
<1>2. \E it : it = Entry(it)
  <2>1. f \in [S -> Nat]
    OBVIOUS
  <2>2. \E it \in [SUBSET S -> Nat] : Sums(it, f, S)
    <3> HIDE DEF f
    <3> QED BY <2>1, SumExists
  <2> HIDE DEF Entry, f
  <2> QED BY <1>1, <2>2
<1>3. Weight(S) = (CHOOSE it : it = Entry(it))[S]
  BY DEF Weight, MapThenSumSet, MapThenFoldSet
<1> HIDE DEF Entry, f
<1>4. (CHOOSE it : it = Entry(it)) = Entry(CHOOSE it : it = Entry(it))
  BY <1>2
<1> QED BY <1>1, <1>3, <1>4 DEF f
-----------------------------------------------------------------------------
(* The evidence. *)

\* The bodies that no card of the district asks for have neither level nor history.
EvidenceTypes ==
  /\ district \in District
  /\ rain \in Nat
  /\ level \in [Body -> Levels \cup {Down}]
  /\ scale \in [Body -> Scales \cup {<< >>}]
  /\ \A b \in Body \ AskedFor(district) : level[b] = Down /\ scale[b] = << >>
  /\ satellite \in {"confirmed", "clear", "unavailable"}
  /\ verified \in Nat /\ readable \in BOOLEAN /\ Reports \in Nat

\* The evidence has its types, and keeps them.
LEMMA EvidenceStarts == EvidenceInit => EvidenceTypes
<1> SUFFICES ASSUME EvidenceInit PROVE EvidenceTypes
  OBVIOUS
<1>1. level \in [Body -> Levels \cup {Down}] /\ \A b \in Body : level[b] = Down
  BY DEF EvidenceInit
<1>2. \A b \in Body \ AskedFor(district) : scale[b] = << >>
  BY DEF EvidenceInit
<1> QED BY <1>1, <1>2 DEF EvidenceInit, EvidenceTypes, Reports

LEMMA EvidenceStays == EvidenceTypes /\ [EvidenceMoves]_evidence => EvidenceTypes'
<1> SUFFICES ASSUME EvidenceTypes, [EvidenceMoves]_evidence PROVE EvidenceTypes'
  OBVIOUS
<1> USE DEF EvidenceTypes
<1>0. UNCHANGED <<verified, readable>> => Reports' = Reports
  BY DEF Reports
<1>1. ASSUME NEW mm \in Rains, Rain(mm) PROVE EvidenceTypes'
  BY <1>0, <1>1, RainAssumption DEF Rain, AskedFor
<1>2. ASSUME NEW b \in Body, NEW l \in Levels \cup {Down}, Gauge(b, l) PROVE EvidenceTypes'
  <2>1. b \in AskedFor(district) /\ level' = [level EXCEPT ![b] = l]
        /\ UNCHANGED <<district, rain, scale, satellite, verified, readable>>
    BY <1>2 DEF Gauge
  <2>2. \A c \in Body \ AskedFor(district) : level'[c] = level[c]
    BY <2>1
  <2> QED BY <1>0, <2>1, <2>2 DEF AskedFor
<1>3. ASSUME NEW s \in {"confirmed", "clear", "unavailable"}, SatellitePass(s) PROVE EvidenceTypes'
  BY <1>0, <1>3 DEF SatellitePass, AskedFor
<1>4. CASE Verify
  BY <1>4 DEF Verify, AskedFor, Reports
<1>5. CASE LookupTurns
  BY <1>5 DEF LookupTurns, AskedFor, Reports
<1>6. CASE UNCHANGED evidence
  BY <1>0, <1>6 DEF evidence, AskedFor
<1> QED BY <1>1, <1>2, <1>3, <1>4, <1>5, <1>6 DEF EvidenceMoves
-----------------------------------------------------------------------------
(* Tiers and bands: how many thresholds are reached. *)

\* Sets of two, three and four.
LEMMA Counted2 == \A a, b : a # b => IsFiniteSet({a, b}) /\ Cardinality({a, b}) = 2
<1> SUFFICES ASSUME NEW a, NEW b, a # b PROVE IsFiniteSet({a, b}) /\ Cardinality({a, b}) = 2
  OBVIOUS
<1>1. IsFiniteSet({a}) /\ Cardinality({a}) = 1
  BY FS_Singleton
<1>2. {a, b} = {a} \cup {b} /\ b \notin {a}
  OBVIOUS
<1> QED BY <1>1, <1>2, FS_AddElement

LEMMA Counted3 ==
  \A a, b, c : a # b /\ a # c /\ b # c => IsFiniteSet({a, b, c}) /\ Cardinality({a, b, c}) = 3
<1> SUFFICES ASSUME NEW a, NEW b, NEW c, a # b, a # c, b # c
    PROVE  IsFiniteSet({a, b, c}) /\ Cardinality({a, b, c}) = 3
  OBVIOUS
<1>1. IsFiniteSet({a, b}) /\ Cardinality({a, b}) = 2
  BY Counted2
<1>2. {a, b, c} = {a, b} \cup {c} /\ c \notin {a, b}
  OBVIOUS
<1> QED BY <1>1, <1>2, FS_AddElement

LEMMA Counted4 ==
  \A a, b, c, d : a # b /\ a # c /\ a # d /\ b # c /\ b # d /\ c # d => Cardinality({a, b, c, d}) = 4
<1> SUFFICES ASSUME NEW a, NEW b, NEW c, NEW d, a # b, a # c, a # d, b # c, b # d, c # d
    PROVE  Cardinality({a, b, c, d}) = 4
  OBVIOUS
<1>1. IsFiniteSet({a, b, c}) /\ Cardinality({a, b, c}) = 3
  BY Counted3
<1>2. {a, b, c, d} = {a, b, c} \cup {d} /\ d \notin {a, b, c}
  OBVIOUS
<1> QED BY <1>1, <1>2, FS_AddElement

\* get_risk_tier as its comparisons (formatter.py).
LEMMA TierIs ==
  ASSUME NEW r \in Int
  PROVE  Tier(r) = IF r < 3000 THEN 0 ELSE IF r < 5000 THEN 1 ELSE IF r < 7000 THEN 2
                   ELSE IF r < 8500 THEN 3 ELSE 4
<1> DEFINE T == {t \in {30, 50, 70, 85} : r >= 100 * t}
<1>1. Tier(r) = Cardinality(T)
  BY DEF Tier
<1>2. CASE r < 3000
  <2>1. T = {}
    BY <1>2
  <2> HIDE DEF T
  <2> QED BY <1>1, <1>2, <2>1, FS_EmptySet
<1>3. CASE r >= 3000 /\ r < 5000
  <2>1. T = {30}
    BY <1>3
  <2> HIDE DEF T
  <2> QED BY <1>1, <1>3, <2>1, FS_Singleton
<1>4. CASE r >= 5000 /\ r < 7000
  <2>1. T = {30, 50}
    BY <1>4
  <2>2. Cardinality({30, 50}) = 2
    <3>1. \A a, b \in Int : a # b => Cardinality({a, b}) = 2
      BY Counted2
    <3> QED BY <3>1
  <2> HIDE DEF T
  <2> QED BY <1>1, <1>4, <2>1, <2>2
<1>5. CASE r >= 7000 /\ r < 8500
  <2>1. T = {30, 50, 70}
    BY <1>5
  <2>2. Cardinality({30, 50, 70}) = 3
    <3>1. \A a, b, c \in Int : a # b /\ a # c /\ b # c => Cardinality({a, b, c}) = 3
      BY Counted3
    <3> QED BY <3>1
  <2> HIDE DEF T
  <2> QED BY <1>1, <1>5, <2>1, <2>2
<1>6. CASE r >= 8500
  <2>1. T = {30, 50, 70, 85}
    BY <1>6
  <2>2. Cardinality({30, 50, 70, 85}) = 4
    <3>1. \A a, b, c, d \in Int : a # b /\ a # c /\ a # d /\ b # c /\ b # d /\ c # d =>
             Cardinality({a, b, c, d}) = 4
      BY Counted4
    <3> QED BY <3>1
  <2> HIDE DEF T
  <2> QED BY <1>1, <1>6, <2>1, <2>2
<1> QED BY <1>2, <1>3, <1>4, <1>5, <1>6

\* The band of a level among a body's percentiles.
BandOf(l, s) ==
  IF l = Down \/ s = << >> THEN Missing
  ELSE <<15, 45, 75, 95>>[1 + Cardinality({k \in 1 .. 3 : l >= s[k]})]

BandRisks == {15, 45, 75, 95}

\* classify_level as its comparisons (altimetry_thresholds.py).
LEMMA BandIs ==
  ASSUME NEW l \in Nat, NEW s \in Scales, s # << >>
  PROVE  BandOf(l, s) = IF l < s[1] THEN 15 ELSE IF l < s[2] THEN 45 ELSE IF l < s[3] THEN 75 ELSE 95
<1> DEFINE K == {k \in 1 .. 3 : l >= s[k]}
<1>1. s[1] \in Nat /\ s[2] \in Nat /\ s[3] \in Nat /\ s[1] <= s[2] /\ s[2] <= s[3]
  BY ScaleAssumption
<1>2. BandOf(l, s) = <<15, 45, 75, 95>>[1 + Cardinality(K)]
  BY DEF BandOf, Down
<1>3. CASE l < s[1]
  <2>1. K = {}
    BY <1>1, <1>3
  <2> HIDE DEF K
  <2> QED BY <1>2, <1>3, <2>1, FS_EmptySet
<1>4. CASE l >= s[1] /\ l < s[2]
  <2>1. K = {1}
    BY <1>1, <1>4
  <2>2. Cardinality({1}) = 1
    BY FS_Singleton
  <2> HIDE DEF K
  <2> QED BY <1>1, <1>2, <1>4, <2>1, <2>2
<1>5. CASE l >= s[2] /\ l < s[3]
  <2>1. K = {1, 2}
    BY <1>1, <1>5
  <2>2. Cardinality({1, 2}) = 2
    <3>1. 1 # 2
      OBVIOUS
    <3> QED BY <3>1, Counted2, Zenon
  <2> HIDE DEF K
  <2> QED BY <1>1, <1>2, <1>5, <2>1, <2>2
<1>6. CASE l >= s[3]
  <2>1. K = {1, 2, 3}
    BY <1>1, <1>6
  <2>2. Cardinality({1, 2, 3}) = 3
    <3>1. 1 # 2 /\ 1 # 3 /\ 2 # 3
      OBVIOUS
    <3> QED BY <3>1, Counted3, Zenon
  <2> HIDE DEF K
  <2> QED BY <1>1, <1>2, <1>6, <2>1, <2>2
<1> QED BY <1>1, <1>3, <1>4, <1>5, <1>6

\* A higher level is in no lower a band; and a reading is there or not whatever it says.
LEMMA BandGrows ==
  ASSUME NEW l \in Nat, NEW m \in Nat, l <= m, NEW s \in Scales \cup {<< >>}
  PROVE  /\ BandOf(l, s) = Missing <=> BandOf(m, s) = Missing
         /\ BandOf(l, s) <= BandOf(m, s)
<1>1. CASE s = << >>
  BY <1>1 DEF BandOf, Missing
<1>2. CASE s # << >>
  <2>1. s[1] \in Nat /\ s[2] \in Nat /\ s[3] \in Nat /\ s[1] <= s[2] /\ s[2] <= s[3] /\ s \in Scales
    BY <1>2, ScaleAssumption
  <2>2. BandOf(l, s) = IF l < s[1] THEN 15 ELSE IF l < s[2] THEN 45 ELSE IF l < s[3] THEN 75 ELSE 95
    BY <1>2, <2>1, BandIs
  <2>3. BandOf(m, s) = IF m < s[1] THEN 15 ELSE IF m < s[2] THEN 45 ELSE IF m < s[3] THEN 75 ELSE 95
    BY <1>2, <2>1, BandIs
  <2> QED BY <2>1, <2>2, <2>3 DEF Missing
<1> QED BY <1>1, <1>2

\* What the bodies of the evidence are in.
LEMMA Bands == EvidenceTypes => \A b \in Body : Band(b) = BandOf(level[b], scale[b])
                                                /\ Band(b) \in BandRisks \cup {Missing}
<1> SUFFICES ASSUME EvidenceTypes, NEW b \in Body
    PROVE  Band(b) = BandOf(level[b], scale[b]) /\ Band(b) \in BandRisks \cup {Missing}
  OBVIOUS
<1>1. Band(b) = BandOf(level[b], scale[b])
  BY DEF Band, BandOf
<1>2. CASE level[b] = Down \/ scale[b] = << >>
  BY <1>1, <1>2 DEF BandOf
<1>3. CASE level[b] # Down /\ scale[b] # << >>
  <2>1. level[b] \in Nat /\ scale[b] \in Scales
    BY <1>3, LevelAssumption DEF EvidenceTypes
  <2>2. BandOf(level[b], scale[b]) \in BandRisks
    BY <1>3, <2>1, BandIs DEF BandRisks
  <2> QED BY <1>1, <2>2
<1> QED BY <1>2, <1>3
-----------------------------------------------------------------------------
(* The score of the rain. *)

\* The lesser of two.
LEMMA MinTwo ==
  ASSUME NEW a \in Int, NEW b \in Int
  PROVE  Min({a, b}) = IF a <= b THEN a ELSE b
<1>1. \E x \in {a, b} : \A y \in {a, b} : x <= y
  OBVIOUS
<1>2. Min({a, b}) \in {a, b} /\ \A y \in {a, b} : Min({a, b}) <= y
  BY <1>1 DEF Min
<1> QED BY <1>2

\* The rain's curve, and where it rises.
LEMMA CurveIs == ASSUME NEW m \in Nat PROVE Curve(m) \in Nat /\ Curve(m) <= 1000
<1>1. Min({1000, 950 + (m - 50) * 2}) = IF 1000 <= 950 + (m - 50) * 2 THEN 1000 ELSE 950 + (m - 50) * 2
  <2>1. \A a \in Int : Min({1000, a}) = IF 1000 <= a THEN 1000 ELSE a
    BY MinTwo
  <2> QED BY <2>1
<1> QED BY <1>1 DEF Curve

\* It rises with the rain, but for the dip.
LEMMA CurveGrows ==
  ASSUME NEW m \in Nat, NEW n \in Nat, m <= n, ~Dips(m, n)
  PROVE  Curve(m) <= Curve(n)
<1>1. \A k \in Nat : Min({1000, 950 + (k - 50) * 2}) =
        IF 1000 <= 950 + (k - 50) * 2 THEN 1000 ELSE 950 + (k - 50) * 2
  <2>1. \A a \in Int : Min({1000, a}) = IF 1000 <= a THEN 1000 ELSE a
    BY MinTwo
  <2> QED BY <2>1
<1>2. Min({1000, 950 + (m - 50) * 2}) = IF 1000 <= 950 + (m - 50) * 2 THEN 1000 ELSE 950 + (m - 50) * 2
  BY <1>1
<1>3. Min({1000, 950 + (n - 50) * 2}) = IF 1000 <= 950 + (n - 50) * 2 THEN 1000 ELSE 950 + (n - 50) * 2
  BY <1>1
<1> QED BY <1>2, <1>3 DEF Curve, Dips

\* The district's score, as a function of the district and its rain.
DrainageOf(d, m) ==
  IF d # "AccraCentral" THEN 100 ELSE IF m > 80 THEN 156 ELSE IF m > 50 THEN 132 ELSE 120
Capped(c, k) == IF 1000 <= (c * k) \div 100 THEN 1000 ELSE (c * k) \div 100
TenthsOf(d, m) == Capped(Curve(m), DrainageOf(d, m))

\* What a drainage makes of the curve: no less, and the whole at most.
LEMMA Scaled ==
  ASSUME NEW c \in Nat, NEW e \in Nat, NEW k \in {100, 120, 132, 156}, NEW l \in {100, 120, 132, 156},
         c <= 1000, c <= e, k <= l
  PROVE  /\ Capped(c, k) \in Nat /\ c <= Capped(c, k) /\ Capped(c, k) <= 1000
         /\ Capped(c, 100) = c
         /\ Capped(c, k) <= Capped(e, l)
<1>1. /\ 100 * c <= c * k /\ c * k <= e * l /\ c * k \in Nat /\ e * l \in Nat
  BY SMTT(30)
<1> QED BY <1>1 DEF Capped

\* The district's score is between the curve and 100 per cent.
LEMMA TenthsIs ==
  ASSUME NEW d, NEW m \in Nat
  PROVE  /\ TenthsOf(d, m) \in Nat /\ Curve(m) <= TenthsOf(d, m) /\ TenthsOf(d, m) <= 1000
         /\ DrainageOf(d, m) = 100 => TenthsOf(d, m) = Curve(m)
         /\ TenthsOf(d, m) \div 10 \in Nat /\ TenthsOf(d, m) \div 10 <= 100
<1>1. PICK c \in Nat : c = Curve(m) /\ c <= 1000
  BY CurveIs
<1>2. DrainageOf(d, m) \in {100, 120, 132, 156}
  BY DEF DrainageOf
<1>3. PICK k \in {100, 120, 132, 156} : k = DrainageOf(d, m)
  BY <1>2
<1>4. Capped(c, k) \in Nat /\ c <= Capped(c, k) /\ Capped(c, k) <= 1000 /\ Capped(c, 100) = c
  BY <1>1, Scaled
<1>5. TenthsOf(d, m) = Capped(c, k)
  BY <1>1, <1>3 DEF TenthsOf
<1> QED BY <1>1, <1>3, <1>4, <1>5

\* It rises with the rain where the curve does: poor drainage only adds to it.
LEMMA TenthsGrow ==
  ASSUME NEW d, NEW m \in Nat, NEW n \in Nat, m <= n, ~Dips(m, n)
  PROVE  TenthsOf(d, m) <= TenthsOf(d, n) /\ TenthsOf(d, m) \div 10 <= TenthsOf(d, n) \div 10
<1>1. PICK c \in Nat, e \in Nat : c = Curve(m) /\ e = Curve(n) /\ c <= e /\ c <= 1000
  BY CurveIs, CurveGrows
<1>2. /\ DrainageOf(d, m) \in {100, 120, 132, 156} /\ DrainageOf(d, n) \in {100, 120, 132, 156}
      /\ DrainageOf(d, m) <= DrainageOf(d, n)
  <2>1. /\ DrainageOf(d, m) \in {100, 120, 132, 156} /\ DrainageOf(d, n) \in {100, 120, 132, 156}
        /\ m > 80 => n > 80
        /\ m > 50 => n > 50
    BY DEF DrainageOf
  <2>2. \/ DrainageOf(d, m) = 100 \/ DrainageOf(d, n) = 156
        \/ DrainageOf(d, m) = DrainageOf(d, n) \/ (DrainageOf(d, m) = 120 /\ DrainageOf(d, n) = 132)
    <3>1. CASE d # "AccraCentral"
      BY <3>1, Zenon DEF DrainageOf
    <3>2. CASE d = "AccraCentral" /\ n > 80
      BY <3>2, SMT DEF DrainageOf
    <3>3. CASE d = "AccraCentral" /\ ~(n > 80) /\ m > 50
      <4>1. ~(m > 80) /\ n > 50
        BY <2>1, <3>3
      <4>2. DrainageOf(d, m) = 132 /\ DrainageOf(d, n) = 132
        BY <3>3, <4>1, Zenon DEF DrainageOf
      <4> QED BY <4>2
    <3>4. CASE d = "AccraCentral" /\ ~(n > 80) /\ ~(m > 50)
      <4>1. ~(m > 80)
        BY <2>1, <3>4
      <4>2. DrainageOf(d, m) = 120
        BY <3>4, <4>1, Zenon DEF DrainageOf
      <4>3. DrainageOf(d, n) = IF n > 50 THEN 132 ELSE 120
        BY <3>4, Zenon DEF DrainageOf
      <4> QED BY <4>2, <4>3
    <3> QED BY <3>1, <3>2, <3>3, <3>4
  <2> QED BY <2>1, <2>2
<1>3. TenthsOf(d, m) <= TenthsOf(d, n)
  BY <1>1, <1>2, Scaled DEF TenthsOf
<1>4. TenthsOf(d, m) \in Nat /\ TenthsOf(d, n) \in Nat
  BY TenthsIs
<1> QED BY <1>3, <1>4

\* The score of a state, as that function.
ScoreIs ==
  /\ Drainage = DrainageOf(district, rain)
  /\ Tenths = TenthsOf(district, rain) /\ Tenths \in Nat /\ Tenths <= 1000
  /\ Score = TenthsOf(district, rain) \div 10 /\ Score \in Nat /\ Score <= 100

\* That is the score of the evidence.
LEMMA Scores == EvidenceTypes => ScoreIs
<1> SUFFICES ASSUME EvidenceTypes PROVE ScoreIs
  OBVIOUS
<1>1. rain \in Nat /\ Curve(rain) \in Nat
  BY CurveIs DEF EvidenceTypes
<1>2. Drainage = DrainageOf(district, rain)
  BY Zenon DEF Drainage, DrainageOf
<1>3. DrainageOf(district, rain) \in Nat
  BY DEF DrainageOf
<1>4. Tenths = TenthsOf(district, rain)
  <2>1. \A a \in Int : Min({1000, a}) = IF 1000 <= a THEN 1000 ELSE a
    BY MinTwo
  <2>2. (Curve(rain) * DrainageOf(district, rain)) \div 100 \in Int
    BY <1>1, <1>3
  <2> QED BY <1>2, <2>1, <2>2 DEF Tenths, TenthsOf, Capped
<1> QED BY <1>1, <1>2, <1>4, TenthsIs DEF Score, ScoreIs
-----------------------------------------------------------------------------
(* What is present of each pathway. *)

Rainy(r) == Reading("pluvial", "rainfall", r, 10)
River(r) == Reading("fluvial", "river_gauge", r, 20)
Bagre(r) == Reading("fluvial", "dam_bagre_upstream_proxy", r, 12)
Volta(r) == Reading("fluvial", "dam_akosombo", r, 20)
Detection == Reading("observation", "satellite_sar", 95, 22)
Many == Reading("observation", "citizen_reports", 90, 18)
Few == Reading("observation", "citizen_reports", 65, 9)

\* S, or nothing.
If(S, c) == {s \in S : c}

\* The readings of the fluvial pathway, by the bands, and of the observations.
Waters(d, r, b, v) ==
  CASE d = "Tamale" -> If({River(r)}, r # Missing) \cup If({Bagre(b)}, b # Missing)
    [] d = "Tema" -> If({Volta(v)}, v # Missing)
    [] OTHER -> {}
Sights(sat, n) ==
  If({Detection}, sat = "confirmed")
  \cup (IF n >= 3 THEN {Many} ELSE IF n \in 1 .. 2 THEN {Few} ELSE {})

\* So much is present, by pathway.
PresentIs ==
  /\ Present("pluvial") = {Rainy(Score)}
  /\ Present("fluvial") =
       Waters(district, Band("river_gauge"), Band("bagre_upstream_proxy"), Band("akosombo"))
  /\ Present("observation") = Sights(satellite, Reports)

\* Each source is of one pathway.
LEMMA PathwaysOf ==
  /\ \A s \in Fluvial : s.pathway = "fluvial"
  /\ \A s \in Observation : s.pathway = "observation"
  /\ Applicable("pluvial") = {Rainy(Score)}
  /\ Applicable("fluvial") = Fluvial
  /\ Applicable("observation") = Observation
<1>1. \A s \in Fluvial : s.pathway = "fluvial"
  BY DEF Fluvial, Reading
<1>2. \A s \in Observation : s.pathway = "observation"
  BY DEF Observation, Reading
<1>3. Rainy(Score).pathway = "pluvial"
  BY DEF Rainy, Reading
<1>4. Sources = {Rainy(Score)} \cup Fluvial \cup Observation
  BY DEF Sources, Rainy
<1> QED BY <1>1, <1>2, <1>3, <1>4 DEF Applicable

\* That is what is present.
LEMMA Presents == EvidenceTypes => PresentIs
<1> SUFFICES ASSUME EvidenceTypes PROVE PresentIs
  OBVIOUS
<1>1. Present("pluvial") = {Rainy(Score)}
  <2>1. Rainy(Score).risk = Score /\ Score # Missing
    BY Scores DEF Rainy, Reading, ScoreIs, Missing
  <2> QED BY <2>1, PathwaysOf DEF Present
<1>2. Present("fluvial") =
       Waters(district, Band("river_gauge"), Band("bagre_upstream_proxy"), Band("akosombo"))
  <2>1. Present("fluvial") = {s \in Fluvial : s.risk # Missing}
    BY PathwaysOf DEF Present
  <2>2. CASE district = "Tamale"
    BY <2>1, <2>2 DEF Fluvial, Waters, River, Bagre, Reading, If
  <2>3. CASE district = "Tema"
    BY <2>1, <2>3 DEF Fluvial, Waters, Volta, Reading, If
  <2>4. CASE district = "Ho"
    BY <2>1, <2>4 DEF Fluvial, Waters, Reading
  <2>5. CASE district \notin {"Tamale", "Tema", "Ho"}
    BY <2>1, <2>5 DEF Fluvial, Waters
  <2> QED BY <2>2, <2>3, <2>4, <2>5
<1>3. Present("observation") = Sights(satellite, Reports)
  <2>1. Present("observation") = {s \in Observation : s.risk # Missing}
    BY PathwaysOf DEF Present
  <2>2. Reports \in Nat /\ satellite \in {"confirmed", "clear", "unavailable"}
    BY DEF EvidenceTypes
  <2> QED BY <2>1, <2>2 DEF Observation, Sights, Detection, Many, Few, Reading, If, Missing
<1> QED BY <1>1, <1>2, <1>3 DEF PresentIs
-----------------------------------------------------------------------------
(* The mean of readings. *)

\* fuse_sources' other sums over the readings, as sums of a function.
LEMMA WeightedSums ==
  ASSUME NEW S, IsFiniteSet(S), \A s \in S : s.weight \in Nat /\ s.risk \in Nat
  PROVE  \E it : Sums(it, [s \in S |-> s.weight * s.risk], S) /\ Weighted(S) = it[S]
<1> DEFINE f == [s \in S |-> s.weight * s.risk]
           Entry(it) == [s \in SUBSET S |-> IF s = {} THEN 0
                          ELSE LET x == CHOOSE x \in s : TRUE IN x.weight * x.risk + it[s \ {x}]]
<1>1. ASSUME NEW it PROVE it = Entry(it) <=> Sums(it, f, S)
  <2>1. ASSUME NEW s \in SUBSET S, s # {} PROVE f[Chosen(s)] = Chosen(s).weight * Chosen(s).risk
    BY <2>1, ChosenIn
  <2>2. \A s \in SUBSET S : Entry(it)[s] = IF s = {} THEN 0 ELSE f[Chosen(s)] + it[s \ {Chosen(s)}]
    BY <2>1 DEF Chosen
  <2> HIDE DEF f
  <2>3. Entry(it) = [s \in SUBSET S |-> IF s = {} THEN 0 ELSE f[Chosen(s)] + it[s \ {Chosen(s)}]]
    BY <2>2
  <2> QED BY <2>3 DEF Sums
<1>2. \E it : it = Entry(it)
  <2>1. f \in [S -> Nat]
    OBVIOUS
  <2>2. \E it \in [SUBSET S -> Nat] : Sums(it, f, S)
    <3> HIDE DEF f
    <3> QED BY <2>1, SumExists
  <2> HIDE DEF Entry, f
  <2> QED BY <1>1, <2>2
<1>3. Weighted(S) = (CHOOSE it : it = Entry(it))[S]
  BY DEF Weighted, MapThenSumSet, MapThenFoldSet
<1> HIDE DEF Entry, f
<1>4. (CHOOSE it : it = Entry(it)) = Entry(CHOOSE it : it = Entry(it))
  BY <1>2
<1> QED BY <1>1, <1>3, <1>4 DEF f

LEMMA SquareSums ==
  ASSUME NEW S, IsFiniteSet(S), \A s \in S : s.weight \in Nat /\ s.risk \in Nat
  PROVE  \E it : Sums(it, [s \in S |-> s.weight * s.risk * s.risk], S) /\ Squares(S) = it[S]
<1> DEFINE f == [s \in S |-> s.weight * s.risk * s.risk]
           Entry(it) == [s \in SUBSET S |-> IF s = {} THEN 0
                          ELSE LET x == CHOOSE x \in s : TRUE
                               IN x.weight * x.risk * x.risk + it[s \ {x}]]
<1>1. ASSUME NEW it PROVE it = Entry(it) <=> Sums(it, f, S)
  <2>1. ASSUME NEW s \in SUBSET S, s # {}
       PROVE f[Chosen(s)] = Chosen(s).weight * Chosen(s).risk * Chosen(s).risk
    BY <2>1, ChosenIn
  <2>2. \A s \in SUBSET S : Entry(it)[s] = IF s = {} THEN 0 ELSE f[Chosen(s)] + it[s \ {Chosen(s)}]
    BY <2>1 DEF Chosen
  <2> HIDE DEF f
  <2>3. Entry(it) = [s \in SUBSET S |-> IF s = {} THEN 0 ELSE f[Chosen(s)] + it[s \ {Chosen(s)}]]
    BY <2>2
  <2> QED BY <2>3 DEF Sums
<1>2. \E it : it = Entry(it)
  <2>1. f \in [S -> Nat]
    OBVIOUS
  <2>2. \E it \in [SUBSET S -> Nat] : Sums(it, f, S)
    <3> HIDE DEF f
    <3> QED BY <2>1, SumExists
  <2> HIDE DEF Entry, f
  <2> QED BY <1>1, <2>2
<1>3. Squares(S) = (CHOOSE it : it = Entry(it))[S]
  BY DEF Squares, MapThenSumSet, MapThenFoldSet
<1> HIDE DEF Entry, f
<1>4. (CHOOSE it : it = Entry(it)) = Entry(CHOOSE it : it = Entry(it))
  BY <1>2
<1> QED BY <1>1, <1>3, <1>4 DEF f

\* The sums of one reading, and of two.
LEMMA OneReading ==
  ASSUME NEW s, s.weight \in Nat, s.risk \in Nat
  PROVE  Weight({s}) = s.weight /\ Weighted({s}) = s.weight * s.risk
<1>0. IsFiniteSet({s})
  BY FS_Singleton
<1>1. Weight({s}) = s.weight
  <2> DEFINE f == [x \in {s} |-> x.weight]
  <2>1. PICK it : Sums(it, f, {s}) /\ Weight({s}) = it[{s}]
    BY <1>0, WeightSums
  <2>2. f \in [{s} -> Nat] /\ f[s] = s.weight
    OBVIOUS
  <2> HIDE DEF f
  <2> QED BY <2>1, <2>2, SumOne
<1>2. Weighted({s}) = s.weight * s.risk
  <2> DEFINE f == [x \in {s} |-> x.weight * x.risk]
  <2>1. PICK it : Sums(it, f, {s}) /\ Weighted({s}) = it[{s}]
    BY <1>0, WeightedSums
  <2>2. f \in [{s} -> Nat] /\ f[s] = s.weight * s.risk
    OBVIOUS
  <2> HIDE DEF f
  <2> QED BY <2>1, <2>2, SumOne
<1> QED BY <1>1, <1>2

\* Two readings of a pathway.
LEMMA TwoReadings ==
  ASSUME NEW s, NEW t, s # t,
         s.weight \in Nat, s.risk \in Nat, t.weight \in Nat, t.risk \in Nat
  PROVE  /\ Weight({s, t}) = s.weight + t.weight
         /\ Weighted({s, t}) = s.weight * s.risk + t.weight * t.risk
         /\ Squares({s, t}) = s.weight * s.risk * s.risk + t.weight * t.risk * t.risk
<1>a. \A g \in [{s, t} -> Nat] : \A it : Sums(it, g, {s, t}) => it[{s, t}] = g[s] + g[t]
  <2> SUFFICES ASSUME NEW g \in [{s, t} -> Nat], NEW it, Sums(it, g, {s, t})
               PROVE  it[{s, t}] = g[s] + g[t]
    OBVIOUS
  <2> QED BY SumTwo
<1> DEFINE S == {s, t}
<1>b. \A g \in [S -> Nat] : \A it : Sums(it, g, S) => it[S] = g[s] + g[t]
  BY <1>a
<1>0. IsFiniteSet(S)
  BY Counted2
<1>1. Weight(S) = s.weight + t.weight
  <2> DEFINE f == [x \in S |-> x.weight]
  <2>1. PICK it : Sums(it, f, S) /\ Weight(S) = it[S]
    BY <1>0, WeightSums
  <2>2. f \in [S -> Nat] /\ f[s] = s.weight /\ f[t] = t.weight
    OBVIOUS
  <2> HIDE DEF f
  <2>3. it[S] = f[s] + f[t]
    BY <1>b, <2>1, <2>2
  <2> QED BY <2>1, <2>2, <2>3
<1>2. Weighted(S) = s.weight * s.risk + t.weight * t.risk
  <2> DEFINE f == [x \in S |-> x.weight * x.risk]
  <2>1. PICK it : Sums(it, f, S) /\ Weighted(S) = it[S]
    BY <1>0, WeightedSums
  <2>2. f \in [S -> Nat] /\ f[s] = s.weight * s.risk /\ f[t] = t.weight * t.risk
    OBVIOUS
  <2> HIDE DEF f
  <2>3. it[S] = f[s] + f[t]
    BY <1>b, <2>1, <2>2
  <2> QED BY <2>1, <2>2, <2>3
<1>3. Squares(S) = s.weight * s.risk * s.risk + t.weight * t.risk * t.risk
  <2> DEFINE f == [x \in S |-> x.weight * x.risk * x.risk]
  <2>1. PICK it : Sums(it, f, S) /\ Squares(S) = it[S]
    BY <1>0, SquareSums
  <2>2. f \in [S -> Nat] /\ f[s] = s.weight * s.risk * s.risk /\ f[t] = t.weight * t.risk * t.risk
    OBVIOUS
  <2> HIDE DEF f
  <2>3. it[S] = f[s] + f[t]
    BY <1>b, <2>1, <2>2
  <2> QED BY <2>1, <2>2, <2>3
<1> QED BY <1>1, <1>2, <1>3

\* The mean of one is its risk; of two it lies by the weights between theirs.
LEMMA MeanOfOne ==
  ASSUME NEW s, s.weight \in {9, 10, 12, 18, 20, 22}, s.risk \in Nat
  PROVE  Mean({s}) = 100 * s.risk
<1>1. Weight({s}) = s.weight /\ Weighted({s}) = s.weight * s.risk
  BY OneReading
<1>2. ASSUME NEW w \in {9, 10, 12, 18, 20, 22}, NEW r \in Nat
      PROVE  (100 * (w * r)) \div w = 100 * r
  <2>1. w = 9 \/ w = 10 \/ w = 12 \/ w = 18 \/ w = 20 \/ w = 22
    OBVIOUS
  <2> QED BY <2>1
<1> QED BY <1>1, <1>2 DEF Mean

\* Their mean.
LEMMA MeanOfTwo ==
  ASSUME NEW s, NEW t, s # t,
         s.weight \in Nat, s.risk \in Nat, t.weight \in Nat, t.risk \in Nat
  PROVE  Mean({s, t}) = (100 * (s.weight * s.risk + t.weight * t.risk)) \div (s.weight + t.weight)
BY TwoReadings DEF Mean

\* The means of the pathways, by what is present.
LEMMA RainyMean == ASSUME NEW r \in Nat PROVE Mean({Rainy(r)}) = 100 * r
<1>1. Rainy(r).weight = 10 /\ Rainy(r).risk = r
  BY DEF Rainy, Reading
<1> QED BY <1>1, MeanOfOne

\* Their mean, by the bands.
WatersMean(d, r, b, v) ==
  IF d = "Tema" THEN 100 * v
  ELSE IF b = Missing THEN 100 * r ELSE IF r = Missing THEN 100 * b ELSE (100 * (20 * r + 12 * b)) \div 32

\* That is their mean.
LEMMA MeanOfWaters ==
  ASSUME NEW d, NEW r \in BandRisks \cup {Missing}, NEW b \in BandRisks \cup {Missing},
         NEW v \in BandRisks \cup {Missing}, Waters(d, r, b, v) # {}
  PROVE  /\ d \in {"Tema", "Tamale"}
         /\ Mean(Waters(d, r, b, v)) = WatersMean(d, r, b, v)
         /\ WatersMean(d, r, b, v) \in Chance
<1>1. d \in {"Tema", "Tamale"}
  BY DEF Waters
<1>m. Missing \notin BandRisks /\ BandRisks \subseteq 0 .. 100 /\ BandRisks \subseteq Nat
  BY DEF Missing, BandRisks
<1>2. CASE d = "Tema"
  <2>1. Waters(d, r, b, v) = If({Volta(v)}, v # Missing)
    BY <1>2 DEF Waters
  <2>2. v \in BandRisks /\ Waters(d, r, b, v) = {Volta(v)}
    BY <2>1 DEF If
  <2>3. Volta(v).weight = 20 /\ Volta(v).risk = v
    BY DEF Volta, Reading
  <2>4. Mean({Volta(v)}) = 100 * v
    BY <1>m, <2>2, <2>3, MeanOfOne
  <2> QED BY <1>1, <1>2, <1>m, <2>2, <2>4 DEF WatersMean, Chance, Whole
<1>3. CASE d = "Tamale"
  <2>1. Waters(d, r, b, v) = If({River(r)}, r # Missing) \cup If({Bagre(b)}, b # Missing)
    BY <1>3 DEF Waters
  <2>2. /\ River(r).weight = 20 /\ River(r).risk = r /\ River(r).name = "river_gauge"
        /\ Bagre(b).weight = 12 /\ Bagre(b).risk = b /\ Bagre(b).name # "river_gauge"
    BY DEF River, Bagre, Reading
  <2>3. CASE b = Missing
    <3>1. r \in BandRisks /\ Waters(d, r, b, v) = {River(r)}
      BY <2>1, <2>3 DEF If
    <3>2. Mean({River(r)}) = 100 * r
      BY <1>m, <2>2, <3>1, MeanOfOne
    <3> QED BY <1>1, <1>3, <1>m, <2>3, <3>1, <3>2 DEF WatersMean, Chance, Whole
  <2>4. CASE b # Missing /\ r = Missing
    <3>1. b \in BandRisks /\ Waters(d, r, b, v) = {Bagre(b)}
      BY <2>1, <2>4 DEF If
    <3>2. Mean({Bagre(b)}) = 100 * b
      BY <1>m, <2>2, <3>1, MeanOfOne
    <3> QED BY <1>1, <1>3, <1>m, <2>4, <3>1, <3>2 DEF WatersMean, Chance, Whole
  <2>5. CASE b # Missing /\ r # Missing
    <3>1. r \in BandRisks /\ b \in BandRisks /\ Waters(d, r, b, v) = {River(r), Bagre(b)}
      BY <2>1, <2>5 DEF If
    <3>2. River(r) # Bagre(b)
      BY <2>2
    <3>3. /\ River(r).weight \in Nat /\ River(r).risk \in Nat
          /\ Bagre(b).weight \in Nat /\ Bagre(b).risk \in Nat
      BY <1>m, <2>2, <3>1
    <3>4. Mean({River(r), Bagre(b)}) = (100 * (20 * r + 12 * b)) \div 32
      <4>1. Mean({River(r), Bagre(b)}) =
              (100 * (River(r).weight * River(r).risk + Bagre(b).weight * Bagre(b).risk))
                \div (River(r).weight + Bagre(b).weight)
        BY <3>2, <3>3, MeanOfTwo
      <4> QED BY <2>2, <4>1
    <3> QED BY <1>1, <1>3, <1>m, <2>5, <3>1, <3>4 DEF WatersMean, Chance, Whole
  <2> QED BY <2>3, <2>4, <2>5
<1> QED BY <1>1, <1>2, <1>3

\* A higher level raises the mean, whichever are measured.
LEMMA WatersRise ==
  ASSUME NEW d, NEW r \in BandRisks \cup {Missing}, NEW b \in BandRisks \cup {Missing},
         NEW v \in BandRisks \cup {Missing}, Waters(d, r, b, v) # {},
         NEW r2 \in BandRisks \cup {Missing}, NEW b2 \in BandRisks \cup {Missing},
         NEW v2 \in BandRisks \cup {Missing},
         r = Missing <=> r2 = Missing, b = Missing <=> b2 = Missing, v = Missing <=> v2 = Missing,
         r <= r2, b <= b2, v <= v2
  PROVE  Waters(d, r2, b2, v2) # {}
         /\ Mean(Waters(d, r, b, v)) <= Mean(Waters(d, r2, b2, v2))
<1>1. Waters(d, r2, b2, v2) # {}
  BY DEF Waters, If
<1>2. WatersMean(d, r, b, v) <= WatersMean(d, r2, b2, v2)
  <2>1. r \in Int /\ b \in Int /\ v \in Int /\ r2 \in Int /\ b2 \in Int /\ v2 \in Int
    BY DEF BandRisks, Missing
  <2>2. CASE d = "Tema"
    BY <2>1, <2>2 DEF WatersMean
  <2>3. CASE d # "Tema" /\ b = Missing
    BY <2>1, <2>3 DEF WatersMean
  <2>4. CASE d # "Tema" /\ b # Missing /\ r = Missing
    BY <2>1, <2>4 DEF WatersMean
  <2>5. CASE d # "Tema" /\ b # Missing /\ r # Missing
    BY <2>1, <2>5 DEF WatersMean
  <2> QED BY <2>2, <2>3, <2>4, <2>5
<1> QED BY <1>1, <1>2, MeanOfWaters

\* Their mean, by the reports.
SightsMean(sat, n) ==
  IF sat = "confirmed" THEN IF n >= 3 THEN 9275 ELSE IF n \in 1 .. 2 THEN 8629 ELSE 9500
  ELSE IF n >= 3 THEN 9000 ELSE 6500

\* That is their mean.
LEMMA MeanOfSights ==
  ASSUME NEW sat, NEW n \in Nat, Sights(sat, n) # {}
  PROVE  Mean(Sights(sat, n)) = SightsMean(sat, n) /\ SightsMean(sat, n) \in Chance
<1>1. /\ Detection.weight = 22 /\ Detection.risk = 95
      /\ Many.weight = 18 /\ Many.risk = 90 /\ Few.weight = 9 /\ Few.risk = 65
      /\ Detection # Many /\ Detection # Few
  BY DEF Detection, Many, Few, Reading
<1>2. Mean({Detection}) = 9500 /\ Mean({Many}) = 9000 /\ Mean({Few}) = 6500
  BY <1>1, MeanOfOne
<1>3. Mean({Detection, Many}) = 9275 /\ Mean({Detection, Few}) = 8629
  <2>0. /\ Detection.weight \in Nat /\ Detection.risk \in Nat
        /\ Many.weight \in Nat /\ Many.risk \in Nat /\ Few.weight \in Nat /\ Few.risk \in Nat
    BY <1>1
  <2>1. Mean({Detection, Many}) = (100 * (22 * 95 + 18 * 90)) \div (22 + 18)
    <3>0. Detection # Many
      BY <1>1
    <3>1. Mean({Detection, Many}) =
            (100 * (Detection.weight * Detection.risk + Many.weight * Many.risk))
              \div (Detection.weight + Many.weight)
      BY <2>0, <3>0, MeanOfTwo
    <3> QED BY <1>1, <3>1
  <2>2. Mean({Detection, Few}) = (100 * (22 * 95 + 9 * 65)) \div (22 + 9)
    <3>0. Detection # Few
      BY <1>1
    <3>1. Mean({Detection, Few}) =
            (100 * (Detection.weight * Detection.risk + Few.weight * Few.risk))
              \div (Detection.weight + Few.weight)
      BY <2>0, <3>0, MeanOfTwo
    <3> QED BY <1>1, <3>1
  <2> QED BY <2>1, <2>2
<1>4. SightsMean(sat, n) \in Chance
  BY DEF SightsMean, Chance, Whole
<1>5. CASE sat = "confirmed" /\ n >= 3
  <2>1. Sights(sat, n) = {Detection, Many}
    BY <1>5 DEF Sights, If
  <2> QED BY <1>3, <1>4, <1>5, <2>1 DEF SightsMean
<1>6. CASE sat = "confirmed" /\ n \in 1 .. 2
  <2>1. Sights(sat, n) = {Detection, Few}
    BY <1>6 DEF Sights, If
  <2> QED BY <1>3, <1>4, <1>6, <2>1 DEF SightsMean
<1>7. CASE sat = "confirmed" /\ n = 0
  <2>1. Sights(sat, n) = {Detection}
    BY <1>7 DEF Sights, If
  <2> QED BY <1>2, <1>4, <1>7, <2>1 DEF SightsMean
<1>8. CASE sat # "confirmed" /\ n >= 3
  <2>1. Sights(sat, n) = {Many}
    BY <1>8 DEF Sights, If
  <2> QED BY <1>2, <1>4, <1>8, <2>1 DEF SightsMean
<1>9. CASE sat # "confirmed" /\ n < 3
  <2>1. Sights(sat, n) = {Few}
    BY <1>9 DEF Sights, If
  <2> QED BY <1>2, <1>4, <1>9, <2>1 DEF SightsMean
<1> QED BY <1>5, <1>6, <1>7, <1>8, <1>9

\* A further report and a new detection raise it, but for the first reports
\* beside a detection.
LEMMA SightsRise ==
  ASSUME NEW sat, NEW n \in Nat, Sights(sat, n) # {}, NEW sat2, NEW n2 \in Nat,
         \/ sat2 = sat /\ n <= n2 /\ (sat = "confirmed" => n > 0 \/ n2 = n)
         \/ sat # "confirmed" /\ sat2 = "confirmed" /\ n2 = n
  PROVE  Sights(sat2, n2) # {} /\ Mean(Sights(sat, n)) <= Mean(Sights(sat2, n2))
<1>1. Sights(sat2, n2) # {}
  BY DEF Sights, If
<1>2. SightsMean(sat, n) <= SightsMean(sat2, n2)
  <2>1. sat # "confirmed" => n > 0
    BY DEF Sights, If
  <2> QED BY <2>1 DEF SightsMean
<1> QED BY <1>1, <1>2, MeanOfSights
-----------------------------------------------------------------------------
(* The fusion. *)

\* The means are chances, and the fused risk leaves dry what they all leave dry.
Drys == [p \in Checked |-> Dry(p)]
FusionIs ==
  /\ Checked \subseteq Pathway /\ "pluvial" \in Checked
  /\ Mean(Present("pluvial")) = 100 * Score
  /\ \A p \in Checked : Mean(Present(p)) \in Chance
  /\ Drys \in [Checked -> Chance]
  /\ \E it : Joined(it, Drys, Checked) /\ Fused = Whole - it[Checked]

\* There are finitely many.
LEMMA PathwaysFinite == IsFiniteSet(Pathway) /\ \A S \in SUBSET Pathway : IsFiniteSet(S)
<1>1. IsFiniteSet(Pathway)
  BY Counted3, Zenon DEF Pathway
<1> QED BY <1>1, FS_Subset

\* The rain is always there, and every mean is a chance.
LEMMA Means ==
  EvidenceTypes => /\ "pluvial" \in Checked /\ Mean(Present("pluvial")) = 100 * Score
                   /\ \A p \in Checked : Mean(Present(p)) \in Chance
<1> SUFFICES ASSUME EvidenceTypes
             PROVE  /\ "pluvial" \in Checked /\ Mean(Present("pluvial")) = 100 * Score
                    /\ \A p \in Checked : Mean(Present(p)) \in Chance
  OBVIOUS
<1>1. PresentIs /\ Score \in Nat /\ Score <= 100
  BY Presents, Scores DEF ScoreIs
<1>2. "pluvial" \in Checked /\ Mean(Present("pluvial")) = 100 * Score /\ 100 * Score \in Chance
  BY <1>1, RainyMean DEF PresentIs, Checked, Pathway, Chance, Whole
<1>3. ASSUME "fluvial" \in Checked PROVE Mean(Present("fluvial")) \in Chance
  <2>1. Waters(district, Band("river_gauge"), Band("bagre_upstream_proxy"), Band("akosombo")) # {}
    BY <1>1, <1>3 DEF PresentIs, Checked
  <2>2. \A b \in Body : Band(b) \in BandRisks \cup {Missing}
    BY Bands
  <2>3. /\ Band("river_gauge") \in BandRisks \cup {Missing}
        /\ Band("bagre_upstream_proxy") \in BandRisks \cup {Missing}
        /\ Band("akosombo") \in BandRisks \cup {Missing}
    BY <2>2 DEF Body
  <2> QED BY <1>1, <2>1, <2>3, MeanOfWaters DEF PresentIs
<1>4. ASSUME "observation" \in Checked PROVE Mean(Present("observation")) \in Chance
  <2>1. Sights(satellite, Reports) # {} /\ Reports \in Nat
    BY <1>1, <1>4 DEF PresentIs, Checked, EvidenceTypes
  <2> QED BY <1>1, <2>1, MeanOfSights DEF PresentIs
<1> QED BY <1>2, <1>3, <1>4 DEF Checked, Pathway

\* _noisy_or is the product over the pathways, in whatever order.
LEMMA FusedJoins ==
  ASSUME Checked \subseteq Pathway, Drys \in [Checked -> Chance]
  PROVE  \E it : Joined(it, Drys, Checked) /\ Fused = Whole - it[Checked]
<1>0. PICK S : S = Checked
  OBVIOUS
<1> DEFINE Entry(it, s) == IF s = {} THEN 10000
                          ELSE LET x == CHOOSE x \in s : TRUE IN (it[s \ {x}] * Dry(x)) \div 10000
           Entries(it) == [s \in SUBSET S |-> Entry(it, s)]
<1>1. ASSUME NEW it PROVE it = Entries(it) <=> Joined(it, Drys, S)
  <2>1. ASSUME NEW s \in SUBSET S, s # {} PROVE Drys[Chosen(s)] = Dry(Chosen(s))
    BY <1>0, <2>1, ChosenIn DEF Drys
  <2>2. \A s \in SUBSET S : Entry(it, s) =
          IF s = {} THEN Whole ELSE Times(it[s \ {Chosen(s)}], Drys[Chosen(s)])
    BY <2>1 DEF Chosen, Times, Whole
  <2> HIDE DEF Entry
  <2>3. Entries(it) =
          [s \in SUBSET S |-> IF s = {} THEN Whole ELSE Times(it[s \ {Chosen(s)}], Drys[Chosen(s)])]
    BY <2>2
  <2> QED BY <2>3 DEF Joined
<1>2. \E it : it = Entries(it)
  <2>1. IsFiniteSet(S) /\ Drys \in [S -> Chance]
    BY <1>0, PathwaysFinite
  <2>2. \E it : Joined(it, Drys, S)
    BY <2>1, JoinExists
  <2> HIDE DEF Entries, Entry
  <2> QED BY <1>1, <2>2
<1>3. Fused = 10000 - (CHOOSE it : it = Entries(it))[S]
  BY <1>0 DEF Fused, FoldSet, MapThenFoldSet
<1> HIDE DEF Entries, Entry
<1>4. (CHOOSE it : it = Entries(it)) = Entries(CHOOSE it : it = Entries(it))
  BY <1>2
<1>5. PICK it : it = Entries(it) /\ Fused = 10000 - it[S]
  <2> DEFINE c == CHOOSE it : it = Entries(it)
  <2>1. c = Entries(c) /\ Fused = 10000 - c[S]
    BY <1>3, <1>4
  <2> HIDE DEF c
  <2> QED BY <2>1
<1>6. Joined(it, Drys, S)
  BY <1>1, <1>5
<1> QED BY <1>0, <1>5, <1>6 DEF Whole

\* So the fusion of the evidence is as described.
LEMMA Fusion == EvidenceTypes => FusionIs
<1> SUFFICES ASSUME EvidenceTypes PROVE FusionIs
  OBVIOUS
<1>1. Checked \subseteq Pathway
  BY DEF Checked
<1>2. Drys \in [Checked -> Chance]
  <2>1. ASSUME NEW p \in Checked PROVE Dry(p) \in Chance
    <3>1. Mean(Present(p)) \in Chance
      BY Means
    <3> QED BY <3>1 DEF Dry, Chance, Whole
  <2> QED BY <2>1 DEF Drys
<1> QED BY <1>1, <1>2, Means, FusedJoins DEF FusionIs

\* Nothing is averaged away: the fused risk is what the pathways do not all
\* leave dry, so it is no less than any one's (multi_source_confidence.py).
LEMMA FusedCovers == FusionIs => \A p \in Checked : Fused >= Mean(Present(p))
<1> SUFFICES ASSUME FusionIs, NEW p \in Checked PROVE Fused >= Mean(Present(p))
  OBVIOUS
<1>1. PICK it : Joined(it, Drys, Checked) /\ Fused = Whole - it[Checked]
  BY DEF FusionIs
<1>2. IsFiniteSet(Checked) /\ Drys \in [Checked -> Chance]
  BY PathwaysFinite DEF FusionIs
<1>3. it[Checked] \in Chance /\ it[Checked] <= Drys[p]
  BY <1>1, <1>2, JoinBounds
<1>4. Drys[p] = Whole - Mean(Present(p)) /\ Mean(Present(p)) \in Chance
  BY DEF Drys, Dry, Whole, FusionIs
<1> QED BY <1>1, <1>3, <1>4 DEF Chance, Whole

\* A higher risk is in no lower a tier.
LEMMA TierGrows ==
  ASSUME NEW a \in Int, NEW b \in Int, a <= b
  PROVE  Tier(a) \in 0 .. 4 /\ Tier(a) <= Tier(b)
BY TierIs

\* No pathway's risk, and so no tier, is above the fused one.
LEMMA Unaveraged == EvidenceTypes => NothingAveragedAway
<1> SUFFICES ASSUME EvidenceTypes PROVE NothingAveragedAway
  OBVIOUS
<1>1. FusionIs /\ ScoreIs
  BY Fusion, Scores
<1>2. \A p \in Checked : Fused >= Mean(Present(p))
  BY <1>1, FusedCovers
<1>3. Fused >= 100 * Score
  BY <1>1, <1>2 DEF FusionIs
<1>4. Fused \in Int /\ 100 * Score \in Int
  <2>1. PICK it : Joined(it, Drys, Checked) /\ Fused = Whole - it[Checked]
    BY <1>1 DEF FusionIs
  <2>2. it[Checked] \in Chance
    BY <1>1, <2>1, PathwaysFinite, JoinBounds DEF FusionIs
  <2> QED BY <1>1, <2>1, <2>2 DEF Chance, Whole, ScoreIs
<1>5. Tier(Fused) >= Tier(100 * Score)
  <2>1. Tier(100 * Score) \in 0 .. 4 /\ Tier(Fused) \in 0 .. 4 /\ Tier(100 * Score) <= Tier(Fused)
    BY <1>3, <1>4, TierGrows
  <2> QED BY <2>1
<1> QED BY <1>2, <1>5 DEF NothingAveragedAway

\* The types hold throughout.
LEMMA EvidenceHolds == EvidenceSpec => []EvidenceTypes
BY EvidenceStarts, EvidenceStays, PTL DEF EvidenceSpec

\* Whatever rain, levels, detections and reports there are and whatever is missing,
\* fuse_sources and combine_pathways give a risk no lower than that of any pathway,
\* nor a tier lower than that of the rain alone (multi_source_confidence.py).
THEOREM NoneAveragedAway == EvidenceSpec => []NothingAveragedAway
BY EvidenceHolds, Unaveraged, PTL

\* With a further factor, or smaller ones, a product over pathways is no greater.
LEMMA JoinShrinks ==
  ASSUME NEW S \in SUBSET Pathway, NEW T \in SUBSET Pathway, S \subseteq T,
         NEW d \in [S -> Chance], NEW e \in [T -> Chance], \A p \in S : e[p] <= d[p],
         NEW it, Joined(it, d, S), NEW jt, Joined(jt, e, T)
  PROVE  jt[T] <= it[S]
<1>1. IsFiniteSet(S) /\ IsFiniteSet(T)
  BY PathwaysFinite
<1>2. CASE S = T
  BY <1>1, <1>2, JoinCompare
<1>3. CASE S = {}
  <2>1. it[S] = Whole /\ jt[T] \in Chance
    BY <1>1, <1>3, JoinBounds DEF Joined
  <2> QED BY <2>1 DEF Chance
<1>4. ASSUME NEW x \in S, S = {x} PROVE jt[T] <= it[S]
  <2>1. Chosen(S) = x /\ it[S \ {x}] = Whole /\ it[S] = Times(it[S \ {Chosen(S)}], d[Chosen(S)])
    BY <1>4, ChosenIn DEF Joined
  <2>2. it[S] = Times(Whole, d[x]) /\ d[x] \in Chance /\ e[x] \in Chance
    BY <2>1
  <2>3. it[S] = d[x]
    BY <2>2 DEF Times, Whole, Chance
  <2>4. jt[T] <= e[x] /\ jt[T] \in Chance
    BY <1>1, JoinBounds
  <2> QED BY <2>2, <2>3, <2>4 DEF Chance
<1>5. ASSUME NEW x \in S, NEW y \in S, x # y, S = {x, y}, x = Chosen(S) PROVE jt[T] <= it[S]
  <2>1. S \ {x} = {y} /\ Chosen({y}) = y /\ {y} \ {y} = {}
    BY <1>5, ChosenIn
  <2>a. S # {} /\ {y} # {} /\ {y} \in SUBSET S /\ {} \in SUBSET S
    BY <1>5
  <2>b. it[S] = Times(it[S \ {Chosen(S)}], d[Chosen(S)])
    BY <2>a DEF Joined
  <2>c. it[{y}] = Times(it[{y} \ {Chosen({y})}], d[Chosen({y})])
    BY <2>a DEF Joined
  <2>d. it[{}] = Whole
    BY <2>a DEF Joined
  <2>2. it[S] = Times(it[{y}], d[x]) /\ it[{y}] = Times(it[{}], d[y]) /\ it[{}] = Whole
    BY <1>5, <2>1, <2>b, <2>c, <2>d
  <2>3. d[x] \in Chance /\ d[y] \in Chance /\ e[x] \in Chance /\ e[y] \in Chance
        /\ e[x] <= d[x] /\ e[y] <= d[y]
    OBVIOUS
  <2>4. it[{y}] = d[y]
    BY <2>2, <2>3 DEF Times, Whole, Chance
  <2>5. jt[T] <= Times(e[y], e[x]) /\ jt[T] \in Chance
    BY <1>1, <1>5, JoinBounds
  <2>6. Times(e[y], e[x]) <= Times(d[y], d[x])
    BY <2>3, ProductGrows
  <2>7. Times(e[y], e[x]) \in Chance /\ Times(d[y], d[x]) \in Chance
    BY <2>3, Product
  <2> QED BY <2>2, <2>4, <2>5, <2>6, <2>7 DEF Chance
<1>6. \/ S = T \/ S = {} \/ (\E x \in S : S = {x})
      \/ \E x, y \in S : x # y /\ S = {x, y} /\ x = Chosen(S)
  <2>1. CASE S = Pathway
    BY <2>1
  <2>2. CASE S # Pathway /\ S # {}
    <3>1. Chosen(S) \in S
      BY <2>2, ChosenIn
    <3>2. PICK q \in Pathway : q \notin S
      BY <2>2
    <3>3. S \subseteq Pathway \ {q}
      BY <3>2
    <3>4. PICK a, b : a # b /\ Pathway \ {q} = {a, b}
      <4>1. CASE q = "pluvial"
        BY <4>1 DEF Pathway
      <4>2. CASE q = "fluvial"
        BY <4>2 DEF Pathway
      <4>3. CASE q = "observation"
        BY <4>3 DEF Pathway
      <4> QED BY <4>1, <4>2, <4>3 DEF Pathway
    <3>5. S \subseteq {a, b}
      BY <3>3, <3>4
    <3> HIDE DEF Chosen
    <3>6. CASE Chosen(S) = a
      BY <3>1, <3>4, <3>5, <3>6
    <3>7. CASE Chosen(S) = b
      BY <3>1, <3>4, <3>5, <3>7
    <3> QED BY <3>1, <3>5, <3>6, <3>7
  <2> QED BY <2>1, <2>2
<1> QED BY <1>2, <1>3, <1>4, <1>5, <1>6
-----------------------------------------------------------------------------
(* Worse evidence. *)

\* What is so in every state is so in the next.
LEMMA EvidenceNext ==
  EvidenceTypes' => ScoreIs' /\ PresentIs' /\ FusionIs' /\ NothingAveragedAway'
<1>1. EvidenceTypes => ScoreIs /\ PresentIs /\ FusionIs /\ NothingAveragedAway
  BY Scores, Presents, Fusion, Unaveraged
<1> QED BY <1>1, PTL

\* So with the bands.
LEMMA BandsNext ==
  EvidenceTypes' => (\A b \in Body : Band(b) = BandOf(level[b], scale[b])
                                     /\ Band(b) \in BandRisks \cup {Missing})'
BY Bands, PTL

\* Nothing moves the district and the histories.
LEMMA SamePlace == [EvidenceMoves]_evidence => UNCHANGED <<district, scale>>
BY DEF EvidenceMoves, Rain, Gauge, SatellitePass, Verify, LookupTurns, evidence

\* No district has fewer people.
Fewest == 100000

\* The figures of a district are constant.
FactsAre ==
  /\ Facts.people \in Nat /\ Facts.people >= Fewest
  /\ Facts.schools \in Nat /\ Facts.hospitals \in Nat /\ Facts.markets \in Nat
  /\ Facts.area \in Nat /\ Facts.children \in Nat /\ Facts.elderly \in Nat

\* They are what impact_estimator.py has.
LEMMA FactsKnown == EvidenceTypes => FactsAre
<1> SUFFICES ASSUME EvidenceTypes PROVE FactsAre
  OBVIOUS
<1>1. CASE district = "AccraCentral"
  BY <1>1, SMT DEF Facts, FactsAre, Fewest
<1>2. CASE district = "Tema"
  BY <1>2, SMT DEF Facts, FactsAre, Fewest
<1>3. CASE district = "Kumasi"
  BY <1>3, SMT DEF Facts, FactsAre, Fewest
<1>4. CASE district = "Tamale"
  BY <1>4, SMT DEF Facts, FactsAre, Fewest
<1>5. CASE district = "Ho"
  BY <1>5, SMT DEF Facts, FactsAre, Fewest
<1> QED BY <1>1, <1>2, <1>3, <1>4, <1>5 DEF EvidenceTypes, District

\* Worse evidence leaves every pathway that was there, and raises its mean.
LEMMA WorseMeans ==
  ASSUME EvidenceTypes, EvidenceTypes', [EvidenceMoves]_evidence, Worse, Score <= Score'
  PROVE  \A p \in Checked : p \in Checked' /\ Mean(Present(p)) <= Mean(Present(p))'
<1>0. /\ PresentIs /\ FusionIs /\ ScoreIs /\ PresentIs' /\ FusionIs' /\ ScoreIs'
      /\ UNCHANGED <<district, scale>>
  BY Presents, Fusion, Scores, EvidenceNext, SamePlace
<1>1. "pluvial" \in Checked' /\ Mean(Present("pluvial")) <= Mean(Present("pluvial"))'
  BY <1>0 DEF FusionIs, ScoreIs
<1>2. ASSUME "fluvial" \in Checked
      PROVE  "fluvial" \in Checked' /\ Mean(Present("fluvial")) <= Mean(Present("fluvial"))'
  <2>1. \A b \in Body : /\ Band(b) = BandOf(level[b], scale[b])
                        /\ Band(b) \in BandRisks \cup {Missing}
                        /\ Band(b)' = BandOf(level'[b], scale[b])
                        /\ Band(b)' \in BandRisks \cup {Missing}
    BY <1>0, Bands, BandsNext
  <2>2. \A b \in Body : level'[b] = level[b] \/ (level[b] # Down /\ level'[b] > level[b])
    BY DEF Worse
  <2>3. ASSUME NEW b \in Body
        PROVE  (Band(b) = Missing <=> Band(b)' = Missing) /\ Band(b) <= Band(b)'
    <3>1. CASE level'[b] = level[b]
      <4>1. Band(b)' = Band(b) /\ Band(b) \in Int
        BY <2>1, <3>1 DEF BandRisks, Missing
      <4> QED BY <4>1
    <3>2. CASE level[b] # Down /\ level'[b] > level[b]
      <4>1. level[b] \in Nat /\ scale[b] \in Scales \cup {<< >>} /\ level'[b] \in Levels \cup {Down}
        BY <3>2, LevelAssumption DEF EvidenceTypes
      <4>2. level'[b] \in Nat
        <5>1. CASE level'[b] \in Levels
          BY <5>1, LevelAssumption
        <5>2. CASE level'[b] = -1
          BY <3>2, <4>1, <5>2
        <5> QED BY <4>1, <5>1, <5>2 DEF Down
      <4> QED BY <2>1, <3>2, <4>1, <4>2, BandGrows
    <3> QED BY <2>2, <3>1, <3>2
  <2>4. "river_gauge" \in Body /\ "bagre_upstream_proxy" \in Body /\ "akosombo" \in Body
    BY DEF Body
  <2>5. Waters(district, Band("river_gauge"), Band("bagre_upstream_proxy"), Band("akosombo")) # {}
    BY <1>0, <1>2 DEF PresentIs, Checked
  <2>6. PICK r, b, v, r2, b2, v2 :
          /\ r = Band("river_gauge") /\ b = Band("bagre_upstream_proxy") /\ v = Band("akosombo")
          /\ r2 = Band("river_gauge")' /\ b2 = Band("bagre_upstream_proxy")'
          /\ v2 = Band("akosombo")'
    OBVIOUS
  <2>7. /\ r \in BandRisks \cup {Missing} /\ b \in BandRisks \cup {Missing}
        /\ v \in BandRisks \cup {Missing} /\ r2 \in BandRisks \cup {Missing}
        /\ b2 \in BandRisks \cup {Missing} /\ v2 \in BandRisks \cup {Missing}
    BY <2>1, <2>4, <2>6
  <2>8. /\ r = Missing <=> r2 = Missing
        /\ b = Missing <=> b2 = Missing
        /\ v = Missing <=> v2 = Missing
        /\ r <= r2 /\ b <= b2 /\ v <= v2
    BY <2>3, <2>4, <2>6
  <2>9. Present("fluvial") = Waters(district, r, b, v)
        /\ Present("fluvial")' = Waters(district, r2, b2, v2)
    BY <1>0, <2>6 DEF PresentIs
  <2>10. Waters(district, r2, b2, v2) # {}
         /\ Mean(Waters(district, r, b, v)) <= Mean(Waters(district, r2, b2, v2))
    BY <2>5, <2>6, <2>7, <2>8, WatersRise
  <2> QED BY <2>9, <2>10 DEF Checked, Pathway
<1>3. ASSUME "observation" \in Checked
      PROVE  "observation" \in Checked' /\ Mean(Present("observation")) <= Mean(Present("observation"))'
  <2>1. Sights(satellite, Reports) # {} /\ Reports \in Nat /\ Reports' \in Nat
    BY <1>0, <1>3 DEF PresentIs, Checked, EvidenceTypes
  <2>2. \/ satellite' = satellite /\ Reports <= Reports'
           /\ (satellite = "confirmed" => Reports > 0 \/ Reports' = Reports)
        \/ satellite # "confirmed" /\ satellite' = "confirmed" /\ Reports' = Reports
    BY <2>1 DEF Worse
  <2>3. Sights(satellite', Reports') # {}
        /\ Mean(Sights(satellite, Reports)) <= Mean(Sights(satellite', Reports'))
    BY <2>1, <2>2, SightsRise
  <2> QED BY <1>0, <2>3 DEF PresentIs, Checked, Pathway
<1> QED BY <1>1, <1>2, <1>3 DEF Checked, Pathway

\* And so it raises the fused risk.
LEMMA WorseFuses ==
  ASSUME EvidenceTypes, EvidenceTypes', [EvidenceMoves]_evidence, Worse, Score <= Score'
  PROVE  Fused' >= Fused
<1>0. FusionIs /\ FusionIs'
  BY Fusion, EvidenceNext
<1>1. PICK it : Joined(it, Drys, Checked) /\ Fused = Whole - it[Checked]
  BY <1>0 DEF FusionIs
<1>2. PICK jt : Joined(jt, Drys', Checked') /\ Fused' = Whole - jt[Checked']
  BY <1>0 DEF FusionIs
<1>3. /\ Checked \in SUBSET Pathway /\ Checked' \in SUBSET Pathway
      /\ Drys \in [Checked -> Chance] /\ Drys' \in [Checked' -> Chance]
  BY <1>0 DEF FusionIs, Pathway
<1>4. Checked \subseteq Checked'
  BY WorseMeans
<1>5. ASSUME NEW p \in Checked PROVE Drys'[p] <= Drys[p]
  <2>1. p \in Checked' /\ Mean(Present(p)) <= Mean(Present(p))'
    BY WorseMeans
  <2>2. Mean(Present(p)) \in Chance /\ Mean(Present(p))' \in Chance
    BY <1>0, <2>1 DEF FusionIs
  <2>3. Drys[p] = 10000 - Mean(Present(p)) /\ Drys'[p] = 10000 - Mean(Present(p))'
    BY <2>1 DEF Drys, Dry
  <2> QED BY <2>1, <2>2, <2>3 DEF Chance
<1>6. jt[Checked'] <= it[Checked]
  <2>1. PICK S, T, d, e : S = Checked /\ T = Checked' /\ d = Drys /\ e = Drys'
    OBVIOUS
  <2>2. jt[T] <= it[S]
    BY <1>1, <1>2, <1>3, <1>4, <1>5, <2>1, JoinShrinks
  <2> QED BY <2>1, <2>2
<1>7. it[Checked] \in Chance /\ jt[Checked'] \in Chance
  <2>1. PICK S, T, d, e : S = Checked /\ T = Checked' /\ d = Drys /\ e = Drys'
    OBVIOUS
  <2>2. it[S] \in Chance /\ jt[T] \in Chance
    BY <1>1, <1>2, <1>3, <2>1, PathwaysFinite, JoinBounds
  <2> QED BY <2>1, <2>2
<1> QED BY <1>1, <1>2, <1>6, <1>7 DEF Chance, Whole

\* The greater of two.
LEMMA MaxTwo ==
  ASSUME NEW a \in Int, NEW b \in Int
  PROVE  Max({a, b}) = IF a >= b THEN a ELSE b
<1>1. \E x \in {a, b} : \A y \in {a, b} : x >= y
  OBVIOUS
<1>2. Max({a, b}) \in {a, b} /\ \A y \in {a, b} : Max({a, b}) >= y
  BY <1>1 DEF Max
<1> QED BY <1>2

\* A score's tier.
TierOf(s) == IF s < 30 THEN 0 ELSE IF s < 50 THEN 1 ELSE IF s < 70 THEN 2 ELSE IF s < 85 THEN 3 ELSE 4

\* The rain's tier is the score's.
LEMMA RainTiers == ScoreIs => RainTier = TierOf(Score) /\ TierOf(Score) \in 0 .. 4
<1> SUFFICES ASSUME ScoreIs PROVE RainTier = TierOf(Score) /\ TierOf(Score) \in 0 .. 4
  OBVIOUS
<1>1. Score \in Nat /\ 100 * Score \in Int
  BY DEF ScoreIs
<1>2. \A r \in Int : Tier(r) = IF r < 3000 THEN 0 ELSE IF r < 5000 THEN 1 ELSE IF r < 7000 THEN 2
                              ELSE IF r < 8500 THEN 3 ELSE 4
  BY TierIs
<1>3. RainTier = IF 100 * Score < 3000 THEN 0 ELSE IF 100 * Score < 5000 THEN 1
                 ELSE IF 100 * Score < 7000 THEN 2 ELSE IF 100 * Score < 8500 THEN 3 ELSE 4
  BY <1>1, <1>2 DEF RainTier
<1> QED BY <1>1, <1>3 DEF TierOf

LEMMA RainTiersNext == ScoreIs' => (RainTier = TierOf(Score) /\ TierOf(Score) \in 0 .. 4)'
<1>1. ScoreIs => RainTier = TierOf(Score) /\ TierOf(Score) \in 0 .. 4
  BY RainTiers
<1> QED BY <1>1, PTL

\* The parts of the estimate grow with the score.
ExposedAt(n, s) == (n * s * 6) \div 1000
CostAt(n, s) == IF TierOf(s) = 0 THEN 5000
                ELSE (ExposedAt(n, s) * <<125, 800, 1500, 1500>>[TierOf(s)]) \div 100

\* They do.
LEMMA PartsGrow ==
  ASSUME NEW n \in Nat, NEW s \in Nat, NEW t \in Nat, s <= t
  PROVE  /\ ExposedAt(n, s) \in Nat /\ ExposedAt(n, t) \in Nat
         /\ ExposedAt(n, s) <= ExposedAt(n, t)
<1>1. n * s \in Nat /\ n * t \in Nat /\ n * s <= n * t
  OBVIOUS
<1>2. ASSUME NEW a \in Nat, NEW b \in Nat, a <= b
      PROVE  /\ (a * 6) \div 1000 \in Nat /\ (b * 6) \div 1000 \in Nat
             /\ (a * 6) \div 1000 <= (b * 6) \div 1000
  BY <1>2, SMT
<1>3. PICK a \in Nat, b \in Nat : a = n * s /\ b = n * t /\ a <= b
  BY <1>1
<1> QED BY <1>2, <1>3 DEF ExposedAt

\* What a score in per cent takes of k facilities.
HitAt(k, z) == (k * z) \div 200
\* More of them, the higher the score.
LEMMA HitsGrow ==
  ASSUME NEW k \in Nat, NEW s \in Nat, NEW t \in Nat, s <= t
  PROVE  HitAt(k, s) \in Nat /\ HitAt(k, t) \in Nat /\ HitAt(k, s) <= HitAt(k, t)
<1>1. PICK a \in Nat, b \in Nat : a = k * s /\ b = k * t /\ a <= b
  OBVIOUS
<1>2. a \div 200 <= b \div 200 /\ a \div 200 \in Nat /\ b \div 200 \in Nat
  BY <1>1, SMT
<1> QED BY <1>1, <1>2 DEF HitAt

\* A share of more is more.
LEMMA ShareGrows ==
  ASSUME NEW x \in Nat, NEW y \in Nat, NEW k \in Nat, x <= y
  PROVE  (x * k) \div 100 <= (y * k) \div 100
<1>1. x * k \in Nat /\ y * k \in Nat /\ x * k <= y * k
  OBVIOUS
<1>2. \A a, b \in Nat : a <= b => a \div 100 <= b \div 100
  OBVIOUS
<1> QED BY <1>1, <1>2

\* The cost does as well, although a quiet day has its own: from MODERATE on a
\* district of this size costs more.
LEMMA CostGrows ==
  ASSUME NEW n \in Nat, n >= Fewest, NEW s \in Nat, NEW t \in Nat, s <= t
  PROVE  CostAt(n, s) <= CostAt(n, t)
<1> DEFINE rate(k) == <<125, 800, 1500, 1500>>[k]
<1>1. TierOf(s) \in 0 .. 4 /\ TierOf(t) \in 0 .. 4 /\ TierOf(s) <= TierOf(t)
  BY DEF TierOf
<1>2. \A k \in 1 .. 4 : rate(k) \in Nat /\ rate(k) >= 125
  OBVIOUS
<1>3. \A k, l \in 1 .. 4 : k <= l => rate(k) <= rate(l)
  OBVIOUS
<1> HIDE DEF rate
<1>4. PICK x \in Nat, y \in Nat : x = ExposedAt(n, s) /\ y = ExposedAt(n, t) /\ x <= y
  <2>1. ExposedAt(n, s) \in Nat /\ ExposedAt(n, t) \in Nat /\ ExposedAt(n, s) <= ExposedAt(n, t)
    BY PartsGrow
  <2> QED BY <2>1
<1>5. CostAt(n, s) = IF TierOf(s) = 0 THEN 5000 ELSE (x * rate(TierOf(s))) \div 100
  BY <1>4 DEF CostAt, rate
<1>6. CostAt(n, t) = IF TierOf(t) = 0 THEN 5000 ELSE (y * rate(TierOf(t))) \div 100
  BY <1>4 DEF CostAt, rate
<1>7. CASE TierOf(t) = 0
  BY <1>1, <1>5, <1>6, <1>7
<1>8. CASE TierOf(s) = 0 /\ TierOf(t) # 0
  <2>1. t >= 30
    BY <1>8 DEF TierOf
  <2>2. n * t >= 3000000
    BY <2>1 DEF Fewest
  <2>3. y >= 18000
    <3>1. PICK a \in Nat : a = n * t
      OBVIOUS
    <3>2. y = (a * 6) \div 1000
      BY <1>4, <3>1 DEF ExposedAt
    <3> QED BY <2>2, <3>1, <3>2
  <2>4. PICK k \in Nat : k = rate(TierOf(t)) /\ k >= 125
    BY <1>1, <1>2, <1>8
  <2>5. y * k >= 18000 * 125 /\ y * k \in Nat
    BY <2>3, <2>4
  <2>6. PICK a \in Nat : a = y * k /\ a >= 18000 * 125
    BY <2>5
  <2>7. a \div 100 >= 5000
    BY <2>6
  <2> QED BY <1>5, <1>6, <1>8, <2>4, <2>6, <2>7
<1>9. CASE TierOf(s) # 0
  <2>1. TierOf(s) \in 1 .. 4 /\ TierOf(t) \in 1 .. 4
    BY <1>1, <1>9
  <2>2. PICK k \in Nat, l \in Nat : k = rate(TierOf(s)) /\ l = rate(TierOf(t)) /\ k <= l
    BY <1>1, <1>2, <1>3, <2>1
  <2>3. x * k \in Nat /\ y * l \in Nat /\ x * k <= y * k /\ y * k <= y * l /\ y * k \in Nat
    BY <1>4, <2>2
  <2>4. \A a, b \in Nat : a <= b => a \div 100 <= b \div 100
    OBVIOUS
  <2>5. (x * k) \div 100 <= (y * l) \div 100
    BY <2>3, <2>4
  <2> QED BY <1>5, <1>6, <2>1, <2>2, <2>5
<1> QED BY <1>7, <1>8, <1>9

\* The lead time by tier, and how it falls.
LEMMA LeadTimes ==
  ASSUME NEW k \in 0 .. 4, NEW l \in 0 .. 4, k <= l
  PROVE  <<72, 24, 6, 3, 2>>[1 + l] <= <<72, 24, 6, 3, 2>>[1 + k]
OBVIOUS

\* Around the dip the risk is EXTREME.
LEMMA DipIsExtreme ==
  ASSUME NEW d, NEW m \in Nat, m \in 47 .. 49 \/ m \in 50 .. 67
  PROVE  TierOf(TenthsOf(d, m) \div 10) = 4
<1>1. Curve(m) >= 950
  <2>1. Min({1000, 950 + (m - 50) * 2}) = IF 1000 <= 950 + (m - 50) * 2 THEN 1000 ELSE 950 + (m - 50) * 2
    <3>1. \A a \in Int : Min({1000, a}) = IF 1000 <= a THEN 1000 ELSE a
      BY MinTwo
    <3> QED BY <3>1
  <2>2. CASE m \in 47 .. 49
    BY <2>2 DEF Curve
  <2>3. CASE m \in 50 .. 67
    BY <2>1, <2>3 DEF Curve
  <2> QED BY <2>2, <2>3
<1>2. TenthsOf(d, m) \in Nat /\ TenthsOf(d, m) >= 950
  <2>1. TenthsOf(d, m) \in Nat /\ Curve(m) <= TenthsOf(d, m) /\ Curve(m) \in Nat
    BY TenthsIs, CurveIs
  <2> QED BY <1>1, <2>1
<1>3. TenthsOf(d, m) \div 10 >= 95
  BY <1>2
<1>4. TenthsOf(d, m) \div 10 \in Nat
  BY <1>2
<1> QED BY <1>3, <1>4 DEF TierOf

\* What the figures are, in a state of the evidence.
FiguresAre ==
  /\ FactsAre
  /\ Exposed = ExposedAt(Facts.people, Score)
  /\ Cost = CostAt(Facts.people, Score)
  /\ LeadTime = <<72, 24, 6, 3, 2>>[1 + TierOf(Score)]

\* They are that.
LEMMA Figures == EvidenceTypes => FiguresAre
<1> SUFFICES ASSUME EvidenceTypes PROVE FiguresAre
  OBVIOUS
<1>1. FactsAre /\ ScoreIs /\ RainTier = TierOf(Score)
  BY FactsKnown, Scores, RainTiers
<1>2. Exposed = ExposedAt(Facts.people, Score)
  BY DEF Exposed, ExposedAt
<1>3. Cost = CostAt(Facts.people, Score)
  BY <1>1, <1>2 DEF Cost, CostAt
<1>4. LeadTime = <<72, 24, 6, 3, 2>>[1 + TierOf(Score)]
  BY <1>1 DEF LeadTime
<1> QED BY <1>1, <1>2, <1>3, <1>4 DEF FiguresAre

LEMMA FiguresNext == EvidenceTypes' => FiguresAre'
BY Figures, PTL

\* The sum of the losses.
LossAt(x, s, h, m, k, r) == (x \div 4) * 8 + s * 400 + h * 1500 + m * 250 + k * 800 + r \div 1000

SubstationsAt(x, n) == IF x = 0 THEN 0 ELSE Max({1, n \div 75000})

\* More people, no fewer substations.
LEMMA SubstationsGrow ==
  ASSUME NEW x \in Nat, NEW y \in Nat, x <= y, NEW n \in Nat
  PROVE  SubstationsAt(x, n) \in Nat /\ SubstationsAt(y, n) \in Nat
         /\ SubstationsAt(x, n) <= SubstationsAt(y, n)
<1>1. n \div 75000 \in Nat
  BY SMT
<1>2. Max({1, n \div 75000}) = IF 1 >= n \div 75000 THEN 1 ELSE n \div 75000
  <2>1. \A a \in Nat : Max({1, a}) = IF 1 >= a THEN 1 ELSE a
    BY MaxTwo
  <2> QED BY <1>1, <2>1, SMT
<1>3. Max({1, n \div 75000}) \in Nat
  BY <1>1, <1>2, SMT
<1> QED BY <1>3, SMT DEF SubstationsAt

\* The weight of the rain in the loss.
Soaked(a, m) == a * 300 * (IF 100 <= m THEN 100 ELSE m)
\* More rain, no less of the area.
LEMMA SoakedGrows ==
  ASSUME NEW a \in Nat, NEW m \in Nat, NEW n \in Nat, m <= n
  PROVE  Soaked(a, m) \in Nat /\ Soaked(a, n) \in Nat /\ Soaked(a, m) <= Soaked(a, n)
<1>1. PICK x \in Nat, y \in Nat : /\ x = (IF 100 <= m THEN 100 ELSE m)
                                  /\ y = (IF 100 <= n THEN 100 ELSE n) /\ x <= y
  OBVIOUS
<1>2. PICK b \in Nat : b = a * 300
  OBVIOUS
<1>3. b * x \in Nat /\ b * y \in Nat /\ b * x <= b * y
  BY <1>1
<1> QED BY <1>1, <1>2, <1>3 DEF Soaked

\* The loss is that of the figures.
LossIs ==
  /\ Loss = LossAt(Exposed, HitAt(Facts.schools, Score), HitAt(Facts.hospitals, Score),
                   HitAt(Facts.markets, Score), SubstationsAt(Exposed, Facts.people),
                   Soaked(Facts.area, rain))

\* The loss is the sum of these.
LEMMA Losses == EvidenceTypes => LossIs
<1> SUFFICES ASSUME EvidenceTypes PROVE LossIs
  OBVIOUS
<1>1. Substations = SubstationsAt(Exposed, Facts.people)
  BY SMT DEF Substations, SubstationsAt
<1>2. Min({100, rain}) = IF 100 <= rain THEN 100 ELSE rain
  <2>1. \A a \in Nat : Min({100, a}) = IF 100 <= a THEN 100 ELSE a
    BY MinTwo
  <2> QED BY <2>1 DEF EvidenceTypes
<1>3. Facts.area * 300 * Min({100, rain}) = Soaked(Facts.area, rain)
  BY <1>2 DEF Soaked
<1> QED BY <1>1, <1>3, SMT DEF LossIs, Loss, LossAt, Buildings, HitAt

LEMMA LossesNext == EvidenceTypes' => LossIs'
BY Losses, PTL

\* Whole parts of what grows.
LEMMA PartsOf ==
  ASSUME NEW a \in Nat, NEW b \in Nat, a <= b
  PROVE  /\ a \div 4 \in Nat /\ b \div 4 \in Nat /\ a \div 4 <= b \div 4
         /\ a \div 1000 \in Nat /\ b \div 1000 \in Nat /\ a \div 1000 <= b \div 1000
<1>1. a \div 4 \in Nat /\ b \div 4 \in Nat /\ a \div 4 <= b \div 4
  BY SMT
<1>2. a \div 1000 \in Nat /\ b \div 1000 \in Nat /\ a \div 1000 <= b \div 1000
  BY SMT
<1> QED BY <1>1, <1>2

\* With no lower a score and no less rain, no figure falls.
LEMMA FiguresGrow ==
  ASSUME EvidenceTypes, EvidenceTypes', UNCHANGED district, Score <= Score', rain <= rain'
  PROVE  /\ LeadTime' <= LeadTime
         /\ Exposed' >= Exposed /\ Loss' >= Loss /\ Cost' >= Cost
         /\ \A share \in {Facts.children, Facts.elderly} : ExposedOf(share)' >= ExposedOf(share)
<1>1. /\ FiguresAre /\ FiguresAre' /\ LossIs /\ LossIs' /\ ScoreIs /\ ScoreIs'
      /\ Facts' = Facts
  BY Figures, FiguresNext, Losses, LossesNext, Scores, EvidenceNext DEF Facts
<1>2. PICK s \in Nat, t \in Nat : s = Score /\ t = Score' /\ s <= t
  BY <1>1 DEF ScoreIs
<1>3. PICK f : f = Facts /\ f = Facts'
  BY <1>1
<1>4. /\ f.people \in Nat /\ f.people >= Fewest /\ f.schools \in Nat /\ f.hospitals \in Nat
      /\ f.markets \in Nat /\ f.area \in Nat /\ f.children \in Nat /\ f.elderly \in Nat
  BY <1>1, <1>3 DEF FiguresAre, FactsAre
<1>n. PICK n \in Nat : n = f.people /\ n >= Fewest
  BY <1>4
<1>5. PICK x \in Nat, y \in Nat : x = Exposed /\ y = Exposed' /\ x <= y
  <2>1. Exposed = ExposedAt(n, s) /\ Exposed' = ExposedAt(n, t)
    BY <1>1, <1>2, <1>3, <1>n, SMT DEF FiguresAre
  <2>2. /\ ExposedAt(n, s) \in Nat /\ ExposedAt(n, t) \in Nat
        /\ ExposedAt(n, s) <= ExposedAt(n, t)
    BY <1>2, PartsGrow
  <2> QED BY <2>1, <2>2
<1>6. LeadTime' <= LeadTime
  <2>1. /\ LeadTime = <<72, 24, 6, 3, 2>>[1 + TierOf(s)]
        /\ LeadTime' = <<72, 24, 6, 3, 2>>[1 + TierOf(t)]
    BY <1>1, <1>2 DEF FiguresAre
  <2>2. TierOf(s) \in 0 .. 4 /\ TierOf(t) \in 0 .. 4 /\ TierOf(s) <= TierOf(t)
    BY <1>2 DEF TierOf
  <2> QED BY <2>1, <2>2, LeadTimes
<1>7. Cost' >= Cost
  <2>1. Cost = CostAt(n, s) /\ Cost' = CostAt(n, t)
    BY <1>1, <1>2, <1>3, <1>n, SMT DEF FiguresAre
  <2>2. CostAt(n, s) <= CostAt(n, t)
    BY <1>2, <1>n, CostGrows, SMT
  <2> QED BY <2>1, <2>2
<1>8. Loss' >= Loss
  <2>1. \A k \in Nat : HitAt(k, s) \in Nat /\ HitAt(k, t) \in Nat /\ HitAt(k, s) <= HitAt(k, t)
    BY <1>2, HitsGrow
  <2>2. /\ SubstationsAt(x, n) \in Nat /\ SubstationsAt(y, n) \in Nat
        /\ SubstationsAt(x, n) <= SubstationsAt(y, n)
    BY <1>5, SubstationsGrow
  <2>3. /\ Soaked(f.area, rain) \in Nat /\ Soaked(f.area, rain') \in Nat
        /\ Soaked(f.area, rain) <= Soaked(f.area, rain')
    <3>1. rain \in Nat /\ rain' \in Nat
      BY DEF EvidenceTypes
    <3>2. PICK q \in Nat : q = f.area
      BY <1>4
    <3>3. Soaked(q, rain) \in Nat /\ Soaked(q, rain') \in Nat /\ Soaked(q, rain) <= Soaked(q, rain')
      BY <3>1, SoakedGrows, SMT
    <3> QED BY <3>2, <3>3, SMT
  <2>4. Loss = LossAt(x, HitAt(f.schools, s), HitAt(f.hospitals, s), HitAt(f.markets, s),
                      SubstationsAt(x, n), Soaked(f.area, rain))
    BY <1>1, <1>2, <1>3, <1>5, <1>n, SMT DEF LossIs
  <2>5. Loss' = LossAt(y, HitAt(f.schools, t), HitAt(f.hospitals, t), HitAt(f.markets, t),
                       SubstationsAt(y, n), Soaked(f.area, rain'))
    BY <1>1, <1>2, <1>3, <1>5, <1>n, SMT DEF LossIs
  <2>6. PICK a, b, c, k, w, a2, b2, c2, k2, w2 :
          /\ a = HitAt(f.schools, s) /\ b = HitAt(f.hospitals, s) /\ c = HitAt(f.markets, s)
          /\ k = SubstationsAt(x, n) /\ w = Soaked(f.area, rain)
          /\ a2 = HitAt(f.schools, t) /\ b2 = HitAt(f.hospitals, t) /\ c2 = HitAt(f.markets, t)
          /\ k2 = SubstationsAt(y, n) /\ w2 = Soaked(f.area, rain')
    OBVIOUS
  <2>7. /\ a \in Nat /\ b \in Nat /\ c \in Nat /\ k \in Nat /\ w \in Nat
        /\ a2 \in Nat /\ b2 \in Nat /\ c2 \in Nat /\ k2 \in Nat /\ w2 \in Nat
        /\ a <= a2 /\ b <= b2 /\ c <= c2 /\ k <= k2 /\ w <= w2
    BY <1>4, <2>1, <2>2, <2>3, <2>6
  <2>8. /\ x \div 4 \in Nat /\ y \div 4 \in Nat /\ x \div 4 <= y \div 4
        /\ w \div 1000 \in Nat /\ w2 \div 1000 \in Nat /\ w \div 1000 <= w2 \div 1000
    <3>1. x \div 4 \in Nat /\ y \div 4 \in Nat /\ x \div 4 <= y \div 4
      <4>1. x \in Nat /\ y \in Nat /\ x <= y
        BY <1>5
      <4> QED BY <4>1, PartsOf, SMT
    <3>2. w \div 1000 \in Nat /\ w2 \div 1000 \in Nat /\ w \div 1000 <= w2 \div 1000
      <4>1. w \in Nat /\ w2 \in Nat /\ w <= w2
        BY <2>7
      <4> QED BY <4>1, PartsOf, SMT
    <3> QED BY <3>1, <3>2, SMT
  <2>9. Loss = LossAt(x, a, b, c, k, w) /\ Loss' = LossAt(y, a2, b2, c2, k2, w2)
    BY <2>4, <2>5, <2>6
  <2> QED BY <2>7, <2>8, <2>9, SMT DEF LossAt
<1>9. ASSUME NEW share \in {Facts.children, Facts.elderly}
      PROVE  ExposedOf(share)' >= ExposedOf(share)
  <2>1. PICK k \in Nat : k = share
    BY <1>3, <1>4
  <2>2. (x * k) \div 100 <= (y * k) \div 100
    BY <1>5, ShareGrows
  <2>3. ExposedOf(k) = (x * k) \div 100 /\ ExposedOf(k)' = (y * k) \div 100
    BY <1>5 DEF ExposedOf
  <2> QED BY <2>1, <2>2, <2>3
<1> QED BY <1>5, <1>6, <1>7, <1>8, <1>9

\* A step to worse evidence raises every figure, or crosses the dip.
LEMMA WorseStep ==
  ASSUME EvidenceTypes, EvidenceTypes', [EvidenceMoves]_evidence, Worse
  PROVE  /\ LeadTime' <= LeadTime
         /\ \/ Dips(rain, rain')
            \/ /\ Fused' >= Fused
               /\ Exposed' >= Exposed /\ Loss' >= Loss /\ Cost' >= Cost
               /\ \A share \in {Facts.children, Facts.elderly} :
                    ExposedOf(share)' >= ExposedOf(share)
<1>1. /\ UNCHANGED district /\ ScoreIs /\ ScoreIs' /\ FiguresAre /\ FiguresAre'
      /\ rain \in Nat /\ rain' \in Nat
  BY SamePlace, Scores, EvidenceNext, Figures, FiguresNext DEF EvidenceTypes
<1>2. rain <= rain'
  BY <1>1 DEF Worse
<1>3. CASE Dips(rain, rain')
  <2>1. TierOf(Score) = 4 /\ TierOf(Score') = 4
    <3>1. Score = TenthsOf(district, rain) \div 10 /\ Score' = TenthsOf(district, rain') \div 10
      BY <1>1 DEF ScoreIs
    <3>2. rain \in 47 .. 49 /\ rain' \in 50 .. 67
      BY <1>3 DEF Dips
    <3> QED BY <1>1, <3>1, <3>2, DipIsExtreme
  <2>2. LeadTime = 2 /\ LeadTime' = 2
    BY <1>1, <2>1 DEF FiguresAre
  <2> QED BY <1>3, <2>2
<1>4. CASE ~Dips(rain, rain')
  <2>1. Score <= Score'
    BY <1>1, <1>2, <1>4, TenthsGrow DEF ScoreIs
  <2> QED BY <1>1, <1>2, <2>1, WorseFuses, FiguresGrow
<1> QED BY <1>3, <1>4

\* More rain, a higher level, a detection or a further report lowers nothing that the card
\* says (decision_card.py, impact_estimator.py, situation.py), but for the dip of
\* calculate_score's curve and the first reports beside a detection.
THEOREM WorseLooksNoBetter == EvidenceSpec => WorseNeverLooksBetter
<1>1. EvidenceTypes /\ EvidenceTypes' /\ [EvidenceMoves]_evidence =>
        [Worse => /\ LeadTime' <= LeadTime
                  /\ \/ Dips(rain, rain')
                     \/ /\ Fused' >= Fused
                        /\ Exposed' >= Exposed /\ Loss' >= Loss /\ Cost' >= Cost
                        /\ \A share \in {Facts.children, Facts.elderly} :
                             ExposedOf(share)' >= ExposedOf(share)]_evidence
  BY WorseStep
<1> QED BY <1>1, EvidenceHolds, PTL DEF EvidenceSpec, WorseNeverLooksBetter
-----------------------------------------------------------------------------
(* How far the sources of a pathway agree. *)

\* The root is what it should be.
LEMMA RootIs ==
  ASSUME NEW n \in Nat, n < 101 * 101
  PROVE  Root(n) \in 0 .. 100 /\ Root(n) * Root(n) <= n
<1> DEFINE T == {j \in Nat : n < (j + 1) * (j + 1)}
<1>1. T \subseteq Nat /\ 100 \in T
  BY SMT
<1>2. PICK k \in T : \A j \in T : k <= j
  <2> HIDE DEF T
  <2>1. T # {} /\ T \subseteq Nat
    BY <1>1
  <2> QED BY <2>1, LeastNatural, Zenon
<1>3. k \in 0 .. 100 /\ n < (k + 1) * (k + 1)
  BY <1>1, <1>2, SMT
<1>4. k * k <= n
  <2>1. CASE k = 0
    BY <2>1, SMT
  <2>2. CASE k > 0
    <3>1. k - 1 \in Nat /\ k - 1 \notin T
      BY <1>2, <1>3, <2>2, SMT
    <3>2. ~(n < ((k - 1) + 1) * ((k - 1) + 1))
      BY <3>1
    <3>3. (k - 1) + 1 = k
      BY <1>3, SMT
    <3>4. k * k \in Nat
      BY <1>3, SMT
    <3> QED BY <3>2, <3>3, <3>4, SMT
  <2> QED BY <1>3, <2>1, <2>2, SMT
<1>5. \E j \in 0 .. 100 : j * j <= n /\ n < (j + 1) * (j + 1)
  BY <1>3, <1>4
<1> DEFINE P(j) == j * j <= n /\ n < (j + 1) * (j + 1)
<1>6. \E j \in 0 .. 100 : P(j)
  BY <1>5
<1>7. Root(n) = CHOOSE j \in 0 .. 100 : P(j)
  BY SMT DEF Root
<1>8. Root(n) \in 0 .. 100 /\ P(Root(n))
  <2> HIDE DEF P
  <2> QED BY <1>6, <1>7, SMT
<1> QED BY <1>8, SMT

\* The spread of two, and with it their agreement.
LEMMA AgreementOfTwo ==
  ASSUME NEW S, Cardinality(S) = 2, NEW n \in Nat, n < 101 * 101, Spread(S) = Root(n)
  PROVE  /\ Agreement(S) \in Nat
         /\ n <= 440 => Agreement(S) >= 5500
<1>1. PICK k \in 0 .. 100 : k = Root(n) /\ k * k <= n
  BY RootIs
<1>2. Min({k, 45}) = IF k <= 45 THEN k ELSE 45
  <2>1. \A a \in Int : Min({a, 45}) = IF a <= 45 THEN a ELSE 45
    BY MinTwo
  <2> QED BY <2>1
<1>3. PICK m \in 0 .. 45 : m = Min({k, 45}) /\ m <= k
  BY <1>2, SMT
<1>4. Agreement(S) = 10000 - (10000 * m) \div 45
  <2>1. Cardinality(S) # 1
    OBVIOUS
  <2> QED BY <1>1, <1>3, <2>1, SMT DEF Agreement, SpreadCap
<1>5. Agreement(S) \in Nat
  BY <1>4, SMT
<1>6. ASSUME n <= 440 PROVE Agreement(S) >= 5500
  <2>1. k <= 20
    BY <1>1, <1>6, SMT
  <2> QED BY <1>3, <1>4, <2>1, SMT
<1> QED BY <1>5, <1>6

\* The spread of two readings.
LEMMA SpreadOfTwo ==
  ASSUME NEW s, NEW t, s # t,
         s.weight \in Nat, s.risk \in Nat, t.weight \in Nat, t.risk \in Nat
  PROVE  \A w, x, y : /\ w = s.weight + t.weight
                      /\ x = s.weight * s.risk + t.weight * t.risk
                      /\ y = s.weight * s.risk * s.risk + t.weight * t.risk * t.risk
                      => Spread({s, t}) = Root((y * w - x * x) \div (w * w))
<1>1. /\ Weight({s, t}) = s.weight + t.weight
      /\ Weighted({s, t}) = s.weight * s.risk + t.weight * t.risk
      /\ Squares({s, t}) = s.weight * s.risk * s.risk + t.weight * t.risk * t.risk
  BY TwoReadings
<1> SUFFICES ASSUME NEW w, NEW x, NEW y, w = Weight({s, t}), x = Weighted({s, t}), y = Squares({s, t})
             PROVE  Spread({s, t}) = Root((y * w - x * x) \div (w * w))
  BY <1>1, Zenon
<1> QED BY Zenon DEF Spread

\* One reading is agreed with by none.
LEMMA AgreementOfOne == ASSUME NEW s PROVE Agreement({s}) = 5500
<1>1. Cardinality({s}) = 1
  BY FS_Singleton
<1> QED BY <1>1, SMT DEF Agreement

\* The water levels agree with each other as far as there are two.
LEMMA WatersAgree ==
  ASSUME NEW d, NEW r \in BandRisks \cup {Missing}, NEW b \in BandRisks \cup {Missing},
         NEW v \in BandRisks \cup {Missing}, Waters(d, r, b, v) # {}
  PROVE  /\ Agreement(Waters(d, r, b, v)) \in Nat
         /\ d = "Tema" \/ r = Missing \/ b = Missing => Agreement(Waters(d, r, b, v)) = 5500
<1>1. CASE d = "Tema"
  <2>1. Waters(d, r, b, v) = {Volta(v)}
    BY <1>1 DEF Waters, If
  <2>2. Agreement({Volta(v)}) = 5500
    BY AgreementOfOne, SMT
  <2> QED BY <1>1, <2>1, <2>2, SMT
<1>2. CASE d # "Tema" /\ b = Missing
  <2>1. Waters(d, r, b, v) = {River(r)}
    BY <1>2 DEF Waters, If
  <2> QED BY <2>1, AgreementOfOne
<1>3. CASE d # "Tema" /\ b # Missing /\ r = Missing
  <2>1. Waters(d, r, b, v) = {Bagre(b)}
    BY <1>3 DEF Waters, If
  <2> QED BY <2>1, AgreementOfOne
<1>4. CASE d # "Tema" /\ b # Missing /\ r # Missing
  <2>1. Waters(d, r, b, v) = {River(r), Bagre(b)}
    BY <1>4 DEF Waters, If
  <2>2. /\ River(r).weight = 20 /\ River(r).risk = r /\ River(r).name = "river_gauge"
        /\ Bagre(b).weight = 12 /\ Bagre(b).risk = b /\ Bagre(b).name # "river_gauge"
    BY DEF River, Bagre, Reading
  <2>3. River(r) # Bagre(b)
    BY <2>2
  <2>4. r \in {15, 45, 75, 95} /\ b \in {15, 45, 75, 95}
    BY <1>4 DEF BandRisks
  <2> DEFINE n == ((20 * r * r + 12 * b * b) * (20 + 12) - (20 * r + 12 * b) * (20 * r + 12 * b))
                  \div ((20 + 12) * (20 + 12))
  <2>5. n \in Nat /\ n < 101 * 101
    BY <2>4, SMT
  <2>6. Spread({River(r), Bagre(b)}) = Root(n)
    <3>1. /\ 20 + 12 = River(r).weight + Bagre(b).weight
          /\ 20 * r + 12 * b = River(r).weight * River(r).risk + Bagre(b).weight * Bagre(b).risk
          /\ 20 * r * r + 12 * b * b = River(r).weight * River(r).risk * River(r).risk
                                       + Bagre(b).weight * Bagre(b).risk * Bagre(b).risk
      BY <2>2
    <3>2. /\ River(r).weight \in Nat /\ River(r).risk \in Nat
          /\ Bagre(b).weight \in Nat /\ Bagre(b).risk \in Nat
      BY <2>2, <2>4
    <3>3. PICK g, x, y : g = 20 + 12 /\ x = 20 * r + 12 * b /\ y = 20 * r * r + 12 * b * b
      OBVIOUS
    <3>4. /\ g = River(r).weight + Bagre(b).weight
          /\ x = River(r).weight * River(r).risk + Bagre(b).weight * Bagre(b).risk
          /\ y = River(r).weight * River(r).risk * River(r).risk
                 + Bagre(b).weight * Bagre(b).risk * Bagre(b).risk
      BY <3>1, <3>3
    <3>5. n = (y * g - x * x) \div (g * g)
      BY <3>3
    <3> HIDE DEF n
    <3>6. Spread({River(r), Bagre(b)}) = Root((y * g - x * x) \div (g * g))
      BY <2>3, <3>2, <3>4, SpreadOfTwo
    <3> QED BY <3>5, <3>6
  <2>7. Cardinality({River(r), Bagre(b)}) = 2
    BY <2>3, Counted2, Zenon
  <2> HIDE DEF n
  <2>8. Agreement({River(r), Bagre(b)}) \in Nat
    BY <2>5, <2>6, <2>7, AgreementOfTwo
  <2> QED BY <1>4, <2>1, <2>8
<1> QED BY <1>1, <1>2, <1>3, <1>4

\* A detection and the reports agree better than a lone reading does.
LEMMA SightsAgree ==
  ASSUME NEW sat, NEW n \in Nat, Sights(sat, n) # {}
  PROVE  /\ Agreement(Sights(sat, n)) \in Nat /\ Agreement(Sights(sat, n)) >= 5500
         /\ sat # "confirmed" \/ n = 0 => Agreement(Sights(sat, n)) = 5500
<1>1. /\ Detection.weight = 22 /\ Detection.risk = 95
      /\ Many.weight = 18 /\ Many.risk = 90 /\ Few.weight = 9 /\ Few.risk = 65
      /\ Detection # Many /\ Detection # Few
  BY DEF Detection, Many, Few, Reading
<1>2. CASE sat # "confirmed" \/ n = 0
  <2>1. PICK s : Sights(sat, n) = {s}
    BY <1>2 DEF Sights, If
  <2>2. Agreement({s}) = 5500
    BY AgreementOfOne, SMT
  <2> QED BY <2>1, <2>2, SMT
<1>3. ASSUME NEW s, s # Detection, NEW w \in Nat, NEW u \in Nat, s.weight = w, s.risk = u,
             \/ w = 18 /\ u = 90
             \/ w = 9 /\ u = 65
      PROVE  Agreement({Detection, s}) \in Nat /\ Agreement({Detection, s}) >= 5500
  <2> DEFINE k == ((22 * 95 * 95 + w * u * u) * (22 + w) - (22 * 95 + w * u) * (22 * 95 + w * u))
                  \div ((22 + w) * (22 + w))
  <2>1. k \in Nat /\ k < 101 * 101 /\ k <= 440
    BY <1>3, SMT
  <2>0. Detection # s /\ s.weight = w /\ s.risk = u
    BY <1>3
  <2>2. Spread({Detection, s}) = Root(k)
    <3>1. /\ 22 + w = Detection.weight + s.weight
          /\ 22 * 95 + w * u = Detection.weight * Detection.risk + s.weight * s.risk
          /\ 22 * 95 * 95 + w * u * u = Detection.weight * Detection.risk * Detection.risk
                                       + s.weight * s.risk * s.risk
      BY <1>1, <2>0
    <3>2. /\ Detection.weight \in Nat /\ Detection.risk \in Nat /\ s.weight \in Nat /\ s.risk \in Nat
      BY <1>1, <2>0
    <3>3. PICK g, x, y : g = 22 + w /\ x = 22 * 95 + w * u /\ y = 22 * 95 * 95 + w * u * u
      OBVIOUS
    <3>4. /\ g = Detection.weight + s.weight
          /\ x = Detection.weight * Detection.risk + s.weight * s.risk
          /\ y = Detection.weight * Detection.risk * Detection.risk + s.weight * s.risk * s.risk
      BY <3>1, <3>3
    <3>5. k = (y * g - x * x) \div (g * g)
      BY <3>3
    <3> HIDE DEF k
    <3>6. Spread({Detection, s}) = Root((y * g - x * x) \div (g * g))
      <4>1. Detection # s
        BY <2>0
      <4> QED BY <3>2, <3>4, <4>1, SpreadOfTwo
    <3> QED BY <3>5, <3>6
  <2>3. Cardinality({Detection, s}) = 2
    BY <2>0, Counted2, Zenon
  <2> HIDE DEF k
  <2> QED BY <2>1, <2>2, <2>3, AgreementOfTwo
<1>4. CASE sat = "confirmed" /\ n >= 3
  <2>1. Sights(sat, n) = {Detection, Many}
    BY <1>4 DEF Sights, If
  <2> QED BY <1>1, <1>3, <1>4, <2>1
<1>5. CASE sat = "confirmed" /\ n \in 1 .. 2
  <2>1. Sights(sat, n) = {Detection, Few}
    BY <1>5 DEF Sights, If
  <2> QED BY <1>1, <1>3, <1>5, <2>1
<1> QED BY <1>2, <1>4, <1>5
-----------------------------------------------------------------------------
(* The confidence, and a source that falls silent. *)

\* The part of a sum is no more than the sum.
LEMMA SumPart ==
  ASSUME NEW S, IsFiniteSet(S), NEW f \in [S -> Nat], NEW it, Sums(it, f, S)
  PROVE  \A s \in SUBSET S : \A t \in SUBSET s : it[t] <= it[s]
<1>0. /\ \A u \in SUBSET S : \A y \in u : it[u] = f[y] + it[u \ {y}]
      /\ \A u \in SUBSET S : it[u] \in Nat
  BY SumRemove, SumNat
<1> DEFINE Bad == {s \in SUBSET S : \E t \in SUBSET s : ~(it[t] <= it[s])}
<1> SUFFICES ASSUME Bad # {} PROVE FALSE
  OBVIOUS
<1>1. PICK s \in Bad : \A t \in SUBSET s : t # s => t \notin Bad
  <2>1. Bad \subseteq SUBSET S
    OBVIOUS
  <2> HIDE DEF Bad
  <2> QED BY <2>1, LeastSubset
<1>2. PICK t \in SUBSET s : ~(it[t] <= it[s])
  BY <1>1
<1>3. it[s] \in Nat
  BY <1>0, <1>1
<1>4. PICK x \in s : x \notin t
  BY <1>2, <1>3
<1>5. PICK rest : rest = s \ {x}
  OBVIOUS
<1>6. rest \in SUBSET s /\ rest # s /\ t \in SUBSET rest /\ rest \in SUBSET S /\ s \in SUBSET S
  BY <1>1, <1>4, <1>5
<1>7. it[t] <= it[rest]
  BY <1>1, <1>6
<1> HIDE DEF Bad
<1>8. it[s] = f[x] + it[rest]
  BY <1>0, <1>4, <1>5, <1>6
<1>9. f[x] \in Nat /\ it[rest] \in Nat /\ it[t] \in Nat
  BY <1>0, <1>4, <1>6
<1> QED BY <1>2, <1>7, <1>8, <1>9

\* The agreements of the pathways, and the confidence they make.
Accords == [p \in Checked |-> Agreement(Present(p))]
ConfidenceIs ==
  /\ Accords \in [Checked -> Nat]
  /\ Cardinality(Expected) \in 1 .. 3
  /\ \E it : Sums(it, Accords, Checked) /\ Confidence = (100 * it[Checked]) \div Cardinality(Expected)

\* The sum of the agreements, as a sum of a function.
LEMMA AgreementsSum ==
  ASSUME Checked \subseteq Pathway, Accords \in [Checked -> Nat]
  PROVE  \E it : /\ Sums(it, Accords, Checked)
                 /\ MapThenSumSet(LAMBDA p : Agreement(Present(p)), Checked) = it[Checked]
<1>0. PICK S : S = Checked
  OBVIOUS
<1> DEFINE Entry(it, s) == IF s = {} THEN 0
                          ELSE LET x == CHOOSE x \in s : TRUE IN Agreement(Present(x)) + it[s \ {x}]
           Entries(it) == [s \in SUBSET S |-> Entry(it, s)]
<1>1. ASSUME NEW it PROVE it = Entries(it) <=> Sums(it, Accords, S)
  <2>1. ASSUME NEW s \in SUBSET S, s # {} PROVE Accords[Chosen(s)] = Agreement(Present(Chosen(s)))
    BY <1>0, <2>1, ChosenIn DEF Accords
  <2>2. \A s \in SUBSET S : Entry(it, s) =
          IF s = {} THEN 0 ELSE Accords[Chosen(s)] + it[s \ {Chosen(s)}]
    BY <2>1 DEF Chosen
  <2> HIDE DEF Entry
  <2>3. Entries(it) = [s \in SUBSET S |-> IF s = {} THEN 0 ELSE Accords[Chosen(s)] + it[s \ {Chosen(s)}]]
    BY <2>2
  <2> QED BY <2>3 DEF Sums
<1>2. \E it : it = Entries(it)
  <2>1. IsFiniteSet(S) /\ Accords \in [S -> Nat]
    BY <1>0, PathwaysFinite
  <2>2. \E it \in [SUBSET S -> Nat] : Sums(it, Accords, S)
    BY <2>1, SumExists
  <2> HIDE DEF Entries, Entry
  <2> QED BY <1>1, <2>2
<1>3. MapThenSumSet(LAMBDA p : Agreement(Present(p)), Checked) = (CHOOSE it : it = Entries(it))[S]
  BY <1>0 DEF MapThenSumSet, MapThenFoldSet
<1> HIDE DEF Entries, Entry
<1>4. (CHOOSE it : it = Entries(it)) = Entries(CHOOSE it : it = Entries(it))
  BY <1>2
<1>5. PICK it : /\ it = Entries(it)
                /\ MapThenSumSet(LAMBDA p : Agreement(Present(p)), Checked) = it[S]
  <2> DEFINE c == CHOOSE it : it = Entries(it)
  <2>1. c = Entries(c) /\ MapThenSumSet(LAMBDA p : Agreement(Present(p)), Checked) = c[S]
    BY <1>3, <1>4
  <2> HIDE DEF c
  <2> QED BY <2>1
<1>6. Sums(it, Accords, S)
  BY <1>1, <1>5
<1> QED BY <1>0, <1>5, <1>6

\* How many pathways there are.
LEMMA PathwaysCounted ==
  ASSUME NEW S \in SUBSET Pathway, "pluvial" \in S
  PROVE  Cardinality(S) \in 1 .. 3
<1>1. Cardinality(Pathway) = 3
  BY Counted3, Zenon DEF Pathway
<1>2. IsFiniteSet(S) /\ Cardinality(S) \in Nat /\ Cardinality(S) <= 3
  BY <1>1, PathwaysFinite, FS_Subset, FS_CardinalityType
<1>3. Cardinality(S) # 0
  BY <1>2, FS_EmptySet
<1> QED BY <1>2, <1>3

\* That is the confidence.
LEMMA ConfidenceKnown == EvidenceTypes => ConfidenceIs
<1> SUFFICES ASSUME EvidenceTypes PROVE ConfidenceIs
  OBVIOUS
<1>1. PresentIs /\ FusionIs
  BY Presents, Fusion
<1>2. Checked \in SUBSET Pathway /\ Expected \in SUBSET Pathway
      /\ "pluvial" \in Checked /\ "pluvial" \in Expected
  BY <1>1, PathwaysOf DEF FusionIs, Checked, Expected, Pathway
<1>3. Accords \in [Checked -> Nat]
  <2>1. Agreement(Present("pluvial")) \in Nat
    BY <1>1, AgreementOfOne DEF PresentIs
  <2>2. ASSUME "fluvial" \in Checked PROVE Agreement(Present("fluvial")) \in Nat
    <3>1. Waters(district, Band("river_gauge"), Band("bagre_upstream_proxy"), Band("akosombo")) # {}
      BY <1>1, <2>2 DEF PresentIs, Checked
    <3>2. \A b \in Body : Band(b) \in BandRisks \cup {Missing}
      BY Bands
    <3>3. /\ Band("river_gauge") \in BandRisks \cup {Missing}
          /\ Band("bagre_upstream_proxy") \in BandRisks \cup {Missing}
          /\ Band("akosombo") \in BandRisks \cup {Missing}
      BY <3>2 DEF Body
    <3> QED BY <1>1, <3>1, <3>3, WatersAgree DEF PresentIs
  <2>3. ASSUME "observation" \in Checked PROVE Agreement(Present("observation")) \in Nat
    <3>1. Sights(satellite, Reports) # {} /\ Reports \in Nat
      BY <1>1, <2>3 DEF PresentIs, Checked, EvidenceTypes
    <3> QED BY <1>1, <3>1, SightsAgree DEF PresentIs
  <2> QED BY <2>1, <2>2, <2>3 DEF Accords, Checked, Pathway
<1>4. PICK it : /\ Sums(it, Accords, Checked)
                /\ MapThenSumSet(LAMBDA p : Agreement(Present(p)), Checked) = it[Checked]
  BY <1>2, <1>3, AgreementsSum
<1>5. it[Checked] \in Nat
  BY <1>2, <1>3, <1>4, PathwaysFinite, SumNat
<1>6. PICK c \in 1 .. 3, e \in 1 .. 3 : c = Cardinality(Checked) /\ e = Cardinality(Expected)
  BY <1>2, PathwaysCounted
<1>7. \A x \in Nat : (100 * c * x) \div (e * c) = (100 * x) \div e
  <2>1. CASE c = 1
    BY <2>1
  <2>2. CASE c = 2
    <3>1. ASSUME NEW x \in Nat PROVE (100 * 2 * x) \div (1 * 2) = (100 * x) \div 1
                               /\ (100 * 2 * x) \div (2 * 2) = (100 * x) \div 2
                               /\ (100 * 2 * x) \div (3 * 2) = (100 * x) \div 3
      BY SMT
    <3> QED BY <2>2, <3>1
  <2>3. CASE c = 3
    <3>1. ASSUME NEW x \in Nat PROVE (100 * 3 * x) \div (1 * 3) = (100 * x) \div 1
                               /\ (100 * 3 * x) \div (2 * 3) = (100 * x) \div 2
                               /\ (100 * 3 * x) \div (3 * 3) = (100 * x) \div 3
      BY SMT
    <3> QED BY <2>3, <3>1
  <2> QED BY <2>1, <2>2, <2>3
<1>8. Confidence = (100 * it[Checked]) \div Cardinality(Expected)
  <2>1. Confidence = (100 * c * it[Checked]) \div (e * c)
    BY <1>4, <1>6 DEF Confidence
  <2> QED BY <1>5, <1>6, <1>7, <2>1
<1> QED BY <1>3, <1>4, <1>6, <1>8 DEF ConfidenceIs

LEMMA ConfidenceNext == EvidenceTypes' => ConfidenceIs'
BY ConfidenceKnown, PTL

\* The confidence falls with the pathways and their agreement.
LEMMA ConfidenceFalls ==
  ASSUME ConfidenceIs, ConfidenceIs', Expected' = Expected, Checked' \subseteq Checked,
         Checked \subseteq Pathway, \A p \in Checked' : Accords'[p] <= Accords[p]
  PROVE  Confidence' <= Confidence
<1>1. PICK it : Sums(it, Accords, Checked) /\ Confidence = (100 * it[Checked]) \div Cardinality(Expected)
  BY DEF ConfidenceIs
<1>2. PICK jt : Sums(jt, Accords', Checked')
                /\ Confidence' = (100 * jt[Checked']) \div Cardinality(Expected)
  BY DEF ConfidenceIs
<1>3. PICK S, T, f, g : S = Checked /\ T = Checked' /\ f = Accords /\ g = Accords'
  OBVIOUS
<1>4. /\ S \subseteq Pathway /\ T \in SUBSET S /\ f \in [S -> Nat] /\ g \in [T -> Nat]
      /\ Sums(it, f, S) /\ Sums(jt, g, T) /\ \A p \in T : g[p] <= f[p]
  BY <1>1, <1>2, <1>3 DEF ConfidenceIs
<1>5. IsFiniteSet(S) /\ IsFiniteSet(T)
  BY <1>4, PathwaysFinite
<1>6. jt[T] <= it[T] /\ it[T] <= it[S]
  BY <1>4, <1>5, SumCompare, SumPart
<1>7. jt[T] \in Nat /\ it[T] \in Nat /\ it[S] \in Nat
  BY <1>4, <1>5, SumNat
<1>8. PICK e \in 1 .. 3 : e = Cardinality(Expected)
  BY DEF ConfidenceIs
<1>9. \A x, y \in Nat : x <= y => (100 * x) \div e <= (100 * y) \div e
  <2>1. \A x, y \in Nat : x <= y => (100 * x) \div 1 <= (100 * y) \div 1
                                 /\ (100 * x) \div 2 <= (100 * y) \div 2
                                 /\ (100 * x) \div 3 <= (100 * y) \div 3
    BY SMT
  <2> QED BY <2>1
<1>10. jt[T] <= it[S]
  BY <1>6, <1>7
<1> QED BY <1>1, <1>2, <1>3, <1>7, <1>8, <1>9, <1>10

\* The pathways that are expected, by the district and by what is observed.
ExpectedAre ==
  /\ "pluvial" \in Expected
  /\ "fluvial" \in Expected <=> district \in {"Tamale", "Tema", "Ho"}
  /\ "observation" \in Expected <=> satellite # "clear" \/ Reports > 0
  /\ Expected \subseteq Pathway

\* They are these.
LEMMA ExpectedKnown == EvidenceTypes => ExpectedAre
<1> SUFFICES ASSUME EvidenceTypes PROVE ExpectedAre
  OBVIOUS
<1>1. Expected \subseteq Pathway
  BY DEF Expected
<1>2. "pluvial" \in Expected
  BY PathwaysOf DEF Expected, Pathway
<1>3. "fluvial" \in Expected <=> district \in {"Tamale", "Tema", "Ho"}
  <2>1. Fluvial # {} <=> district \in {"Tamale", "Tema", "Ho"}
    BY DEF Fluvial
  <2> QED BY <2>1, PathwaysOf DEF Expected, Pathway
<1>4. "observation" \in Expected <=> satellite # "clear" \/ Reports > 0
  <2>1. Observation # {} <=> satellite # "clear" \/ Reports > 0
    <3>1. Reports \in Nat /\ satellite \in {"confirmed", "clear", "unavailable"}
      BY DEF EvidenceTypes
    <3> QED BY <3>1 DEF Observation
  <2> QED BY <2>1, PathwaysOf DEF Expected, Pathway
<1> QED BY <1>1, <1>2, <1>3, <1>4 DEF ExpectedAre

LEMMA ExpectedNext == EvidenceTypes' => ExpectedAre'
BY ExpectedKnown, PTL

\* A detection or reports that can no longer be had leave the other, or a gap.
LEMMA SilentSight ==
  ASSUME EvidenceTypes, EvidenceTypes',
         UNCHANGED <<district, rain, level, scale>>,
         \/ satellite = "confirmed" /\ satellite' = "unavailable" /\ Reports' = Reports
         \/ satellite # "clear" /\ satellite' = satellite /\ Reports > 0 /\ Reports' = 0
  PROVE  Confidence' <= Confidence
<1>1. /\ satellite # "clear" /\ satellite' # "clear"
      /\ UNCHANGED <<district, rain, level, scale>>
      /\ Reports \in Nat /\ Reports' \in Nat
  BY DEF EvidenceTypes
<1>2. /\ PresentIs /\ PresentIs' /\ ScoreIs /\ ScoreIs' /\ ConfidenceIs /\ ConfidenceIs'
  BY Presents, Scores, EvidenceNext, ConfidenceKnown, ConfidenceNext
<1>3. Present("pluvial")' = Present("pluvial") /\ Present("fluvial")' = Present("fluvial")
  <2>1. Score' = Score
    BY <1>1, <1>2 DEF ScoreIs
  <2>2. \A b \in Body : Band(b)' = Band(b)
    BY <1>1, Bands, BandsNext
  <2>3. /\ Band("river_gauge")' = Band("river_gauge")
        /\ Band("bagre_upstream_proxy")' = Band("bagre_upstream_proxy")
        /\ Band("akosombo")' = Band("akosombo")
    BY <2>2 DEF Body
  <2> QED BY <1>1, <1>2, <2>1, <2>3 DEF PresentIs
<1>4. /\ Present("observation") = Sights(satellite, Reports)
      /\ Present("observation")' = Sights(satellite', Reports')
      /\ Present("observation") # {}
      /\ satellite' # "confirmed" \/ Reports' = 0
  BY <1>1, <1>2 DEF PresentIs, Sights, If
<1>5. Expected' = Expected
  <2>1. /\ "observation" \in Expected /\ "observation" \in Expected'
        /\ "pluvial" \in Expected /\ "pluvial" \in Expected'
        /\ "fluvial" \in Expected <=> "fluvial" \in Expected'
        /\ Expected \subseteq Pathway /\ Expected' \subseteq Pathway
    BY <1>1, ExpectedKnown, ExpectedNext DEF ExpectedAre
  <2>2. \A p \in Pathway : p \in Expected <=> p \in Expected'
    BY <2>1 DEF Pathway
  <2> QED BY <2>1, <2>2
<1>6. Checked' \subseteq Checked /\ Checked \subseteq Pathway
  <2>1. \A p \in Pathway : Present(p) = {} => Present(p)' = {}
    BY <1>3, <1>4 DEF Pathway
  <2> QED BY <2>1 DEF Checked
<1>7. ASSUME NEW p \in Checked' PROVE Accords'[p] <= Accords[p]
  <2>1. Accords'[p] = Agreement(Present(p)') /\ Accords[p] = Agreement(Present(p))
    BY <1>6, <1>7 DEF Accords
  <2>2. Accords'[p] \in Nat
    BY <1>2, <1>7 DEF ConfidenceIs
  <2>3. CASE p # "observation"
    <3>1. Present(p)' = Present(p)
      BY <1>3, <2>3 DEF Checked, Pathway
    <3>2. Accords'[p] = Accords[p]
      BY <2>1, <3>1
    <3> QED BY <2>2, <3>2
  <2>4. CASE p = "observation"
    <3>1. Sights(satellite', Reports') # {} /\ Sights(satellite, Reports) # {}
      BY <1>4, <2>4 DEF Checked
    <3>2. Agreement(Sights(satellite', Reports')) = 5500
      BY <1>1, <1>4, <3>1, SightsAgree
    <3>3. Agreement(Sights(satellite, Reports)) >= 5500
          /\ Agreement(Sights(satellite, Reports)) \in Nat
      BY <1>1, <3>1, SightsAgree
    <3>4. Accords'[p] = Agreement(Sights(satellite', Reports'))
          /\ Accords[p] = Agreement(Sights(satellite, Reports))
      BY <1>4, <2>1, <2>4
    <3> QED BY <3>2, <3>3, <3>4
  <2> QED BY <2>3, <2>4
<1> QED BY <1>2, <1>5, <1>6, <1>7, ConfidenceFalls

\* A water level that can no longer be had leaves another one, or nothing.
LEMMA SilentWater ==
  ASSUME EvidenceTypes, EvidenceTypes', [EvidenceMoves]_evidence, Silenced("fluvial")
  PROVE  \/ Present("fluvial")' # {} /\ Agreement(Present("fluvial")) < 5500
         \/ Confidence' <= Confidence
<1>1. PICK b \in Body : level'[b] = Down /\ Band(b) # Missing
  BY DEF Silenced
<1>2. /\ b \in AskedFor(district) /\ level' = [level EXCEPT ![b] = Down]
      /\ UNCHANGED <<district, rain, scale, satellite, Reports>> /\ Reports \in Nat
  <2>1. level[b] # Down
    BY <1>1 DEF Band
  <2>2. level' # level
    BY <1>1, <2>1
  <2>3. PICK c \in Body, l \in Levels \cup {Down} : Gauge(c, l)
    BY <2>2 DEF EvidenceMoves, evidence, Rain, SatellitePass, Verify, LookupTurns
  <2>4. c = b /\ l = Down
    BY <1>1, <2>1, <2>3 DEF Gauge, EvidenceTypes
  <2> QED BY <2>3, <2>4 DEF Gauge, EvidenceTypes, Reports
<1>3. /\ PresentIs /\ PresentIs' /\ ScoreIs /\ ScoreIs' /\ ConfidenceIs /\ ConfidenceIs'
  BY Presents, Scores, EvidenceNext, ConfidenceKnown, ConfidenceNext
<1>4. Present("pluvial")' = Present("pluvial") /\ Present("observation")' = Present("observation")
  <2>1. Score' = Score
    BY <1>2, <1>3 DEF ScoreIs
  <2> QED BY <1>2, <1>3, <2>1 DEF PresentIs
<1>5. \A c \in Body : /\ Band(c) \in BandRisks \cup {Missing} /\ Band(c)' \in BandRisks \cup {Missing}
                      /\ Band(c)' = IF c = b THEN Missing ELSE Band(c)
  <2>1. ASSUME NEW c \in Body
        PROVE  Band(c) = BandOf(level[c], scale[c]) /\ Band(c) \in BandRisks \cup {Missing}
               /\ Band(c)' = BandOf(level'[c], scale[c]) /\ Band(c)' \in BandRisks \cup {Missing}
    BY <1>2, Bands, BandsNext
  <2>2. ASSUME NEW c \in Body PROVE level'[c] = IF c = b THEN Down ELSE level[c]
    BY <1>2 DEF EvidenceTypes
  <2>3. \A s : BandOf(Down, s) = Missing
    BY DEF BandOf
  <2> QED BY <2>1, <2>2, <2>3
<1>6. PICK r, u, v, r2, u2, v2 :
        /\ r = Band("river_gauge") /\ u = Band("bagre_upstream_proxy") /\ v = Band("akosombo")
        /\ r2 = Band("river_gauge")' /\ u2 = Band("bagre_upstream_proxy")'
        /\ v2 = Band("akosombo")'
  OBVIOUS
<1>7. /\ r \in BandRisks \cup {Missing} /\ u \in BandRisks \cup {Missing}
      /\ v \in BandRisks \cup {Missing} /\ r2 \in BandRisks \cup {Missing}
      /\ u2 \in BandRisks \cup {Missing} /\ v2 \in BandRisks \cup {Missing}
      /\ r2 \in {r, Missing} /\ u2 \in {u, Missing} /\ v2 \in {v, Missing}
      /\ b = "river_gauge" => r2 = Missing
      /\ b = "bagre_upstream_proxy" => u2 = Missing
  BY <1>5, <1>6 DEF Body
<1>8. /\ Present("fluvial") = Waters(district, r, u, v)
      /\ Present("fluvial")' = Waters(district, r2, u2, v2)
  BY <1>2, <1>3, <1>6 DEF PresentIs
<1>9. Waters(district, r2, u2, v2) # {} =>
        /\ Waters(district, r, u, v) # {}
        /\ Agreement(Waters(district, r, u, v)) \in Nat
        /\ Agreement(Waters(district, r2, u2, v2)) = 5500
  <2> SUFFICES ASSUME Waters(district, r2, u2, v2) # {}
               PROVE  /\ Waters(district, r, u, v) # {}
                      /\ Agreement(Waters(district, r, u, v)) \in Nat
                      /\ Agreement(Waters(district, r2, u2, v2)) = 5500
    OBVIOUS
  <2>1. Waters(district, r, u, v) # {}
    BY <1>7 DEF Waters, If
  <2>2. district = "Tema" \/ r2 = Missing \/ u2 = Missing
    BY <1>2, <1>7 DEF AskedFor
  <2>3. Agreement(Waters(district, r, u, v)) \in Nat
    BY <1>7, <2>1, WatersAgree
  <2>4. Agreement(Waters(district, r2, u2, v2)) = 5500
    BY <1>7, <2>2, WatersAgree
  <2> QED BY <2>1, <2>3, <2>4
<1>10. SUFFICES ASSUME Present("fluvial")' # {} => ~(Agreement(Present("fluvial")) < 5500)
                PROVE  Confidence' <= Confidence
  OBVIOUS
<1>11. Expected' = Expected
  <2>1. /\ "observation" \in Expected <=> "observation" \in Expected'
        /\ "pluvial" \in Expected /\ "pluvial" \in Expected'
        /\ "fluvial" \in Expected <=> "fluvial" \in Expected'
        /\ Expected \subseteq Pathway /\ Expected' \subseteq Pathway
    BY <1>2, ExpectedKnown, ExpectedNext DEF ExpectedAre
  <2>2. \A p \in Pathway : p \in Expected <=> p \in Expected'
    BY <2>1 DEF Pathway
  <2> QED BY <2>1, <2>2
<1>12. Checked' \subseteq Checked /\ Checked \subseteq Pathway
  <2>1. \A p \in Pathway : Present(p) = {} => Present(p)' = {}
    BY <1>4, <1>8, <1>9 DEF Pathway
  <2> QED BY <2>1 DEF Checked
<1>13. ASSUME NEW p \in Checked' PROVE Accords'[p] <= Accords[p]
  <2>1. Accords'[p] = Agreement(Present(p)') /\ Accords[p] = Agreement(Present(p))
    BY <1>12, <1>13 DEF Accords
  <2>2. Accords'[p] \in Nat
    BY <1>3, <1>13 DEF ConfidenceIs
  <2>3. CASE p # "fluvial"
    <3>1. Present(p)' = Present(p)
      BY <1>4, <2>3 DEF Checked, Pathway
    <3>2. Accords'[p] = Accords[p]
      BY <2>1, <3>1
    <3> QED BY <2>2, <3>2
  <2>4. CASE p = "fluvial"
    <3>1. Waters(district, r2, u2, v2) # {}
      BY <1>8, <2>4 DEF Checked
    <3>2. /\ Agreement(Waters(district, r, u, v)) \in Nat
          /\ Agreement(Waters(district, r2, u2, v2)) = 5500
      BY <1>9, <3>1
    <3>3. Accords'[p] = 5500 /\ Accords[p] = Agreement(Waters(district, r, u, v))
      BY <1>8, <2>1, <2>4, <3>2
    <3>4. ~(Agreement(Waters(district, r, u, v)) < 5500)
      BY <1>8, <1>10, <3>1
    <3> QED BY <3>2, <3>3, <3>4
  <2> QED BY <2>3, <2>4
<1> QED BY <1>3, <1>11, <1>12, <1>13, ConfidenceFalls

\* A source that falls silent raises the confidence only by having disagreed, or
\* by being taken for none.
LEMMA SilenceStep ==
  ASSUME EvidenceTypes, EvidenceTypes', [EvidenceMoves]_evidence, NEW p \in Pathway, Silenced(p)
  PROVE  \/ Present(p)' # {} /\ Agreement(Present(p)) < 5500
         \/ TakenForNone(p)
         \/ Confidence' <= Confidence
<1>1. CASE p = "fluvial"
  BY <1>1, SilentWater
<1>2. CASE p = "observation" /\ satellite = "confirmed" /\ satellite' = "unavailable"
  <2>1. \E s \in {"confirmed", "clear", "unavailable"} : SatellitePass(s)
    BY <1>2 DEF EvidenceMoves, evidence, Rain, Gauge, Verify, LookupTurns
  <2>2. UNCHANGED <<district, rain, level, scale, Reports>>
    BY <2>1 DEF SatellitePass, Reports
  <2> QED BY <1>2, <2>2, SilentSight
<1>3. CASE p = "observation" /\ Reports > 0 /\ ~readable' /\ satellite # "clear"
  <2>1. readable' # readable
    BY <1>3 DEF Reports
  <2>2. LookupTurns
    BY <2>1 DEF EvidenceMoves, evidence, Rain, Gauge, SatellitePass, Verify
  <2>3. UNCHANGED <<district, rain, level, scale, satellite>> /\ Reports' = 0
    BY <1>3, <2>2 DEF LookupTurns, Reports
  <2> QED BY <1>3, <2>3, SilentSight
<1>4. CASE p = "observation" /\ ~readable' /\ satellite = "clear" /\ Reports > 0
  <2>1. readable' # readable
    BY <1>4 DEF Reports
  <2>2. satellite' = satellite
    BY <2>1 DEF EvidenceMoves, evidence, Rain, Gauge, SatellitePass, Verify, LookupTurns
  <2> QED BY <1>4, <2>2 DEF TakenForNone
<1> QED BY <1>1, <1>2, <1>3, <1>4 DEF Pathway, Silenced

\* A source that falls silent raises the confidence of combine_pathways only if it
\* disagreed with one that is left (multi_source_confidence.py), or if it is the
\* reports, whose failed lookup is taken for there being none (situation.py).
THEOREM SilencesExplained == EvidenceSpec => SilenceExplained
<1>1. EvidenceTypes /\ EvidenceTypes' /\ [EvidenceMoves]_evidence =>
        [\A p \in Pathway : Silenced(p) =>
           \/ Present(p)' # {} /\ Agreement(Present(p)) < 5500
           \/ TakenForNone(p)
           \/ Confidence' <= Confidence]_evidence
  BY SilenceStep
<1> QED BY <1>1, EvidenceHolds, PTL DEF EvidenceSpec, SilenceExplained
-----------------------------------------------------------------------------
(* The card, its list of the evidence, and the page of a district. *)

\* The tables that are kept by tier fit each other.
LEMMA TiersFit == EvidenceTypes => TiersAccount
<1> SUFFICES ASSUME EvidenceTypes PROVE TiersAccount
  OBVIOUS
<1>1. PICK k \in 0 .. 4 : k = RainTier
  BY Scores, RainTiers
<1>2. ASSUME NEW j \in 0 .. 4, j = RainTier,
             Action = <<"MONITOR", "MONITOR", "PREPARE", "EVACUATE_VULNERABLE", "EVACUATE_ALL">>[1 + j],
             Priority = <<"ROUTINE", "ELEVATED", "URGENT", "CRITICAL", "CRITICAL">>[1 + j],
             LeadTime = <<72, 24, 6, 3, 2>>[1 + j],
             TimeWindow = IF j = 0 THEN 0 ELSE LeadTime
      PROVE  TiersAccount
  <2>1. CASE j = 0
    BY <1>2, <2>1 DEF TiersAccount
  <2>2. CASE j = 1
    BY <1>2, <2>2 DEF TiersAccount
  <2>3. CASE j = 2
    BY <1>2, <2>3 DEF TiersAccount
  <2>4. CASE j = 3
    BY <1>2, <2>4 DEF TiersAccount
  <2>5. CASE j = 4
    BY <1>2, <2>5 DEF TiersAccount
  <2> QED BY <2>1, <2>2, <2>3, <2>4, <2>5
<1> QED BY <1>1, <1>2 DEF Action, Priority, LeadTime, TimeWindow

\* A screen's projection of the forecast that it scores ends where it begins.
LEMMA ProjectionFits == EvidenceTypes => ProjectionAccounts
<1> SUFFICES ASSUME EvidenceTypes, NEW f \in Forecasts
    PROVE  /\ Timeline(f)[1] <= Tenths /\ (Drainage = 100 => Timeline(f)[1] = Tenths)
           /\ f # << >> /\ f[2] = rain =>
                /\ Timeline(f)[3] = Timeline(f)[1]
                /\ Dips(f[1], rain) \/ (Trend(f) # "Rising" /\ ~PeakAhead(f))
  BY DEF ProjectionAccounts
<1>1. PICK c \in Nat, t \in Nat : c = Curve(rain) /\ t = Tenths /\ c <= t /\ (Drainage = 100 => c = t)
  <2>1. ScoreIs /\ rain \in Nat
    BY Scores DEF EvidenceTypes
  <2>2. Curve(rain) \in Nat
    BY <2>1, CurveIs
  <2>3. Tenths = TenthsOf(district, rain) /\ Tenths \in Nat /\ Drainage = DrainageOf(district, rain)
    BY <2>1 DEF ScoreIs
  <2>4. /\ Curve(rain) <= TenthsOf(district, rain)
        /\ DrainageOf(district, rain) = 100 => TenthsOf(district, rain) = Curve(rain)
    BY <2>1, TenthsIs
  <2> QED BY <2>2, <2>3, <2>4
<1>2. CASE f = << >>
  <2>1. Timeline(f) = [i \in 1 .. 1 |-> Curve(IF i = 1 THEN rain ELSE f[i - 1])]
    BY <1>2 DEF Timeline
  <2>2. Timeline(f)[1] = c
    BY <1>1, <2>1
  <2> QED BY <1>1, <1>2, <2>2
<1>3. CASE f # << >>
  <2>1. PICK a \in Rains, b \in Rains : f = <<a, b>> /\ a <= b
    BY <1>3 DEF Forecasts
  <2>2. a \in Nat /\ b \in Nat /\ f[1] = a /\ f[2] = b /\ Len(f) = 2
    BY <2>1, RainAssumption
  <2>3. Timeline(f) = [i \in 1 .. 3 |-> Curve(IF i = 1 THEN rain ELSE f[i - 1])]
    BY <2>2 DEF Timeline
  <2>4. /\ DOMAIN Timeline(f) = 1 .. 3
        /\ Timeline(f)[1] = c /\ Timeline(f)[2] = Curve(a) /\ Timeline(f)[3] = Curve(b)
    <3>1. /\ (IF 1 = 1 THEN rain ELSE f[1 - 1]) = rain
          /\ (IF 2 = 1 THEN rain ELSE f[2 - 1]) = a
          /\ (IF 3 = 1 THEN rain ELSE f[3 - 1]) = b
      BY <2>2
    <3> QED BY <1>1, <2>3, <3>1
  <2>5. ASSUME b = rain, ~Dips(a, rain) PROVE Trend(f) # "Rising" /\ ~PeakAhead(f)
    <3>1. Curve(a) <= c /\ Curve(a) \in Nat
      BY <1>1, <2>1, <2>2, <2>5, CurveGrows, CurveIs
    <3>2. Timeline(f)[2] - Tenths <= 0 /\ Timeline(f)[2] - Tenths \in Int
      BY <1>1, <2>4, <3>1
    <3>3. Trend(f) # "Rising"
      BY <1>3, <3>2 DEF Trend
    <3>4. \A i \in 1 .. 3 : ~(Timeline(f)[i] > Tenths)
      BY <1>1, <2>4, <2>5, <3>1
    <3> QED BY <2>4, <3>3, <3>4 DEF PeakAhead
  <2>6. b = rain => Timeline(f)[3] = Timeline(f)[1]
    BY <1>1, <2>4
  <2> QED BY <1>1, <2>2, <2>4, <2>5, <2>6
<1> QED BY <1>2, <1>3

\* What two chances to stay dry leave, where one is a tier worse than the other.
Warns(s, m) == 10000 - Times(10000 - 100 * s, 10000 - m) > 100 * s + 1000

\* They leave so much that the card warns, by more than ten points.
LEMMA TierApart ==
  ASSUME NEW s \in 0 .. 100, NEW m \in Chance, NEW t \in {30, 50, 70, 85},
         100 * s < 100 * t, m >= 100 * t
  PROVE  Warns(s, m)
<1>1. PICK x \in Nat, y \in Nat : x = 100 - s /\ y = 10000 - m /\ y <= 10000 - 100 * t
  BY SMT DEF Chance, Whole
<1>2. Times(10000 - 100 * s, 10000 - m) = ((100 * x) * y) \div 10000
  BY <1>1, SMT DEF Times
<1>3. x * y <= x * (10000 - 100 * t) /\ x * y \in Nat
  <2>1. \A a, b, c \in Nat : b <= c => a * b <= a * c /\ a * b \in Nat
    BY SMT
  <2>2. 10000 - 100 * t \in Nat
    BY SMT
  <2>3. PICK u \in Nat : u = 10000 - 100 * t /\ y <= u
    BY <1>1, <2>2, SMT
  <2> QED BY <2>1, <2>3
<1>4. PICK z \in Nat : z = x * y /\ (100 * x) * y = 100 * z
  BY <1>1, <1>3, SMT
<1>5. z <= x * (10000 - 100 * t)
  BY <1>3, <1>4, SMT
<1>6. (100 * z) \div 10000 <= 9000 - 100 * s - 1
  <2>1. CASE t = 30
    BY <1>1, <1>5, <2>1, SMT
  <2>2. CASE t = 50
    BY <1>1, <1>5, <2>2, SMT
  <2>3. CASE t = 70
    BY <1>1, <1>5, <2>3, SMT
  <2>4. CASE t = 85
    BY <1>1, <1>5, <2>4, SMT
  <2> QED BY <2>1, <2>2, <2>3, <2>4
<1>7. (100 * z) \div 10000 \in Int
  BY SMT
<1> QED BY <1>2, <1>4, <1>6, <1>7, SMT DEF Warns

\* A pathway in a higher tier than the rain is warned of.
LEMMA HigherWarned ==
  ASSUME EvidenceTypes, NEW p \in Checked, Tier(Mean(Present(p))) > RainTier
  PROVE  Warned /\ (Tier(Mean(Present(p))) > 1 => p \in Active)
<1>1. FusionIs /\ ScoreIs
  BY Fusion, Scores
<1>2. PICK m \in Chance, s \in 0 .. 100 :
        m = Mean(Present(p)) /\ s = Score /\ Mean(Present("pluvial")) = 100 * s
  <2>1. Mean(Present(p)) \in Chance /\ Mean(Present("pluvial")) = 100 * Score
        /\ Score \in Nat /\ Score <= 100
    BY <1>1 DEF FusionIs, ScoreIs
  <2>2. Score \in 0 .. 100
    BY <2>1
  <2> QED BY <2>1, <2>2
<1>3. Tier(m) > Tier(100 * s)
  BY <1>2 DEF RainTier
<1>4. \A r \in Int : Tier(r) = IF r < 3000 THEN 0 ELSE IF r < 5000 THEN 1 ELSE IF r < 7000 THEN 2
                              ELSE IF r < 8500 THEN 3 ELSE 4
  BY TierIs
<1>5. PICK k \in Int : k = 100 * s
  BY SMT
<1>m. m \in Nat
  BY DEF Chance
<1>6. \E t \in {30, 50, 70, 85} : k < 100 * t /\ m >= 100 * t
  BY <1>3, <1>4, <1>5, <1>m, SMT
<1>7. p # "pluvial"
  <2>1. m # k
    BY <1>6, SMT
  <2> QED BY <1>2, <1>5, <2>1
<1>8. PICK it : Joined(it, Drys, Checked) /\ Fused = Whole - it[Checked]
  BY <1>1 DEF FusionIs
<1>9. /\ Checked \subseteq Pathway /\ "pluvial" \in Checked /\ Drys \in [Checked -> Chance]
  BY <1>1 DEF FusionIs
<1>10. it[Checked] \in Chance /\ it[Checked] <= Times(Drys["pluvial"], Drys[p])
  <2>1. IsFiniteSet(Checked)
    BY <1>9, PathwaysFinite
  <2>2. PICK S, d : S = Checked /\ d = Drys
    OBVIOUS
  <2>3. it[S] \in Chance /\ it[S] <= Times(d["pluvial"], d[p])
    BY <1>7, <1>8, <1>9, <2>1, <2>2, JoinBounds
  <2> QED BY <2>2, <2>3
<1>11. Drys["pluvial"] = 10000 - 100 * s /\ Drys[p] = 10000 - m
  BY <1>2, <1>9, SMT DEF Drys, Dry
<1>12. Warns(s, m)
  <2>1. PICK t \in {30, 50, 70, 85} : 100 * s < 100 * t /\ m >= 100 * t
    BY <1>5, <1>6
  <2> QED BY <2>1, TierApart
<1>13. Times(10000 - 100 * s, 10000 - m) \in Chance
  <2>1. 10000 - 100 * s \in Chance /\ 10000 - m \in Chance
    BY SMT DEF Chance, Whole
  <2> QED BY <2>1, Product
<1>14. Warned
  <2>1. PICK x \in Chance, y \in Chance :
          x = it[Checked] /\ y = Times(10000 - 100 * s, 10000 - m) /\ x <= y
    BY <1>10, <1>11, <1>13
  <2>2. Fused = 10000 - x
    BY <1>8, <2>1 DEF Whole
  <2> QED BY <1>2, <1>12, <2>1, <2>2, SMT DEF Warned, Warns, Chance, Whole
<1>15. ASSUME Tier(Mean(Present(p))) > 1 PROVE p \in Active
  <2>1. m >= 5000
    BY <1>2, <1>4, <1>15, <1>m, SMT
  <2>2. Mean(Present(p)) >= 4000
    BY <1>2, <1>m, <2>1, SMT
  <2> QED BY <2>2 DEF Active
<1> QED BY <1>14, <1>15

\* When the evidence list calls an item available.
LEMMA AvailableIs ==
  /\ Available("rainfall") /\ Available("citizen_reports")
  /\ Available("river_gauge") <=> level["river_gauge"] # Down
  /\ Available("dam_akosombo") <=> level["akosombo"] # Down
  /\ ~Available("dam_bagre") /\ ~Available("dam_kompienga")
  /\ Available("satellite_sar") <=> satellite # "unavailable"
BY DEF Available

\* What is listed, and what the district's waters are.
LEMMA ItemsAre ==
  ASSUME EvidenceTypes
  PROVE  /\ {"rainfall", "river_gauge", "satellite_sar", "citizen_reports"} \subseteq Items
         /\ district = "Tema" <=> "dam_akosombo" \in Items
         /\ district = "Tamale" <=> "dam_bagre" \in Items
         /\ \A i \in Items : i \in {"rainfall", "river_gauge", "satellite_sar", "citizen_reports",
                                    "dam_akosombo", "dam_bagre", "dam_kompienga"}
         /\ Dams \subseteq Items /\ Dams \subseteq {"dam_akosombo", "dam_bagre", "dam_kompienga"}
         /\ level["river_gauge"] # Down => district = "Tamale"
         /\ level["akosombo"] # Down => district = "Tema"
<1>1. Dams = IF district = "Tema" THEN {"dam_akosombo"}
             ELSE IF district = "Tamale" THEN {"dam_bagre"}
             ELSE IF district = "Ho" THEN {"dam_kompienga"} ELSE {}
  BY DEF Dams
<1>2. level["river_gauge"] # Down => district = "Tamale"
  BY DEF EvidenceTypes, AskedFor, Body
<1>3. level["akosombo"] # Down => district = "Tema"
  BY DEF EvidenceTypes, AskedFor, Body
<1> QED BY <1>1, <1>2, <1>3 DEF Items

\* What is missing of the rivers: it is told to be, or it is the exception.
LEMMA MissingWater ==
  ASSUME EvidenceTypes, NEW s \in Fluvial, s.risk = Missing
  PROVE  \/ s.name \in Items /\ ~Available(s.name)
         \/ district = "Ho" /\ s.name = "dam_kompienga"
         \/ s.name = Unlisted \/ s \in Unclassed
<1>1. CASE district = "Tamale"
  <2>1. \/ s = Reading("fluvial", "river_gauge", Band("river_gauge"), 20)
        \/ s = Reading("fluvial", "dam_bagre", Missing, 20)
        \/ s = Reading("fluvial", "dam_bagre_upstream_proxy", Band("bagre_upstream_proxy"), 12)
    BY <1>1 DEF Fluvial
  <2>2. s.name \in {"river_gauge", "dam_bagre", Unlisted}
    BY <2>1 DEF Reading, Unlisted
  <2>3. CASE s.name = "river_gauge"
    BY <2>3, ItemsAre DEF Unclassed
  <2>4. CASE s.name = "dam_bagre"
    BY <1>1, <2>4, ItemsAre, AvailableIs
  <2> QED BY <2>2, <2>3, <2>4
<1>2. CASE district = "Tema"
  <2>1. s.name = "dam_akosombo"
    BY <1>2 DEF Fluvial, Reading
  <2> QED BY <1>2, <2>1, ItemsAre DEF Unclassed
<1>3. CASE district = "Ho"
  BY <1>3 DEF Fluvial, Reading
<1>4. CASE district \notin {"Tamale", "Tema", "Ho"}
  BY <1>4 DEF Fluvial
<1> QED BY <1>1, <1>2, <1>3, <1>4

\* The names of what is there.
LEMMA ThereIs ==
  ASSUME EvidenceTypes
  PROVE  /\ "rainfall" \in Basis.there
         /\ \A i \in Basis.there :
              \/ i \in {"rainfall", Unlisted}
              \/ i = "river_gauge" /\ district = "Tamale" /\ Band("river_gauge") # Missing
              \/ i = "dam_akosombo" /\ district = "Tema" /\ Band("akosombo") # Missing
              \/ i = "satellite_sar" /\ satellite = "confirmed"
              \/ i = "citizen_reports" /\ Reports > 0
         /\ district = "Tamale" /\ Band("river_gauge") # Missing => "river_gauge" \in Basis.there
         /\ district = "Tema" /\ Band("akosombo") # Missing => "dam_akosombo" \in Basis.there
         /\ satellite = "confirmed" => "satellite_sar" \in Basis.there
         /\ Reports > 0 => "citizen_reports" \in Basis.there
<1>1. PresentIs /\ Reports \in Nat
  BY Presents DEF EvidenceTypes
<1>2. Basis.there = UNION {Names(Present(p)) : p \in Checked}
  BY DEF Basis
<1>3. ASSUME NEW p \in Pathway, NEW s \in Present(p) PROVE s.name \in Basis.there
  <2>1. p \in Checked /\ s.name \in Names(Present(p))
    BY DEF Checked, Names
  <2> QED BY <1>2, <2>1
<1>4. ASSUME NEW i \in Basis.there PROVE \E p \in Pathway : \E s \in Present(p) : s.name = i
  BY <1>2 DEF Checked, Names
<1>5. /\ Rainy(Score).name = "rainfall" /\ (\A r : River(r).name = "river_gauge")
      /\ (\A r : Bagre(r).name = Unlisted) /\ (\A r : Volta(r).name = "dam_akosombo")
      /\ Detection.name = "satellite_sar"
      /\ Many.name = "citizen_reports" /\ Few.name = "citizen_reports"
  BY DEF Rainy, River, Bagre, Volta, Detection, Many, Few, Reading, Unlisted
<1>6. \A s \in Present("pluvial") : s.name = "rainfall"
  BY <1>1, <1>5 DEF PresentIs
<1>7. \A s \in Present("fluvial") :
        \/ s.name = Unlisted
        \/ s.name = "river_gauge" /\ district = "Tamale" /\ Band("river_gauge") # Missing
        \/ s.name = "dam_akosombo" /\ district = "Tema" /\ Band("akosombo") # Missing
  BY <1>1, <1>5 DEF PresentIs, Waters, If
<1>8. \A s \in Present("observation") :
        \/ s.name = "satellite_sar" /\ satellite = "confirmed"
        \/ s.name = "citizen_reports" /\ Reports > 0
  BY <1>1, <1>5 DEF PresentIs, Sights, If
<1>9. "rainfall" \in Basis.there
  BY <1>1, <1>3, <1>5 DEF PresentIs, Pathway
<1>10. district = "Tamale" /\ Band("river_gauge") # Missing => "river_gauge" \in Basis.there
  <2> SUFFICES ASSUME district = "Tamale", Band("river_gauge") # Missing
               PROVE  "river_gauge" \in Basis.there
    OBVIOUS
  <2>1. River(Band("river_gauge")) \in Present("fluvial")
    BY <1>1 DEF PresentIs, Waters, If
  <2> QED BY <1>3, <1>5, <2>1 DEF Pathway
<1>11. district = "Tema" /\ Band("akosombo") # Missing => "dam_akosombo" \in Basis.there
  <2> SUFFICES ASSUME district = "Tema", Band("akosombo") # Missing
               PROVE  "dam_akosombo" \in Basis.there
    OBVIOUS
  <2>1. Volta(Band("akosombo")) \in Present("fluvial")
    BY <1>1 DEF PresentIs, Waters, If
  <2> QED BY <1>3, <1>5, <2>1 DEF Pathway
<1>12. satellite = "confirmed" => "satellite_sar" \in Basis.there
  <2>1. satellite = "confirmed" => Detection \in Present("observation")
    BY <1>1 DEF PresentIs, Sights, If
  <2> QED BY <1>3, <1>5, <2>1 DEF Pathway
<1>13. Reports > 0 => "citizen_reports" \in Basis.there
  <2>1. Reports > 0 => Many \in Present("observation") \/ Few \in Present("observation")
    BY <1>1 DEF PresentIs, Sights, If
  <2> QED BY <1>3, <1>5, <2>1 DEF Pathway
<1>14. ASSUME NEW i \in Basis.there
       PROVE  \/ i \in {"rainfall", Unlisted}
              \/ i = "river_gauge" /\ district = "Tamale" /\ Band("river_gauge") # Missing
              \/ i = "dam_akosombo" /\ district = "Tema" /\ Band("akosombo") # Missing
              \/ i = "satellite_sar" /\ satellite = "confirmed"
              \/ i = "citizen_reports" /\ Reports > 0
  <2>1. PICK p \in Pathway : \E s \in Present(p) : s.name = i
    BY <1>4
  <2>2. PICK s \in Present(p) : s.name = i
    BY <2>1
  <2> QED BY <1>6, <1>7, <1>8, <2>2 DEF Pathway
<1> QED BY <1>9, <1>10, <1>11, <1>12, <1>13, <1>14

\* A level of which a card could make nothing has no percentiles.
LEMMA UnclassedIs ==
  ASSUME EvidenceTypes
  PROVE  /\ level["river_gauge"] # Down /\ Band("river_gauge") = Missing =>
              "river_gauge" \in Names(Unclassed)
         /\ level["akosombo"] # Down /\ Band("akosombo") = Missing =>
              "dam_akosombo" \in Names(Unclassed)
<1>1. ASSUME NEW s \in Fluvial, s.risk = Missing, s.name \in Items, Available(s.name)
      PROVE  s.name \in Names(Unclassed)
  BY <1>1 DEF Unclassed, Names
<1>2. ASSUME level["river_gauge"] # Down, Band("river_gauge") = Missing
      PROVE  "river_gauge" \in Names(Unclassed)
  <2>1. PICK s \in Fluvial : s.risk = Missing /\ s.name = "river_gauge"
    <3>1. district = "Tamale"
      BY <1>2, ItemsAre
    <3>2. Reading("fluvial", "river_gauge", Band("river_gauge"), 20) \in Fluvial
      BY <3>1 DEF Fluvial
    <3> QED BY <1>2, <3>2 DEF Reading
  <2> QED BY <1>1, <1>2, <2>1, ItemsAre, AvailableIs
<1>3. ASSUME level["akosombo"] # Down, Band("akosombo") = Missing
      PROVE  "dam_akosombo" \in Names(Unclassed)
  <2>1. district = "Tema"
    BY <1>3, ItemsAre
  <2>2. PICK s \in Fluvial : s.risk = Missing /\ s.name = "dam_akosombo"
    <3>1. Reading("fluvial", "dam_akosombo", Band("akosombo"), 20) \in Fluvial
      BY <2>1 DEF Fluvial
    <3> QED BY <1>3, <3>1 DEF Reading
  <2> QED BY <1>1, <1>3, <2>1, <2>2, ItemsAre, AvailableIs
<1> QED BY <1>2, <1>3

\* The evidence list and the fusion account for each other.
LEMMA EvidenceFits == EvidenceTypes => EvidenceAccounts
<1> SUFFICES ASSUME EvidenceTypes PROVE EvidenceAccounts
  OBVIOUS
<1>1. ASSUME NEW p \in Pathway, NEW s \in MissingOf(p)
      PROVE  \/ s.name \in Items /\ ~Available(s.name)
             \/ s.name \in Basis.gone
             \/ p \in NotAssessed
             \/ p = "fluvial" /\ (s.name = Unlisted \/ s \in Unclassed)
  <2>1. s \in Applicable(p) /\ s.risk = Missing
    BY DEF MissingOf, Present
  <2>2. CASE p = "pluvial"
    <3>1. s = Rainy(Score) /\ s \notin Present(p)
      BY <2>1, <2>2, PathwaysOf DEF MissingOf
    <3> QED BY <2>2, <3>1, Presents DEF PresentIs
  <2>3. CASE p = "fluvial"
    <3>1. s \in Fluvial
      BY <2>1, <2>3, PathwaysOf
    <3>2. CASE district = "Ho" /\ s.name = "dam_kompienga"
      BY <3>2, AvailableIs DEF Items, Dams
    <3> QED BY <2>1, <2>3, <3>1, <3>2, MissingWater
  <2>4. CASE p = "observation"
    <3>1. s \in Observation
      BY <2>1, <2>4, PathwaysOf
    <3>2. s.name = "satellite_sar" /\ satellite = "unavailable"
      <4>1. Reports \in Nat /\ satellite \in {"confirmed", "clear", "unavailable"}
        BY DEF EvidenceTypes
      <4> QED BY <2>1, <3>1, <4>1 DEF Observation, Reading, Missing
    <3> QED BY <3>2, ItemsAre, AvailableIs
  <2> QED BY <2>2, <2>3, <2>4 DEF Pathway
<1>2. ASSUME NEW i \in Basis.there, i # Unlisted PROVE i \in Items /\ Available(i)
  <2>1. \A b : Band(b) # Missing => level[b] # Down
    BY DEF Band
  <2>2. \/ i = "rainfall"
        \/ i = "river_gauge" /\ district = "Tamale" /\ Band("river_gauge") # Missing
        \/ i = "dam_akosombo" /\ district = "Tema" /\ Band("akosombo") # Missing
        \/ i = "satellite_sar" /\ satellite = "confirmed"
        \/ i = "citizen_reports" /\ Reports > 0
    BY <1>2, ThereIs
  <2> QED BY <2>1, <2>2, ItemsAre, AvailableIs
<1>3. ASSUME NEW i \in Items, Available(i)
      PROVE  \/ i \in Basis.there
             \/ i = "satellite_sar" /\ satellite = "clear"
             \/ i = "citizen_reports" /\ (verified = 0 \/ ~readable)
             \/ i \in Names(Unclassed)
  <2>1. i \in {"rainfall", "river_gauge", "satellite_sar", "citizen_reports",
               "dam_akosombo", "dam_bagre", "dam_kompienga"}
    BY ItemsAre
  <2>2. Reports \in Nat /\ satellite \in {"confirmed", "clear", "unavailable"}
    BY DEF EvidenceTypes
  <2>3. CASE i \in {"rainfall", "citizen_reports", "satellite_sar"}
    <3>1. Reports > 0 \/ verified = 0 \/ ~readable
      BY <2>2 DEF Reports, EvidenceTypes
    <3> QED BY <1>3, <2>2, <2>3, <3>1, ThereIs, AvailableIs
  <2>4. CASE i = "river_gauge"
    <3>1. level["river_gauge"] # Down /\ district = "Tamale"
      BY <1>3, <2>4, AvailableIs, ItemsAre
    <3> QED BY <2>4, <3>1, ThereIs, UnclassedIs
  <2>5. CASE i = "dam_akosombo"
    <3>1. level["akosombo"] # Down /\ district = "Tema"
      BY <1>3, <2>5, AvailableIs, ItemsAre
    <3> QED BY <2>5, <3>1, ThereIs, UnclassedIs
  <2> QED BY <1>3, <2>1, <2>3, <2>4, <2>5, AvailableIs
<1>4. ASSUME NEW d \in Dams PROVE d \in Basis.there \/ d \in DataGaps \/ d \in Names(Unclassed)
  <2>1. d \in Items /\ d # "satellite_sar" /\ d # "citizen_reports"
    BY ItemsAre
  <2> QED BY <1>3, <2>1 DEF DataGaps
<1> QED BY <1>1, <1>2, <1>3, <1>4 DEF EvidenceAccounts

\* The parts of a card agree.
LEMMA CardFits == EvidenceTypes => CardAccounts
BY EvidenceFits, ProjectionFits, TiersFit, HigherWarned DEF CardAccounts

\* What the page shows of an answer is what the card says.
LEMMA FiguresFit ==
  ASSUME EvidenceTypes, NEW answered \in Replies
  PROVE  FiguresAccount(answered)
<1>1. PICK k \in 0 .. 4 : k = RainTier
  BY Scores, RainTiers
<1>2. "impact" \in answered => "situation" \in answered
  BY DEF Replies
<1>3. /\ Affected(answered).warned <=> "impact" \notin answered
      /\ "impact" \in answered => Affected(answered).people = Exposed
  BY DEF Affected, Estimated, Got
<1>4. "situation" \in answered => State(answered).score = Score /\ State(answered).tier = RainTier
  BY DEF State, Got
<1>5. "impact" \in answered => Hours(answered) = LeadTime
  <2>1. LeadTime # 0
    <3>1. <<72, 24, 6, 3, 2>>[1 + k] # 0
      OBVIOUS
    <3> QED BY <1>1, <3>1 DEF LeadTime
  <2>2. "impact" \in answered => State(answered).hours = LeadTime
    BY DEF State, Got
  <2> QED BY <2>1, <2>2 DEF Hours
<1>6. ASSUME "situation" \in answered, Guidance(answered) = "EVACUATE" PROVE Action = "EVACUATE_ALL"
  <2>1. Guidance(answered) =
          <<"CONTINUE", "STAY_INFORMED", "PREPARE", "PREPARE", "EVACUATE">>[1 + k]
    BY <1>1, <1>4, <1>6, Zenon DEF Guidance
  <2>2. k = 4
    BY <1>6, <2>1
  <2> QED BY <1>1, <2>2 DEF Action
<1>7. ShelterNames(answered) = "generic" => Banner(answered)
  BY DEF ShelterNames
<1>8. Banner(answered) <=> "situation" \notin answered
  BY DEF Banner, Got
<1>9. \A c \in CardsShown(answered) :
        c.tier = RainTier /\ c.action = Action /\ c.people = Exposed /\ c.hours = LeadTime
  BY DEF CardsShown, Card
<1> QED BY <1>2, <1>3, <1>4, <1>5, <1>6, <1>7, <1>8, <1>9 DEF FiguresAccount, Got

\* A confidence comes with its sources.
LEMMA AssuranceFits ==
  ASSUME EvidenceTypes, NEW answered \in Replies
  PROVE  AssuranceAccounts(answered)
<1>1. "evidence" \in answered => "situation" \in answered
  BY DEF Replies
<1>2. Cardinality(Basis.there) \in Nat /\ Cardinality(Basis.there) > 0
  <2>1. Basis.there \subseteq {"rainfall", "river_gauge", "dam_akosombo"}
                              \cup ({Unlisted} \cup {"satellite_sar", "citizen_reports"})
    BY ThereIs
  <2>2. IsFiniteSet({"rainfall", "river_gauge", "dam_akosombo"})
    <3>1. "rainfall" # "river_gauge" /\ "rainfall" # "dam_akosombo" /\ "river_gauge" # "dam_akosombo"
      OBVIOUS
    <3> QED BY <3>1, Counted3, Zenon
  <2>3. IsFiniteSet({"satellite_sar", "citizen_reports"})
    <3>1. "satellite_sar" # "citizen_reports"
      OBVIOUS
    <3> QED BY <3>1, Counted2, Zenon
  <2>4. IsFiniteSet({Unlisted} \cup {"satellite_sar", "citizen_reports"})
    BY <2>3, FS_AddElement
  <2>5. IsFiniteSet({"rainfall", "river_gauge", "dam_akosombo"}
                    \cup ({Unlisted} \cup {"satellite_sar", "citizen_reports"}))
    BY <2>2, <2>4, FS_Union
  <2>6. IsFiniteSet(Basis.there)
    BY <2>1, <2>5, FS_Subset
  <2>7. Basis.there # {}
    BY ThereIs
  <2> QED BY <2>6, <2>7, FS_EmptySet, FS_CardinalityType
<1>3. CASE "evidence" \in answered
  <2>1. /\ Assurance(answered).explained
        /\ Assurance(answered).active = Cardinality(Basis.there)
    BY <1>3 DEF Assurance, Got, EvidenceAnswer
  <2> QED BY <1>1, <1>2, <1>3, <2>1 DEF AssuranceAccounts, Banner, Got
<1>4. CASE "evidence" \notin answered
  <2>1. ~Assurance(answered).explained /\ Assurance(answered).active = 0
    BY <1>4 DEF Assurance, Got
  <2> QED BY <2>1 DEF AssuranceAccounts
<1> QED BY <1>3, <1>4

\* The bars and the evidence list agree.
LEMMA PanelFits ==
  ASSUME EvidenceTypes, NEW answered \in Replies
  PROVE  PanelAccounts(answered)
<1> SUFFICES ASSUME ~Banner(answered), NEW n \in Reports .. Reports + 1,
                    NEW i \in DOMAIN Panel(answered, n)
    PROVE  /\ Panel(answered, n)[i] > 0 => Available(i)
           /\ i \in Basis.there => Panel(answered, n)[i] > 0
           /\ Available(i) /\ Panel(answered, n)[i] = 0 =>
                i \in Names(Unclassed) \/ (i = "citizen_reports" /\ n = 0)
  BY DEF PanelAccounts
<1>1. Reports \in Nat /\ n \in Nat /\ satellite \in {"confirmed", "clear", "unavailable"}
  BY DEF EvidenceTypes
<1>2. PICK w \in {35, 85} : w = IF Got(answered, "weather") THEN 85 ELSE 35
  OBVIOUS
<1>3. PICK c \in Nat : c = <<0, 18, 32, 41>>[1 + Min({n, 3})] /\ (c > 0 <=> n > 0)
  <2>1. Min({n, 3}) = IF n <= 3 THEN n ELSE 3
    <3>1. \A a \in Int : Min({a, 3}) = IF a <= 3 THEN a ELSE 3
      BY MinTwo
    <3> QED BY <1>1, <3>1
  <2>2. PICK k \in 0 .. 3 : k = Min({n, 3}) /\ (k = 0 <=> n = 0)
    BY <1>1, <2>1
  <2>3. <<0, 18, 32, 41>>[1 + k] \in Nat /\ (<<0, 18, 32, 41>>[1 + k] > 0 <=> k # 0)
    OBVIOUS
  <2> QED BY <1>1, <2>2, <2>3
<1>4. PICK r \in {0, 78} : r = IF Band("river_gauge") # Missing THEN 78 ELSE 0
  OBVIOUS
<1>5. PICK s \in {0, 80} : s = IF satellite # "unavailable" THEN 80 ELSE 0
  OBVIOUS
<1>6. Panel(answered, n) = [rainfall |-> w, river_gauge |-> r, satellite_sar |-> s, citizen_reports |-> c]
  BY <1>2, <1>3, <1>4, <1>5 DEF Panel
<1>7. /\ Panel(answered, n)["rainfall"] = w /\ Panel(answered, n)["river_gauge"] = r
      /\ Panel(answered, n)["satellite_sar"] = s /\ Panel(answered, n)["citizen_reports"] = c
      /\ i \in {"rainfall", "river_gauge", "satellite_sar", "citizen_reports"}
  BY <1>6
<1>8. \A b : Band(b) # Missing => level[b] # Down
  BY DEF Band
<1>9. CASE i = "rainfall"
  BY <1>2, <1>7, <1>9, AvailableIs
<1>10. CASE i = "river_gauge"
  <2>1. i \in Basis.there => Band("river_gauge") # Missing
    BY <1>10, ThereIs DEF Unlisted
  <2>2. Available(i) /\ Band("river_gauge") = Missing => i \in Names(Unclassed)
    BY <1>10, AvailableIs, UnclassedIs
  <2>3. Band("river_gauge") # Missing => Available(i)
    BY <1>8, <1>10, AvailableIs
  <2> QED BY <1>4, <1>7, <1>10, <2>1, <2>2, <2>3
<1>11. CASE i = "satellite_sar"
  <2>1. i \in Basis.there => satellite = "confirmed"
    BY <1>11, ThereIs DEF Unlisted
  <2>2. Available(i) <=> satellite # "unavailable"
    BY <1>11, AvailableIs
  <2> QED BY <1>5, <1>7, <1>11, <2>1, <2>2
<1>12. CASE i = "citizen_reports"
  <2>1. i \in Basis.there => Reports > 0
    BY <1>12, ThereIs DEF Unlisted
  <2>2. Available(i)
    BY <1>12, AvailableIs
  <2> QED BY <1>1, <1>3, <1>7, <1>12, <2>1, <2>2
<1> QED BY <1>7, <1>9, <1>10, <1>11, <1>12

\* The score without the district is no higher.
LEMMA PlainFits ==
  EvidenceTypes => PlainScore <= Score /\ (Drainage = 100 => PlainScore = Score)
<1> SUFFICES ASSUME EvidenceTypes PROVE PlainScore <= Score /\ (Drainage = 100 => PlainScore = Score)
  OBVIOUS
<1>1. ScoreIs /\ rain \in Nat
  BY Scores DEF EvidenceTypes
<1>2. PICK c \in Nat, t \in Nat : /\ c = Curve(rain) /\ c <= 1000
                                  /\ t = TenthsOf(district, rain) /\ c <= t
                                  /\ DrainageOf(district, rain) = 100 => t = c
  <2>1. Curve(rain) \in Nat /\ Curve(rain) <= 1000
    BY <1>1, CurveIs
  <2>2. /\ TenthsOf(district, rain) \in Nat /\ Curve(rain) <= TenthsOf(district, rain)
        /\ DrainageOf(district, rain) = 100 => TenthsOf(district, rain) = Curve(rain)
    BY <1>1, TenthsIs
  <2> QED BY <2>1, <2>2
<1>3. PlainScore = c \div 10
  <2>1. \A a \in Int : Min({1000, a}) = IF 1000 <= a THEN 1000 ELSE a
    BY MinTwo
  <2>2. Min({1000, c}) = c
    BY <1>2, <2>1, SMT
  <2> QED BY <1>2, <2>2 DEF PlainScore
<1>4. Score = t \div 10 /\ Drainage = DrainageOf(district, rain)
  BY <1>1, <1>2 DEF ScoreIs
<1>5. c \div 10 <= t \div 10
  BY <1>2, SMT
<1> QED BY <1>2, <1>3, <1>4, <1>5

\* The parts of a card agree, and so do the panels of its page.
LEMMA PartsFit == EvidenceTypes => PartsAgree
<1> SUFFICES ASSUME EvidenceTypes PROVE CardAccounts /\ PageAccounts
  BY DEF PartsAgree
<1> QED BY CardFits, FiguresFit, AssuranceFits, PanelFits, PlainFits DEF PageAccounts

\* Whatever the evidence and whichever calls fail, the parts of get_decision_card's answer
\* agree, and so do the panels of the dashboard's page of a district (decision_card.py, dashboard.py).
THEOREM AllPartsAgree == EvidenceSpec => []PartsAgree
BY EvidenceHolds, PartsFit, PTL
=============================================================================
