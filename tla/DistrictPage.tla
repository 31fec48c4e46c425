---------------------------- MODULE DistrictPage ----------------------------
(***************************************************************************)
(* The dashboard's page of one district                                    *)
(* (src/hackathon/app/pages/dashboard.py and modules/v4/state.py): several *)
(* calls, each of which may fail alone, put together on one screen.  Where *)
(* an answer is missing the page goes on with defaults and illustrations,  *)
(* and the question is whether it says so, and whether panels filled by    *)
(* different calls can contradict each other.                              *)
(*                                                                         *)
(* A page is given by what was answered while the evidence stood still.    *)
(* The soil, the map and the lengths of the bars are left out.             *)
(***************************************************************************)
EXTENDS DecisionCard

\* What may be answered of POST /situation with its impact and its weather,
\* which fail on their own, of GET evidence, which is asked for only after it,
\* and of POST /decision/card.
Replies ==
  {{"situation"} \cup more : more \in SUBSET {"impact", "weather", "evidence", "card"}}
  \cup {{}, {"card"}}

Got(answered, reply) == reply \in answered

\* DashboardState as it is before any answer; confidences are as Confidence
\* gives them, before the root, so this is 80 per cent.
Default == [score |-> 50, tier |-> 1, hours |-> 24, confidence |-> 640000]

\* get_fallback_data, the people: 10 to 70 per cent by the rain.
Illustrated == (Facts.people * (10 + (6 * Min({100, rain})) \div 10)) \div 100

\* impact_available: the answer has an estimate, be it of nobody.
Estimated(answered) == Got(answered, "impact")

\* create_state_from_api: the score, tier and hours of the page.
State(answered) ==
  LET got == Got(answered, "situation") IN
  [score |-> IF got THEN Score ELSE Default.score,
   tier |-> IF got THEN RainTier ELSE Default.tier,
   hours |-> IF Got(answered, "impact") THEN LeadTime ELSE Default.hours]

\* The page's own table, used where the state has no hours.
OwnHours(score) == <<72, 24, 6, 2, 2>>[1 + Tier(100 * score)]
Hours(answered) ==
  LET s == State(answered) IN IF s.hours = 0 THEN OwnHours(s.score) ELSE s.hours

\* GET /v1/districts/{district}/evidence: what is fused, and from what.
EvidenceAnswer == [confidence |-> Confidence, basis |-> Basis]

\* apply_confidence_to_state: with an answer its confidence and the number of
\* sources that are there; else the defaults.
Assurance(answered) ==
  IF Got(answered, "evidence")
  THEN [confidence |-> EvidenceAnswer.confidence,
        active |-> Cardinality(EvidenceAnswer.basis.there), explained |-> TRUE]
  ELSE [confidence |-> Default.confidence, active |-> 0, explained |-> FALSE]

\* render_header: the notice that the figures are illustrative.
Banner(answered) == ~Got(answered, "situation")

\* render_executive_summary: what is asked of the public, by the tier.
Guidance(answered) ==
  <<"CONTINUE", "STAY_INFORMED", "PREPARE", "PREPARE", "EVACUATE">>[1 + State(answered).tier]

\* render_impact_panel: who is affected, and whether it says that it is a formula.
Affected(answered) ==
  [people |-> IF Estimated(answered) THEN Exposed ELSE Illustrated,
   warned |-> ~Estimated(answered)]

\* render_evidence_panel: the confidence beside each bar, of n reports in all.
\* Without an answer the river has the default level, and so a confidence.
Panel(answered, n) ==
  [rainfall |-> IF Got(answered, "weather") THEN 85 ELSE 35,
   river_gauge |->
     IF Banner(answered) \/ Band("river_gauge") # Missing THEN 78 ELSE 0,
   satellite_sar |->
     IF ~Banner(answered) /\ satellite # "unavailable" THEN 80 ELSE 0,
   citizen_reports |->
     IF Banner(answered) THEN 0 ELSE <<0, 18, 32, 41>>[1 + Min({n, 3})]]

\* render_operations_panel: the district's own shelters, or invented names.
ShelterNames(answered) == IF Banner(answered) THEN "generic" ELSE "real"

\* get_decision_card, of what the page compares.
Card == [tier |-> RainTier, action |-> Action, people |-> Exposed, hours |-> LeadTime]

\* render_ai_decision_center: the card, or an error.
CardsShown(answered) == {Card : reply \in answered \cap {"card"}}

\* GET /v1/districts/{district}/risk scores without the district.
PlainScore == Min({1000, Curve(rain)}) \div 10
-----------------------------------------------------------------------------
(* Properties. *)

\* What a page shows without a warning is what the card says of the same
\* moment, whichever calls failed: tier, people and hours.  The guidance beside
\* it never asks for more than the card.  A dry day is no outage.
FiguresAccount(answered) ==
  LET affected == Affected(answered)
      state == State(answered)
  IN  /\ Banner(answered) => affected.warned
      /\ ShelterNames(answered) = "generic" => affected.warned
      /\ ~affected.warned => state.score = Score
      /\ Exposed = 0 /\ Got(answered, "impact") => affected.people = 0
      /\ \A c \in CardsShown(answered) :
           /\ ~affected.warned => c.people = affected.people /\ c.hours = Hours(answered)
           /\ ~Banner(answered) => c.tier = state.tier
           /\ ~Banner(answered) /\ Guidance(answered) = "EVACUATE" => c.action = "EVACUATE_ALL"

\* A confidence that was computed never stands beside a score that was not, and
\* comes with its sources.  One that was not has neither.
AssuranceAccounts(answered) ==
  LET a == Assurance(answered) IN
  /\ a.explained => ~Banner(answered)
  /\ a.explained <=> a.active > 0

\* The bars and the evidence list agree: a source with a confidence is
\* available, or the page has its banner; one the basis counts has a bar; one
\* that is available has none only if it has nothing to show.
PanelAccounts(answered) ==
  LET used == Basis.there IN
  Banner(answered) \/ \A n \in Reports .. Reports + 1 :
    LET bar == Panel(answered, n) IN
    \A i \in DOMAIN bar :
      /\ bar[i] > 0 => Available(i)
      /\ i \in used => bar[i] > 0
      /\ Available(i) /\ bar[i] = 0 =>
           i \in Names(Unclassed) \/ (i = "citizen_reports" /\ n = 0)

\* However many calls fail, no panel contradicts another without a warning; and
\* the score without the district is never above the page's.  Each
\* panel depends on some of the replies alone.
PageAccounts ==
  /\ \A answered \in Replies \cap SUBSET {"situation", "impact", "card"} :
       FiguresAccount(answered)
  /\ \A answered \in Replies \cap SUBSET {"situation", "evidence"} :
       AssuranceAccounts(answered)
  /\ \A answered \in Replies \cap SUBSET {"situation", "weather"} : PanelAccounts(answered)
  /\ PlainScore <= Score /\ (Drainage = 100 => PlainScore = Score)

\* The parts of a card agree, and so do the panels of its page.
PartsAgree == CardAccounts /\ PageAccounts
=============================================================================
