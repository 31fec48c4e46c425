---------------------------- MODULE DecisionCard ----------------------------
(***************************************************************************)
(* What the decision card, the evidence list and the dashboard's panels    *)
(* say beside the fused risk                                               *)
(* (src/src/api/routes/decision_card.py and situation.py,                  *)
(* src/src/exposure/impact_estimator.py,                                   *)
(* src/src/models/forecast_timeline.py): which sources they show, who and  *)
(* what is exposed, how long there is, and what the next day brings.       *)
(*                                                                         *)
(* These are computed apart from the fusion, from the same evidence; the   *)
(* module is about whether the parts of one answer agree.  The forecast is *)
(* a parameter.  Soil moisture, which no part but the list uses, is left   *)
(* out.                                                                    *)
(***************************************************************************)
EXTENDS RiskFusion

\* The district's entries of dam_intelligence.
Dams ==
  CASE district = "Tema" -> {"dam_akosombo"}
    [] district = "Tamale" -> {"dam_bagre"}
    [] district = "Ho" -> {"dam_kompienga"}
    [] OTHER -> {}

Names(S) == {s.name : s \in S}
MissingOf(p) == Applicable(p) \ Present(p)
-----------------------------------------------------------------------------
(* The evidence, by the answers of the services. *)

\* The items that build_evidence lists.
Items == {"rainfall", "river_gauge", "satellite_sar", "citizen_reports"} \cup Dams

\* Mutant: the river is always called available.
AvailableAnyRiver(i) ==
  CASE i = "dam_akosombo" -> level["akosombo"] # Down
    [] i \in {"dam_bagre", "dam_kompienga"} -> FALSE
    [] i = "satellite_sar" -> satellite # "unavailable"
    [] OTHER -> TRUE

\* Whether the item is called available: the services answered.  Nobody can
\* answer for the two dams in Burkina Faso; rain is always there, and reports are,
\* even if they could not be read.
Available(i) ==
  CASE i = "river_gauge" -> level["river_gauge"] # Down
    [] i = "dam_akosombo" -> level["akosombo"] # Down
    [] i \in {"dam_bagre", "dam_kompienga"} -> FALSE
    [] i = "satellite_sar" -> satellite # "unavailable"
    [] OTHER -> TRUE

DataGaps == {d \in Dams : ~Available(d)}

\* Less than 60 per cent of the pathways.
Degraded == 100 * Cardinality(Checked) < 60 * Cardinality(Expected)

\* basis_from_fusion: what is missing is named only when coverage is poor.
Basis ==
  [there |-> UNION {Names(Present(p)) : p \in Checked},
   gone |-> IF Degraded THEN UNION {Names(MissingOf(p)) : p \in Pathway} ELSE {}]

\* The explanation names every pathway that could not be assessed.
NotAssessed == Expected \ Checked

\* _describe_risk_attribution: the pathways at 40 and above are the active ones.
Active == {p \in Checked : Mean(Present(p)) >= 4000}
-----------------------------------------------------------------------------
(* The impact, by the rain alone. *)

\* The district's figures of impact_estimator; the area in tenths of a km2.
Facts ==
  CASE district = "AccraCentral" ->
         [people |-> 187928, schools |-> 52, hospitals |-> 8, markets |-> 15,
          area |-> 455, children |-> 30, elderly |-> 10]
    [] district = "Tema" ->
         [people |-> 177924, schools |-> 58, hospitals |-> 10, markets |-> 18,
          area |-> 5650, children |-> 29, elderly |-> 9]
    [] district = "Kumasi" ->
         [people |-> 443981, schools |-> 85, hospitals |-> 12, markets |-> 25,
          area |-> 2990, children |-> 31, elderly |-> 9]
    [] district = "Tamale" ->
         [people |-> 374744, schools |-> 42, hospitals |-> 6, markets |-> 14,
          area |-> 7310, children |-> 32, elderly |-> 8]
    [] district = "Ho" ->
         [people |-> 180420, schools |-> 30, hospitals |-> 4, markets |-> 8,
          area |-> 5732, children |-> 28, elderly |-> 10]

RainTier == Tier(100 * Score)

\* estimate_impact: 60 per cent of the people and half of the buildings at 100.
Exposed == (Facts.people * Score * 6) \div 1000
ExposedOf(share) == (Exposed * share) \div 100
Buildings(n) == (n * Score) \div 200

\* Mutant: the table without CRITICAL, which then falls back to LOW.
LeadTimeWithoutCritical == <<72, 24, 6, 72, 2>>[1 + RainTier]

LeadTime == <<72, 24, 6, 3, 2>>[1 + RainTier]

\* One at least where anybody is exposed.
Substations == IF Exposed = 0 THEN 0 ELSE Max({1, Facts.people \div 75000})

\* _estimate_economic_loss, in thousands of cedis.
Loss ==
  (Exposed \div 4) * 8
  + Buildings(Facts.schools) * 400 + Buildings(Facts.hospitals) * 1500
  + Buildings(Facts.markets) * 250 + Substations * 800
  + (Facts.area * 300 * Min({100, rain})) \div 1000

\* The cost of the response in cedis, flat where the risk is low.
Cost ==
  IF RainTier = 0 THEN 5000 ELSE (Exposed * <<125, 800, 1500, 1500>>[RainTier]) \div 100

\* The card's action and its priority go by the rain as well.
Action == <<"MONITOR", "MONITOR", "PREPARE", "EVACUATE_VULNERABLE", "EVACUATE_ALL">>[1 + RainTier]
Priority == <<"ROUTINE", "ELEVATED", "URGENT", "CRITICAL", "CRITICAL">>[1 + RainTier]

\* render_ai_decision_center: the warning that another pathway is at work, and
\* the hours that the panel gives, 0 for "Ongoing".
Warned == Fused > 100 * Score + 1000
TimeWindow == IF RainTier = 0 THEN 0 ELSE LeadTime
-----------------------------------------------------------------------------
(* The projection, from a forecast: the rain until 6 and until 24 hours (of  *)
(* the four points those that are looked at), or << >> if there is none.     *)

Forecasts == {f \in Rains \X Rains : f[1] <= f[2]} \cup {<< >>}

\* build_risk_timeline: without the district's drainage, and without a
\* forecast only Now.
Timeline(f) == [i \in 1 .. 1 + Len(f) |-> Curve(IF i = 1 THEN rain ELSE f[i - 1])]

\* _kiosk_trend and render_risk_timeline, against the district's score.
Trend(f) ==
  IF f = << >> THEN "Steady"
  ELSE IF Timeline(f)[2] - Tenths > 30 THEN "Rising"
       ELSE IF Timeline(f)[2] - Tenths < -30 THEN "Falling" ELSE "Steady"
PeakAhead(f) == \E i \in DOMAIN Timeline(f) : Timeline(f)[i] > Tenths
-----------------------------------------------------------------------------
(* Properties. *)

\* The curve reaches 98.5 at 49 mm and starts anew with 95 at 50: the higher of
\* two amounts may score less, by up to 3.5 and within EXTREME.
Dips(low, high) == low \in 47 .. 49 /\ high \in 50 .. 67

\* Worse evidence never makes the card look better: not more rain, not a higher
\* level, not a detection where there was a reading of none, not a further
\* report lowers the fused risk, who is exposed, what it costs or how urgent it
\* is.  The exceptions are the first verified reports beside a detection, which
\* dilute it in the fusion, and the dip of the curve, which leaves the lead time.
Worse ==
  \/ /\ rain' > rain
     /\ UNCHANGED <<level, satellite, Reports>>
  \/ /\ \A b \in Body : level'[b] = level[b] \/ (level[b] # Down /\ level'[b] > level[b])
     /\ UNCHANGED <<rain, satellite, Reports>>
  \/ /\ satellite = "clear" /\ satellite' = "confirmed"
     /\ UNCHANGED <<rain, level, Reports>>
  \/ /\ Reports' > Reports /\ (satellite = "confirmed" => Reports > 0)
     /\ UNCHANGED <<rain, level, satellite>>
WorseNeverLooksBetter ==
  [][Worse =>
       /\ LeadTime' <= LeadTime
       /\ \/ Dips(rain, rain')
          \/ /\ Fused' >= Fused
             /\ Exposed' >= Exposed /\ Loss' >= Loss /\ Cost' >= Cost
             /\ \A share \in {Facts.children, Facts.elderly} :
                  ExposedOf(share)' >= ExposedOf(share)]_evidence

\* The evidence list and the fusion account for each other, though each asks in
\* its own way.  A source the fusion misses is told to be missing, by the list,
\* by the basis or with its pathway, except where another of the water levels
\* is left: then the river above Bagre, and a level whose history is too short,
\* fall out untold.  What the fusion uses is on the list as available, except
\* that river.  And what the list calls available is used, or it speaks against
\* a flood, or it is such a level, or it is the reports: the card says that there
\* are none where there are, but could not be read.
Unlisted == "dam_bagre_upstream_proxy"
Unclassed == {s \in Fluvial : s.risk = Missing /\ s.name \in Items /\ Available(s.name)}
EvidenceAccounts ==
  /\ \A p \in Pathway : \A s \in MissingOf(p) :
       \/ s.name \in Items /\ ~Available(s.name)
       \/ s.name \in Basis.gone
       \/ p \in NotAssessed
       \/ p = "fluvial" /\ (s.name = Unlisted \/ s \in Unclassed)
  /\ Basis.there \ {Unlisted} \subseteq {i \in Items : Available(i)}
  /\ \A i \in Items : Available(i) =>
       \/ i \in Basis.there
       \/ i = "satellite_sar" /\ satellite = "clear"
       \/ i = "citizen_reports" /\ (verified = 0 \/ ~readable)
       \/ i \in Names(Unclassed)
  /\ \A d \in Dams : d \in Basis.there \/ d \in DataGaps \/ d \in Names(Unclassed)

\* A projection that is given the forecast's own day as the rain of now, as the
\* screens give it, ends where it begins, and begins at the district's score or,
\* where drainage is poor, below it.  So the kiosk's trend is never Rising, and
\* no peak ahead, but where the curve dips between the two amounts.
ProjectionAccounts ==
  \A f \in Forecasts :
    /\ Timeline(f)[1] <= Tenths /\ (Drainage = 100 => Timeline(f)[1] = Tenths)
    /\ f # << >> /\ f[2] = rain =>
         /\ Timeline(f)[3] = Timeline(f)[1]
         /\ Dips(f[1], rain) \/ (Trend(f) # "Rising" /\ ~PeakAhead(f))

\* The tables that files of their own keep by tier fit each other: who must
\* leave has less than six hours, and what is routine has no end.
TiersAccount ==
  /\ Action \in {"EVACUATE_VULNERABLE", "EVACUATE_ALL"} <=> LeadTime < 6
  /\ Action \in {"EVACUATE_VULNERABLE", "EVACUATE_ALL"} <=> Priority = "CRITICAL"
  /\ Priority = "ROUTINE" <=> TimeWindow = 0

\* The parts of a card agree, and no threat is left silent: a pathway that is
\* in a higher tier than the rain is warned of, whatever else is calm or missing,
\* and from HIGH on the warning names it as active.
CardAccounts ==
  /\ EvidenceAccounts
  /\ ProjectionAccounts
  /\ TiersAccount
  /\ \A p \in Checked : Tier(Mean(Present(p))) > RainTier =>
       Warned /\ (Tier(Mean(Present(p))) > 1 => p \in Active)
=============================================================================
