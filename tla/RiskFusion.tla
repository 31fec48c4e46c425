----------------------------- MODULE RiskFusion -----------------------------
(***************************************************************************)
(* A district's flood risk and the confidence in it, as the decision card  *)
(* computes them from the evidence of the moment                           *)
(* (src/src/api/routes/decision_card.py and                                *)
(* src/src/models/multi_source_confidence.py).  Sources that measure one   *)
(* mechanism form a pathway and are averaged by weight; pathways are       *)
(* independent causes and are joined by a noisy-or.                        *)
(*                                                                         *)
(* The evidence moves under the cards: rain, water levels, detections and  *)
(* reports change and sources come and go, one at a time.  A card is what  *)
(* the operators below give in a state.                                    *)
(*                                                                         *)
(* Units, truncated: rain in mm; scores in per cent; weights in tenths; a  *)
(* pathway's risk and agreement in hundredths of a per cent.               *)
(***************************************************************************)
EXTENDS Integers, Sequences, FiniteSets, FiniteSetsExt

CONSTANTS
  Rains,      \* amounts of rain a card is asked for
  Levels,     \* water levels above a body's baseline
  Scales,     \* a body's warning, danger and flood level; << >> if its history is short
  MaxReports  \* bound on verified reports

ASSUME RainAssumption == Rains \subseteq Nat /\ 0 \in Rains
ASSUME LevelAssumption == Levels \subseteq Nat /\ MaxReports \in Nat
ASSUME ScaleAssumption ==
  \A s \in Scales : s = << >> \/ (s \in [1 .. 3 -> Nat] /\ s[1] <= s[2] /\ s[2] <= s[3])

\* The districts below a dam, one of poor drainage, and one of the others.
District == {"Tema", "Tamale", "Ho", "AccraCentral", "Kumasi"}
Body == {"river_gauge", "akosombo", "bagre_upstream_proxy"}
Down == -1

VARIABLES
  district,  \* the one the cards are about
  rain,      \* its rainfall
  level,     \* per body: its level, or Down: no key, no answer, no reading
  scale,     \* per body: the percentiles of its history
  satellite, \* "confirmed", "clear" or "unavailable"
  verified,  \* verified reports of the district
  readable   \* whether they can be read: the lookup may fail

evidence == <<district, rain, level, scale, satellite, verified, readable>>

\* The bodies a card of the district asks for.
AskedFor(d) ==
  CASE d = "Tamale" -> {"river_gauge", "bagre_upstream_proxy"}
    [] d = "Tema" -> {"akosombo"}
    [] OTHER -> {}

EvidenceInit ==
  /\ district \in District
  /\ scale \in [Body -> Scales \cup {<< >>}]
  /\ \A b \in Body : IF b \in AskedFor(district) THEN scale[b] \in Scales ELSE scale[b] = << >>
  /\ rain = 0
  /\ level = [b \in Body |-> Down]
  /\ satellite = "unavailable"
  /\ verified = 0 /\ readable = TRUE
-----------------------------------------------------------------------------
(* What the sources say. *)

Missing == -1

\* get_flood_risk_factor, in per cent: Accra Central and Accra West drain into
\* the Odaw and the Densu, which are poor; of the others nothing is known.
Drainage ==
  IF district # "AccraCentral" THEN 100
  ELSE IF rain > 80 THEN 156 ELSE IF rain > 50 THEN 132 ELSE 120

\* The rain's curve in calculate_score, in tenths of a per cent.  It falls at 50.
Curve(mm) ==
  IF mm < 10 THEN mm * 30
  ELSE IF mm < 30 THEN 300 + (mm - 10) * 20
  ELSE IF mm < 50 THEN 700 + (mm - 30) * 15
  ELSE Min({1000, 950 + (mm - 50) * 2})

\* calculate_score for the district, in tenths of a per cent and in per cent.
Tenths == Min({1000, (Curve(rain) * Drainage) \div 100})
Score == Tenths \div 10

\* get_risk_tier, for hundredths of a per cent: LOW is 0, EXTREME is 4.
Tier(risk) == Cardinality({t \in {30, 50, 70, 85} : risk >= 100 * t})

\* classify_level and ALTIMETRY_STATUS_RISK: the bands NORMAL, WARNING, DANGER
\* and FLOOD, by the highest level reached; without percentiles, no band.  How
\* old the reading is does not matter.
Band(b) ==
  IF level[b] = Down \/ scale[b] = << >> THEN Missing
  ELSE <<15, 45, 75, 95>>[1 + Cardinality({k \in 1 .. 3 : level[b] >= scale[b][k]})]

Reading(p, n, r, w) == [pathway |-> p, name |-> n, risk |-> r, weight |-> w]

\* build_fluvial_sources: the river where there is a gauge, each dam upstream,
\* of which only Akosombo is measured, and the river above Bagre.
Fluvial ==
  CASE district = "Tamale" ->
         {Reading("fluvial", "river_gauge", Band("river_gauge"), 20),
          Reading("fluvial", "dam_bagre", Missing, 20),
          Reading("fluvial", "dam_bagre_upstream_proxy", Band("bagre_upstream_proxy"), 12)}
    [] district = "Tema" -> {Reading("fluvial", "dam_akosombo", Band("akosombo"), 20)}
    [] district = "Ho" -> {Reading("fluvial", "dam_kompienga", Missing, 20)}
    [] OTHER -> {}

\* The reports as the situation gives them: a lookup that fails finds none.
Reports == IF readable THEN verified ELSE 0

\* A pass that saw no water, and no verified reports, are not sources at all.
Observation ==
  (CASE satellite = "confirmed" -> {Reading("observation", "satellite_sar", 95, 22)}
     [] satellite = "unavailable" -> {Reading("observation", "satellite_sar", Missing, 10)}
     [] OTHER -> {})
  \cup
  (CASE Reports >= 3 -> {Reading("observation", "citizen_reports", 90, 18)}
     [] Reports \in 1 .. 2 -> {Reading("observation", "citizen_reports", 65, 9)}
     [] OTHER -> {})

\* The applicable sources.
Sources == {Reading("pluvial", "rainfall", Score, 10)} \cup Fluvial \cup Observation

Applicable(p) == {s \in Sources : s.pathway = p}
Present(p) == {s \in Applicable(p) : s.risk # Missing}
-----------------------------------------------------------------------------
(* fuse_sources. *)

Weight(S) == MapThenSumSet(LAMBDA s : s.weight, S)
Weighted(S) == MapThenSumSet(LAMBDA s : s.weight * s.risk, S)
Squares(S) == MapThenSumSet(LAMBDA s : s.weight * s.risk * s.risk, S)

\* The weighted mean in hundredths of a per cent.
Mean(S) == (100 * Weighted(S)) \div Weight(S)

Root(n) == CHOOSE k \in 0 .. 100 : k * k <= n /\ n < (k + 1) * (k + 1)

\* The weighted standard deviation, in whole per cents.
Spread(S) ==
  Root((Squares(S) * Weight(S) - Weighted(S) * Weighted(S)) \div (Weight(S) * Weight(S)))

SpreadCap == 45

\* One source is agreed with by none; several agree as far as they are close.
Agreement(S) ==
  IF Cardinality(S) = 1 THEN 5500
  ELSE 10000 - (10000 * Min({Spread(S), SpreadCap})) \div SpreadCap
-----------------------------------------------------------------------------
(* combine_pathways. *)

Pathway == {"pluvial", "fluvial", "observation"}
Checked == {p \in Pathway : Present(p) # {}}
Expected == {p \in Pathway : Applicable(p) # {}}

\* Mutant: the pathway's risk is taken for its chance to stay dry.
DryIsRisk(p) == Mean(Present(p))

\* The chance that a pathway floods nothing.
Dry(p) == 10000 - Mean(Present(p))

\* Mutant: the pathways' mean.
FusedMean == SumSet({Mean(Present(p)) : p \in Checked}) \div Cardinality(Checked)

\* _noisy_or: one minus the chance that every pathway stays dry.
Fused ==
  10000 - FoldSet(LAMBDA p, dry : (dry * Dry(p)) \div 10000, 10000, Checked)

\* Mutant: what is missing does not count.
ConfidenceOfPresent ==
  100 * (MapThenSumSet(LAMBDA p : Agreement(Present(p)), Checked) \div Cardinality(Checked))

\* The confidence is the root of this: coverage times agreement.  The coverage
\* counts pathways, the agreement is the mean over those that are there.
Confidence ==
  (100 * Cardinality(Checked) * MapThenSumSet(LAMBDA p : Agreement(Present(p)), Checked))
    \div (Cardinality(Expected) * Cardinality(Checked))
-----------------------------------------------------------------------------
(* The evidence moves. *)

Rain(mm) ==
  /\ rain' = mm /\ mm # rain
  /\ UNCHANGED <<district, level, scale, satellite, verified, readable>>

Gauge(b, l) ==
  /\ b \in AskedFor(district) /\ l # level[b]
  /\ level' = [level EXCEPT ![b] = l]
  /\ UNCHANGED <<district, rain, scale, satellite, verified, readable>>

SatellitePass(s) ==
  /\ satellite' = s /\ s # satellite
  /\ UNCHANGED <<district, rain, level, scale, verified, readable>>

Verify ==
  /\ verified < MaxReports
  /\ verified' = verified + 1
  /\ UNCHANGED <<district, rain, level, scale, satellite, readable>>

LookupTurns ==
  /\ readable' = ~readable
  /\ UNCHANGED <<district, rain, level, scale, satellite, verified>>

EvidenceMoves ==
  \/ \E mm \in Rains : Rain(mm)
  \/ \E b \in Body, l \in Levels \cup {Down} : Gauge(b, l)
  \/ \E s \in {"confirmed", "clear", "unavailable"} : SatellitePass(s)
  \/ Verify \/ LookupTurns

EvidenceSpec == EvidenceInit /\ [][EvidenceMoves]_evidence
-----------------------------------------------------------------------------
(* Properties. *)

\* No pathway is averaged away: a district at risk by one of them, a dam that
\* overflows without rain, is at risk, whatever the others say or miss.  So the
\* fused tier of a card is never below its tier by rain alone.
NothingAveragedAway ==
  /\ \A p \in Checked : Fused >= Mean(Present(p))
  /\ Tier(Fused) >= Tier(100 * Score)

\* A source of the pathway falls silent, and nothing else happens.
Silenced(p) ==
  \/ /\ p = "fluvial" /\ \E b \in Body : level'[b] = Down /\ Band(b) # Missing
     /\ UNCHANGED <<satellite, readable>>
  \/ /\ p = "observation" /\ satellite = "confirmed" /\ satellite' = "unavailable"
  \/ /\ p = "observation" /\ Reports > 0 /\ ~readable'

\* A source that falls silent raises the confidence only by having disagreed
\* with another that is left, or if it is the reports, beside a satellite that
\* saw no water: that they cannot be read is taken for there being none, and the
\* pathway for one that nobody asked for.  Every other last source of a pathway
\* lowers it.
TakenForNone(p) == p = "observation" /\ ~readable' /\ satellite = "clear"
SilenceExplained ==
  [][\A p \in Pathway : Silenced(p) =>
       \/ Present(p)' # {} /\ Agreement(Present(p)) < 5500
       \/ TakenForNone(p)
       \/ Confidence' <= Confidence]_evidence
=============================================================================
