---------------------------- MODULE AssessmentJob ----------------------------
(***************************************************************************)
(* The three-hourly job, src/scripts/automated_risk_assessment.py, and the *)
(* rows its calls leave behind the API: alerts to review, risk history,    *)
(* observations and predictions.  It walks over the districts, reads three *)
(* signals each and posts what it read; nothing is posted twice, a call    *)
(* that fails is counted or only logged, and a call that times out may     *)
(* still be carried out.  The workflow has no concurrency group: runs may  *)
(* overlap, and a cancelled one simply takes no more steps.                *)
(*                                                                         *)
(* A service says nothing, a figure below or above the review threshold,   *)
(* or, of rain by the hour, "blank" (no hour has a figure) or "part" (some *)
(* have none, and the rest is below the threshold).  A reading is what the *)
(* job makes of it: missing, zero, low or high.                            *)
(***************************************************************************)
EXTENDS Integers, Sequences, FiniteSets

CONSTANTS
  Run,        \* executions of the workflow
  Districts,  \* DISTRICT_COORDS, in order
  Rivered,    \* districts with a river gauge or a dam upstream
  Answers,    \* what each district's services may say: a bound on Answer
  MaxLapses   \* bound on time-outs and on failures that are only logged

ASSUME DistrictAssumption ==
  /\ Districts \in Seq(STRING) /\ Len(Districts) > 0
  /\ \A i, j \in DOMAIN Districts : Districts[i] = Districts[j] => i = j
ASSUME LapseAssumption == MaxLapses \in Nat

District == {Districts[i] : i \in DOMAIN Districts}
Missing == "missing"
Value == {Missing, "zero", "low", "high"}
Gaps == {"blank", "part"}
Answer == {Missing, "low", "high"} \cup Gaps
Signal == {"forecast", "antecedent", "river"}

ASSUME AnswersAssumption == \A d \in District : Answers[d] \subseteq Answer

Basis == {"antecedent_3d_accumulation", "antecedent_3d_observed_fallback"}

\* What is done for a district after its readings, in order: a call's table
\* and the signal it is about.
Calls == << <<"queue", "forecast">>, <<"queue", "antecedent">>, <<"queue", "river">>,
            <<"history", "forecast">>,
            <<"observe", "forecast">>, <<"observe", "antecedent">>, <<"observe", "river">>,
            <<"ledger", "forecast">> >>

VARIABLES
  at,        \* per run: the district it is at, by index; beyond the last, it ended
  pos,       \* per run: its place there: 0 before the readings, then in Calls
  said,      \* per run and district: what the services said
  reading,   \* per run and district: what the run made of it
  failures,  \* per run: its count
  exit,      \* per run: "running", "ok" or "error"
  rows,      \* what the tables hold, each row with the run that posted it
  flight,    \* rows of calls that timed out, which a handler may still write
  lapses     \* time-outs and uncounted failures so far

vars == <<at, pos, said, reading, failures, exit, rows, flight, lapses>>

NotAsked == [forecast |-> Missing, antecedent |-> Missing, river |-> Missing]
NotRead == [forecast |-> Missing, antecedent |-> Missing, river |-> Missing,
            basis |-> "antecedent_3d_accumulation"]

Init ==
  /\ at = [r \in Run |-> 1]
  /\ pos = [r \in Run |-> 0]
  /\ said = [rd \in Run \X District |-> NotAsked]
  /\ reading = [rd \in Run \X District |-> NotRead]
  /\ failures = [r \in Run |-> 0]
  /\ exit = [r \in Run |-> "running"]
  /\ rows = {} /\ flight = {} /\ lapses = 0

Here(r) == Districts[at[r]]
Read(r) == reading[<<r, Here(r)>>]
-----------------------------------------------------------------------------
(* The readings. *)

\* Mutant: without a forecast there is nothing to assess.
NothingWithoutForecast(f, a, v) == f = Missing

Nothing(f, a, v) == f = Missing /\ a = Missing /\ v = Missing

\* Rain is summed over the hours of the answer; one without a figure adds
\* nothing (`r or 0.0`), an answer without any is 0.0.
Total(answer) ==
  CASE answer = "blank" -> "zero"
    [] answer = "part" -> "low"
    [] OTHER -> answer

\* What the services may say of a district: only rain is given by the hour, and
\* without river or dam there is no river score.
Heard(d) ==
  [forecast : Answers[d], antecedent : Answers[d],
   river : IF d \in Rivered THEN Answers[d] \ Gaps ELSE {Missing}]

\* The antecedent rainfall and its basis: the API's, a whole figure; or, that
\* being missing or stale, Open-Meteo's, None if it has fewer hours than asked
\* for, and if that raises, nothing under the first basis.
Antecedent(answer) ==
  (IF answer \in Gaps THEN {} ELSE {<<answer, "antecedent_3d_accumulation">>})
  \cup (IF answer = Missing THEN {} ELSE {<<Total(answer), "antecedent_3d_observed_fallback">>})
  \cup (IF answer \in Gaps THEN {<<Missing, "antecedent_3d_observed_fallback">>} ELSE {})

\* get_forecast_precipitation raises and is counted.  A district with no
\* reading at all is passed over.
Fetch(r) ==
  /\ exit[r] = "running" /\ at[r] <= Len(Districts) /\ pos[r] = 0
  /\ \E told \in Heard(Here(r)) : \E rain \in Antecedent(told.antecedent) :
       LET f == Total(told.forecast) IN
       /\ said' = [said EXCEPT ![<<r, Here(r)>>] = told]
       /\ reading' = [reading EXCEPT ![<<r, Here(r)>>] =
                        [forecast |-> f, antecedent |-> rain[1], river |-> told.river,
                         basis |-> rain[2]]]
       /\ failures' = [failures EXCEPT ![r] = IF f = Missing THEN @ + 1 ELSE @]
       /\ IF Nothing(f, rain[1], told.river)
            THEN at' = [at EXCEPT ![r] = @ + 1] /\ UNCHANGED pos
            ELSE pos' = [pos EXCEPT ![r] = 1] /\ UNCHANGED at
  /\ UNCHANGED <<exit, rows, flight, lapses>>
-----------------------------------------------------------------------------
(* The calls. *)

Table(r) == Calls[pos[r]][1]
About(r) == Calls[pos[r]][2]

\* Alerts and history are posted for readings that are there; observations and
\* the prediction always.
Posts(r) == Table(r) \in {"queue", "history"} => Read(r)[About(r)] # Missing

Source(r) == IF About(r) = "antecedent" THEN Read(r).basis ELSE About(r)

\* Mutant: an absent forecast is dry weather everywhere.
ContentAlwaysANumber(r) ==
  IF Read(r)[About(r)] = Missing THEN "zero" ELSE Read(r)[About(r)]

\* The value posted; _record_prediction takes 0.0 mm for an absent forecast.
Content(r) ==
  IF Table(r) = "ledger" /\ Read(r).forecast = Missing THEN "zero" ELSE Read(r)[About(r)]

Row(r) == [table |-> Table(r), run |-> r, district |-> Here(r),
           signal |-> About(r), source |-> Source(r), value |-> Content(r)]

\* What the handler writes: assess_district queues from the threshold on.
Written(r) == IF Table(r) = "queue" /\ Content(r) # "high" THEN {} ELSE {Row(r)}

\* Only the alerts' failures are counted.
Counted(r) == IF Table(r) = "queue" THEN failures[r] + 1 ELSE failures[r]

Advance(r) ==
  /\ pos' = [pos EXCEPT ![r] = IF @ = Len(Calls) THEN 0 ELSE @ + 1]
  /\ at' = IF pos[r] = Len(Calls) THEN [at EXCEPT ![r] = @ + 1] ELSE at

InCalls(r) == exit[r] = "running" /\ pos[r] > 0

Skip(r) ==
  /\ InCalls(r) /\ ~Posts(r)
  /\ Advance(r)
  /\ UNCHANGED <<said, reading, failures, exit, rows, flight, lapses>>

Taken(r) ==
  /\ InCalls(r) /\ Posts(r)
  /\ rows' = rows \cup Written(r)
  /\ Advance(r)
  /\ UNCHANGED <<said, reading, failures, exit, flight, lapses>>

Lapse == lapses < MaxLapses /\ lapses' = lapses + 1

\* Refused, or out of reach; or the decision card could not be had.
Fails(r) ==
  /\ InCalls(r) /\ Posts(r)
  /\ failures' = [failures EXCEPT ![r] = Counted(r)]
  /\ IF Table(r) = "queue" THEN UNCHANGED lapses ELSE Lapse
  /\ Advance(r)
  /\ UNCHANGED <<said, reading, exit, rows, flight>>

\* The client gives up on a handler that goes on.
TimesOut(r) ==
  /\ InCalls(r) /\ Posts(r)
  /\ failures' = [failures EXCEPT ![r] = Counted(r)]
  /\ flight' = flight \cup Written(r)
  /\ Lapse
  /\ Advance(r)
  /\ UNCHANGED <<said, reading, exit, rows>>

Land(row) ==
  /\ row \in flight
  /\ rows' = rows \cup {row}
  /\ flight' = flight \ {row}
  /\ UNCHANGED <<at, pos, said, reading, failures, exit, lapses>>
-----------------------------------------------------------------------------
\* Mutant: a failure per district is an error.
ErrorFromOneEach(r) == failures[r] >= Len(Districts)

Error(r) == failures[r] >= 3 * Len(Districts)

\* run returns the exit status.
End(r) ==
  /\ exit[r] = "running" /\ at[r] > Len(Districts)
  /\ exit' = [exit EXCEPT ![r] = IF Error(r) THEN "error" ELSE "ok"]
  /\ UNCHANGED <<at, pos, said, reading, failures, rows, flight, lapses>>

Step(r) == Fetch(r) \/ Skip(r) \/ Taken(r) \/ Fails(r) \/ TimesOut(r) \/ End(r)

Next == (\E r \in Run : Step(r)) \/ (\E row \in flight : Land(row))

Spec == Init /\ [][Next]_vars
-----------------------------------------------------------------------------
(* Properties. *)

Entry == [table : {"queue", "history", "observe", "ledger"}, run : Run, district : District,
          signal : Signal, source : Basis \cup {"forecast", "river"}, value : Value]

\* The shape of the state: what a run has read, and where it is.
TypeOK ==
  /\ at \in [Run -> 1 .. Len(Districts) + 1]
  /\ pos \in [Run -> 0 .. Len(Calls)]
  /\ \A r \in Run : pos[r] > 0 => at[r] <= Len(Districts)
  /\ said \in [Run \X District -> [forecast : Answer, antecedent : Answer, river : Answer]]
  /\ reading \in [Run \X District ->
                   [forecast : Value, antecedent : Value, river : Value, basis : Basis]]
  /\ failures \in [Run -> Nat]
  /\ exit \in [Run -> {"running", "ok", "error"}]
  /\ rows \subseteq Entry /\ flight \subseteq Entry /\ lapses \in Nat

\* What is on record is what the services said to its run of that district,
\* under the basis it had it from, however late the row is written: a figure as
\* it was, no answer as a missing one, no alert below the threshold.  All that
\* is ever made up is dry weather: for the hours of rain an answer has no
\* figures for, and in the prediction made without a forecast.
OnlyDrynessIsInvented ==
  \A row \in rows :
    LET told == said[<<row.run, row.district>>][row.signal] IN
    /\ \/ row.value = told
       \/ told \in Gaps /\ row.signal # "river" /\ row.value \in {Missing, "zero", "low"}
       \/ told = Missing /\ row.table = "ledger" /\ row.value = "zero"
    /\ row.signal = "antecedent" => row.source = reading[<<row.run, row.district>>].basis
    /\ row.table = "history" => told # Missing
    /\ row.table = "queue" => told = "high"

\* The readings above the threshold that are not in the review queue.
Unqueued(r) ==
  {ds \in District \X Signal :
     /\ reading[<<r, ds[1]>>][ds[2]] = "high"
     /\ \A row \in rows :
          ~(row.table = "queue" /\ row.run = r /\ row.district = ds[1] /\ row.signal = ds[2])}

\* No signal masks another: when a run has ended, each reading above the
\* threshold, of any signal and district, is queued or counted as a failure.
NoSignalMasked ==
  \A r \in Run : exit[r] \in {"ok", "error"} => Cardinality(Unqueued(r)) <= failures[r]

\* A run ends with an error only if it had a river score for every district:
\* the count reaches three for each only through the fluvial pathway.
ErrorNeedsRivers ==
  \A r \in Run : exit[r] = "error" =>
    \A d \in District : d \in Rivered /\ reading[<<r, d>>].river # Missing
=============================================================================
