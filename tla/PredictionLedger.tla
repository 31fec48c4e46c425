-------------------------- MODULE PredictionLedger -------------------------
(***************************************************************************)
(* The prediction ledger and the verification of its predictions: the      *)
(* table (src/src/database/prediction_ledger_db.py), the handlers over it  *)
(* (src/src/api/v1/predictions.py), the evidence check they run            *)
(* (src/src/verification/outcome_verifier.py) and the daily job that asks  *)
(* for it (src/scripts/verify_predictions.py).                             *)
(*                                                                         *)
(* A run of the job lists the predictions still pending, then asks the API *)
(* to verify them one by one over HTTP.  A handler reads the evidence,     *)
(* which takes up to a minute, and then writes its verdict; it goes on     *)
(* when the run stops waiting for it.  Meanwhile the other uvicorn workers *)
(* record predictions and curators' verdicts, and nothing keeps two runs   *)
(* apart: one may be dispatched by hand while the scheduled one works.     *)
(*                                                                         *)
(* Time is a day number.  A run, with the handlers it started, fits in its *)
(* day: the workflow starts at 06:00 and ends within hours.                *)
(***************************************************************************)
EXTENDS Integers, Sequences, FiniteSets

CONSTANTS
  District,
  Place,          \* the place name news reports use for a district
  Worker,         \* uvicorn worker processes
  Runner,         \* processes that run the job: the workflow's, an operator's
  MinAge, MaxAge, \* _MIN_AGE_DAYS, _MAX_AGE_DAYS
  Window,         \* _DEFAULT_WINDOW_DAYS
  ImageDays,      \* days of imagery detect_flood looks back (12)
  ReportsNeeded,  \* _VERIFIED_REPORTS_THRESHOLD
  Limit,          \* rows the job's listing asks for (500)
  Outages,        \* whether evidence sources may be unavailable
  Lag,            \* how many days after its date evidence may surface
  PerDay, MaxPredictions, LastDay,              \* bounds on the environment
  MaxSightings, MaxCurations, MaxReverify,
  MaxMissed, MaxFailures                        \* bounds on the job's bad luck

ASSUME PlaceAssumption == District \subseteq DOMAIN Place
ASSUME AgeAssumption == MinAge \in Nat /\ MaxAge \in Nat /\ MinAge <= MaxAge
ASSUME WindowAssumption == Window \in Nat /\ ImageDays \in Nat
ASSUME ReportsAssumption == ReportsNeeded \in Nat \ {0}
ASSUME LimitAssumption == Limit \in Nat
ASSUME OutagesAssumption == Outages \in BOOLEAN
ASSUME BoundsAssumption ==
  /\ Lag \in Nat /\ PerDay \in Nat /\ MaxPredictions \in Nat
  /\ LastDay \in Nat /\ MaxSightings \in Nat
  /\ MaxCurations \in Nat /\ MaxReverify \in Nat
  /\ MaxMissed \in Nat /\ MaxFailures \in Nat

Source == {"news", "citizens", "satellite"}

\* What outcome_source says: the sources of a verdict of the job's, or free
\* text of a curator's, which may be a "clipping": name ReliefWeb or GDELT.
Origin == Source \cup {"curator", "clipping"}
Outcome == {"pending", "flood_confirmed", "no_evidence_found", "no_flood_confirmed"}
Row == [district : District, made : Nat, outcome : Outcome,
        source : SUBSET Origin]

\* A piece of evidence in the world: a headline, the n-th validated citizen
\* report of a day, a satellite image that shows new water.
Sighting == [source : Source, district : District, day : Nat, n : 1 .. ReportsNeeded]

Call == [id : Nat, outcome : Outcome, source : SUBSET Source]
NoCall == [id |-> 0, outcome |-> "pending", source |-> {}]

VARIABLES
  today,
  ledger,       \* prediction_ledger, in id order
  seen,         \* the evidence that can be found so far
  job,          \* per runner: "off", or the kind of run working through todo
  todo,         \* per runner: ids it listed and has not asked for yet
  waiting,      \* per runner: the worker it waits for ({}: none)
  call,         \* what each worker verifies: an id and the verdict it found
  ran,          \* a daily run came to its end today
  missed,       \* days that went by without one
  failures,     \* calls that failed or timed out so far
  curations, reverified   \* curators' verdicts and --reverify-news runs so far

run == <<job, todo, waiting>>
bounds == <<missed, failures, curations, reverified>>
vars == <<today, ledger, seen, run, call, ran, bounds>>

Id == DOMAIN ledger

Init ==
  /\ today = 0
  /\ ledger = <<>>
  /\ seen = {}
  /\ job = [r \in Runner |-> "off"]
  /\ todo = [r \in Runner |-> {}] /\ waiting = [r \in Runner |-> {}]
  /\ call = [w \in Worker |-> NoCall]
  /\ ran = FALSE
  /\ missed = 0 /\ failures = 0 /\ curations = 0 /\ reverified = 0
-----------------------------------------------------------------------------
(* The rows. *)

\* POST /predictions/record: a new row, its outcome NULL.
RecordPrediction(d) ==
  /\ Cardinality({id \in Id : ledger[id].made = today}) < PerDay
  /\ Len(ledger) < MaxPredictions
  /\ ledger' = Append(ledger, [district |-> d, made |-> today,
                               outcome |-> "pending", source |-> {}])
  /\ UNCHANGED <<today, seen, run, call, ran, bounds>>

\* record_outcome: UPDATE ... WHERE id = id, whatever the row says now.
WriteOutcome(id, outcome, source) ==
  LET row == ledger[id] IN
  ledger' = [ledger EXCEPT ![id] = [district |-> row.district, made |-> row.made,
                                    outcome |-> outcome, source |-> source]]

\* POST /predictions/{id}/outcome: a curator's own finding, in words of
\* their own.
Curate(id, outcome, words) ==
  /\ curations < MaxCurations
  /\ WriteOutcome(id, outcome, {"curator"} \cup words)
  /\ curations' = curations + 1
  /\ UNCHANGED <<today, seen, run, call, ran, missed, failures, reverified>>
-----------------------------------------------------------------------------
(* The evidence. *)

\* Something that happened on a day, today or up to Lag days ago, can be
\* found from now on.
Surface(s) ==
  /\ s \notin seen
  /\ s.day \in today - Lag .. today
  /\ s.n > 1 => s.source = "citizens"
  /\ Cardinality(seen) < MaxSightings
  /\ seen' = seen \cup {s}
  /\ UNCHANGED <<today, ledger, run, call, ran, bounds>>

\* Mutant: the window is open towards the past.
BeforeEndOfWindow(row, day) == day <= row.made + Window

InWindow(row, day) == row.made <= day /\ day <= row.made + Window

\* search_flood_reports and search_flood_news ask for the place, not the
\* district: the three Accra districts share one.
NewsConfirms(row) ==
  \E s \in seen : /\ s.source = "news" /\ Place[s.district] = Place[row.district]
                  /\ InWindow(row, s.day)

\* get_validated_report_count_in_window.
CitizensConfirm(row) ==
  Cardinality({s \in seen : /\ s.source = "citizens" /\ s.district = row.district
                            /\ InWindow(row, s.day)}) >= ReportsNeeded

\* detect_flood looks at the images of the days before the reference date,
\* the end of the window or today, whichever comes first.
SatelliteConfirms(row) ==
  LET end == row.made + Window
      reference == IF end < today THEN end ELSE today
  IN  \E s \in seen : /\ s.source = "satellite" /\ s.district = row.district
                      /\ reference - ImageDays <= s.day /\ s.day < reference

\* verify_outcome, with the sources that answer; one confirmation is enough.
VerifyOutcome(row, up) ==
  LET confirmations ==
        {source \in up : \/ source = "news" /\ NewsConfirms(row)
                         \/ source = "citizens" /\ CitizensConfirm(row)
                         \/ source = "satellite" /\ SatelliteConfirms(row)}
  IN  [outcome |-> IF confirmations = {} THEN "no_evidence_found" ELSE "flood_confirmed",
       source |-> confirmations]
-----------------------------------------------------------------------------
(* The handler of POST /predictions/{id}/auto-verify, on worker w.  Its    *)
(* checks are taken as made when it starts (PostAutoVerify): evidence that *)
(* surfaces while it runs could as well have surfaced before.              *)

\* The run waiting for the worker, if it still does, goes on.
StopWaiting(w) == waiting' = [r \in Runner |-> waiting[r] \ {w}]

\* The verdict is written and the response ends the run's wait.
RecordVerdict(w) ==
  /\ call[w] # NoCall
  /\ WriteOutcome(call[w].id, call[w].outcome, call[w].source)
  /\ call' = [call EXCEPT ![w] = NoCall]
  /\ StopWaiting(w)
  /\ UNCHANGED <<today, seen, job, todo, ran, bounds>>

\* The worker crashes or the container is replaced.
HandlerDies(w) ==
  /\ call[w] # NoCall
  /\ failures < MaxFailures
  /\ failures' = failures + 1
  /\ call' = [call EXCEPT ![w] = NoCall]
  /\ StopWaiting(w)
  /\ UNCHANGED <<today, ledger, seen, job, todo, ran, missed, curations, reverified>>
-----------------------------------------------------------------------------
(* The job. *)

Newest(ids, n) == {i \in ids : Cardinality({j \in ids : j > i}) < n}

Age(id) == today - ledger[id].made

\* Mutant: the listing forgets its filter on pending rows.
ListEverything == {id \in Newest(Id, Limit) : Age(id) \in MinAge .. MaxAge}

\* Mutant: the listing takes the endpoint's default limit, a fraction of 500.
ListByDefault ==
  LET pending == {id \in Id : ledger[id].outcome = "pending"}
  IN  {id \in Newest(pending, Limit \div 2) : Age(id) \in MinAge .. MaxAge}

\* GET /predictions?outcome=__pending__&limit=..., then the ages.
ListPending ==
  LET pending == {id \in Id : ledger[id].outcome = "pending"}
  IN  {id \in Newest(pending, Limit) : Age(id) \in MinAge .. MaxAge}

\* --reverify-news: what the news confirmed, at any age.  The job goes by
\* the names in the source's text, whoever wrote it.
ListNewsConfirmed ==
  {id \in Id : /\ ledger[id].outcome = "flood_confirmed"
               /\ ledger[id].source \cap {"news", "clipping"} # {}}

\* The cron's run, or one dispatched by hand.
StartRun(r) ==
  /\ job[r] = "off"
  /\ job' = [job EXCEPT ![r] = "daily"] /\ todo' = [todo EXCEPT ![r] = ListPending]
  /\ UNCHANGED <<today, ledger, seen, waiting, call, ran, bounds>>

StartReverify(r) ==
  /\ job[r] = "off"
  /\ reverified < MaxReverify
  /\ job' = [job EXCEPT ![r] = "reverify"]
  /\ todo' = [todo EXCEPT ![r] = ListNewsConfirmed]
  /\ reverified' = reverified + 1
  /\ UNCHANGED <<today, ledger, seen, waiting, call, ran, missed, failures, curations>>

\* A listing is worked through in its order, newest first.
NextListed(r, id) ==
  /\ job[r] # "off" /\ waiting[r] = {}
  /\ id \in todo[r]
  /\ \A other \in todo[r] : other <= id

PostAutoVerify(r, id, w, up) ==
  LET verdict == VerifyOutcome(ledger[id], up) IN
  /\ NextListed(r, id)
  /\ call[w] = NoCall
  /\ call' = [call EXCEPT ![w] =
       [id |-> id, outcome |-> verdict.outcome, source |-> verdict.source]]
  /\ todo' = [todo EXCEPT ![r] = @ \ {id}]
  /\ waiting' = [waiting EXCEPT ![r] = {w}]
  /\ UNCHANGED <<today, ledger, seen, job, ran, bounds>>

\* The request is refused or lost: the run counts a failure and goes on.
PostFails(r, id) ==
  /\ NextListed(r, id)
  /\ failures < MaxFailures
  /\ todo' = [todo EXCEPT ![r] = @ \ {id}]
  /\ failures' = failures + 1
  /\ UNCHANGED <<today, ledger, seen, job, waiting, call, ran, missed, curations, reverified>>

\* requests.post(timeout=60): the run goes on, and so does the handler.
TimeOut(r) ==
  /\ waiting[r] # {}
  /\ failures < MaxFailures
  /\ waiting' = [waiting EXCEPT ![r] = {}]
  /\ failures' = failures + 1
  /\ UNCHANGED <<today, ledger, seen, job, todo, call, ran, missed, curations, reverified>>

FinishRun(r) ==
  /\ job[r] # "off" /\ todo[r] = {} /\ waiting[r] = {}
  /\ job' = [job EXCEPT ![r] = "off"]
  /\ ran' = (ran \/ job[r] = "daily")
  /\ UNCHANGED <<today, ledger, seen, todo, waiting, call, bounds>>

\* The workflow's own time limit, or a cancelled run.
RunKilled(r) ==
  /\ job[r] # "off"
  /\ failures < MaxFailures
  /\ failures' = failures + 1
  /\ job' = [job EXCEPT ![r] = "off"]
  /\ todo' = [todo EXCEPT ![r] = {}] /\ waiting' = [waiting EXCEPT ![r] = {}]
  /\ UNCHANGED <<today, ledger, seen, call, ran, missed, curations, reverified>>
-----------------------------------------------------------------------------
\* Midnight.  A day may go by without a completed run: the schedule was
\* dropped, the listing failed, or the run was killed.
NextDay ==
  /\ today < LastDay
  /\ \A r \in Runner : job[r] = "off"
  /\ \A w \in Worker : call[w] = NoCall
  /\ ran \/ missed < MaxMissed
  /\ today' = today + 1
  /\ missed' = IF ran THEN missed ELSE missed + 1
  /\ ran' = FALSE
  /\ UNCHANGED <<ledger, seen, run, call, failures, curations, reverified>>

Next ==
  \/ \E d \in District : RecordPrediction(d)
  \/ \E id \in Id :
       \/ \E outcome \in {"flood_confirmed", "no_flood_confirmed"},
             words \in SUBSET {"clipping"} : Curate(id, outcome, words)
       \/ \E r \in Runner :
            \/ \E w \in Worker, up \in (IF Outages THEN SUBSET Source ELSE {Source}) :
                 PostAutoVerify(r, id, w, up)
            \/ PostFails(r, id)
  \/ \E s \in [source : Source, district : District,
               day : 0 .. today, n : 1 .. ReportsNeeded] : Surface(s)
  \/ \E w \in Worker : RecordVerdict(w) \/ HandlerDies(w)
  \/ \E r \in Runner :
       StartRun(r) \/ StartReverify(r) \/ TimeOut(r) \/ FinishRun(r) \/ RunKilled(r)
  \/ NextDay

Spec == Init /\ [][Next]_vars
-----------------------------------------------------------------------------
(* Properties. *)

\* Types of every variable.
TypeOK ==
  /\ today \in Nat
  /\ ledger \in Seq(Row)
  /\ seen \subseteq Sighting
  /\ job \in [Runner -> {"off", "daily", "reverify"}]
  /\ todo \in [Runner -> SUBSET Id] /\ waiting \in [Runner -> SUBSET Worker]
  /\ call \in [Worker -> Call]
  /\ \A w \in Worker : call[w] # NoCall => call[w].id \in Id
  /\ ran \in BOOLEAN
  /\ missed \in Nat /\ failures \in Nat /\ curations \in Nat /\ reverified \in Nat

\* The evidence holds what a verdict on a row that names these sources needs.
Supports(evidence, source, row) ==
  LET Since(s) == s.day - row.made \in 0 .. Window
  IN  /\ "news" \in source =>
           \E s \in evidence : /\ s.source = "news" /\ Since(s)
                               /\ Place[s.district] = Place[row.district]
      /\ "citizens" \in source =>
           Cardinality({s \in evidence : s.source = "citizens" /\ Since(s)
                                         /\ s.district = row.district}) >= ReportsNeeded

\* A confirmation that names the news or the citizens rests on evidence of
\* theirs, for that place or district, dated within the window after the
\* prediction: whatever was re-checked, timed out or verified twice.
ConfirmationsAreGrounded ==
  \A id \in Id : Supports(seen, ledger[id].source, ledger[id])

\* No prediction grows too old to be verified while it waits for a verdict,
\* as long as no more than MaxMissed days go by without a completed run and
\* no more than MaxFailures calls fail: the run's limit leaves room for the
\* predictions still too young, which the listing puts first.
NothingExpiresPending ==
  \A id \in Id : Age(id) > MaxAge => ledger[id].outcome # "pending"

Curated(id) == id \in Id /\ "curator" \in ledger[id].source

Touchable(id) ==
  \/ \E r \in Runner : id \in todo[r]
  \/ \E w \in Worker : call[w].id = id

\* A curator's verdict entered while no run had listed the prediction and no
\* handler was verifying it is final: only another curator replaces it, and
\* no later run lists it.  The exception is in the code: a re-verification
\* of the news lists a confirmation in which a curator cites ReliefWeb or
\* GDELT, and may replace it.
SettledVerdictsStand ==
  [][\A id \in Id : Curated(id) /\ ~Touchable(id) =>
       /\ Curated(id)'
       /\ Touchable(id)' =>
            /\ reverified' > reverified
            /\ ledger[id].outcome = "flood_confirmed"
            /\ ledger[id].source \cap {"news", "clipping"} # {}]_vars
=============================================================================
