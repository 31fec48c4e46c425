# A verification development for the NFCC flood platform

TLA+ models of the parts of the platform whose order of events matters, and of
the calculations whose parts must agree: the human review queue and the alert
engine behind it, the limits on sending, the subscriptions and send loops that
decide who is told, citizens' reports, the assessment job, the prediction ledger
and its verification, the database that can fall back, the fusion of evidence
with the card and the page that show it, the live sources and their caches, the
dashboard's demo and review page, and the weekly research forecast. TLC checks
the models on small instances; TLAPS proves what matters most about each of them
for every value of the constants. Paths are given as `src/<path in the
repository>`.

## 1. The system

One Cloud Run container runs `uvicorn --workers 4` over SQLite files that
Litestream replicates to object storage (`src/entrypoint.sh`). Scheduled
GitHub workflows run scripts that talk to the API over HTTP only.

| Part | State | Operations | What is hard |
|---|---|---|---|
| Review queue (`api/routes/alert_review.py`, `database/alert_db.py`) | `pending_alerts` rows: pending, approved, cancelled, dismissed; Actual or Exercise | assess, exercise, approve, cancel, dismiss | several processes decide one row; a decision sends messages that cannot be taken back; it is handed back when the engine raises; crashes |
| Alert engine (`alerts/engine.py`) | provider list, rate limiter, `alert_history` | `process` | partial failure of providers; what raises and what does not |
| Approval key (`api/auth.py`) | - | `enforce_approval_key` | asked for by the row as first read |
| Send gate (`alerts/rate_limit.py`, `cooldown.py`) | sorted sets in Redis, or a dictionary per process | `can_send`, `record`, cooldown | check-then-act over processes, Redis coming and going |
| Providers and subscriptions (`alerts/providers/`, `channel_subscriptions_db.py`, `alert_subscription_commands.py`) | subscriber rows per channel | START, STOP, send loops with retries | recipients read before a long loop; a retry after an accepted send; duplicates |
| Prediction ledger (`database/prediction_ledger_db.py`, `api/v1/predictions.py`) | append-only rows with one mutable outcome | record, outcome, auto-verify, list | unconditional UPDATE, written long after its evidence was read |
| Verification (`verification/`, `scripts/verify_predictions.py`) | the job's listing | list pending, ask for each; re-verify news | time-outs with the handler still at work; overlapping runs; a row limit; time windows |
| Database durability (`entrypoint.sh`, `litestream.yml`) | replicated files | restore on a fresh container | a restore loses the last writes; row ids are used again |
| Community reports (`community/`, webhooks, `api/v1/community_reports.py`) | `reports` | receive, store, reply, list, validate | redelivered and edited messages, workers that die between storing and answering, an operator's page older than the table |
| Assessment job (`scripts/automated_risk_assessment.py`) | none | per district: assess up to three signals, record history, observations, a prediction | partial failure, time-outs of calls that go on, no de-duplication |
| Observation and risk history (`database/*_history_db.py`) | append-only rows | save, list | written by the job only |
| CAP export (`api/routes/cap_export.py`) | - | alert to CAP XML | a cancellation's reference to its alert |
| Risk fusion and card (`models/multi_source_confidence.py`, `api/routes/decision_card.py`, `exposure/impact_estimator.py`) | - | score, tiers, confidence, evidence list, impact | sources that are missing; parts computed apart from the same evidence; means that hide |
| Live sources (`hydrology/`, `data_quality/`, `api/v1/health.py`) | caches per worker, a login per process | fetch, grade, report | stale readings, outages, empty answers, caches of different lives |
| Dashboard (`hackathon/app/pages/dashboard.py`, `modules/v4/`) | Streamlit session and caches | pages of a district, kiosk, map, demo, review queue | calls that fail one by one; script runs that are thrown away; pages older than their rows |
| Weekly forecast and research data (`research/flood_experiments/`) | a git branch; files kept between commands | shadow run, pulls, assembly | slow APIs, concurrent pushes, kills while writing |
| Alert history, copilot's model, skill evaluation, experiments, operations scripts | - | reads, formulas, formatting | - |

How they interact. The assessment job posts to `/alerts/assess`, which scores a
district and queues an alert, and to `/v1/predictions/record`. A reviewer's
browser posts approve, cancel or dismiss; the handler claims the row with a
conditional UPDATE and calls `AlertEngine.process(force=True)` for an Actual
alert, which calls each provider in turn. Telegram and WhatsApp webhooks write
subscriptions and community reports. The daily verification job lists pending
predictions and calls `/v1/predictions/{id}/auto-verify`, whose handler asks
ReliefWeb, GDELT, the `reports` table and Sentinel-1 and writes a verdict; a
curator may write one as well.

What makes each part correct, in a sentence:

* review queue: one broadcast and one retraction per alert and provider, only
  by decision, never for a drill, no retraction undone, every provider tried;
* send gate: no more sends in a window than its limit, whoever counts;
* outreach: nobody is messaged who did not ask, nobody on a list is passed over,
  nobody hears the same alert twice for a reason inside the platform;
* ledger: a verdict rests on evidence of the window it speaks of, a human's
  verdict stands, no prediction is forgotten;
* durability: what was sent stays decided after a restore;
* reports: a report is stored or answered, once but for calls nobody got an
  answer of, and only reviewed reports are evidence;
* assessment: what is on record is what the services said, but that hours without a
  figure count as dry, and no signal is lost uncounted;
* fusion, card and page: no pathway is averaged away, worse evidence never looks
  better, and what is shown side by side does not contradict itself;
* live sources: a reading is fresh or flagged, and an outage ends with the caches;
* dashboard: the demo waits for the decision it asks for; the newest CAP message
  says how the alert stands;
* research: a slow API does not stop the weekly run, no forecast on record is
  lost, every gap in a table has a reason.

`PROJECT.json` lists every component with its status, and the hazards with the
line where each one bites and the properties that would catch it.

## 2. Modules

| Module | Role |
|---|---|
| `AlertLifecycle` | what the queue promises about an alert, without workers or engine |
| `AlertReview` | the queue, its handlers and the engine as the code has them |
| `MCAlertReview` | instances of it for TLC |
| `AlertReview_proofs` | its inductive invariant and safety theorems; it implements `AlertLifecycle` |
| `Outreach` | opting in and out, and the providers' send loops |
| `MCOutreach` | instances of it for TLC |
| `Outreach_proofs` | its inductive invariants and safety theorems |
| `PredictionLedger` | the ledger, the evidence check and the verification job |
| `MCPredictionLedger` | instances of it for TLC |
| `PredictionLedger_proofs` | two theorems on verdicts, one on predictions that would be forgotten |
| `SendGate`, `MCSendGate` | the cooldown and the hourly limit in several processes |
| `SendGate_proofs` | the bound on the overshoot, and what the cooldown keeps |
| `CommunityReports`, `MCCommunityReports` | from a chat message to a validated report |
| `CommunityReports_proofs` | its inductive invariant, and its four safety properties |
| `AssessmentJob`, `MCAssessmentJob` | the three-hourly job and the rows it leaves |
| `AssessmentJob_proofs` | its inductive invariant, and its three safety properties |
| `Durability`, `MCDurability` | the review queue over a database that falls back |
| `Durability_proofs` | what is kept: its inductive invariant and three safety properties; one theorem on `WeeklyForecast`'s log, one on its outages, one on `ResearchPulls` |
| `RiskFusion` | evidence, pathways, fused risk and confidence |
| `DecisionCard` (extends it) | what the card, the evidence list and the panels say beside it |
| `DistrictPage` (extends that), `MCDecisionCard` | the dashboard's page of a district, when some of its calls fail |
| `LiveSources`, `MCLiveSources` | eight sources behind caches, and who calls their readings current |
| `CapExport` | the CAP messages of one alert over time |
| `Dashboard` (extends it), `MCDashboard` | the stakeholder demo and the review page |
| `WeeklyForecast` | the weekly workflow and the branch it appends to |
| `ResearchPulls` | the commands that pull and assemble the research data |
| `MCResearch` | the last two, one at a time |
| `Screens_proofs` | what is shown and handed out: the theorems on `CapExport`, `Dashboard`, `LiveSources`, `RiskFusion`, `DecisionCard` and `DistrictPage` |

Composition: `Dashboard` extends `CapExport`, whose exports the review page hands
out, `DistrictPage` extends `DecisionCard` extends `RiskFusion`, and
`AlertReview` instantiates `AlertLifecycle`. The other parts meet in
the review queue, and each takes over what another has shown: `Outreach` and
`Durability` take a decision as made once, which `AlertReview` shows of the
handlers.

### AlertReview

`status` and `row` are `pending_alerts`. No handler awaits between its database
and engine calls, so a worker process executes one handler at a time, and the
points where another process can come in between are the SQL statements and the
provider calls: each is an action. `pc[w]`, `job[w]` and `cursor[w]` are a
worker's place in its handler:

    idle -ReadForDecision-> claim -ClaimWon-> build -EnterProviderLoop-> send
                              |                 |                      SendVia*
                           ClaimLost      PayloadRejected            FinishProcess
                                                | Release

`ReadForDecision` is the handler's SELECT, status check and approval key;
`ClaimWon` / `ClaimLost` the conditional UPDATE of
`transition_pending_alert_status`; `PayloadRejected` the one way `process`
raises (an empty location), `BelowThreshold` its silent return, `SendVia` one
`provider.send`, `Release` the hand-back in `_send_or_release`. `WorkerDies`
and `Redeploy` lose every worker's place; a redeployment may change
`ALERT_THRESHOLD_MODERATE`. `originals`, `retractions` and `delivered` record
the provider calls, so that properties can speak of what the public heard.

Left out: the display columns of an alert; the rate limiter's count and the
history rows, which decide nothing when `force=True`; the loss of the newest
writes in a restore, which is `Durability`'s.

### Outreach

`AlertReview` takes a provider's `send` as one step and shows that each
broadcast is made by one worker, once; `Outreach` takes that for granted
(`stage`) and looks inside. `sub` is `channel_subscriptions`. A citizen's
command (`Ask`, external) waits in `inbox` until an idle worker handles it
(`HandleCommand`: `handle_subscription_command` with the SQL it calls). Telegram
delivers an update again when it was not acknowledged, in any order; Twilio does
not (`CommandLost`). Handlers never await, so a worker in the loop handles no
command and the others do.

`at[w]`, `cursor[w]` and `listed[w]` are a worker's place in the engine's loop
over `Providers`: `ReadRecipients` is what `send` reads first (`Entries`: the
settings' names and, for the chats, the district's subscribers), and then each
entry is attempted: `Delivers`, `Fails` (an exception, repeated up to
`Tries[channel]` times), `Rejected` (WhatsApp's errors that are not retried),
`AnswerLost` (the gateway took the message and the call failed). `FinishProvider`
returns the result, `ReadFails` is the exception `process` catches, `WorkerDies`
loses the rest. `accepted`, `lost`, `undelivered`, `roll` and `report` record
what was sent and said, for the properties.

The order of the entries of a list is left open. The e-mail list is one
recipient, as it is one SMTP message. `client` is what each worker made
of each channel's Twilio client: one that does not start leaves the provider in mock mode for
good, where each entry counts as a success and nothing is sent (`mocked`). A
channel without credentials is in mock mode throughout (`Unconfigured`, none in the run). Left out:
dry-run and the stand-in that the factory puts in place of all providers, which send nothing; the tier filter,
which every subscriber passes because a chat command subscribes with MODERATE, the
lowest tier the engine sends.

### PredictionLedger

`ledger` is the table in id order; a prediction's date is a day number.
`seen` is the evidence the outside world offers so far (`Surface`, external),
at most `Lag` days late. Each runner process works through the list it read
(`job`, `todo`, `waiting`): `StartRun` is the listing with its limit and age
bounds, `PostAutoVerify` a request reaching a worker, `TimeOut` the 60-second
limit of the request, after which the handler goes on, `PostFails` a refused
request, `RunKilled` a cancelled workflow. `StartReverify` is
`--reverify-news`, which lists every confirmation that cites the news, a curator's
too, as the source that comes with `Curate` is free text. The workflow has no concurrency group, so runs overlap. A
handler's evidence checks are taken as made when it starts, as later evidence
could as well have surfaced earlier; its `UPDATE` (`RecordVerdict`) is a step of its own, and
`HandlerDies` one that never comes. `VerifyOutcome` translates `verify_outcome`
with the window, the report threshold, the city shared by the Accra districts
and the imagery window of `detect_flood`. Outages of any set of sources are
part of `PostAutoVerify`.

Left out: risk scores and snapshots stored with a prediction; how the clients
filter headlines; ties within a day.

### SendGate

One location, since keys are per location. `key` is the cooldown key in Redis,
`last[w]` the one in a process's memory; `store` and `stamp` say where and when an
alert was counted. `client[w]` and `limiter[w]` are what a process decided about
Redis when it first asked; `Flip` is Redis going or coming back, `Restart` a new
process. `Begin`, `Look`, `SetKey`, `CheckLimit`, `DeliverAndRecord` and
`DeliveryFails` are the calls of `process`, apart because the count is read before
the providers answer and written after; `Reset` and `ClearCooldown` are the two
overrides. `gate` and `raced` remember who passed the cooldown, and when two
looked before either had set the key. Left out: scores below MODERATE, which
touch nothing.

### CommunityReports

An update is one version of a message (`Write`, an edit being another version).
Telegram repeats a call that was not acknowledged, Twilio does not; `NoAnswer`,
`HangUp` and `WorkerDies` are the ways a call ends without an answer, with the
handler going on or not. `Receive` is the webhook up to the parser (`OnlyReplied`:
the commands and the empty texts it answers at once), `Store` the INSERT under
`Filed` (the longest known name in the text), `StoreFails` the exception, `Reply`
the answer. `List` is the operator's page and `Validate` the button on it, which
finds a report among the newest `Reach` rows. `Confirms` is what the verification
counts. Left out: type, urgency, depth and coordinates, which decide nothing.

### AssessmentJob

`at` and `pos` are a run's place in the walk over districts and calls, `Fetch`
the three readings with their fallbacks. `Taken`, `Fails`, `TimesOut` and `Skip`
are what becomes of a call; `Land` is a handler that finishes after its client
gave up, and `End` the exit code. `rows` are all tables, each row with the run
that posted it. A reading is missing, low or high, as the job and the handlers
compare it with one threshold; an answer to the forecast has figures, some, or none,
and what it lacks is counted as no rain.

### Durability

`log` is the sequence of writes to `pending_alerts`, `replica` how many of them
the replica holds. `Decide` claims by the row id of a page (`Look`) that may be older than
the table, `Broadcast` sends, `Replicate` copies a write, `Replace` is a container
that restores the replica and forgets the rest. `NextId` counts from the restored
table, as AUTOINCREMENT does. `lost` and `strayed` are history.

### RiskFusion, DecisionCard, DistrictPage

The state is the evidence: rain, water levels, percentiles, satellite, reports.
It changes one piece at a time, as the world does; a card is what the operators
give in a state. `Score` is `calculate_score` with the district's drainage,
`Fluvial`, `Observation` and the rain are the sources (`Reports` are those that can
be read: a lookup that fails, `LookupTurns`, finds none), `Fused` the noisy-or of the
pathways' means, `Confidence` the product of coverage and agreement before its root. Floating
point is replaced by truncated integers in the units the module names, finer than
what the screens show.

`DecisionCard` adds what is computed apart from the fusion: `Items` and
`Available` (the evidence list), `Basis`, `DataGaps`, `NotAssessed`, the impact
estimate and its tier tables, `Timeline` and `Trend`. `DistrictPage` adds the
page: `Replies` are the sets of calls that may have been answered, and `State`,
`Hours`, `Assurance`, `Banner`, `Guidance`, `Affected` and `Panel` what is then
shown, defaults and illustrations included. Left out: soil moisture in the card,
which only the list shows; the map; the lengths of bars.

### LiveSources

A behaviour is about one of eight sources and a screen in front of it. `service`
is up, empty or down; the satellite also needs an image of the same pass 30 to 60 days
before (`HasBaseline`, `Pass`); a worker's `cache` lives as long as its source's (`InLife`:
from the fetch, or by the day and month for the `lru_cache`s), Earth Engine's `login` is made when a
process starts. `ReadSource` is a caller of the API, `Answers` what it is told,
`OpenHome`, `KioskRefresh` and `AskCopilot` the screens, with the page's own cache.
`PresentFor` and `Unified` are the forecast fusion, `Grade`, `SystemStatus`,
`Reported` and `Overall` the quality and health reports. A dry day that nobody
measured is a kind of its own, so that it can be told from a reading. Times are
scaled; only their order matters.

### CapExport, Dashboard

`row` is the alert with its two stamps, `Stamp` what
`transition_pending_alert_status` does to it, a release included, and `Message`
what an export hands out at that moment. `Dashboard` keeps the Streamlit session:
`stage`, `assessed`, `prompt` and `outcome` are the session's keys of the demo,
`run` is the script, which starts over at each interaction, and `RenderCalm`,
`RenderAtRisk`, `TimerFires` and `Decide` are what it then does. Every call is answered, lost
after it was handled, or failed; the page learns only whether it was answered. A call
is a step of the server (`Assess`, `Resolve`) and one of the page (`HearAssessed`, `HearDecided`),
and `Interact` may throw the run away between them.
`RenderReview`, `Click` and `Download` are the review page over `CapExport`.
A behaviour is about the demo or about the review page, as neither touches the
other's state.

### WeeklyForecast, ResearchPulls

A run of the workflow is started by `Schedule`, `Dispatch` or `Rerun`, computes
(`Compute`, with what it meets: Earth Engine, slow and refused batches, odd
answers, districts that cannot be scored; requests that time out cost their minutes and the waits after
them, whether the batch is answered in the end or not) within a budget of minutes, commits on
what it fetched of the branch and pushes. `ResearchPulls` walks through the files
of a command (`Plan`): a file is absent, torn or whole, `Open` tears it and
`Close` makes it whole, `Take` trusts what is there, `Collect` gathers what is
there, `Kill` leaves what was being written.

## 3. What TLC checks

| Run | Instance | Shows |
|---|---|---|
| `review` | 3 workers, 1 alert, 2 providers, 2 crashes or redeployments | no double broadcast, open means silent, a retraction stands, drills are silent, the key is asked for; implements `AlertLifecycle`; a won approval reaches every provider, or a provider call never ends |
| `ledger_verdicts` | 2 runners, 2 workers, 2 predictions over 3 days, outages, a curator, a re-verification, a failure | confirmations are grounded; settled curators' verdicts stand, unless a re-verification of the news lists them |
| `ledger_backlog` | a prediction a day for 8 days, limit 5, a missed day, two failures | nothing expires unverified |
| `outreach` | 2 workers, WhatsApp and Telegram, 2 tries, a citizen and an official, 2 commands, 2 districts, 1 crash | only the asking are told, copies are explained, reports are honest and nobody is overlooked but in mock mode; a broadcast ends unless a gateway holds it |
| `send_gate` | 2 workers, 3 alerts, limit 1, Redis lost or found, a restart, an override | the limit is overshot by fewer than the workers; the cooldown is passed twice only by a race or by a process's own memory |
| `reports` | an edited Telegram message and a WhatsApp message, 2 workers, a lost answer, pages of 1 of 2 rows | copies explained, nothing swallowed, honest replies, evidence reviewed; Telegram's reports get through |
| `assessment` | 1 run, 2 districts below dams, any reading, answers without figures, a time-out or an uncounted failure | only dryness is invented, no signal masked; an error exit needs all river scores |
| `durability` | 2 alerts, 1 reviewer, 1 replaced container | repeats, open rows and strayed decisions are each explained by a loss |
| `fusion` | 5 districts, 7 amounts of rain, 4 levels, with and without a history, 3 reports that may be unreadable | no pathway averaged away; card, list and page agree whatever calls fail; worse evidence never looks better, but for two dips; silence explained |
| `sources` | each source, 2 workers, 5 instants, old images or none | fresh or flagged, outages pass, live screens explained |
| `dashboard` | 3 stages of which 2 are at risk, 2 showings, 2 failed calls, 4 alerts; the review page over 4 instants | the demo holds for the decision; the newest CAP message stands |
| `research` | 3 workflow runs over 2 weeks; 2 shells, 3 commands, a kill and a failed download | outages tolerated, the log keeps its forecasts, gaps explained |

Why these bounds are enough. Two workers on one row are what a race needs; the
third in `review` is there to lose a claim while two others are
between decision and hand-back. Two providers give a first that fails and a
second to reach. Both scores, below and above the higher threshold, make
`BelowThreshold` happen after a redeployment. In the ledger two runners and two
workers give two handlers on one row, with a third verdict by the curator;
days keep the order of the code's 3, 14, 30 and 12, as said in
`MCPredictionLedger`. In `outreach` one worker broadcasts while the other handles
commands; two recipients give a list in which one entry fails before another, an
official who subscribes is on it twice, and two tries make both ends of the
retry loop happen. WhatsApp has every branch the SMS and e-mail loops have.
In `ledger_backlog` the limit of 5 is tight: with 4 the
property fails, and `Roomy`, from which TLAPS proves it, asks for 6. It stands for the code's 500 rows at 9 districts times 8
assessments a day, of which three days' worth (216) are too young and take
room in the listing.
In `send_gate` a third alert finds what two racing workers left; the cooldown is
shorter than the window, as 30 minutes are shorter than an hour. `reports` has an update
more than a row's page and as many as the threshold, so that pages go stale and
evidence can be reached. In `assessment` both districts have rivers, without which
no error exit is reachable, and the second district's services say a high figure or nothing, as the first
has met every answer before it; overlapping runs share nothing but the tables they
append to, so one run is enough. In `durability` one restore gives every loss and
every id again; a reviewer's page may be from before it. `fusion` has rain of
every tier and on both sides of the dip, levels on each side of every threshold, histories with and without
percentiles, and enough reports for each step of their weight. In `sources` five
instants hold two lives of the longest cache; the satellite passes once an instant and its baseline is two
to three instants old (`Near`, `Far`), so that one is lost after a gap, and `Archives` has images from before the
start or none. `dashboard` has room for four alerts: one for each of the two stages at risk in each of the two
showings, or more of one stage by runs thrown away. `research` has six batches of each
API, the code's number, against the sixty minutes in quarters, with every wait and 23 time-outs, which
is just within the limit, every wait and 24, which is not, and nine batches that are
answered after three time-outs each, which is not either.

Counters that grow (`restarts`, `crashes`, `flips`, `drops`, `lapses`, the commands
asked, `failures`, `curations`, `missed`, `reverified`, `faults`, the starts, kills
and faults `left`, days, predictions, sightings, time) stop at the constants named
Max..., `Horizon`, `Showings`, `Faults`, `LastDay` or `LastWeek` in the guards.
`CHECK_DEADLOCK FALSE` is there because these bounds, and a queue in
which every alert is decided, do let the system stop.

Symmetry is used in runs that check safety only.

Fairness. `Outreach` assumes weak fairness of a worker's own steps except while it
awaits a gateway other than Telegram (`AwaitsGateway`): only `requests.post` to
Telegram has a timeout, the Twilio and SMTP calls have none. So it cannot be
claimed that a broadcast ends; `OnlyGatewaysHold` says that one that never does
hangs in such a call. `AlertReview` assumes weak fairness of each worker's own steps
(`OwnStep`), which are synchronous code, and none of its provider calls (`SendVia`), so that
`ApprovalReachesEveryProvider` excepts a worker that stands in such a call for good
(`StandsInCall`). No reviewer, job or restart is fair. `CommunityReports` assumes weak
fairness of the handlers (local SQL and a reply) and of Telegram's repeated
delivery to whatever worker is free, which is Telegram's webhook contract; of
Twilio nothing, as it does not repeat. `PredictionLedger` needs none:
`NothingExpiresPending` counts the
days without a completed run and the failed calls as bounded environment moves
(`MaxMissed`, `MaxFailures`), which turns "is verified in time" into an
invariant.

Every property of every run has a mutant of the code's definition
(`PROJECT.json`, "mutants") under which TLC finds it violated: a claim that
matches the id alone, a hand-back after the loop, a drill that reaches the
engine, a provider loop that stops at a failure, a listing without its filter, a
count that lets one more pass, a cooldown key that expires at once, a place taken
by the shortest name, a district skipped for want of a forecast, a claim that trusts the
page, a cache kept for good, a failure that is cached, a timer that does not mind the
prompt, a forced push, a wait in minutes, and so on.

### Where the code and its documents disagree

`PROJECT.json` "findings" has 59, each with the line and the words it
contradicts. The models behave as the code does, and where a property would
otherwise fail it names the exception. In groups:

* **Review queue and outreach.** An approved alert of which nothing was sent
  cannot be retried, as the engine never raises once it calls providers;
  a correction may precede or lack its alert; it reads the subscriptions anew and
  misses people; a WhatsApp number is merged before it has one form; a Twilio client that does
not start turns alerts into successes that nobody was sent.
* **Ledger.** A verdict of no evidence after three of fourteen days; an image from
  before the prediction confirms it; the job replaces a curator's verdict, and so does a re-verification one that cites the news; a
  missing forecast is recorded as 0.0 mm and later scored, and so is an answer without figures.
* **Send gate.** The limit is counted and recorded in two calls; a Redis lost
  after the first decision lets alerts pass without the cooldown's memory.
* **Reports.** A location shared without a word is dropped; an edit is a second
  report; a report beyond the newest thousand cannot be validated; an
  unclassified one cannot be filed by anybody.
* **Durability.** Decisions name their alert by row id alone, and a restore gives
  ids again; durable holds up to the replica's lag.
* **Fusion, card and page.** A source that goes down can raise the confidence; the
  first verified report dilutes a detection; three reports of any past flood
  verify today's; a failed lookup of the reports reads as none; the card's action follows the rain alone; the river above Bagre
  weighs in the risk without an item on the list; the rain's curve
  falls at 50 mm; the projected trend rises nowhere else; a page without answers shows a default score with the wrong tier, a
  confidence of 80 %, and invented shelters under a caption that calls them real.
* **Live sources.** An answer without figures is 0.0 mm and cached; the kiosk
  takes a failed call for a dry day; gauges and Bagre's proxy are taken whatever
  their age; the national summary leaves failed districts out; DAHITI is called
  available whether it answers or not.
* **Dashboard and CAP.** A refused approval breaks the demo's script; a stage
  whose assessment timed out is marked done without a prompt; a run thrown away while it asks queues its alert again; a cancellation
  refers to the message of the draft, not to the one that was sent.
* **Research.** Slow batches take the workflow's sixty minutes, even if each is answered in the end; one odd
  answer ends the run; a re-run replaces a logged forecast by hindsight; a killed
  command leaves a torn cache that is taken for whole.

## 4. What is proved

All for arbitrary finite or infinite sets of alerts, runners and
districts and any bounds; workers are finite in `SendGate`, where they are
counted. The assumptions are the named ASSUMEs of the modules (types of the
constants, names that differ: `PlaceAssumption`, `FilesAssumption`); four theorems
have a hypothesis more, `Roomy`, `Timely`, `Fitting` and `Lasting`, which the code's
numbers satisfy.

**Review queue** (`AlertReview_proofs`). `IInv` strengthens the invariants until
they are inductive. The status alone does not say who may still send, so:
`DecisionsHold` - while a worker is in the engine with a decision, the row shows
that decision or a later one; `OneSenderPerDecision` follows from the
claim's `WHERE status = from`; `TailUntouched` - the providers a worker still
has to call have not been called; `UnsendableSilent` - what makes the engine
raise (no location) also keeps every provider silent, so a hand-back never
follows a send. From `IInv`: `TypeCorrect`, `AtMostOnce`, `OpenAlertsAreSilent`,
`RetractionsStand`, `DrillsNeverSent`, `OneSender`, and `KeyGuarded`, which
rests on rows never changing their cap status. None of it uses the fairness.

**Refinement** (at the end of it): each step of `AlertReview` is a step
of `AlertLifecycle` or a stutter, under `IInv`; `Refinement` states it of `Spec`.

**Outreach** (`Outreach_proofs`), in three layers. `Control`: the types, and where
a worker can be - entries to send only in a list it has read, attempts only at
such an entry and fewer than `Tries`, one worker per broadcast, which is then
`sending`, and answers of all providers before its cursor; this gives
`TypeCorrect` and `ChannelsTried`. `Asking`: a subscriber's row, an entry of
a list and an accepted message each go back to a command in `asked` or to the
settings, and what was once asked for stays in `asked`, whatever is redelivered; this gives `Consent`. `Books`:
for each broadcast, channel and recipient, what was accepted and not lost plus
what is still to do never exceeds what the sources gave, and once a list is done
everyone on it is told or a failure; it accounts separately for a channel not
yet opened, the one a worker is in, and those behind it, so that the
step lemmas (`BooksKept`, `BooksRead`, `BooksTried`, `BooksLeft`, `BooksAround`)
speak of one each. An entry that mock mode called a success stands with the told. It gives `CopiesExplained`, `HonestReports` and
`AllAccountedFor`.

**Ledger** (`PredictionLedger_proofs`). `LInv` adds to the types that a pending
row names no source and a handler under way holds a verdict. `SettledStand`: a
curated row is not pending, so only a re-verification lists it, and that only if it
is a confirmation citing the news; and only a listed row is verified. `Grounded`: `GInv` also says that what each
handler holds is supported; evidence only accumulates and a row's district and
day never change, so the verdict is still supported when it is written. The
support is stated with the window as a difference of days, `InWindow` as the
code compares. `NothingExpires` counts days: a pending prediction is late by a day
only for a missed day or a failed call of its own (`LateInv`), and what is late
for failures is no more than there were failures. So what a listing shows before
a prediction that only waited is at most a day's predictions for each day it is too
young or missed (`RateInv`), and the failures; with room for these, `Roomy`, it is
listed. Neither bound is inductive without the other: who is not listed is late
without a failure. The code's 500 rows, 3 and 30 days and 72 predictions a day are
`Roomy` with, for one, two missed days and 25 failures.

**Send gate** (`SendGate_proofs`). `TypeCorrect`, and `Overshoot`: what a store
holds of the alerts it let pass overshoots the limit by fewer than the workers.
The invariant (`LoadInv`) bounds a store's load, what it holds together with what
is on its way out: it grows only by a check of the limit, which finds room among
what is held, and then what is under way is at most one alert per worker
(`HeldInv`); a process's own count is checked with nothing of its own under way.
`CooldownKept`: `CooldownHolds` speaks of past passages only, so `CoolInv` says what
stands for them now: the key outlives the cooldown of every passage through
Redis since the last override, a process remembers its own last one
(`RememberedInv`), it keeps to one of the two (`KindInv`), and who is about to set a key it
found free has raced all that passed meanwhile (`AboutToSetInv`).

**Durability** (`Durability_proofs`). A restore cuts the log to a prefix of itself, so
`LogInv` states what promises a write of every prefix (ids count up, each has
a last write) and the rest of every pair of writes (an id's statuses are a path,
`PathInv`). `SentInv` accounts for broadcasts: made or claimed, they are at most the
restores that took the decision back, and one more while it is on file. A
restore either keeps the decision or is a new loss of it, so the sum stands. It
gives `RepeatsOnlyAfterLoss` and, as a pending row has no approval on file,
`OpenIsUnsent`; `PageInv` (what a page shows was inserted, or that was lost) gives
`DecisionsHit`.

**Community reports** (`CommunityReports_proofs`). `CountInv`: the rows of an update, the
handlers that may yet store one and an apology have each a call of their own, and
Telegram calls anew only after a call without an answer. Rows alone would not be
inductive: two handlers of one update may both be about to store. With
`StoredInv` and `RowInv` it gives `RowsAreExplained`, `RepliesHonest`,
`EvidenceReviewed`; `NothingIsSwallowed` is inductive with them.

**Assessment job** (`AssessmentJob_proofs`). Calls outlive their time-out, so
`PostedInv` says of rows in flight too that they hold what the services said, and
that readings stand from the first call on (`RowsAreTold`); `UnderstoodInv` says what a run makes
of an answer, hours without figures being dry. `MissedInv` counts what was not queued
among the calls that are over, as what is still to come is no failure yet; at the
exit all are over, which is `EverySignalCounts`. `SlackInv` bounds the failures by three
for each district passed, one fewer without a river score: hence `ErrorsNeedRivers`.

**CAP and dashboard** (`Screens_proofs`, its first part). `ExportsInOrder`: a row's stamps only
grow, so no message, nor the one on a page rendered earlier (`SheetInv`), is newer than the row, and none as
new as it has another type (`CapInv`).
`DemoHolds`, of a step: alerts of a showing are one per stage and of stages reached
(`StagesInv`), and the prompt names the one that nobody clicked yet, while the timer runs
without a prompt only (`PromptInv`); a call under way belongs to the stage on the screen (`CallInv`), and an alert
more in a stage is one whose asker was thrown away.

**Live sources** (`Screens_proofs`). What is told is recorded in `answer` and forgotten at the next
step, so the three properties are not inductive by themselves: `SourcesInv` is about the
caches, and each of the properties follows for the answer a step gives. `CachesInv`
says of whatever a worker keeps that it was read well when it was fetched (`WellRead`: its age then
was within the source's window, or it carries the flag that is due) or that the service was
empty at that time or since; `PageInv` that what the page keeps was told within the
life of a worker's cache before it. Time alone makes both weaker, never
false (`StillKept`, `StillPaged`), so that each step needs
only what it fetched (`FetchedWell`, and the `...Answers` lemmas, one per
kind of source). It gives `OutagesDoPass` without a condition; the satellite's baseline and login are
reasons of their own. `FreshReadings`
needs `Fitting`: the days of rain that are asked for are within those a series may be old, and
what the quality report grades as fresh is nowhere older than what the source flags;
else an unflagged reading could be graded down or a flagged one up. `ScreensExplained` needs
`Lasting`: the caches of the forecast and of the page have a life of more than zero.

**Evidence, card and page** (`Screens_proofs`, its last part). The state is only
types (`EvidenceTypes`); the four properties are of the figures computed from it, for
any amounts of rain, levels, histories and numbers of reports. The folds of the community
modules are functions chosen by their equation; that there is such a function
(`FoldExists`, `SumExists`, `JoinExists`) and what holds of it is shown on a least
subset for which it did not (`LeastSubset`), as the library's induction over finite
sets is out of reach. On these rest the lemmas on sums (`SumCompare`, `SumRemove`) and
on the noisy-or: it is never below one of its pathways, grows with each and shrinks with
fewer (`JoinBounds`, `JoinCompare`, `JoinShrinks`). `Presents` lists what each pathway
may hold, at most two sources; with `MeanOfTwo`, `SpreadOfTwo` and `RootIs` the means
and agreements become arithmetic. `NoneAveragedAway` is `JoinBounds`.
`WorseLooksNoBetter`: each of the worsenings raises one pathway (`WorseMeans`; `SightsRise`
is where the first reports beside a detection have to be excepted, `CurveGrows` where
the dip is), and tables by tier grow with the tier (`FiguresGrow`).
`SilencesExplained`: a pathway that loses one of two sources keeps the
other's agreement of 55, a pathway that loses its only one takes its part of the sum
with it (`SilentWater`, `SilentSight`); reports that cannot be read beside a clear
satellite are the exception, as they take the pathway from what is expected. `AllPartsAgree` has a lemma for each part of the card
and of the page (`TiersFit`, `ProjectionFits`, `EvidenceFits`; `FiguresFit`, `AssuranceFits`,
`PanelFits`, `PlainFits`), over every set of calls that may have failed.

These proofs found what TLC's amounts of rain had stepped over: between 47 and 67 mm
more rain can score less (`Dips`), which `WorseNeverLooksBetter` and
`ProjectionAccounts` now except, and the run has amounts on both sides of it.

**Research** (`Durability_proofs`, its second part; it shares nothing with the queue). `LogKept`, of
a step: what the branch would take
differs from it in the run's own week alone (`ParentInv`), and of the runs that nobody
asked for no two are of one week (`MondayInv`). `OutagesSurvived`: under `Timely`, the
sums of the waits, at most six quarters a batch and two a failed request; 28 quarters before the downloads, twelve
batches and 240 quarters satisfy it. `GapsAreExplained`: a torn file is excused or has a writer (`TornInv`); a command that puts
files together passed them all before (`PlansPrepared`, of the plans; `BehindInv`), so that
what is short is torn, not absent.

`OneSender` and `ChannelsTried` are about definitions no run checks
(`OneSenderPerDecision`, `EveryChannelTried`): they are parts of the inductive
invariants worth a statement of their own.

Only model-checked: `ApprovalReachesEveryProvider`, `OnlyGatewaysHold` and
`TelegramGetsThrough` (liveness, out of the prover's reach); and `NothingExpiresPending`
where the listing is tighter than `Roomy`, as in `ledger_backlog` by one row.
Every other property of every run is stated by a theorem.

## 5. What is left

1. Soil moisture in the card (`DecisionCard`), with which the evidence list has one
   more source to account for.
2. Notification history and the skill evaluation, once something rests on their rows.
3. Models of the components of section 6 only if they get state or an order of events.

## 6. Not modelled

* **Layout, charts, wording** of the dashboard, messages' and CAP's texts,
  logging: no property is about them. Pages that only list rows.
* **The copilot's language model**: its answers are not determined by this code;
  what its tools tell it is in `LiveSources`.
* **Statistics and experiments** (`research/flood_experiments/experiments.py`,
  `models.py`, `metrics.py`, the notebooks, `rare_event_verification.py`,
  `historical_backtest.py`): real-valued formulas from data to figures, without
  state or order of events. `reference.py` is tables.
* **Image processing and flood polygons**: they run in Earth Engine.
* **`daily_chirps_pull.py` and operations scripts**: they write files or reports
  that nothing in the service reads.
* **`confidence_scoring`, `fusion_explain`, `dam_spillage`**: formulas of one call
  each, on which no decision rests.
* **The headline filters** of the news clients are abstracted to whether they
  find something; **soil moisture in the card** to nothing, as only the list
  shows it.
* **Alert history**: append-only rows, whose writing `process` guards against
  errors, and listings.
