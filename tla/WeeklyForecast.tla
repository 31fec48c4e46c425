--------------------------- MODULE WeeklyForecast ---------------------------
(***************************************************************************)
(* The weekly shadow forecast: the workflow that runs                      *)
(* research/flood_experiments/operational.py every Monday, or on request,  *)
(* and appends what it computed to the branch shadow-log, for a comparison *)
(* with what then happened.                                                *)
(*                                                                         *)
(* A run of the workflow is alone on its machine until it reaches the      *)
(* branch, so the download of its inputs is one step.  Minutes are counted *)
(* in quarters: a request that times out takes 90 seconds.                 *)
(***************************************************************************)
EXTENDS Integers, FiniteSets

CONSTANTS
  Run,        \* runs of the workflow
  LastWeek,   \* bound on Mondays
  Districts,  \* the number of districts
  Batches,    \* requests to each of the two APIs of Open-Meteo
  Budget,     \* timeout-minutes, in quarters of a minute
  Setup,      \* what the steps beside the downloads may take
  Delays,     \* what may delay the downloads: a bound on Delay
  Errors      \* how many districts may fail to be scored

ASSUME CountsAssumption == LastWeek \in Nat \ {0} /\ Districts \in Nat /\ Batches \in Nat
ASSUME TimesAssumption == Budget \in Nat /\ Setup \subseteq Nat
ASSUME ErrorsAssumption == Errors \subseteq 0 .. Districts

\* A batch is asked for until it is answered, up to four times.
Attempts == 4

\* How many batches have one, two, three and four failed requests, and how many
\* of these requests time out rather than being refused.
Delay == [failed : [1 .. Attempts -> 0 .. 2 * Batches], timeouts : Nat]

ASSUME DelaysAssumption == Delays \subseteq Delay

VARIABLES
  day,       \* the last Monday, and whether it is over
  due,       \* whether this week's scheduled run is still to come
  workflow,  \* each run
  branch     \* shadow-log: the number of its commits, and its files

weekly == <<day, due, workflow, branch>>

Weeks == 1 .. LastWeek + 1
NoFile == [there |-> FALSE]
NoFiles == [w \in Weeks |-> NoFile]
NoRun == [state |-> "new"]

WeeklyInit ==
  /\ day = [monday |-> 1, over |-> FALSE]
  /\ due = TRUE
  /\ workflow = [r \in Run |-> NoRun]
  /\ branch = [commits |-> 0, files |-> NoFiles]

Started(r, week, asked) ==
  workflow' = [workflow EXCEPT ![r] = [state |-> "running", week |-> week, asked |-> asked]]

\* "Pick the week" of a run without an input: today's if it is Monday.
PickedWeek == IF day.over THEN day.monday + 1 ELSE day.monday

\* Mondays, 05:17.
Schedule(r) ==
  /\ workflow[r] = NoRun /\ due /\ ~day.over
  /\ Started(r, PickedWeek, FALSE)
  /\ due' = FALSE
  /\ UNCHANGED <<day, branch>>

\* workflow_dispatch, for a week or for none.
Dispatch(r) ==
  /\ workflow[r] = NoRun
  /\ \E w \in 1 .. LastWeek \cup {PickedWeek} : Started(r, w, TRUE)
  /\ UNCHANGED <<day, due, branch>>

\* Somebody starts a scheduled run that failed again: the week is picked anew.
Rerun(r) ==
  /\ workflow[r].state \in {"red", "killed"} /\ ~workflow[r].asked
  /\ Started(r, PickedWeek, TRUE)
  /\ UNCHANGED <<day, due, branch>>
-----------------------------------------------------------------------------
(* operational.py shadow. *)

\* _get_json: a request is given 90 seconds.
Patience == 6

\* Mutant: the waits are minutes.
WaitedMinutes(n) == 2 * n * (n + 1)

\* After the nth failed request n times 15 seconds, but not after the last: what
\* a batch with n failed requests waits in all.
Waited(n) == IF n < Attempts THEN (n * (n + 1)) \div 2 ELSE (n * (n - 1)) \div 2

\* Over the batches of a run: its batches, its failed requests, its waits.
Held(d) == d.failed[1] + d.failed[2] + d.failed[3] + d.failed[4]
Failures(d) == d.failed[1] + 2 * d.failed[2] + 3 * d.failed[3] + 4 * d.failed[4]
Waits(d) ==
  d.failed[1] * Waited(1) + d.failed[2] * Waited(2)
  + d.failed[3] * Waited(3) + d.failed[4] * Waited(4)

\* What a run meets: Earth Engine, slow and refused requests, an answer with an
\* element that is not a forecast, districts whose scoring raises.
Weather ==
  {in \in [engine : BOOLEAN, delay : Delays, odd : BOOLEAN, errors : Errors, setup : Setup] :
     Held(in.delay) <= 2 * Batches /\ in.delay.timeouts <= Failures(in.delay)}

\* _batched leaves the points of a batch that failed without input; so does a
\* week of rain that Earth Engine does not have yet.  Neither stops the run.
Spent(in) == in.setup + in.delay.timeouts * Patience + Waits(in.delay)

\* shadow: nine of ten districts must have been scored.
Scored(in) == 10 * (Districts - in.errors) >= 9 * Districts

\* A run that ends: in what state; what it met, if it has no forecast.
Ended(r, state, met) ==
  [state |-> state, week |-> workflow[r].week, asked |-> workflow[r].asked, met |-> met]

\* shadow: the inputs, the scores, and the table of this week.
Compute(r) ==
  /\ workflow[r].state = "running"
  /\ \E in \in Weather :
       workflow' = [workflow EXCEPT ![r] =
         IF Spent(in) > Budget THEN Ended(r, "killed", {in})
         ELSE IF in.engine /\ ~in.odd /\ Scored(in) THEN [@ EXCEPT !.state = "scored"]
         ELSE Ended(r, "red", {in})]
  /\ UNCHANGED <<day, due, branch>>
-----------------------------------------------------------------------------
(* "Append to the shadow-log branch". *)

\* A file of the branch: which run made it.
File(r) == [there |-> TRUE, run |-> r]

\* The branch as it is, or a new one where it could not be fetched.
Base == {branch, [commits |-> 0, files |-> NoFiles]}

\* git fetch, git switch, git commit.  A table that is there already in the same
\* words leaves nothing to commit.
Commit(r) ==
  /\ workflow[r].state = "scored"
  /\ \E base \in Base, same \in BOOLEAN :
       LET was == base.files[workflow[r].week]
       IN  /\ same => was # NoFile
           /\ workflow' = [workflow EXCEPT ![r] =
                IF same THEN Ended(r, "red", {})
                ELSE [state |-> "committed", week |-> @.week, asked |-> @.asked,
                      parent |-> base.commits,
                      files |-> [base.files EXCEPT ![workflow[r].week] = File(r)]]]
  /\ UNCHANGED <<day, due, branch>>

\* Mutant: git push --force.
AcceptsAnything(r) == TRUE

\* The branch takes a commit on top of its last, and no other.
Accepts(r) == workflow[r].parent = branch.commits

\* git push.
Push(r) ==
  /\ workflow[r].state = "committed"
  /\ IF Accepts(r)
     THEN /\ branch' = [commits |-> branch.commits + 1, files |-> workflow[r].files]
          /\ workflow' = [workflow EXCEPT ![r] = Ended(r, "green", {})]
     ELSE /\ workflow' = [workflow EXCEPT ![r] = Ended(r, "red", {})]
          /\ UNCHANGED branch
  /\ UNCHANGED <<day, due>>

\* Monday passes, the week passes.
PassDay ==
  /\ \/ ~day.over /\ day' = [day EXCEPT !.over = TRUE] /\ UNCHANGED due
     \/ /\ day.over /\ day.monday < LastWeek
        /\ day' = [monday |-> day.monday + 1, over |-> FALSE]
        /\ due' = TRUE
  /\ UNCHANGED <<workflow, branch>>

WeeklyNext ==
  \/ PassDay
  \/ \E r \in Run : \/ Schedule(r) \/ Dispatch(r) \/ Rerun(r)
                    \/ Compute(r) \/ Commit(r) \/ Push(r)

WeeklySpec == WeeklyInit /\ [][WeeklyNext]_weekly
-----------------------------------------------------------------------------
(* Properties. *)

\* No week is ever lost from the log, whatever runs at once and whatever git
\* could not fetch; and a forecast is replaced only where somebody asked for it,
\* or for the one that replaces it: the schedule by itself makes one per week.
LogKeepsItsForecasts ==
  [][\A w \in Weeks :
       LET was == branch.files[w]
           is == branch'.files[w]
       IN  was # NoFile /\ is # was =>
             /\ is # NoFile
             /\ workflow[is.run].asked \/ workflow[was.run].asked]_weekly

\* "A slow API must not crash the weekly run": a run that computed nothing was
\* refused by Earth Engine, given an answer that is no forecast, unable to score
\* a tenth of the districts, or held up by 27 requests that timed out (nine
\* batches that are answered in the end are enough), or 24 and refusals.
OutagesTolerated ==
  \A r \in Run :
    workflow[r].state \in {"red", "killed"} =>
      \A in \in workflow[r].met :
        ~in.engine \/ in.odd \/ 10 * in.errors > Districts
        \/ in.delay.timeouts >= 27
        \/ (in.delay.timeouts >= 24 /\ Failures(in.delay) > in.delay.timeouts)
=============================================================================
