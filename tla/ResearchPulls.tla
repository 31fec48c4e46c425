--------------------------- MODULE ResearchPulls ---------------------------
(***************************************************************************)
(* How the research data is pulled and put together                        *)
(* (research/flood_experiments: build_dataset, sar_labels,                 *)
(* forecast_archive).  A command walks through files: what is there is     *)
(* taken, what is not is fetched and written, and a command that was       *)
(* stopped is simply started again.  Some are run beside each other on the *)
(* same files.                                                             *)
(*                                                                         *)
(* A file that is being written is there already: whoever comes by finds   *)
(* it torn.  So does the next command, if the writer was killed.           *)
(***************************************************************************)
EXTENDS Integers, FiniteSets, SequencesExt

CONSTANTS
  Shell,     \* where commands are run
  Chunk,     \* files of weather, ten weeks each
  Series,    \* files of discharge, one district each
  Part,      \* files of the radar audit, fifty rows each
  Archived,  \* files of archived forecasts, one district each
  MaxStarts, \* bound on commands
  MaxKills,  \* bound on kills
  MaxFaults  \* bound on downloads that fail for good

\* Files have names of their own: none of the parts that are put together is one
\* of the answers kept as they came.
ASSUME FilesAssumption ==
  /\ IsFiniteSet(Chunk) /\ IsFiniteSet(Part) /\ IsFiniteSet(Series) /\ IsFiniteSet(Archived)
  /\ (Chunk \cup Part) \cap (Series \cup Archived) = {}
ASSUME BoundsAssumption == MaxStarts \in Nat /\ MaxKills \in Nat /\ MaxFaults \in Nat

VARIABLES
  goal,    \* the table that is wanted
  file,    \* each file: "absent", "torn" or "whole"
  shell,   \* the command that runs, its step, what it does there, what it lacks
  table,   \* each table that was made: what it lacks
  excused, \* for the property: files torn by a kill, read while they were
           \* written, cut from a torn sample, or given up with a warning
  left     \* the starts, kills and faults that are left

pulls == <<goal, file, shell, table, excused, left>>

Get(f) == [do |-> "get", files |-> {f}]
Gets(fs) == SetToSeq({Get(f) : f \in fs})
Gather(fs) == [do |-> "gather", files |-> fs]
Make(t) == [do |-> "make", files |-> {t}]

\* Both are read by every stage.
Places == <<Get("static"), Get("points")>>

Dynamic == Gets(Chunk) \o <<Gather(Chunk)>>
Discharge == Gets(Series)
News == <<Get("news")>>

\* What a command does, file by file.  The stages of the panel's inputs are
\* meant to run in parallel, before the panel is put together.
Plan ==
  [dynamic   |-> Places \o Dynamic,
   discharge |-> Places \o Discharge,
   news      |-> Places \o News,
   panel     |-> Places \o Discharge \o Dynamic \o News \o <<Make("panel")>>,
   audit     |-> <<Get("sample")>> \o Gets(Part) \o <<Gather(Part), Make("audit")>>,
   archive   |-> <<Get("static")>> \o Gets(Archived) \o <<Make("archive")>>]

Files == {"static", "points", "news", "sample"} \cup Chunk \cup Series \cup Part \cup Archived
Commands == IF goal = "panel" THEN {"dynamic", "discharge", "news", "panel"} ELSE {goal}

\* The files that hold an answer as it came; torn, they cannot be parsed.
Raw == Series \cup Archived
NotMade == {"not made"}
Resting == [cmd |-> "none", step |-> 0, does |-> "nothing", lacks |-> {}]

PullsInit ==
  /\ goal \in {"panel", "audit", "archive"}
  \* The archive is pulled for the districts of the panel.
  /\ file = [f \in Files |-> IF f = "static" /\ goal = "archive" THEN "whole" ELSE "absent"]
  /\ shell = [s \in Shell |-> Resting]
  /\ table = [t \in {"panel", "audit", "archive"} |-> NotMade]
  /\ excused = {}
  /\ left = [starts |-> MaxStarts, kills |-> MaxKills, faults |-> MaxFaults]

Step(s) == Plan[shell[s].cmd][shell[s].step]
At(s, do) == shell[s].cmd # "none" /\ shell[s].does = "look" /\ Step(s).do = do
The(s) == CHOOSE f \in Step(s).files : TRUE

\* On to the next step, or done.
Passed(s, lacks) ==
  IF shell[s].step = Len(Plan[shell[s].cmd]) THEN Resting
  ELSE [shell[s] EXCEPT !.step = @ + 1, !.does = "look", !.lacks = @ \cup lacks]

Pass(s, lacks) == shell' = [shell EXCEPT ![s] = Passed(s, lacks)]
Goes(s, does) == shell' = [shell EXCEPT ![s].does = does]
Stops(s) == shell' = [shell EXCEPT ![s] = Resting]

Writers(f) == {s \in Shell : shell[s].does = "write" /\ Step(s).files = {f}}

Start(s, c) ==
  /\ shell[s] = Resting /\ left.starts > 0
  \* The audit's table is kept once it is there.
  /\ c = "audit" => table["audit"] = NotMade
  /\ shell' = [shell EXCEPT ![s] = [cmd |-> c, step |-> 1, does |-> "look", lacks |-> {}]]
  /\ left' = [left EXCEPT !.starts = @ - 1]
  /\ UNCHANGED <<goal, file, table, excused>>

\* Ctrl-C, a closed lid.  What was being written stays as it is.
Kill(s) ==
  /\ shell[s] # Resting /\ left.kills > 0
  /\ excused' = IF shell[s].does = "write" THEN excused \cup Step(s).files ELSE excused
  /\ Stops(s)
  /\ left' = [left EXCEPT !.kills = @ - 1]
  /\ UNCHANGED <<goal, file, table>>
-----------------------------------------------------------------------------
(* One file. *)

\* The weather is read when all of its files are there, the rest as it is found.
ReadAtOnce(f) == f \notin Chunk \cup Part

\* It is there.  Torn, it is short by rows, or cannot be parsed.
Take(s) ==
  /\ At(s, "get") /\ file[The(s)] # "absent"
  /\ \/ (file[The(s)] = "whole" \/ ~ReadAtOnce(The(s))) /\ Pass(s, {}) /\ UNCHANGED excused
     \/ /\ file[The(s)] = "torn" /\ ReadAtOnce(The(s))
        /\ \/ Stops(s)
           \/ The(s) \notin Raw /\ Pass(s, {The(s)})
        /\ excused' = IF Writers(The(s)) # {} THEN excused \cup {The(s)} ELSE excused
  /\ UNCHANGED <<goal, file, table, left>>

\* It is not there, and is asked for: the answer takes its time.
Ask(s) ==
  /\ At(s, "get") /\ file[The(s)] = "absent"
  /\ Goes(s, "fetch")
  /\ UNCHANGED <<goal, file, table, excused, left>>

\* Mutant: whatever is missing is left out.
SkippedAlways(f) == TRUE

\* A district without its series is left out, with a warning.
Skipped(f) == f \in Raw

\* All attempts failed.
GiveUp(s) ==
  /\ shell[s].does = "fetch" /\ left.faults > 0
  /\ IF Skipped(The(s)) THEN Pass(s, {The(s)}) ELSE Stops(s)
  /\ excused' = IF The(s) \in Raw THEN excused \cup {The(s)} ELSE excused
  /\ left' = [left EXCEPT !.faults = @ - 1]
  /\ UNCHANGED <<goal, file, table>>

\* The answer is there: the file is opened, which empties it.
Open(s) ==
  /\ shell[s].does = "fetch"
  /\ file' = [file EXCEPT ![The(s)] = "torn"]
  /\ Goes(s, "write")
  /\ UNCHANGED <<goal, table, excused, left>>

\* A part of the audit has the rows of the sample that was read.
Sampled(s) == "sample" \notin shell[s].lacks

Close(s) ==
  /\ shell[s].does = "write"
  /\ file' = [file EXCEPT ![The(s)] =
               IF Writers(The(s)) = {s} /\ Sampled(s) THEN "whole" ELSE "torn"]
  /\ excused' = IF Sampled(s) THEN excused ELSE excused \cup {The(s)}
  /\ Pass(s, {})
  /\ UNCHANGED <<goal, table, left>>

\* All files that are there are put together, in the order of their names; a
\* torn one may still stop the command.
Collect(s) ==
  /\ At(s, "gather")
  /\ LET short == {f \in Step(s).files : file[f] # "whole"}
     IN  /\ \/ Pass(s, short)
            \/ (\E f \in short : file[f] = "torn") /\ Stops(s)
         /\ excused' = excused \cup {f \in short : Writers(f) # {}}
  /\ UNCHANGED <<goal, file, table, left>>

\* The table is made of what there is.
WriteTable(s) ==
  /\ At(s, "make")
  /\ table' = [table EXCEPT ![The(s)] = shell[s].lacks]
  /\ Pass(s, {})
  /\ UNCHANGED <<goal, file, excused, left>>

PullsNext ==
  \E s \in Shell :
    \/ \E c \in Commands : Start(s, c)
    \/ Take(s) \/ Ask(s) \/ GiveUp(s) \/ Open(s) \/ Close(s) \/ Collect(s) \/ WriteTable(s) \/ Kill(s)

PullsSpec == PullsInit /\ [][PullsNext]_pulls
-----------------------------------------------------------------------------
(* Properties. *)

\* However often commands are killed and started again, and whatever runs beside
\* them, a table silently lacks nothing but files that a kill left torn, that
\* another command was writing, or that such a sample cut short: an answer that
\* never came stops the command, or is warned of.
GapsExplained ==
  \A t \in DOMAIN table : table[t] # NotMade => table[t] \subseteq excused
=============================================================================
