-------------------------- MODULE CommunityReports --------------------------
(***************************************************************************)
(* Citizens' flood reports: from a chat message through the webhooks       *)
(* (src/src/api/routes/telegram_webhook.py, whatsapp_webhook.py) and the   *)
(* parser to rows of the reports table (src/src/community/), which an      *)
(* operator lists and validates (src/src/api/v1/community_reports.py) and  *)
(* which then count as evidence of a flood.                                *)
(*                                                                         *)
(* An update is one version of a message.  Telegram calls the webhook      *)
(* again until a call is acknowledged; Twilio calls once.  A handler never *)
(* awaits once it has the request: a worker process has one in hand.       *)
(***************************************************************************)
EXTENDS Integers, FiniteSets, Sequences

CONSTANTS
  Worker, Message,
  Via,        \* the channel of each message
  Text,       \* what a message can say
  Command,    \* texts that are help requests or subscription commands
  Wordless,   \* texts without words or caption
  Pinned,     \* texts that share a location
  Term,       \* _LOCATION_LOOKUP's keys
  Names,      \* the terms a text contains as words
  Rank,       \* a term's place in _LOCATION_TERMS, longest first
  DistrictOf, \* _LOCATION_LOOKUP
  Versions,   \* bound on the versions of a message
  MaxDrops,   \* bound on the calls that end without an answer
  Page,       \* rows on the operator's page
  Reach,      \* rows the validation looks through
  Threshold   \* _VERIFIED_REPORTS_THRESHOLD

Unclassified == "Unclassified - needs triage"
None == <<"none">>
Update == Message \X (1 .. Versions)
District == {DistrictOf[t] : t \in Term}
Place == District \cup {Unclassified}

ASSUME ChannelAssumption == Via \in [Message -> {"telegram", "whatsapp"}]
ASSUME NoneAssumption == None \notin Text \cup Worker \cup Update
ASSUME TextAssumption ==
  /\ Command \cup Wordless \cup Pinned \subseteq Text
  /\ Names \in [Text -> SUBSET Term]
  /\ \A x \in Wordless : Names[x] = {} /\ x \notin Command
ASSUME TermAssumption ==
  /\ Rank \in [Term -> Nat] /\ DOMAIN DistrictOf = Term
  /\ \A s, t \in Term : Rank[s] = Rank[t] => s = t
ASSUME PlaceAssumption == "All" \notin District
ASSUME NumberAssumption ==
  /\ Versions \in Nat /\ MaxDrops \in Nat
  /\ Page \in Nat /\ Reach \in Nat /\ Threshold \in Nat \ {0}

VARIABLES
  said,     \* the text of each update the chat service has
  waiting,  \* updates it has still to deliver, or has no acknowledgement of
  line,     \* the worker whose answer about an update it awaits
  late,     \* how often it got none
  drops,    \* the same, of all updates
  hand,     \* the update a worker has in hand
  step,     \* where its handler is: idle, store, or what it will reply
  reports,  \* the table, in insertion order
  replies,  \* history: what was replied to an update
  page,     \* the operator's page: rows with a button
  pressed   \* history: rows whose button was pressed

chat == <<said, waiting, line, late, drops>>
handlers == <<hand, step>>
operator == <<page, pressed>>
vars == <<chat, handlers, reports, replies, operator>>

Init ==
  /\ said = [u \in Update |-> None]
  /\ waiting = {}
  /\ line = [u \in Update |-> None]
  /\ late = [u \in Update |-> 0]
  /\ drops = 0
  /\ hand = [w \in Worker |-> None]
  /\ step = [w \in Worker |-> "idle"]
  /\ reports = << >>
  /\ replies = {}
  /\ page = {} /\ pressed = {}
-----------------------------------------------------------------------------
(* The chat services. *)

Telegram(u) == Via[u[1]] = "telegram"

\* A citizen writes a message or, in Telegram, edits one: "edited_message" is
\* an update of its own.
Write(u, text) ==
  /\ said[u] = None
  /\ u[2] > 1 => Telegram(u) /\ said[<<u[1], u[2] - 1>>] # None
  /\ said' = [said EXCEPT ![u] = text]
  /\ waiting' = waiting \cup {u}
  /\ UNCHANGED <<line, late, drops, handlers, reports, replies, operator>>

\* What a call that ends without an answer leaves: Twilio does not repeat it.
NoAnswer(u) ==
  /\ drops < MaxDrops
  /\ drops' = drops + 1
  /\ late' = [late EXCEPT ![u] = @ + 1]
  /\ line' = [line EXCEPT ![u] = None]
  /\ waiting' = IF Telegram(u) THEN waiting ELSE waiting \ {u}

\* The service waits no longer; the handler goes on.
HangUp(u) ==
  /\ line[u] # None
  /\ NoAnswer(u)
  /\ UNCHANGED <<said, handlers, reports, replies, operator>>

\* A worker process dies with an update in hand.
WorkerDies(w) ==
  /\ hand[w] # None
  /\ IF line[hand[w]] = w THEN NoAnswer(hand[w]) ELSE UNCHANGED <<waiting, line, late, drops>>
  /\ hand' = [hand EXCEPT ![w] = None]
  /\ step' = [step EXCEPT ![w] = "idle"]
  /\ UNCHANGED <<said, reports, replies, operator>>
-----------------------------------------------------------------------------
(* The webhooks. *)

\* Mutant: the shortest name wins.
FiledShortest(text) ==
  IF Names[text] = {} THEN Unclassified
  ELSE DistrictOf[CHOOSE t \in Names[text] : \A s \in Names[text] : Rank[t] >= Rank[s]]

\* extract_location, with the district build_report_data puts for none.
Filed(text) ==
  IF Names[text] = {} THEN Unclassified
  ELSE DistrictOf[CHOOSE t \in Names[text] : \A s \in Names[text] : Rank[t] <= Rank[s]]

\* Help, a subscription, or nothing to go by: WhatsApp asks for words even of
\* who shared a location, Telegram for either.
OnlyReplied(u) ==
  \/ said[u] \in Command
  \/ said[u] \in Wordless /\ (Telegram(u) => said[u] \notin Pinned)

\* Mutant: the call is acknowledged first and worked on afterwards.
ReceiveAcknowledges(w, u) ==
  /\ hand[w] = None
  /\ u \in waiting /\ line[u] = None
  /\ waiting' = waiting \ {u}
  /\ hand' = [hand EXCEPT ![w] = u]
  /\ step' = [step EXCEPT ![w] = IF OnlyReplied(u) THEN "asked" ELSE "store"]
  /\ UNCHANGED <<said, line, late, drops, reports, replies, operator>>

\* An idle worker takes the call.
Receive(w, u) ==
  /\ hand[w] = None
  /\ u \in waiting /\ line[u] = None
  /\ line' = [line EXCEPT ![u] = w]
  /\ hand' = [hand EXCEPT ![w] = u]
  /\ step' = [step EXCEPT ![w] = IF OnlyReplied(u) THEN "asked" ELSE "store"]
  /\ UNCHANGED <<said, waiting, late, drops, reports, replies, operator>>

Row(u) == [from |-> u, place |-> Filed(said[u]), valid |-> FALSE]

\* Mutant: a commit that is slow to return is tried again.
StoreRetried(w) ==
  /\ step[w] = "store"
  /\ reports' = Append(reports, Row(hand[w]))
  /\ step' \in {step, [step EXCEPT ![w] = "received"]}
  /\ UNCHANGED <<chat, hand, replies, operator>>

\* submit_report commits.
Store(w) ==
  /\ step[w] = "store"
  /\ reports' = Append(reports, Row(hand[w]))
  /\ step' = [step EXCEPT ![w] = "received"]
  /\ UNCHANGED <<chat, hand, replies, operator>>

\* submit_report raises and has rolled back.
StoreFails(w) ==
  /\ step[w] = "store"
  /\ step' = [step EXCEPT ![w] = "sorry"]
  /\ UNCHANGED <<chat, hand, reports, replies, operator>>

\* The updates an answer settles: the call must still be open.
Acknowledged(w) == IF line[hand[w]] = w THEN {hand[w]} ELSE {}

\* The reply and the answer.  Telegram's reply is a call of its own, WhatsApp's
\* is the answer; whether it arrives changes nothing here.
Reply(w) ==
  /\ step[w] \in {"asked", "received", "sorry"}
  /\ replies' = replies \cup {[update |-> hand[w], what |-> step[w]]}
  /\ waiting' = waiting \ Acknowledged(w)
  /\ line' = [u \in Update |-> IF u \in Acknowledged(w) THEN None ELSE line[u]]
  /\ hand' = [hand EXCEPT ![w] = None]
  /\ step' = [step EXCEPT ![w] = "idle"]
  /\ UNCHANGED <<said, late, drops, reports, operator>>
-----------------------------------------------------------------------------
(* The operator. *)

In(place) == {i \in DOMAIN reports : place \in {"All", reports[i].place}}

\* get_reports: the newest rows.
Newest(n, rows) == {i \in rows : Cardinality({j \in rows : j > i}) < n}

\* The dashboard's list: all districts or a tracked one; what is validated has
\* no button.
List(place) ==
  /\ page' = {i \in Newest(Page, In(place)) : ~reports[i].valid}
  /\ UNCHANGED <<chat, handlers, reports, replies, pressed>>

\* Mutant: the UPDATE takes every report of the district.
ValidatedDistrict(i) ==
  [j \in DOMAIN reports |-> [reports[j] EXCEPT !.valid = @ \/ reports[j].place = reports[i].place]]

\* validate_report.
Validated(i) == [reports EXCEPT ![i].valid = TRUE]

\* A button is pressed: 404 unless the row is among the newest Reach.
Validate(i) ==
  /\ i \in page
  /\ reports' = IF i \in Newest(Reach, DOMAIN reports) THEN Validated(i) ELSE reports
  /\ pressed' = pressed \cup {i}
  /\ page' = {}
  /\ UNCHANGED <<chat, handlers, replies>>
-----------------------------------------------------------------------------
(* What the reports are worth as evidence. *)

\* get_report_stats and get_validated_report_count_in_window, by the rows they
\* count (the window is PredictionLedger's).
Verified(district) == {i \in In(district) : reports[i].valid}

\* Three verified reports confirm a flood and score the district 90.
Confirms(district) == Cardinality(Verified(district)) >= Threshold
-----------------------------------------------------------------------------
Handle(w) == Store(w) \/ StoreFails(w) \/ Reply(w)
Deliver(u) == \E w \in Worker : Receive(w, u)

Next ==
  \/ \E u \in Update : (\E text \in Text : Write(u, text)) \/ HangUp(u) \/ Deliver(u)
  \/ \E w \in Worker : Handle(w) \/ WorkerDies(w)
  \/ \E place \in District \cup {"All"} : List(place)
  \/ \E i \in page : Validate(i)

Spec == Init /\ [][Next]_vars

\* A handler is synchronous and its calls have time limits; Telegram repeats.
FairSpec ==
  /\ Spec
  /\ \A w \in Worker : WF_vars(Handle(w))
  /\ \A u \in Update : WF_vars(Telegram(u) /\ Deliver(u))
-----------------------------------------------------------------------------
(* Properties. *)

Report == [from : Update, place : Place, valid : BOOLEAN]

\* The shape of the state; a worker has an update exactly while it is busy.
TypeOK ==
  /\ said \in [Update -> Text \cup {None}]
  /\ waiting \subseteq Update
  /\ line \in [Update -> Worker \cup {None}]
  /\ late \in [Update -> Nat] /\ drops \in Nat
  /\ hand \in [Worker -> Update \cup {None}]
  /\ step \in [Worker -> {"idle", "store", "asked", "received", "sorry"}]
  /\ \A w \in Worker : hand[w] = None <=> step[w] = "idle"
  /\ reports \in Seq(Report)
  /\ replies \subseteq [update : Update, what : {"asked", "received", "sorry"}]
  /\ page \subseteq DOMAIN reports /\ pressed \subseteq DOMAIN reports

RowsOf(u) == {i \in DOMAIN reports : reports[i].from = u}
Settled(u) ==
  RowsOf(u) # {} \/ \E r \in replies : r.update = u /\ r.what # "received"

\* A report is stored once, and once more only for each call the chat service
\* had no answer of; one of WhatsApp, never twice.
RowsExplained ==
  \A u \in Update :
    Cardinality(RowsOf(u)) <= IF Telegram(u) THEN 1 + late[u] ELSE 1

\* What Telegram no longer repeats was stored or answered: an acknowledgement
\* never swallows a report, whoever dies or hangs up in between.
NothingSwallowed ==
  \A u \in Update :
    Telegram(u) /\ said[u] # None /\ u \notin waiting => Settled(u)

\* "Report received for D" is only said of a report that is in the table under
\* D, the district of the longest name in its text; "try again" only where
\* nothing is stored, but for calls the chat service had no answer of.
RepliesAreHonest ==
  \A r \in replies :
    /\ r.what = "received" =>
         \E i \in RowsOf(r.update) :
           \/ reports[i].place = Unclassified /\ Names[said[r.update]] = {}
           \/ \E t \in Names[said[r.update]] :
                /\ DistrictOf[t] = reports[i].place
                /\ \A s \in Names[said[r.update]] : Rank[t] <= Rank[s]
    /\ r.what = "sorry" => Cardinality(RowsOf(r.update)) <= late[r.update]

\* Reports confirm a flood only if an operator pressed the button of as many of
\* them, of that district, as the threshold asks for.
EvidenceIsReviewed ==
  \A district \in District :
    Confirms(district) =>
      Cardinality({i \in pressed : reports[i].place = district}) >= Threshold

\* Whatever Telegram takes from a citizen is in the end stored or answered.
TelegramGetsThrough ==
  \A u \in Update :
    Telegram(u) /\ said[u] # None ~> Settled(u)
=============================================================================
