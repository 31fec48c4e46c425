------------------------------ MODULE Outreach ------------------------------
(***************************************************************************)
(* Who is told: citizens opt in and out over WhatsApp and Telegram         *)
(* (src/src/community/alert_subscription_commands.py, which writes the     *)
(* channel_subscriptions table) while workers broadcast alerts, and        *)
(* corrections of alerts, through the providers of src/src/alerts          *)
(* (AlertEngine.process's provider loop and each provider's send).         *)
(*                                                                         *)
(* AlertReview decides that a broadcast happens, and that only one worker  *)
(* makes it; this module opens each broadcast once and looks inside the    *)
(* provider calls that module takes as atomic: the read of the recipients, *)
(* the loop over them, the attempts at each.  The handlers that broadcast  *)
(* never await, so a worker in the loop handles no incoming command; the   *)
(* other workers do.                                                       *)
(*                                                                         *)
(* An alert has at least the MODERATE tier and a chat command subscribes   *)
(* with that minimum, so the tier filter of get_subscribers_for_alert      *)
(* lets every subscriber of the district pass and is left out.  So are the *)
(* dry-run mode, a setting under which nothing is sent, and the stand-in   *)
(* for a deployment none of whose providers can be constructed.            *)
(*                                                                         *)
(* A worker keeps its providers, each with its client, while it lives.  A  *)
(* Twilio client that cannot be started puts its channel into mock mode    *)
(* until the worker ends: its messages then count as successes and none is *)
(* sent.                                                                   *)
(***************************************************************************)
EXTENDS Integers, Sequences, FiniteSets

CONSTANTS
  Worker,      \* uvicorn worker processes
  Alert,       \* alerts that reach the engine
  Kind,        \* what is broadcast of an alert: itself, and its correction
  Place,       \* districts
  Recipient,   \* citizens and officials, and the e-mail list (one message to all)
  Providers,   \* AlertEngine.providers: the enabled channels, in order
  Static,      \* the recipients a channel's settings name
  Tries,       \* a channel's max_retries
  Unconfigured, \* enabled channels without credentials, in mock mode throughout
  MaxAsked,    \* bound on the distinct commands citizens send
  MaxCrashes   \* bound on workers lost in mid-broadcast

ASSUME KindAssumption == Kind \subseteq {"alert", "correction"}

Channel == {"whatsapp", "telegram", "sms", "email"}
Chat == {"whatsapp", "telegram"}
Broadcast == Alert \X Kind

ASSUME ProvidersAssumption ==
  /\ Providers \in Seq(Channel)
  /\ \A i, j \in 1 .. Len(Providers) : Providers[i] = Providers[j] => i = j
\* Telegram has neither a recipient setting nor a retry loop.
ASSUME StaticAssumption ==
  Static \in [Channel -> SUBSET Recipient] /\ Static["telegram"] = {}
ASSUME TriesAssumption ==
  Tries \in [Channel -> Nat \ {0}] /\ Tries["telegram"] = 1
ASSUME UnconfiguredAssumption == Unconfigured \subseteq Channel \ {"telegram"}
ASSUME PlaceAssumption == Place \cap {"all", "off", "unknown"} = {}
ASSUME BoundsAssumption == MaxAsked \in Nat /\ MaxCrashes \in Nat

\* A row of channel_subscriptions: its district, "all" for NULL, "off" for an
\* inactive row or none.
Wish == Place \cup {"all", "off"}
\* What a chat message asks for; "unknown" names no district the parser knows.
Command == [chat : Chat, who : Recipient, says : Wish \cup {"unknown"}]

\* The channels whose provider a worker has, and the state of its client.
Enabled == {Providers[i] : i \in 1 .. Len(Providers)}
ClientState == {"unused", "live", "mock"}

None == <<"none">>

VARIABLES
  sub,          \* channel_subscriptions, by channel and identifier
  asked,        \* the commands citizens have ever sent
  inbox,        \* those of them a webhook has still to deliver, or redeliver
  place,        \* the district of each alert
  stage,        \* whether a broadcast was made ("cut": its worker died)
  at, cursor,   \* a worker's broadcast, and its place in Providers
  listed,       \* whether it has read the current provider's recipients
  todo, tries,  \* entries it has still to send, attempts at the current one
  good,         \* whether the current provider had a success
  accepted,     \* messages a gateway accepted, per broadcast, channel, recipient
  lost,         \* those of them whose answer never came back
  undelivered,  \* recipients whose entry in the result's details is a failure
  roll,         \* the recipients a provider read
  report,       \* each provider's result
  mocked,       \* recipients whose entry in it says success, with nothing sent
  client,       \* the state of each channel's client in each worker
  crashes

chats == <<sub, asked, inbox>>
loop == <<at, cursor, listed, todo, tries, good>>
world == <<accepted, lost, undelivered, roll, report, mocked>>
vars == <<chats, place, stage, loop, world, client, crashes>>
-----------------------------------------------------------------------------
Zero(S) == [x \in S |-> 0]
Bump(f, x) == [f EXCEPT ![x] = @ + 1]

\* What a channel's client may be in a new process: the WhatsApp provider
\* starts it before its first message, the SMS provider tests it at once.
Fresh(ch) ==
  IF ch \in Unconfigured THEN {"mock"}
  ELSE CASE ch = "whatsapp" -> {"unused"}
         [] ch = "sms" -> {"live", "mock"}
         [] OTHER -> {"live"}

Init ==
  /\ client \in [Worker \X Enabled -> ClientState]
  /\ \A wc \in Worker \X Enabled : client[wc] \in Fresh(wc[2])
  /\ mocked = {}
  /\ sub = [cp \in Chat \X Recipient |-> "off"]
  /\ asked = {} /\ inbox = {}
  /\ place \in [Alert -> Place]
  /\ stage = [b \in Broadcast |-> "unmade"]
  /\ at = [w \in Worker |-> None]
  /\ cursor = [w \in Worker |-> 1]
  /\ listed = [w \in Worker |-> FALSE]
  /\ todo = Zero(Worker \X Recipient)
  /\ tries = Zero(Worker \X Recipient)
  /\ good = [w \in Worker |-> FALSE]
  /\ accepted = Zero(Broadcast \X Channel \X Recipient)
  /\ lost = Zero(Broadcast \X Channel \X Recipient)
  /\ undelivered = {}
  /\ roll = [bc \in Broadcast \X Channel |-> {}]
  /\ report = [bc \in Broadcast \X Channel |-> "none"]
  /\ crashes = 0
-----------------------------------------------------------------------------
(* Opting in and out. *)

\* A citizen writes "ALERTS ON", "ALERTS ON <place>" or "ALERTS OFF".
Ask(c) ==
  /\ c \notin asked
  /\ Cardinality(asked) < MaxAsked
  /\ asked' = asked \cup {c}
  /\ inbox' = inbox \cup {c}
  /\ UNCHANGED <<sub, place, stage, loop, world, client, crashes>>

\* Mutant: a place nobody knows is taken for "all districts".
AppliedUnchecked(c) ==
  [sub EXCEPT ![<<c.chat, c.who>>] = IF c.says = "unknown" THEN "all" ELSE c.says]

\* handle_subscription_command: a place the parser does not know is reported
\* back and changes nothing.
Applied(c) ==
  [sub EXCEPT ![<<c.chat, c.who>>] = IF c.says = "unknown" THEN @ ELSE c.says]

\* The webhook, on an idle worker.  Telegram repeats an update that was not
\* acknowledged, Twilio reports the failure and gives up.
HandleCommand(w, c) ==
  /\ at[w] = None
  /\ c \in inbox
  /\ sub' = Applied(c)
  /\ \/ inbox' = inbox \ {c}
     \/ c.chat = "telegram" /\ inbox' = inbox
  /\ UNCHANGED <<asked, place, stage, loop, world, client, crashes>>

\* No worker takes the call: a WhatsApp command is gone.
CommandLost(c) ==
  /\ c \in inbox
  /\ c.chat = "whatsapp"
  /\ inbox' = inbox \ {c}
  /\ UNCHANGED <<sub, asked, place, stage, loop, world, client, crashes>>
-----------------------------------------------------------------------------
(* Broadcasting. *)

\* The engine enters the provider loop; a correction follows an approval.
OpenBroadcast(w, b) ==
  /\ at[w] = None
  /\ stage[b] = "unmade"
  /\ \A c \in Broadcast :
       b[2] = "correction" /\ c = <<b[1], "alert">> => stage[c] # "unmade"
  /\ stage' = [stage EXCEPT ![b] = "sending"]
  /\ at' = [at EXCEPT ![w] = b]
  /\ cursor' = [cursor EXCEPT ![w] = 1]
  /\ UNCHANGED <<chats, place, listed, todo, tries, good, world, client, crashes>>

InLoop(w) == at[w] # None /\ cursor[w] <= Len(Providers)
Current(w) == Providers[cursor[w]]

\* get_subscribers_for_alert, for one identifier.
Interested(ch, p, d) == ch \in Chat /\ sub[<<ch, p>>] \in {d, "all"}

\* How often p is in the list of recipients: WhatsApp joins its two sources
\* before their numbers have one form, so nobody named by both is merged.
Entries(ch, p, d) ==
  (IF p \in Static[ch] THEN 1 ELSE 0) + (IF Interested(ch, p, d) THEN 1 ELSE 0)

\* The WhatsApp client starts with the first list somebody is on; if it
\* cannot, the channel stays in mock mode.
StartClient(w) ==
  LET wc == <<w, Current(w)>> IN
  IF client[wc] = "unused" /\ roll'[<<at[w], Current(w)>>] # {}
    THEN \E state \in {"live", "mock"} : client' = [client EXCEPT ![wc] = state]
    ELSE UNCHANGED client

ReadRecipients(w) ==
  /\ InLoop(w) /\ ~listed[w]
  /\ listed' = [listed EXCEPT ![w] = TRUE]
  /\ LET d == place[at[w][1]]
         n(p) == Entries(Current(w), p, d)
     IN  /\ todo' = [wp \in Worker \X Recipient |->
                       IF wp[1] = w THEN n(wp[2]) ELSE todo[wp]]
         /\ roll' = [roll EXCEPT ![<<at[w], Current(w)>>] = {p \in Recipient : n(p) > 0}]
  /\ StartClient(w)
  /\ UNCHANGED <<chats, place, stage, at, cursor, tries, good,
                 accepted, lost, undelivered, report, mocked, crashes>>

\* The entry being attempted, in any order; one is done with before the next.
Facing(w, p) ==
  /\ InLoop(w) /\ listed[w]
  /\ todo[<<w, p>>] > 0
  /\ \A q \in Recipient \ {p} : tries[<<w, q>>] = 0

Mocking(w) == client[<<w, Current(w)>>] = "mock"

Slot(w, p) == <<at[w], Current(w), p>>
Untouched ==
  UNCHANGED <<chats, place, stage, at, cursor, listed, roll, report, client, crashes>>

\* Mutant: the loop goes on after a success.
NextEntryKept(w, p) == UNCHANGED <<todo, tries>>

NextEntry(w, p) ==
  /\ todo' = [todo EXCEPT ![<<w, p>>] = @ - 1]
  /\ tries' = [tries EXCEPT ![<<w, p>>] = 0]

\* The channel is in mock mode: the entry is a success and nothing is sent.
Pretends(w, p) ==
  /\ Facing(w, p) /\ Mocking(w)
  /\ mocked' = mocked \cup {Slot(w, p)}
  /\ good' = [good EXCEPT ![w] = TRUE]
  /\ NextEntry(w, p)
  /\ UNCHANGED <<accepted, lost, undelivered>>
  /\ Untouched

Delivers(w, p) ==
  /\ Facing(w, p) /\ ~Mocking(w)
  /\ accepted' = Bump(accepted, Slot(w, p))
  /\ good' = [good EXCEPT ![w] = TRUE]
  /\ NextEntry(w, p)
  /\ UNCHANGED <<lost, undelivered, mocked>>
  /\ Untouched

GiveUp(w, p) ==
  /\ undelivered' = undelivered \cup {Slot(w, p)}
  /\ NextEntry(w, p)

\* Mutant: a number that can never work ends the whole list.
RejectedEndsLoop(w, p) ==
  /\ Facing(w, p) /\ ~Mocking(w)
  /\ Current(w) = "whatsapp"
  /\ undelivered' = undelivered \cup {Slot(w, p)}
  /\ todo' = [wq \in Worker \X Recipient |-> IF wq[1] = w THEN 0 ELSE todo[wq]]
  /\ tries' = [tries EXCEPT ![<<w, p>>] = 0]
  /\ UNCHANGED <<accepted, lost, good, mocked>>
  /\ Untouched

\* A Twilio error the WhatsApp provider does not retry.
Rejected(w, p) ==
  /\ Facing(w, p) /\ ~Mocking(w)
  /\ Current(w) = "whatsapp"
  /\ GiveUp(w, p)
  /\ UNCHANGED <<accepted, lost, good, mocked>>
  /\ Untouched

Retry(w, p) ==
  IF tries[<<w, p>>] + 1 < Tries[Current(w)]
    THEN tries' = Bump(tries, <<w, p>>) /\ UNCHANGED <<todo, undelivered>>
    ELSE GiveUp(w, p)

\* The call raises or answers with an error.
Fails(w, p) ==
  /\ Facing(w, p) /\ ~Mocking(w)
  /\ Retry(w, p)
  /\ UNCHANGED <<accepted, lost, good, mocked>>
  /\ Untouched

\* The gateway takes the message and its answer is lost: a failed attempt.
AnswerLost(w, p) ==
  /\ Facing(w, p) /\ ~Mocking(w)
  /\ accepted' = Bump(accepted, Slot(w, p))
  /\ lost' = Bump(lost, Slot(w, p))
  /\ Retry(w, p)
  /\ UNCHANGED <<good, mocked>>
  /\ Untouched

Attempt(w) == \E p \in Recipient :
  Pretends(w, p) \/ Delivers(w, p) \/ Rejected(w, p) \/ Fails(w, p) \/ AnswerLost(w, p)

\* Mutant: a channel that failed is tried again.
ProviderAgain(w, result) ==
  /\ report' = [report EXCEPT ![<<at[w], Current(w)>>] = result]
  /\ cursor' = IF result = "ok" THEN Bump(cursor, w) ELSE cursor
  /\ listed' = [listed EXCEPT ![w] = FALSE]

\* The next provider of the engine's loop.
NextProvider(w, result) ==
  /\ report' = [report EXCEPT ![<<at[w], Current(w)>>] = result]
  /\ cursor' = Bump(cursor, w)
  /\ listed' = [listed EXCEPT ![w] = FALSE]

\* Mutant: the success count outlives its provider.
FinishKeepsCount(w) ==
  /\ InLoop(w) /\ listed[w]
  /\ \A p \in Recipient : todo[<<w, p>>] = 0
  /\ NextProvider(w, IF good[w] THEN "ok" ELSE "failed")
  /\ UNCHANGED <<chats, place, stage, at, todo, tries, good,
                 accepted, lost, undelivered, roll, mocked, client, crashes>>

\* The provider returns; a list nobody is on is a failure.
FinishProvider(w) ==
  /\ InLoop(w) /\ listed[w]
  /\ \A p \in Recipient : todo[<<w, p>>] = 0
  /\ NextProvider(w, IF good[w] THEN "ok" ELSE "failed")
  /\ good' = [good EXCEPT ![w] = FALSE]
  /\ UNCHANGED <<chats, place, stage, at, todo, tries,
                 accepted, lost, undelivered, roll, mocked, client, crashes>>

\* The table cannot be read: send raises, the engine records a failure.
ReadFails(w) ==
  /\ InLoop(w) /\ ~listed[w]
  /\ Current(w) \in Chat
  /\ NextProvider(w, "failed")
  /\ UNCHANGED <<chats, place, stage, at, todo, tries, good,
                 accepted, lost, undelivered, roll, mocked, client, crashes>>

FinishBroadcast(w) ==
  /\ at[w] # None
  /\ cursor[w] > Len(Providers)
  /\ stage' = [stage EXCEPT ![at[w]] = "sent"]
  /\ at' = [at EXCEPT ![w] = None]
  /\ UNCHANGED <<chats, place, cursor, listed, todo, tries, good, world, client, crashes>>

\* The process is lost; nothing resumes its broadcast.  Its successor starts
\* its clients anew.
WorkerDies(w) ==
  /\ at[w] # None
  /\ crashes < MaxCrashes
  /\ crashes' = crashes + 1
  /\ stage' = [stage EXCEPT ![at[w]] = "cut"]
  /\ at' = [at EXCEPT ![w] = None]
  /\ listed' = [listed EXCEPT ![w] = FALSE]
  /\ todo' = [wp \in Worker \X Recipient |-> IF wp[1] = w THEN 0 ELSE todo[wp]]
  /\ tries' = [wp \in Worker \X Recipient |-> IF wp[1] = w THEN 0 ELSE tries[wp]]
  /\ good' = [good EXCEPT ![w] = FALSE]
  /\ \E new \in [Enabled -> ClientState] :
       /\ \A ch \in Enabled : new[ch] \in Fresh(ch)
       /\ client' = [wc \in Worker \X Enabled |->
                       IF wc[1] = w THEN new[wc[2]] ELSE client[wc]]
  /\ UNCHANGED <<chats, place, cursor, world>>
-----------------------------------------------------------------------------
Citizens == \E c \in Command :
  \/ Ask(c)
  \/ CommandLost(c)
  \/ \E w \in Worker : HandleCommand(w, c)

Broadcasting(w) ==
  \/ \E b \in Broadcast : OpenBroadcast(w, b)
  \/ ReadRecipients(w)
  \/ Attempt(w)
  \/ FinishProvider(w)
  \/ ReadFails(w)
  \/ FinishBroadcast(w)
  \/ WorkerDies(w)

Next == Citizens \/ \E w \in Worker : Broadcasting(w)

\* Only the Telegram call has a timeout: the code cannot promise that a Twilio
\* or SMTP call ever returns.
AwaitsGateway(w) ==
  InLoop(w) /\ listed[w] /\ Current(w) # "telegram" /\ ~Mocking(w)
  /\ \E p \in Recipient : todo[<<w, p>>] > 0

OwnStep(w) ==
  \/ ReadRecipients(w) \/ ReadFails(w)
  \/ FinishProvider(w) \/ FinishBroadcast(w)
  \/ Attempt(w) /\ ~AwaitsGateway(w)

Fairness == \A w \in Worker : WF_vars(OwnStep(w))

Spec == Init /\ [][Next]_vars
FairSpec == Spec /\ Fairness
-----------------------------------------------------------------------------
(* Properties. *)

\* The shape of the state: the table, the commands, each worker's loop, the
\* results and what the gateways took.
TypeOK ==
  /\ sub \in [Chat \X Recipient -> Wish]
  /\ asked \subseteq Command
  /\ inbox \subseteq asked
  /\ place \in [Alert -> Place]
  /\ stage \in [Broadcast -> {"unmade", "sending", "sent", "cut"}]
  /\ at \in [Worker -> Broadcast \cup {None}]
  /\ cursor \in [Worker -> 1 .. Len(Providers) + 1]
  /\ listed \in [Worker -> BOOLEAN]
  /\ todo \in [Worker \X Recipient -> 0 .. 2]
  /\ tries \in [Worker \X Recipient -> Nat]
  /\ good \in [Worker -> BOOLEAN]
  /\ accepted \in [Broadcast \X Channel \X Recipient -> Nat]
  /\ lost \in [Broadcast \X Channel \X Recipient -> Nat]
  /\ undelivered \subseteq Broadcast \X Channel \X Recipient
  /\ roll \in [Broadcast \X Channel -> SUBSET Recipient]
  /\ report \in [Broadcast \X Channel -> {"none", "ok", "failed"}]
  /\ mocked \subseteq Broadcast \X Channel \X Recipient
  /\ client \in [Worker \X Enabled -> ClientState]
  /\ crashes \in 0 .. MaxCrashes

\* Nobody is alerted over a chat who did not ask there for that district or
\* for all: whatever is repeated, reordered, lost or misspelt, a message goes
\* to a name in the settings or to somebody who asked for it.
OnlyTheAskingAreTold ==
  \A b \in Broadcast, ch \in Channel, p \in Recipient :
    accepted[<<b, ch, p>>] > 0 =>
      \/ p \in Static[ch]
      \/ \E c \in asked :
           c.chat = ch /\ c.who = p /\ c.says \in {place[b[1]], "all"}

\* Retries and the provider loop make no copies of their own: a recipient gets
\* one message per source naming him, and one more only for each answer the
\* gateway accepted and the worker never heard.
CopiesAreExplained ==
  \A b \in Broadcast, ch \in Channel, p \in Recipient :
    accepted[<<b, ch, p>>] <=
      lost[<<b, ch, p>>] + (IF ch = "whatsapp" /\ p \in Static[ch] THEN 2 ELSE 1)

\* A provider's "success" is about its own messages of this broadcast: it is
\* reported exactly when a gateway confirmed one, or, with nothing sent to
\* anybody on its list, when its worker's client is in mock mode.
ReportsAreHonest ==
  \A b \in Broadcast, ch \in Channel :
    report[<<b, ch>>] # "none" =>
      (report[<<b, ch>>] = "ok" <=>
         \E p \in Recipient : \/ accepted[<<b, ch, p>>] > lost[<<b, ch, p>>]
                              \/ <<b, ch, p>> \in mocked)

\* When a provider has answered, everyone it had read is accounted for: told,
\* a failure in the details, or an entry of a channel in mock mode, which
\* calls it a success.  One bad number costs nobody else the alert.
NobodyOverlooked ==
  \A b \in Broadcast, ch \in Channel :
    report[<<b, ch>>] # "none" =>
      \A p \in roll[<<b, ch>>] :
        \/ accepted[<<b, ch, p>>] > 0
        \/ <<b, ch, p>> \in undelivered
        \/ <<b, ch, p>> \in mocked

\* A channel that fails or raises never keeps the later ones from being tried.
EveryChannelTried ==
  \A b \in Broadcast : stage[b] = "sent" =>
    \A i \in 1 .. Len(Providers) : report[<<b, Providers[i]>>] # "none"

\* A broadcast that never ends hangs in a gateway's answer: the loops of the
\* engine and of the providers terminate whatever fails and whoever subscribes.
OnlyGatewaysHold ==
  \A b \in Broadcast :
    <>[](stage[b] = "sending")
      => <>[](\E w \in Worker : at[w] = b /\ AwaitsGateway(w))
=============================================================================
