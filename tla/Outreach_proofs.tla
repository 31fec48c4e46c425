--------------------------- MODULE Outreach_proofs ---------------------------
(***************************************************************************)
(* Proofs about Outreach, for every set of workers, alerts, districts and  *)
(* recipients, every list of channels, every number of retries and every   *)
(* number of commands and crashes.                                         *)
(*                                                                         *)
(* The invariant has three layers, each inductive given the ones before:   *)
(*   Control  who holds a broadcast and how far its loop has come;         *)
(*   Asking   every row, list entry and message goes back to a command or  *)
(*            to the settings;                                             *)
(*   Books    per broadcast and channel, the balance of entries still to   *)
(*            send, messages taken, answers lost and failures recorded.    *)
(***************************************************************************)
EXTENDS Outreach, TLAPS

\* A worker in the loop holds a broadcast under way, and holds it alone.
Holding == \A w \in Worker : at[w] # None => stage[at[w]] = "sending"
Alone == \A v, w \in Worker : at[v] = at[w] /\ at[w] # None => v = w

\* Only a worker inside a provider has entries or successes.
Resting == \A w \in Worker :
  /\ listed[w] => InLoop(w)
  /\ ~listed[w] => ~good[w] /\ \A p \in Recipient : todo[<<w, p>>] = 0

\* The providers before the cursor, and no others, have reported.
Reported == \A w \in Worker : at[w] # None =>
  \A i \in 1 .. Len(Providers) :
    i < cursor[w] <=> report[<<at[w], Providers[i]>>] # "none"
Unmade == \A b \in Broadcast : stage[b] = "unmade" =>
  \A ch \in Channel : report[<<b, ch>>] = "none"

Control ==
  TypeOK /\ Holding /\ Alone /\ Resting /\ Reported /\ Unmade /\ EveryChannelTried

\* A command asked for messages about d over ch.
AskedFor(ch, p, d) == \E c \in asked : c.chat = ch /\ c.who = p /\ c.says = d
Entitled(b, ch, p) ==
  p \in Static[ch] \/ AskedFor(ch, p, place[b[1]]) \/ AskedFor(ch, p, "all")

Wishes == \A ch \in Chat, p \in Recipient :
  sub[<<ch, p>>] # "off" => AskedFor(ch, p, sub[<<ch, p>>])
Queued == \A w \in Worker, p \in Recipient :
  todo[<<w, p>>] > 0 => Entitled(at[w], Current(w), p)
Told == \A b \in Broadcast, ch \in Channel, p \in Recipient :
  accepted[<<b, ch, p>>] > 0 => Entitled(b, ch, p)

Asking == Wishes /\ Queued /\ Told

\* A worker is inside ch's provider for b.
Working(b, ch) == \E w \in Worker : listed[w] /\ at[w] = b /\ Current(w) = ch
\* Nothing has happened for b over ch.
Blank(b, ch) ==
  /\ roll[<<b, ch>>] = {}
  /\ \A p \in Recipient : accepted[<<b, ch, p>>] = 0 /\ lost[<<b, ch, p>>] = 0
                          /\ <<b, ch, p>> \notin mocked
BlankUntilRead == \A b \in Broadcast, ch \in Channel :
  stage[b] \in {"unmade", "sending"} /\ report[<<b, ch>>] = "none" /\ ~Working(b, ch)
    => Blank(b, ch)

LostWereTaken == \A b \in Broadcast, ch \in Channel, p \in Recipient :
  lost[<<b, ch, p>>] <= accepted[<<b, ch, p>>]

\* The sources that can name p over ch.
Sources(ch, p) == IF ch = "whatsapp" /\ p \in Static[ch] THEN 2 ELSE 1

\* A success of a provider's count: confirmed, or said so in mock mode.
Success(b, ch, p) ==
  accepted[<<b, ch, p>>] > lost[<<b, ch, p>>] \/ <<b, ch, p>> \in mocked

\* The open account of a worker's provider call, for b over ch.
Account(w, b, ch) ==
  /\ \A p \in Recipient :
       accepted[<<b, ch, p>>] + todo[<<w, p>>] <= lost[<<b, ch, p>>] + Sources(ch, p)
  /\ good[w] <=> \E p \in Recipient : Success(b, ch, p)
  /\ \A p \in roll[<<b, ch>>] :
       \/ todo[<<w, p>>] > 0 \/ accepted[<<b, ch, p>>] > 0
       \/ <<b, ch, p>> \in undelivered \cup mocked
Accounts == \A w \in Worker : listed[w] => Account(w, at[w], Current(w))

Books ==
  /\ BlankUntilRead /\ LostWereTaken /\ Accounts
  /\ CopiesAreExplained /\ ReportsAreHonest /\ NobodyOverlooked

\* What an attempt does: a confirmed message, one that is only said to be
\* sent, or a failure (taken or not by
\* the gateway) that is either retried or given up and recorded.
Sent(w, p) ==
  /\ accepted' = Bump(accepted, Slot(w, p)) /\ lost' = lost
  /\ good' = [good EXCEPT ![w] = TRUE]
  /\ todo' = [todo EXCEPT ![<<w, p>>] = @ - 1]
  /\ undelivered' = undelivered /\ mocked' = mocked
Feigned(w, p) ==
  /\ accepted' = accepted /\ lost' = lost /\ undelivered' = undelivered
  /\ good' = [good EXCEPT ![w] = TRUE]
  /\ todo' = [todo EXCEPT ![<<w, p>>] = @ - 1]
  /\ mocked' = mocked \cup {Slot(w, p)}
Missed(w, p) ==
  /\ \/ accepted' = accepted /\ lost' = lost
     \/ accepted' = Bump(accepted, Slot(w, p)) /\ lost' = Bump(lost, Slot(w, p))
  /\ good' = good /\ mocked' = mocked
  /\ \/ todo' = todo /\ undelivered' = undelivered
     \/ /\ todo' = [todo EXCEPT ![<<w, p>>] = @ - 1]
        /\ undelivered' = undelivered \cup {Slot(w, p)}
Tried(w, p) ==
  Facing(w, p) /\ (Sent(w, p) \/ Feigned(w, p) \/ Missed(w, p)) /\ Untouched

LEMMA AttemptTries ==
  ASSUME NEW w \in Worker, Attempt(w)
  PROVE  \E p \in Recipient : Tried(w, p)
<1>1. PICK p \in Recipient :
        \/ Pretends(w, p) \/ Delivers(w, p)
        \/ Rejected(w, p) \/ Fails(w, p) \/ AnswerLost(w, p)
  BY DEF Attempt
<1>0. CASE Pretends(w, p)
  BY <1>0 DEF Pretends, Tried, Feigned, NextEntry
<1>2. CASE Delivers(w, p)
  BY <1>2 DEF Delivers, Tried, Sent, NextEntry
<1>3. CASE Rejected(w, p)
  BY <1>3 DEF Rejected, GiveUp, NextEntry, Tried, Missed
<1>4. CASE Fails(w, p)
  BY <1>4 DEF Fails, Retry, GiveUp, NextEntry, Tried, Missed
<1>5. CASE AnswerLost(w, p)
  BY <1>5 DEF AnswerLost, Retry, GiveUp, NextEntry, Tried, Missed
<1>. QED  BY <1>0, <1>1, <1>2, <1>3, <1>4, <1>5

\* A channel's Current is a channel, and a cursor names it once.
LEMMA CurrentIsChannel ==
  ASSUME TypeOK, NEW w \in Worker, InLoop(w)
  PROVE  /\ at[w] \in Broadcast /\ cursor[w] \in 1 .. Len(Providers)
         /\ Current(w) \in Channel
         /\ Len(Providers) \in Nat
  BY ProvidersAssumption DEF TypeOK, InLoop, Current

LEMMA NoneIsNoBroadcast == None \notin Broadcast
  BY DEF None, Broadcast

LEMMA EntriesBounded ==
  ASSUME NEW ch \in Channel, NEW p \in Recipient, NEW d
  PROVE  /\ Entries(ch, p, d) \in 0 .. 2
         /\ Entries(ch, p, d) <= (IF ch = "whatsapp" /\ p \in Static[ch] THEN 2 ELSE 1)
  BY StaticAssumption DEF Entries, Interested, Chat, Channel
\* Leaving a provider, with its result or because it raised.
Leaves(w, result) ==
  /\ InLoop(w) /\ NextProvider(w, result)
  /\ result \in {"ok", "failed"}
  /\ result = "ok" <=> good[w]
  /\ \A p \in Recipient : todo[<<w, p>>] = 0
  /\ \A v \in Worker : good'[v] <=> v # w /\ good[v]
  /\ UNCHANGED <<chats, place, stage, at, todo, accepted, lost, undelivered, roll, mocked, client>>

LEMMA ProviderLeft ==
  ASSUME TypeOK, Resting, NEW w \in Worker, FinishProvider(w) \/ ReadFails(w)
  PROVE  \E result \in {"ok", "failed"} : Leaves(w, result)
<1>0. good \in [Worker -> BOOLEAN]
  BY DEF TypeOK
<1>1. CASE FinishProvider(w)
  <2>1. \A v \in Worker : good'[v] <=> v # w /\ good[v]
    BY <1>0, <1>1 DEF FinishProvider
  <2>2. CASE good[w]
    BY <1>1, <2>1, <2>2 DEF FinishProvider, Leaves
  <2>3. CASE ~good[w]
    BY <1>1, <2>1, <2>3 DEF FinishProvider, Leaves
  <2>. QED  BY <2>2, <2>3
<1>2. CASE ReadFails(w)
  <2>1. ~good[w] /\ \A p \in Recipient : todo[<<w, p>>] = 0
    BY <1>2 DEF ReadFails, Resting
  <2>2. \A v \in Worker : good'[v] <=> v # w /\ good[v]
    BY <1>2, <2>1 DEF ReadFails
  <2>. QED  BY <1>2, <2>1, <2>2 DEF ReadFails, Leaves
<1>. QED  BY <1>1, <1>2

\* Citizens' steps leave the broadcasts alone.
Quiet == UNCHANGED <<place, stage, loop, world, client>>

LEMMA CitizensQuiet == Citizens \/ UNCHANGED vars => Quiet
  BY DEF Citizens, Ask, CommandLost, HandleCommand, Quiet, vars
-----------------------------------------------------------------------------
(* Types. *)

THEOREM InitTypeOK == Init => TypeOK
<1>. SUFFICES ASSUME Init PROVE TypeOK
  OBVIOUS
<1>. Len(Providers) \in Nat
  BY ProvidersAssumption
<1>1. sub \in [Chat \X Recipient -> Wish]
  BY DEF Init, Wish
<1>2. at \in [Worker -> Broadcast \cup {None}] /\ cursor \in [Worker -> 1 .. Len(Providers) + 1]
  BY DEF Init
<1>3. crashes \in 0 .. MaxCrashes
  BY BoundsAssumption DEF Init
<1>. QED  BY <1>1, <1>2, <1>3 DEF Init, TypeOK, Zero

LEMMA BumpCounts ==
  ASSUME NEW S, NEW f \in [S -> Nat], NEW x \in S
  PROVE  /\ Bump(f, x) \in [S -> Nat]
         /\ Bump(f, x)[x] = f[x] + 1
         /\ \A y \in S : y # x => Bump(f, x)[y] = f[y]
  BY DEF Bump

\* What an attempt at p may do to the counters, as functions of their slots.
LEMMA TriedCounts ==
  ASSUME TypeOK, NEW w \in Worker, NEW p \in Recipient, Tried(w, p)
  PROVE  /\ accepted' \in [Broadcast \X Channel \X Recipient -> Nat]
         /\ lost' \in [Broadcast \X Channel \X Recipient -> Nat]
         /\ todo' \in [Worker \X Recipient -> 0 .. 2]
         /\ good' \in [Worker -> BOOLEAN]
         /\ undelivered' \subseteq Broadcast \X Channel \X Recipient
         /\ mocked' \subseteq Broadcast \X Channel \X Recipient
         /\ Slot(w, p) \in Broadcast \X Channel \X Recipient
<1>1. Slot(w, p) \in Broadcast \X Channel \X Recipient
  BY CurrentIsChannel DEF Tried, Facing, Slot
<1>2. /\ accepted \in [Broadcast \X Channel \X Recipient -> Nat]
      /\ lost \in [Broadcast \X Channel \X Recipient -> Nat]
      /\ todo \in [Worker \X Recipient -> 0 .. 2]
      /\ good \in [Worker -> BOOLEAN]
      /\ undelivered \subseteq Broadcast \X Channel \X Recipient
      /\ mocked \subseteq Broadcast \X Channel \X Recipient
      /\ todo[<<w, p>>] > 0
  BY DEF TypeOK, Tried, Facing
<1>3. /\ accepted' \in [Broadcast \X Channel \X Recipient -> Nat]
      /\ lost' \in [Broadcast \X Channel \X Recipient -> Nat]
  BY <1>1, <1>2, BumpCounts DEF Tried, Sent, Feigned, Missed
<1>4. todo' \in [Worker \X Recipient -> 0 .. 2]
  BY <1>2 DEF Tried, Sent, Feigned, Missed
<1>5. good' \in [Worker -> BOOLEAN]
  BY <1>2 DEF Tried, Sent, Feigned, Missed
<1>6. /\ undelivered' \subseteq Broadcast \X Channel \X Recipient
      /\ mocked' \subseteq Broadcast \X Channel \X Recipient
  BY <1>1, <1>2 DEF Tried, Sent, Feigned, Missed
<1>. QED  BY <1>1, <1>3, <1>4, <1>5, <1>6

LEMMA AttemptCountsTries ==
  ASSUME TypeOK, NEW w \in Worker, Attempt(w)
  PROVE  tries' \in [Worker \X Recipient -> Nat]
<1>1. PICK p \in Recipient :
        \/ Pretends(w, p) \/ Delivers(w, p)
        \/ Rejected(w, p) \/ Fails(w, p) \/ AnswerLost(w, p)
  BY DEF Attempt
<1>2. tries \in [Worker \X Recipient -> Nat]
  BY DEF TypeOK
<1>3. \/ tries' = [tries EXCEPT ![<<w, p>>] = 0]
      \/ tries' = Bump(tries, <<w, p>>)
  BY <1>1 DEF Pretends, Delivers, Rejected, Fails, AnswerLost, Retry, GiveUp, NextEntry
<1>. QED  BY <1>2, <1>3 DEF Bump

LEMMA TypeStep == TypeOK /\ [Next]_vars => TypeOK'
<1>. SUFFICES ASSUME TypeOK, [Next]_vars PROVE TypeOK'
  OBVIOUS
<1>. USE DEF TypeOK
<1>1. CASE UNCHANGED vars
  BY <1>1 DEF vars, chats, loop, world
<1>2. ASSUME NEW c \in Command, Ask(c) PROVE TypeOK'
  BY <1>2 DEF Ask, loop, world
<1>3. ASSUME NEW c \in Command, CommandLost(c) PROVE TypeOK'
  BY <1>3 DEF CommandLost, loop, world
<1>4. ASSUME NEW c \in Command, NEW w \in Worker, HandleCommand(w, c) PROVE TypeOK'
  <2>1. sub' \in [Chat \X Recipient -> Wish]
    BY <1>4 DEF HandleCommand, Applied, Command
  <2>. QED  BY <1>4, <2>1 DEF HandleCommand, loop, world
<1>5. ASSUME NEW w \in Worker, Broadcasting(w) PROVE TypeOK'
  <2>0. Len(Providers) \in Nat
    BY ProvidersAssumption
  <2>1. ASSUME NEW b \in Broadcast, OpenBroadcast(w, b) PROVE TypeOK'
    BY <2>0, <2>1, SMTT(20) DEF OpenBroadcast, chats, world
  <2>2. CASE ReadRecipients(w)
    <3>1. at[w] \in Broadcast /\ Current(w) \in Channel
      BY <2>2, CurrentIsChannel DEF ReadRecipients
    <3>2. todo' \in [Worker \X Recipient -> 0 .. 2]
      BY <2>2, <3>1, EntriesBounded DEF ReadRecipients
    <3>3. roll' \in [Broadcast \X Channel -> SUBSET Recipient]
      BY <2>2, <3>1 DEF ReadRecipients
    <3>4. listed' \in [Worker -> BOOLEAN]
      BY <2>2 DEF ReadRecipients
    <3>5. client' \in [Worker \X Enabled -> ClientState]
      BY <2>2 DEF ReadRecipients, StartClient, ClientState
    <3>. QED  BY <2>2, <3>2, <3>3, <3>4, <3>5 DEF ReadRecipients, chats
  <2>3. CASE Attempt(w)
    <3>1. PICK p \in Recipient : Tried(w, p)
      BY <2>3, AttemptTries
    <3>2. tries' \in [Worker \X Recipient -> Nat]
      BY <2>3, AttemptCountsTries
    <3>. QED  BY <3>1, <3>2, TriedCounts DEF Tried, Untouched, chats
  <2>4. ASSUME NEW result \in {"ok", "failed"}, InLoop(w), NextProvider(w, result)
        PROVE  /\ report' \in [Broadcast \X Channel -> {"none", "ok", "failed"}]
               /\ cursor' \in [Worker -> 1 .. Len(Providers) + 1]
               /\ listed' \in [Worker -> BOOLEAN]
    <3>1. at[w] \in Broadcast /\ Current(w) \in Channel /\ cursor[w] \in 1 .. Len(Providers)
      BY <2>4, CurrentIsChannel
    <3>2. report' \in [Broadcast \X Channel -> {"none", "ok", "failed"}]
      BY <2>4, <3>1 DEF NextProvider
    <3>3. cursor' \in [Worker -> 1 .. Len(Providers) + 1]
      BY <2>0, <2>4, <3>1 DEF NextProvider, Bump
    <3>. QED  BY <2>4, <3>2, <3>3 DEF NextProvider
  <2>5. CASE FinishProvider(w)
    <3>1. (IF good[w] THEN "ok" ELSE "failed") \in {"ok", "failed"}
      OBVIOUS
    <3>2. good' \in [Worker -> BOOLEAN]
      BY <2>5 DEF FinishProvider
    <3>. QED  BY <2>4, <2>5, <3>1, <3>2 DEF FinishProvider, chats
  <2>6. CASE ReadFails(w)
    BY <2>4, <2>6 DEF ReadFails, chats
  <2>7. CASE FinishBroadcast(w)
    BY <2>7 DEF FinishBroadcast, chats, world
  <2>8. CASE WorkerDies(w)
    <3>1. todo' \in [Worker \X Recipient -> 0 .. 2]
      BY <2>8 DEF WorkerDies
    <3>2. tries' \in [Worker \X Recipient -> Nat]
      BY <2>8 DEF WorkerDies
    <3>3. crashes' \in 0 .. MaxCrashes
      BY <2>8, BoundsAssumption DEF WorkerDies
    <3>4. /\ stage' \in [Broadcast -> {"unmade", "sending", "sent", "cut"}]
          /\ at' \in [Worker -> Broadcast \cup {None}]
          /\ listed' \in [Worker -> BOOLEAN] /\ good' \in [Worker -> BOOLEAN]
      BY <2>8 DEF WorkerDies
    <3>5. client' \in [Worker \X Enabled -> ClientState]
      <4>1. PICK new \in [Enabled -> ClientState] :
              client' = [wc \in Worker \X Enabled |->
                           IF wc[1] = w THEN new[wc[2]] ELSE client[wc]]
        BY <2>8 DEF WorkerDies
      <4>. QED  BY <4>1
    <3>. QED  BY <2>8, <3>1, <3>2, <3>3, <3>4, <3>5 DEF WorkerDies, chats, world
  <2>. QED
    BY <1>5, <2>1, <2>2, <2>3, <2>5, <2>6, <2>7, <2>8 DEF Broadcasting
<1>. QED  BY <1>1, <1>2, <1>3, <1>4, <1>5 DEF Next, Citizens

\* The table, the loops, the results and the counters keep their types.
THEOREM TypeCorrect == Spec => []TypeOK
<1>1. Init => TypeOK  BY InitTypeOK
<1>2. TypeOK /\ [Next]_vars => TypeOK'  BY TypeStep
<1>. QED  BY <1>1, <1>2, PTL DEF Spec
-----------------------------------------------------------------------------
(* Control: who broadcasts what, and how far it has come. *)

LEMMA InitControl == Init => Control
<1>. SUFFICES ASSUME Init PROVE Control
  OBVIOUS
<1>1. TypeOK
  BY InitTypeOK
<1>2. Holding /\ Alone /\ Reported
  BY DEF Init, Holding, Alone, Reported
<1>3. Resting
  BY DEF Init, Resting, Zero
<1>4. Unmade /\ EveryChannelTried
  BY DEF Init, Unmade, EveryChannelTried
<1>. QED  BY <1>1, <1>2, <1>3, <1>4 DEF Control

LEMMA ControlStep == Control /\ [Next]_vars => Control'
<1>. SUFFICES ASSUME Control, [Next]_vars PROVE Control'
  OBVIOUS
<1>0. TypeOK'
  BY TypeStep DEF Control
<1>a. TypeOK /\ Holding /\ Alone /\ Resting /\ Reported /\ Unmade /\ EveryChannelTried
  BY DEF Control
<1>b. Len(Providers) \in Nat
  BY ProvidersAssumption
<1>. SUFFICES (Holding /\ Alone /\ Resting /\ Reported /\ Unmade /\ EveryChannelTried)'
  BY <1>0 DEF Control
<1>1. CASE Quiet
  BY <1>a, <1>1 DEF Quiet, loop, world, Holding, Alone, Resting, Reported, Unmade,
                    EveryChannelTried, InLoop
<1>2. ASSUME NEW w \in Worker, NEW b \in Broadcast, OpenBroadcast(w, b)
      PROVE  (Holding /\ Alone /\ Resting /\ Reported /\ Unmade /\ EveryChannelTried)'
  <2>1. /\ at[w] = None /\ stage[b] = "unmade"
        /\ stage' = [stage EXCEPT ![b] = "sending"]
        /\ at' = [at EXCEPT ![w] = b] /\ cursor' = [cursor EXCEPT ![w] = 1]
        /\ UNCHANGED <<listed, todo, good, report>>
    BY <1>2 DEF OpenBroadcast, world
  <2>2. \A v \in Worker : v # w => at'[v] = at[v] /\ cursor'[v] = cursor[v] /\ at[v] # b
    BY <1>a, <2>1, NoneIsNoBroadcast DEF Holding, TypeOK
  <2>3. at'[w] = b /\ cursor'[w] = 1
    BY <1>a, <2>1 DEF TypeOK
  <2>4. Holding'
    BY <1>a, <2>1, <2>2, <2>3 DEF Holding, TypeOK
  <2>5. Alone'
    BY <1>a, <2>2, <2>3 DEF Alone
  <2>6. Resting'
    BY <1>a, <2>1, <2>2, <2>3 DEF Resting, InLoop
  <2>7. Reported'
    BY <1>a, <1>b, ProvidersAssumption, <2>1, <2>2, <2>3 DEF Reported, Unmade
  <2>8. Unmade' /\ EveryChannelTried'
    BY <1>a, <2>1 DEF Unmade, EveryChannelTried, TypeOK
  <2>. QED  BY <2>4, <2>5, <2>6, <2>7, <2>8
<1>3. ASSUME NEW w \in Worker, ReadRecipients(w)
      PROVE  (Holding /\ Alone /\ Resting /\ Reported /\ Unmade /\ EveryChannelTried)'
  <2>1. /\ UNCHANGED <<stage, at, cursor, good, report>>
        /\ InLoop(w)
        /\ listed' = [listed EXCEPT ![w] = TRUE]
        /\ \A v \in Worker \ {w}, p \in Recipient : todo'[<<v, p>>] = todo[<<v, p>>]
    BY <1>3 DEF ReadRecipients
  <2>2. \A v \in Worker \ {w} : listed'[v] = listed[v]
    BY <1>a, <2>1 DEF TypeOK
  <2>3. listed'[w] = TRUE
    BY <1>a, <2>1 DEF TypeOK
  <2>4. Resting'
    BY <1>a, <2>1, <2>2, <2>3 DEF Resting, InLoop
  <2>5. (Holding /\ Alone /\ Reported /\ Unmade /\ EveryChannelTried)'
    BY <1>a, <2>1 DEF Holding, Alone, Reported, Unmade, EveryChannelTried
  <2>. QED  BY <2>4, <2>5
<1>4. ASSUME NEW w \in Worker, Attempt(w)
      PROVE  (Holding /\ Alone /\ Resting /\ Reported /\ Unmade /\ EveryChannelTried)'
  <2>1. PICK p \in Recipient : Tried(w, p)
    BY <1>4, AttemptTries
  <2>2. UNCHANGED <<stage, at, cursor, listed, report>> /\ listed[w]
    BY <2>1 DEF Tried, Untouched, Facing
  <2>3. \A v \in Worker \ {w} : /\ good'[v] = good[v]
                               /\ \A q \in Recipient : todo'[<<v, q>>] = todo[<<v, q>>]
    BY <1>a, <2>1 DEF Tried, Sent, Feigned, Missed, TypeOK
  <2>4. Resting'
    BY <1>a, <2>2, <2>3 DEF Resting, InLoop
  <2>5. (Holding /\ Alone /\ Reported /\ Unmade /\ EveryChannelTried)'
    BY <1>a, <2>2 DEF Holding, Alone, Reported, Unmade, EveryChannelTried
  <2>. QED  BY <2>4, <2>5
<1>5. ASSUME NEW w \in Worker, FinishProvider(w) \/ ReadFails(w)
      PROVE  (Holding /\ Alone /\ Resting /\ Reported /\ Unmade /\ EveryChannelTried)'
  <2>1. PICK result \in {"ok", "failed"} : Leaves(w, result)
    BY <1>a, <1>5, ProviderLeft
  <2>2. /\ at[w] \in Broadcast /\ Current(w) \in Channel
        /\ cursor[w] \in 1 .. Len(Providers)
    BY <1>a, <2>1, CurrentIsChannel DEF Leaves
  <2>3. /\ UNCHANGED <<stage, at, todo>>
        /\ report' = [report EXCEPT ![<<at[w], Current(w)>>] = result]
        /\ result # "none"
        /\ cursor' = [cursor EXCEPT ![w] = @ + 1]
        /\ listed' = [listed EXCEPT ![w] = FALSE]
        /\ \A p \in Recipient : todo[<<w, p>>] = 0
        /\ \A v \in Worker : good'[v] <=> v # w /\ good[v]
    BY <2>1 DEF Leaves, NextProvider, Bump
  <2>4. /\ cursor'[w] = cursor[w] + 1 /\ listed'[w] = FALSE /\ ~good'[w]
        /\ at[w] # None /\ stage[at[w]] = "sending"
    <3>1. at[w] # None /\ stage[at[w]] = "sending"
      BY <1>a, <2>1 DEF Leaves, InLoop, Holding
    <3>2. cursor'[w] = cursor[w] + 1 /\ listed'[w] = FALSE
      BY <1>a, <2>3 DEF TypeOK
    <3>3. ~good'[w]
      BY <2>3
    <3>. QED  BY <3>1, <3>2, <3>3
  <2>5. \A v \in Worker \ {w} : /\ cursor'[v] = cursor[v]
                               /\ listed'[v] = listed[v]
                               /\ at[v] # at[w]
    BY <1>a, <2>3, <2>4 DEF TypeOK, Alone
  <2>5a. \A v \in Worker \ {w} : good'[v] <=> good[v]
    BY <2>3
  <2>6. Resting'
    <3>1. ASSUME NEW v \in Worker \ {w}
          PROVE  /\ listed'[v] => InLoop(v)'
                 /\ ~listed'[v] => ~good'[v] /\ \A p \in Recipient : todo'[<<v, p>>] = 0
      BY <1>a, <2>3, <2>5, <2>5a DEF Resting, InLoop
    <3>2. ~listed'[w] /\ ~good'[w] /\ \A p \in Recipient : todo'[<<w, p>>] = 0
      BY <2>3, <2>4
    <3>. QED  BY <3>1, <3>2 DEF Resting
  <2>7. /\ report'[<<at[w], Current(w)>>] = result
        /\ \A b \in Broadcast, ch \in Channel :
             b # at[w] \/ ch # Current(w) => report'[<<b, ch>>] = report[<<b, ch>>]
    BY <1>a, <2>2, <2>3 DEF TypeOK
  <2>8. Reported'
    <3>1. ASSUME NEW v \in Worker, at'[v] # None, NEW i \in 1 .. Len(Providers)
          PROVE  i < cursor'[v] <=> report'[<<at'[v], Providers[i]>>] # "none"
      <4>0. at[v] \in Broadcast /\ Providers[i] \in Channel /\ at'[v] = at[v]
        BY <1>a, <1>b, <2>3, <3>1, ProvidersAssumption DEF TypeOK
      <4>1. i < cursor[v] <=> report[<<at[v], Providers[i]>>] # "none"
        BY <1>a, <3>1, <4>0 DEF Reported
      <4>2. CASE v # w
        BY <2>5, <2>7, <4>0, <4>1, <4>2
      <4>3. CASE v = w /\ i = cursor[w]
        BY <2>2, <2>3, <2>4, <2>7, <4>0, <4>3 DEF Current
      <4>4. CASE v = w /\ i # cursor[w]
        <5>1. Providers[i] # Current(w)
          BY <2>2, <4>4, ProvidersAssumption DEF Current
        <5>2. report'[<<at'[v], Providers[i]>>] = report[<<at[v], Providers[i]>>]
          BY <2>7, <4>0, <4>4, <5>1
        <5>3. i < cursor'[v] <=> i < cursor[v]
          BY <2>2, <2>4, <4>4
        <5>. QED  BY <4>1, <5>2, <5>3
      <4>. QED  BY <4>2, <4>3, <4>4
    <3>. QED  BY <3>1 DEF Reported
  <2>9. Unmade' /\ EveryChannelTried'
    <3>1. Unmade'
      BY <1>a, <2>3, <2>4, <2>7 DEF Unmade
    <3>2. ASSUME NEW b \in Broadcast, stage'[b] = "sent", NEW i \in 1 .. Len(Providers)
          PROVE  report'[<<b, Providers[i]>>] # "none"
      <4>1. Providers[i] \in Channel /\ b # at[w]
        BY <1>b, <2>3, <2>4, <3>2, ProvidersAssumption
      <4>2. report[<<b, Providers[i]>>] # "none"
        BY <1>a, <2>3, <3>2 DEF EveryChannelTried
      <4>. QED  BY <2>7, <4>1, <4>2
    <3>. QED  BY <3>1, <3>2 DEF EveryChannelTried
  <2>10. Holding' /\ Alone'
    BY <1>a, <2>3 DEF Holding, Alone
  <2>. QED  BY <2>6, <2>8, <2>9, <2>10
<1>6. ASSUME NEW w \in Worker, FinishBroadcast(w)
      PROVE  (Holding /\ Alone /\ Resting /\ Reported /\ Unmade /\ EveryChannelTried)'
  <2>1. /\ at[w] # None /\ cursor[w] > Len(Providers) /\ at[w] \in Broadcast
        /\ stage' = [stage EXCEPT ![at[w]] = "sent"]
        /\ at' = [at EXCEPT ![w] = None]
        /\ UNCHANGED <<cursor, listed, todo, good, report>>
    BY <1>a, <1>6 DEF FinishBroadcast, world, TypeOK
  <2>2. ~listed[w] /\ cursor[w] \in Int
    BY <1>a, <1>b, <2>1 DEF Resting, InLoop, TypeOK
  <2>3. at'[w] = None /\ \A v \in Worker \ {w} : at'[v] = at[v]
    BY <1>a, <2>1 DEF TypeOK
  <2>4. \A v \in Worker \ {w} : at[v] # at[w]
    BY <1>a, <2>1 DEF Alone
  <2>5. Holding' /\ Alone'
    BY <1>a, <2>1, <2>3, <2>4 DEF Holding, Alone, TypeOK
  <2>6. Resting'
    BY <1>a, <2>1, <2>2, <2>3 DEF Resting, InLoop
  <2>7. Reported' /\ Unmade'
    BY <1>a, <2>1, <2>3 DEF Reported, Unmade, TypeOK
  <2>8. EveryChannelTried'
    <3>1. \A i \in 1 .. Len(Providers) : report[<<at[w], Providers[i]>>] # "none"
      BY <1>a, <1>b, <2>1, <2>2 DEF Reported
    <3>. QED  BY <1>a, <2>1, <3>1 DEF EveryChannelTried, TypeOK
  <2>. QED  BY <2>5, <2>6, <2>7, <2>8
<1>7. ASSUME NEW w \in Worker, WorkerDies(w)
      PROVE  (Holding /\ Alone /\ Resting /\ Reported /\ Unmade /\ EveryChannelTried)'
  <2>1. /\ at[w] # None /\ at[w] \in Broadcast
        /\ stage' = [stage EXCEPT ![at[w]] = "cut"]
        /\ at' = [at EXCEPT ![w] = None]
        /\ listed' = [listed EXCEPT ![w] = FALSE]
        /\ good' = [good EXCEPT ![w] = FALSE]
        /\ todo' = [wp \in Worker \X Recipient |-> IF wp[1] = w THEN 0 ELSE todo[wp]]
        /\ UNCHANGED <<cursor, report>>
    BY <1>a, <1>7 DEF WorkerDies, world, TypeOK
  <2>2. /\ at'[w] = None /\ listed'[w] = FALSE
        /\ \A v \in Worker \ {w} : at'[v] = at[v] /\ at[v] # at[w] /\ listed'[v] = listed[v]
    BY <1>a, <2>1 DEF TypeOK, Alone
  <2>3. good'[w] = FALSE /\ \A v \in Worker \ {w} : good'[v] = good[v]
    BY <1>a, <2>1 DEF TypeOK
  <2>4. \A v \in Worker, p \in Recipient :
          todo'[<<v, p>>] = IF v = w THEN 0 ELSE todo[<<v, p>>]
    BY <2>1
  <2>5. Holding' /\ Alone'
    BY <1>a, <2>1, <2>2 DEF Holding, Alone, TypeOK
  <2>6. Resting'
    BY <1>a, <2>1, <2>2, <2>3, <2>4 DEF Resting, InLoop
  <2>7. Reported' /\ Unmade' /\ EveryChannelTried'
    BY <1>a, <2>1, <2>2 DEF Reported, Unmade, EveryChannelTried, TypeOK
  <2>. QED  BY <2>5, <2>6, <2>7
<1>. QED
  BY <1>1, <1>2, <1>3, <1>4, <1>5, <1>6, <1>7, CitizensQuiet DEF Next, Broadcasting

THEOREM ControlInvariance == Spec => []Control
<1>1. Init => Control  BY InitControl
<1>2. Control /\ [Next]_vars => Control'  BY ControlStep
<1>. QED  BY <1>1, <1>2, PTL DEF Spec

\* Whatever fails, a finished broadcast has a result from every channel.
THEOREM ChannelsTried == Spec => []EveryChannelTried
<1>1. Control => EveryChannelTried  BY DEF Control
<1>. QED  BY <1>1, ControlInvariance, PTL
-----------------------------------------------------------------------------
(* Asking: where every message comes from. *)

\* A command once sent entitles for good.
LEMMA EntitlementLasts ==
  ASSUME asked \subseteq asked', place' = place, NEW b, NEW ch, NEW p
  PROVE  /\ Entitled(b, ch, p) => Entitled(b, ch, p)'
         /\ \A d : AskedFor(ch, p, d) => AskedFor(ch, p, d)'
  BY DEF Entitled, AskedFor

LEMMA InitAsking == Init => Asking
  BY DEF Init, Asking, Wishes, Queued, Told, Zero

\* Whoever a provider reads is entitled.
LEMMA ListedAreEntitled ==
  ASSUME Control, Wishes, NEW w \in Worker, InLoop(w), NEW p \in Recipient,
         Entries(Current(w), p, place[at[w][1]]) > 0
  PROVE  Entitled(at[w], Current(w), p)
<1>. DEFINE d == place[at[w][1]]
<1>1. at[w] \in Broadcast
  BY CurrentIsChannel DEF Control
<1>2. d \in Place /\ d # "off"
  BY <1>1, PlaceAssumption DEF Control, TypeOK, Broadcast
<1>. HIDE DEF d
<1>3. Entries(Current(w), p, d) > 0
  BY DEF d
<1>4. CASE p \in Static[Current(w)]
  BY <1>4 DEF Entitled
<1>5. CASE p \notin Static[Current(w)]
  <2>1. Interested(Current(w), p, d)
    BY <1>3, <1>5 DEF Entries
  <2>2. /\ Current(w) \in Chat
        /\ sub[<<Current(w), p>>] \in {d, "all"}
        /\ sub[<<Current(w), p>>] # "off"
    BY <1>2, <2>1 DEF Interested
  <2>3. AskedFor(Current(w), p, sub[<<Current(w), p>>])
    BY <2>2 DEF Wishes
  <2>4. AskedFor(Current(w), p, d) \/ AskedFor(Current(w), p, "all")
    BY <2>2, <2>3
  <2>. QED  BY <2>4 DEF Entitled, d
<1>. QED  BY <1>4, <1>5

LEMMA AskingStep == Control /\ Asking /\ [Next]_vars => Asking'
<1>. SUFFICES ASSUME Control, Asking, [Next]_vars PROVE Asking'
  OBVIOUS
<1>a. TypeOK /\ Resting /\ Wishes /\ Queued /\ Told
  BY DEF Control, Asking
<1>1. ASSUME asked \subseteq asked', Quiet PROVE Queued' /\ Told'
  <2>1. UNCHANGED <<place, at, cursor, todo, accepted>>
    BY <1>1 DEF Quiet, loop, world
  <2>2. \A w : Current(w)' = Current(w)
    BY <2>1 DEF Current
  <2>. QED  BY <1>1, <1>a, <2>1, <2>2, EntitlementLasts DEF Queued, Told
<1>2. ASSUME asked \subseteq asked', sub' = sub PROVE Wishes'
  <2>1. \A ch, p, d : AskedFor(ch, p, d) => AskedFor(ch, p, d)'
    BY <1>2 DEF AskedFor
  <2> QED BY <1>2, <1>a, <2>1 DEF Wishes
<1>3. CASE UNCHANGED vars
  BY <1>1, <1>2, <1>3, CitizensQuiet DEF vars, chats, Asking
<1>4. ASSUME NEW c \in Command, Ask(c) \/ CommandLost(c) PROVE Asking'
  BY <1>1, <1>2, <1>4, CitizensQuiet DEF Ask, CommandLost, Citizens, Asking
<1>5. ASSUME NEW c \in Command, NEW w \in Worker, HandleCommand(w, c) PROVE Asking'
  <2>1. c \in asked /\ asked' = asked /\ sub' = Applied(c)
    BY <1>a, <1>5 DEF HandleCommand, TypeOK
  <2>2. Queued' /\ Told'
    BY <1>1, <1>5, <2>1, CitizensQuiet DEF Citizens
  <2>3. ASSUME NEW ch \in Chat, NEW p \in Recipient, sub'[<<ch, p>>] # "off"
        PROVE  AskedFor(ch, p, sub[<<ch, p>>])'
    <3>1. CASE sub'[<<ch, p>>] = sub[<<ch, p>>]
      BY <1>a, <2>1, <2>3, <3>1 DEF Wishes, AskedFor
    <3>2. CASE sub'[<<ch, p>>] # sub[<<ch, p>>]
      <4>1. c.chat = ch /\ c.who = p /\ sub'[<<ch, p>>] = c.says
        BY <1>a, <2>1, <3>2 DEF Applied, TypeOK, Command
      <4>. QED  BY <2>1, <4>1 DEF AskedFor
    <3>. QED  BY <3>1, <3>2
  <2>. QED  BY <2>2, <2>3 DEF Asking, Wishes
<1>6. ASSUME NEW w \in Worker, Broadcasting(w) PROVE Asking'
  <2>1. UNCHANGED <<sub, asked, place>>
    BY <1>6 DEF Broadcasting, OpenBroadcast, ReadRecipients, Attempt, Pretends, Delivers, Rejected,
                Fails, AnswerLost, Untouched, FinishProvider, ReadFails, FinishBroadcast,
                WorkerDies, chats
  <2>2. Wishes'
    BY <1>2, <2>1
  <2>3. \A b, ch, p : Entitled(b, ch, p)' <=> Entitled(b, ch, p)
    BY <2>1 DEF Entitled, AskedFor
  <2>4. ASSUME accepted' = accepted PROVE Told'
    BY <1>a, <2>3, <2>4 DEF Told
  <2>5. ASSUME NEW v \in Worker, NEW p \in Recipient, at'[v] = at[v], cursor'[v] = cursor[v],
               todo'[<<v, p>>] > 0, todo[<<v, p>>] > 0
        PROVE  Entitled(at[v], Current(v), p)'
    <3>1. Current(v)' = Current(v) /\ at[v]' = at[v]
      BY <2>5 DEF Current
    <3>. QED  BY <1>a, <2>3, <2>5, <3>1 DEF Queued
  <2>6. ASSUME NEW b \in Broadcast, OpenBroadcast(w, b) PROVE Asking'
    <3>1. /\ accepted' = accepted /\ todo' = todo /\ at[w] = None
          /\ at' = [at EXCEPT ![w] = b] /\ cursor' = [cursor EXCEPT ![w] = 1]
      BY <2>6 DEF OpenBroadcast, world
    <3>2. \A p \in Recipient : todo[<<w, p>>] = 0
      BY <1>a, <3>1 DEF Resting, InLoop
    <3>3. \A v \in Worker \ {w} : at'[v] = at[v] /\ cursor'[v] = cursor[v]
      BY <1>a, <3>1 DEF TypeOK
    <3>4. Queued'
      BY <2>5, <3>1, <3>2, <3>3 DEF Queued
    <3>. QED  BY <2>2, <2>4, <3>1, <3>4 DEF Asking
  <2>7. CASE ReadRecipients(w)
    <3>1. /\ InLoop(w) /\ UNCHANGED <<at, cursor, accepted>>
          /\ \A v \in Worker, p \in Recipient : todo'[<<v, p>>] =
               IF v = w THEN Entries(Current(w), p, place[at[w][1]]) ELSE todo[<<v, p>>]
      BY <2>7 DEF ReadRecipients
    <3>2. ASSUME NEW p \in Recipient, todo'[<<w, p>>] > 0
          PROVE  Entitled(at[w], Current(w), p)'
      <4>1. Entitled(at[w], Current(w), p)
        BY <1>a, <3>1, <3>2, ListedAreEntitled
      <4>2. Current(w)' = Current(w) /\ at[w]' = at[w]
        BY <3>1 DEF Current
      <4>. QED  BY <2>3, <4>1, <4>2
    <3>3. Queued'
      BY <2>5, <3>1, <3>2 DEF Queued
    <3>. QED  BY <2>2, <2>4, <3>1, <3>3 DEF Asking
  <2>8. CASE Attempt(w)
    <3>1. PICK p \in Recipient : Tried(w, p)
      BY <2>8, AttemptTries
    <3>2. UNCHANGED <<at, cursor>> /\ todo[<<w, p>>] > 0 /\ InLoop(w)
      BY <3>1 DEF Tried, Facing, Untouched
    <3>3. \A v \in Worker, q \in Recipient : todo'[<<v, q>>] > 0 => todo[<<v, q>>] > 0
      BY <1>a, <3>1, <3>2 DEF Tried, Sent, Feigned, Missed, TypeOK
    <3>4. Queued'
      BY <2>5, <3>2, <3>3 DEF Queued
    <3>5. Told'
      <4>1. Slot(w, p) \in Broadcast \X Channel \X Recipient
        BY <1>a, <3>1, TriedCounts
      <4>2. Entitled(at[w], Current(w), p)
        BY <1>a, <3>2 DEF Queued
      <4>3. ASSUME NEW b \in Broadcast, NEW ch \in Channel, NEW q \in Recipient,
                   accepted'[<<b, ch, q>>] # accepted[<<b, ch, q>>]
            PROVE  <<b, ch, q>> = Slot(w, p)
        <5>1. accepted' = accepted \/ accepted' = Bump(accepted, Slot(w, p))
          BY <3>1 DEF Tried, Sent, Feigned, Missed
        <5>2. /\ accepted \in [Broadcast \X Channel \X Recipient -> Nat]
              /\ <<b, ch, q>> \in Broadcast \X Channel \X Recipient
          BY <1>a DEF TypeOK
        <5>3. <<b, ch, q>> # Slot(w, p) =>
                Bump(accepted, Slot(w, p))[<<b, ch, q>>] = accepted[<<b, ch, q>>]
          BY <4>1, <5>2, BumpCounts
        <5>. QED  BY <4>3, <5>1, <5>3
      <4>. QED  BY <1>a, <2>3, <4>2, <4>3 DEF Told, Slot
    <3>. QED  BY <2>2, <3>4, <3>5 DEF Asking
  <2>9. CASE FinishProvider(w) \/ ReadFails(w)
    <3>1. PICK result \in {"ok", "failed"} : Leaves(w, result)
      BY <1>a, <2>9, ProviderLeft
    <3>2. /\ UNCHANGED <<at, todo, accepted>>
          /\ \A p \in Recipient : todo[<<w, p>>] = 0
          /\ \A v \in Worker \ {w} : cursor'[v] = cursor[v]
      BY <1>a, <3>1 DEF Leaves, NextProvider, Bump, TypeOK
    <3>3. Queued'
      BY <2>5, <3>2 DEF Queued
    <3>. QED  BY <2>2, <2>4, <3>2, <3>3 DEF Asking
  <2>10. CASE FinishBroadcast(w) \/ WorkerDies(w)
    <3>1. /\ UNCHANGED <<cursor, accepted>>
          /\ at' = [at EXCEPT ![w] = None]
      BY <2>10 DEF FinishBroadcast, WorkerDies, world
    <3>2. \A v \in Worker, p \in Recipient :
            /\ v = w => todo'[<<v, p>>] = 0
            /\ v # w => todo'[<<v, p>>] = todo[<<v, p>>]
      <4>1. CASE FinishBroadcast(w)
        <5>1. todo' = todo /\ ~listed[w]
          BY <1>a, <4>1, ProvidersAssumption DEF FinishBroadcast, Resting, InLoop, TypeOK
        <5>. QED  BY <1>a, <5>1 DEF Resting
      <4>2. CASE WorkerDies(w)
        BY <4>2 DEF WorkerDies
      <4>. QED  BY <2>10, <4>1, <4>2
    <3>3. \A v \in Worker \ {w} : at'[v] = at[v]
      BY <1>a, <3>1 DEF TypeOK
    <3>4. Queued'
      BY <2>5, <3>1, <3>2, <3>3 DEF Queued
    <3>. QED  BY <2>2, <2>4, <3>1, <3>4 DEF Asking
  <2>. QED
    BY <1>6, <2>6, <2>7, <2>8, <2>9, <2>10 DEF Broadcasting
<1>. QED
  BY <1>3, <1>4, <1>5, <1>6 DEF Next, Citizens

\* However commands are repeated, reordered or lost, and whatever place they
\* misspell, a message goes to a name in the settings or to one who asked.
THEOREM Consent == Spec => []OnlyTheAskingAreTold
<1>1. Init => Asking  BY InitAsking
<1>2. Control /\ Asking /\ [Next]_vars => Asking'  BY AskingStep
<1>3. Asking => OnlyTheAskingAreTold
  <2>1. Asking => Told
    BY DEF Asking
  <2>2. \A ch, p, d : AskedFor(ch, p, d) =>
          \E c \in asked : c.chat = ch /\ c.who = p /\ c.says = d
    BY DEF AskedFor
  <2>. QED  BY <2>1, <2>2 DEF Told, Entitled, OnlyTheAskingAreTold
<1>. QED  BY <1>1, <1>2, <1>3, ControlInvariance, PTL DEF Spec
-----------------------------------------------------------------------------
(* Books: what each provider call owes and has done. *)

LEMMA InitBooks == Init => Books
<1>. SUFFICES ASSUME Init PROVE Books
  OBVIOUS
<1>1. /\ \A b \in Broadcast, ch \in Channel : Blank(b, ch) /\ report[<<b, ch>>] = "none"
      /\ \A w \in Worker : listed[w] = FALSE
      /\ \A b \in Broadcast, ch \in Channel, p \in Recipient :
           /\ accepted[<<b, ch, p>>] = 0 /\ lost[<<b, ch, p>>] = 0
           /\ <<b, ch, p>> \notin mocked
  BY DEF Init, Blank, Zero
<1>2. BlankUntilRead /\ LostWereTaken
  BY <1>1 DEF BlankUntilRead, LostWereTaken
<1>3. Accounts /\ CopiesAreExplained
  BY <1>1 DEF Accounts, CopiesAreExplained
<1>4. ReportsAreHonest /\ NobodyOverlooked
  BY <1>1 DEF ReportsAreHonest, NobodyOverlooked
<1>. QED  BY <1>2, <1>3, <1>4 DEF Books

\* An account nobody touches stays as it is.
LEMMA AccountKept ==
  ASSUME NEW w \in Worker, NEW b, NEW ch, Account(w, b, ch),
         good'[w] <=> good[w], roll'[<<b, ch>>] = roll[<<b, ch>>],
         undelivered \subseteq undelivered', roll[<<b, ch>>] \subseteq Recipient,
         \A p \in Recipient :
           /\ todo'[<<w, p>>] = todo[<<w, p>>]
           /\ accepted'[<<b, ch, p>>] = accepted[<<b, ch, p>>]
           /\ lost'[<<b, ch, p>>] = lost[<<b, ch, p>>]
           /\ <<b, ch, p>> \in mocked' <=> <<b, ch, p>> \in mocked
  PROVE  /\ \A p \in Recipient :
              accepted'[<<b, ch, p>>] + todo'[<<w, p>>] <= lost'[<<b, ch, p>>] + Sources(ch, p)
         /\ good'[w] <=> \E p \in Recipient :
              accepted'[<<b, ch, p>>] > lost'[<<b, ch, p>>] \/ <<b, ch, p>> \in mocked'
         /\ \A p \in roll'[<<b, ch>>] :
              \/ todo'[<<w, p>>] > 0 \/ accepted'[<<b, ch, p>>] > 0
              \/ <<b, ch, p>> \in undelivered' \cup mocked'
<1>1. \A p \in Recipient :
        accepted'[<<b, ch, p>>] + todo'[<<w, p>>] <= lost'[<<b, ch, p>>] + Sources(ch, p)
  BY DEF Account
<1>2. (\E p \in Recipient :
           accepted'[<<b, ch, p>>] > lost'[<<b, ch, p>>] \/ <<b, ch, p>> \in mocked')
        <=> \E p \in Recipient : Success(b, ch, p)
  BY DEF Success
<1>3. \A p \in roll'[<<b, ch>>] :
        \/ todo'[<<w, p>>] > 0 \/ accepted'[<<b, ch, p>>] > 0
        \/ <<b, ch, p>> \in undelivered' \cup mocked'
  <2>1. ASSUME NEW p \in roll[<<b, ch>>]
        PROVE  \/ todo'[<<w, p>>] > 0 \/ accepted'[<<b, ch, p>>] > 0
               \/ <<b, ch, p>> \in undelivered' \cup mocked'
    <3>1. \/ todo[<<w, p>>] > 0 \/ accepted[<<b, ch, p>>] > 0
          \/ <<b, ch, p>> \in undelivered \/ <<b, ch, p>> \in mocked
      BY <2>1 DEF Account
    <3>2. p \in Recipient
      BY <2>1
    <3>. QED  BY <3>1, <3>2
  <2>. QED  BY <2>1
<1>. QED  BY <1>1, <1>2, <1>3 DEF Account

\* The same for the account a worker has open.
LEMMA OpenAccountKept ==
  ASSUME Control, Accounts, NEW w \in Worker, listed[w], at'[w] = at[w],
         cursor'[w] = cursor[w], good'[w] <=> good[w], undelivered \subseteq undelivered',
         roll'[<<at[w], Current(w)>>] = roll[<<at[w], Current(w)>>],
         \A p \in Recipient :
           /\ todo'[<<w, p>>] = todo[<<w, p>>]
           /\ accepted'[<<at[w], Current(w), p>>] = accepted[<<at[w], Current(w), p>>]
           /\ lost'[<<at[w], Current(w), p>>] = lost[<<at[w], Current(w), p>>]
           /\ <<at[w], Current(w), p>> \in mocked' <=> <<at[w], Current(w), p>> \in mocked
  PROVE  Account(w, at[w], Current(w))'
<1>1. Account(w, at[w], Current(w)) /\ at[w] \in Broadcast /\ Current(w) \in Channel
  BY CurrentIsChannel DEF Accounts, Control, Resting
<1>2. at'[w] = at[w] /\ Current(w)' = Current(w)
  BY DEF Current
<1>3. roll[<<at[w], Current(w)>>] \subseteq Recipient
  BY <1>1 DEF Control, TypeOK
<1>4. PICK b, ch : b = at[w] /\ ch = Current(w)
  OBVIOUS
<1>5. Account(w, b, ch) /\ roll[<<b, ch>>] \subseteq Recipient
  BY <1>1, <1>3, <1>4
<1>6. /\ \A p \in Recipient :
           accepted'[<<b, ch, p>>] + todo'[<<w, p>>] <= lost'[<<b, ch, p>>] + Sources(ch, p)
      /\ good'[w] <=> \E p \in Recipient :
              accepted'[<<b, ch, p>>] > lost'[<<b, ch, p>>] \/ <<b, ch, p>> \in mocked'
      /\ \A p \in roll'[<<b, ch>>] :
           \/ todo'[<<w, p>>] > 0 \/ accepted'[<<b, ch, p>>] > 0
           \/ <<b, ch, p>> \in undelivered' \cup mocked'
  BY <1>4, <1>5, AccountKept
<1>. QED
  BY <1>2, <1>4, <1>6 DEF Account, Sources, Success

\* The provider a worker stands at has not reported, and nobody else is there.
LEMMA StandingAlone ==
  ASSUME Control, NEW w \in Worker, InLoop(w)
  PROVE  /\ at[w] \in Broadcast /\ Current(w) \in Channel
         /\ stage[at[w]] = "sending"
         /\ report[<<at[w], Current(w)>>] = "none"
         /\ \A v \in Worker \ {w} : at[v] # at[w]
         /\ \A ch : Working(at[w], ch) <=> listed[w] /\ ch = Current(w)
<1>1. at[w] \in Broadcast /\ Current(w) \in Channel /\ cursor[w] \in 1 .. Len(Providers)
      /\ at[w] # None
  BY CurrentIsChannel DEF Control, InLoop
<1>2. stage[at[w]] = "sending" /\ \A v \in Worker \ {w} : at[v] # at[w]
  BY <1>1 DEF Control, Holding, Alone
<1>3. report[<<at[w], Current(w)>>] = "none"
  BY <1>1 DEF Control, Reported, Current
<1>4. \A ch : Working(at[w], ch) <=> listed[w] /\ ch = Current(w)
  BY <1>2 DEF Working
<1>. QED  BY <1>1, <1>2, <1>3, <1>4

\* Steps that leave the world and every provider call alone keep the books.
LEMMA BooksKept ==
  ASSUME Control, Books, UNCHANGED world,
         \A w \in Worker : listed'[w] =>
           /\ listed[w] /\ at'[w] = at[w] /\ cursor'[w] = cursor[w]
           /\ good'[w] = good[w]
           /\ \A p \in Recipient : todo'[<<w, p>>] = todo[<<w, p>>],
         \A b \in Broadcast : stage'[b] \in {"unmade", "sending"} =>
           /\ stage[b] \in {"unmade", "sending"}
           /\ \A ch \in Channel : Working(b, ch) => Working(b, ch)'
  PROVE  Books'
<1>1. UNCHANGED <<accepted, lost, undelivered, roll, report, mocked>>
  BY DEF world
<1>2. BlankUntilRead'
  BY <1>1 DEF Books, BlankUntilRead, Blank
<1>3. (LostWereTaken /\ CopiesAreExplained /\ ReportsAreHonest /\ NobodyOverlooked)'
  BY <1>1 DEF Books, LostWereTaken, CopiesAreExplained, ReportsAreHonest, NobodyOverlooked
<1>4. ASSUME NEW w \in Worker, listed'[w]
      PROVE  Account(w, at[w], Current(w))'
  BY <1>1, <1>4, OpenAccountKept DEF Books
<1>. QED  BY <1>2, <1>3, <1>4 DEF Books, Accounts

LEMMA BooksRead ==
  ASSUME Control, Books, NEW w \in Worker, ReadRecipients(w)
  PROVE  Books'
<1>. DEFINE b == at[w]  ch == Current(w)
<1>a. TypeOK /\ Resting /\ InLoop(w) /\ ~listed[w]
  BY DEF Control, ReadRecipients
<1>b. /\ UNCHANGED <<stage, at, cursor, good, accepted, lost, undelivered, report, mocked>>
      /\ listed' = [listed EXCEPT ![w] = TRUE]
      /\ \A v \in Worker, p \in Recipient : todo'[<<v, p>>] =
           IF v = w THEN Entries(ch, p, place[b[1]]) ELSE todo[<<v, p>>]
      /\ roll' = [roll EXCEPT ![<<b, ch>>] =
                    {p \in Recipient : Entries(ch, p, place[b[1]]) > 0}]
  BY DEF ReadRecipients
<1>c. /\ b \in Broadcast /\ ch \in Channel
      /\ stage[b] = "sending" /\ report[<<b, ch>>] = "none"
      /\ ~Working(b, ch)
      /\ \A v \in Worker \ {w} : at[v] # b
  BY <1>a, StandingAlone
<1>d. Blank(b, ch)
  BY <1>c DEF Books, BlankUntilRead
<1>e. \A p \in Recipient : accepted[<<b, ch, p>>] = 0 /\ lost[<<b, ch, p>>] = 0
  BY <1>d DEF Blank
<1>f. /\ roll'[<<b, ch>>] = {p \in Recipient : Entries(ch, p, place[b[1]]) > 0}
      /\ \A e \in Broadcast, h \in Channel :
           e # b \/ h # ch => roll'[<<e, h>>] = roll[<<e, h>>]
  BY <1>a, <1>b, <1>c DEF TypeOK
<1>g. listed'[w] = TRUE /\ \A v \in Worker \ {w} : listed'[v] = listed[v]
  BY <1>a, <1>b DEF TypeOK
<1>h. \A v : Current(v)' = Current(v)
  BY <1>b DEF Current
<1>1. BlankUntilRead'
  <2>1. ASSUME NEW e \in Broadcast, NEW h \in Channel,
               stage'[e] \in {"unmade", "sending"}, report'[<<e, h>>] = "none", ~Working(e, h)'
        PROVE  Blank(e, h)'
    <3>1. e # b \/ h # ch
      BY <1>b, <1>g, <1>h, <2>1 DEF Working
    <3>2. ~Working(e, h)
      BY <1>a, <1>b, <1>g, <1>h, <2>1 DEF Working
    <3>3. Blank(e, h)
      BY <1>b, <2>1, <3>2 DEF Books, BlankUntilRead
    <3>. QED  BY <1>b, <1>f, <3>1, <3>3 DEF Blank
  <2>. QED  BY <2>1 DEF BlankUntilRead
<1>2. Accounts'
  <2>1. ASSUME NEW v \in Worker \ {w}, listed'[v] PROVE Account(v, at[v], Current(v))'
    <3>1. listed[v] /\ at[v] # b /\ at[v] \in Broadcast /\ Current(v) \in Channel
      BY <1>a, <1>c, <1>g, <2>1, CurrentIsChannel DEF Resting
    <3>2. roll'[<<at[v], Current(v)>>] = roll[<<at[v], Current(v)>>]
      BY <1>f, <3>1
    <3>. QED  BY <1>b, <3>1, <3>2, OpenAccountKept DEF Books
  <2>2. Account(w, at[w], Current(w))'
    <3>1. ~good'[w]
      BY <1>a, <1>b DEF Resting
    <3>2. /\ \A p \in Recipient : accepted'[<<b, ch, p>>] = 0 /\ lost'[<<b, ch, p>>] = 0
          /\ \A p \in Recipient : todo'[<<w, p>>] \in 0 .. 2 /\ todo'[<<w, p>>] <= Sources(ch, p)
      BY <1>b, <1>c, <1>e, EntriesBounded DEF Sources
    <3>3. \A p \in roll'[<<b, ch>>] : todo'[<<w, p>>] > 0
      BY <1>b, <1>f
    <3>4. \A p \in Recipient : Sources(ch, p) \in Nat
      BY DEF Sources
    <3>5. PICK e, h : e = b /\ h = ch
      OBVIOUS
    <3>6. at'[w] = e /\ Current(w)' = h
      BY <1>b, <1>h, <3>5
    <3>7. \A p \in Recipient :
            accepted'[<<e, h, p>>] + todo'[<<w, p>>] <= lost'[<<e, h, p>>] + Sources(h, p)
      BY <3>2, <3>4, <3>5
    <3>8. ASSUME NEW p \in Recipient
          PROVE  ~(accepted'[<<e, h, p>>] > lost'[<<e, h, p>>] \/ <<e, h, p>> \in mocked')
      <4>1. accepted'[<<e, h, p>>] = 0 /\ lost'[<<e, h, p>>] = 0
        BY <3>2, <3>5
      <4>2. <<e, h, p>> \notin mocked'
        BY <1>b, <1>d, <3>5 DEF Blank
      <4>. QED  BY <4>1, <4>2
    <3>9. \A p \in roll'[<<e, h>>] : todo'[<<w, p>>] > 0
      BY <3>3, <3>5
    <3>. QED  BY <3>1, <3>6, <3>7, <3>8, <3>9 DEF Account, Sources, Success
  <2>. QED  BY <2>1, <2>2 DEF Accounts
<1>3. (LostWereTaken /\ CopiesAreExplained /\ ReportsAreHonest)'
  BY <1>b DEF Books, LostWereTaken, CopiesAreExplained, ReportsAreHonest
<1>4. NobodyOverlooked'
  BY <1>b, <1>c, <1>f DEF Books, NobodyOverlooked
<1>. QED  BY <1>1, <1>2, <1>3, <1>4 DEF Books

\* One attempt, at the slot of the broadcast, channel and recipient faced.
LEMMA BooksTried ==
  ASSUME Control, Books, NEW w \in Worker, NEW p \in Recipient, Tried(w, p)
  PROVE  Books'
<1>. DEFINE b == at[w]  ch == Current(w)
<1>a. TypeOK /\ InLoop(w) /\ listed[w] /\ todo[<<w, p>>] > 0
  BY DEF Control, Tried, Facing
<1>b. UNCHANGED <<stage, at, cursor, listed, roll, report>>
  BY DEF Tried, Untouched
<1>c. /\ b \in Broadcast /\ ch \in Channel
      /\ report[<<b, ch>>] = "none"
      /\ \A v \in Worker \ {w} : at[v] # b
  BY <1>a, StandingAlone
<1>d. \A v : Current(v)' = Current(v)
  BY <1>b DEF Current
<1>e. \A e, h : Working(e, h)' <=> Working(e, h)
  BY <1>b, <1>d DEF Working
<1>f. /\ \/ accepted' = accepted /\ lost' = lost
         \/ accepted' = Bump(accepted, <<b, ch, p>>) /\ lost' = lost
         \/ accepted' = Bump(accepted, <<b, ch, p>>) /\ lost' = Bump(lost, <<b, ch, p>>)
      /\ undelivered \subseteq undelivered'
      /\ mocked' = mocked \/ mocked' = mocked \cup {<<b, ch, p>>}
  BY DEF Tried, Sent, Feigned, Missed, Slot
<1>g. /\ accepted \in [Broadcast \X Channel \X Recipient -> Nat]
      /\ lost \in [Broadcast \X Channel \X Recipient -> Nat]
      /\ todo \in [Worker \X Recipient -> 0 .. 2]
      /\ good \in [Worker -> BOOLEAN]
      /\ <<b, ch, p>> \in Broadcast \X Channel \X Recipient
  BY <1>a, <1>c DEF TypeOK
<1>h. \A e \in Broadcast, h \in Channel, q \in Recipient :
        /\ <<e, h, q>> # <<b, ch, p>> => /\ accepted'[<<e, h, q>>] = accepted[<<e, h, q>>]
                                         /\ lost'[<<e, h, q>>] = lost[<<e, h, q>>]
                                         /\ <<e, h, q>> \in mocked' <=> <<e, h, q>> \in mocked
        /\ <<e, h, q>> \in mocked => <<e, h, q>> \in mocked'
        /\ accepted'[<<e, h, q>>] >= accepted[<<e, h, q>>]
        /\ accepted[<<e, h, q>>] \in Nat /\ lost[<<e, h, q>>] \in Nat
        /\ accepted'[<<e, h, q>>] \in Nat /\ lost'[<<e, h, q>>] \in Nat
  <2>1. ASSUME NEW k \in Broadcast \X Channel \X Recipient
        PROVE  /\ k # <<b, ch, p>> => /\ accepted'[k] = accepted[k] /\ lost'[k] = lost[k]
                                      /\ k \in mocked' <=> k \in mocked
               /\ k \in mocked => k \in mocked'
               /\ accepted'[k] >= accepted[k]
               /\ accepted[k] \in Nat /\ lost[k] \in Nat
               /\ accepted'[k] \in Nat /\ lost'[k] \in Nat
    <3>1. /\ k # <<b, ch, p>> => (k \in mocked' <=> k \in mocked)
          /\ k \in mocked => k \in mocked'
      BY <1>f
    <3>2. /\ k # <<b, ch, p>> => /\ accepted'[k] = accepted[k] /\ lost'[k] = lost[k]
          /\ accepted'[k] >= accepted[k]
          /\ accepted[k] \in Nat /\ lost[k] \in Nat
          /\ accepted'[k] \in Nat /\ lost'[k] \in Nat
      <4>1. \/ accepted' = accepted /\ lost' = lost
            \/ accepted' = Bump(accepted, <<b, ch, p>>) /\ lost' = lost
            \/ accepted' = Bump(accepted, <<b, ch, p>>) /\ lost' = Bump(lost, <<b, ch, p>>)
        BY <1>f
      <4>2. /\ accepted \in [Broadcast \X Channel \X Recipient -> Nat]
            /\ lost \in [Broadcast \X Channel \X Recipient -> Nat]
        BY <1>g
      <4>. QED  BY <4>1, <4>2 DEF Bump
    <3>. QED  BY <3>1, <3>2
  <2>. QED  BY <2>1
<1>i. /\ \/ /\ accepted'[<<b, ch, p>>] = accepted[<<b, ch, p>>]
            /\ lost'[<<b, ch, p>>] = lost[<<b, ch, p>>]
         \/ /\ accepted'[<<b, ch, p>>] = accepted[<<b, ch, p>>] + 1
            /\ lost'[<<b, ch, p>>] = lost[<<b, ch, p>>]
         \/ /\ accepted'[<<b, ch, p>>] = accepted[<<b, ch, p>>] + 1
            /\ lost'[<<b, ch, p>>] = lost[<<b, ch, p>>] + 1
  BY <1>f, <1>g DEF Bump
<1>j. /\ Account(w, b, ch)
      /\ \A q \in Recipient : lost[<<b, ch, q>>] <= accepted[<<b, ch, q>>]
      /\ \A q \in Recipient : Sources(ch, q) \in Nat
  BY <1>a, <1>c DEF Books, Accounts, LostWereTaken, Sources
<1>k. \A v \in Worker \ {w} : /\ good'[v] = good[v]
                              /\ \A q \in Recipient : todo'[<<v, q>>] = todo[<<v, q>>]
  BY <1>g DEF Tried, Sent, Feigned, Missed
<1>1. BlankUntilRead'
  <2>1. Working(b, ch)
    BY <1>a DEF Working
  <2>2. ASSUME NEW e \in Broadcast, NEW h \in Channel,
               stage[e] \in {"unmade", "sending"}, report[<<e, h>>] = "none", ~Working(e, h)
        PROVE  Blank(e, h)'
    <3>1. Blank(e, h) /\ (e # b \/ h # ch)
      BY <2>1, <2>2 DEF Books, BlankUntilRead
    <3>2. \A q \in Recipient : <<e, h, q>> # <<b, ch, p>>
      BY <3>1
    <3>. QED  BY <1>b, <1>h, <3>1, <3>2 DEF Blank
  <2>. QED  BY <1>b, <1>e, <2>2 DEF BlankUntilRead
<1>2. LostWereTaken'
  <2>1. ASSUME NEW e \in Broadcast, NEW h \in Channel, NEW q \in Recipient
        PROVE  lost'[<<e, h, q>>] <= accepted'[<<e, h, q>>]
    <3>1. lost[<<e, h, q>>] <= accepted[<<e, h, q>>]
      BY DEF Books, LostWereTaken
    <3>2. CASE <<e, h, q>> = <<b, ch, p>>
      BY <1>g, <1>h, <1>i, <3>1, <3>2
    <3>3. CASE <<e, h, q>> # <<b, ch, p>>
      BY <1>h, <3>1, <3>3
    <3>. QED  BY <3>2, <3>3
  <2>. QED  BY <2>1 DEF LostWereTaken
<1>3. \A q \in Recipient :
        accepted'[<<b, ch, q>>] + todo'[<<w, q>>] <= lost'[<<b, ch, q>>] + Sources(ch, q)
  <2>. TAKE q \in Recipient
  <2>1. accepted[<<b, ch, q>>] + todo[<<w, q>>] <= lost[<<b, ch, q>>] + Sources(ch, q)
    BY <1>j DEF Account
  <2>2. CASE q # p
    <3>1. todo'[<<w, q>>] = todo[<<w, q>>]
      BY <1>g, <2>2 DEF Tried, Sent, Feigned, Missed
    <3>. QED  BY <1>c, <1>h, <2>1, <2>2, <3>1
  <2>3. CASE q = p
    <3>1. todo[<<w, p>>] \in 0 .. 2 /\ accepted[<<b, ch, p>>] \in Nat
          /\ lost[<<b, ch, p>>] \in Nat /\ Sources(ch, p) \in Nat
      BY <1>c, <1>g, <1>h, <1>j
    <3>2. CASE Sent(w, p)
      <4>1. todo'[<<w, p>>] = todo[<<w, p>>] - 1
        BY <1>g, <3>2 DEF Sent
      <4>2. /\ accepted'[<<b, ch, p>>] = accepted[<<b, ch, p>>] + 1
            /\ lost'[<<b, ch, p>>] = lost[<<b, ch, p>>]
        BY <1>g, <3>2 DEF Sent, Bump, Slot
      <4>. QED  BY <2>1, <2>3, <3>1, <4>1, <4>2
    <3>3. CASE Missed(w, p)
      <4>1. todo'[<<w, p>>] \in {todo[<<w, p>>], todo[<<w, p>>] - 1}
        BY <1>g, <3>3 DEF Missed
      <4>2. accepted'[<<b, ch, p>>] - lost'[<<b, ch, p>>]
              = accepted[<<b, ch, p>>] - lost[<<b, ch, p>>]
        BY <1>g, <3>3 DEF Missed, Bump, Slot
      <4>3. accepted'[<<b, ch, p>>] \in Nat /\ lost'[<<b, ch, p>>] \in Nat
        BY <1>c, <1>h
      <4>. QED  BY <2>1, <2>3, <3>1, <4>1, <4>2, <4>3
    <3>4. CASE Feigned(w, p)
      <4>1. /\ todo'[<<w, p>>] = todo[<<w, p>>] - 1
            /\ accepted' = accepted /\ lost' = lost
        BY <1>g, <3>4 DEF Feigned
      <4>. QED  BY <2>1, <2>3, <3>1, <4>1
    <3>. QED  BY <3>2, <3>3, <3>4 DEF Tried
  <2>. QED  BY <2>2, <2>3
<1>4. good'[w] <=> \E q \in Recipient : \/ accepted'[<<b, ch, q>>] > lost'[<<b, ch, q>>]
                                         \/ <<b, ch, q>> \in mocked'
  <2>1. CASE Sent(w, p)
    <3>1. good'[w]
      BY <1>g, <2>1 DEF Sent
    <3>2. accepted'[<<b, ch, p>>] > lost'[<<b, ch, p>>]
      <4>1. /\ accepted'[<<b, ch, p>>] = accepted[<<b, ch, p>>] + 1
            /\ lost'[<<b, ch, p>>] = lost[<<b, ch, p>>]
        BY <1>g, <2>1 DEF Sent, Bump, Slot
      <4>. QED  BY <1>c, <1>h, <1>j, <4>1
    <3>. QED  BY <3>1, <3>2
  <2>3. CASE Feigned(w, p)
    <3>1. good'[w] /\ <<b, ch, p>> \in mocked'
      BY <1>g, <2>3 DEF Feigned, Slot
    <3>. QED  BY <3>1
  <2>2. CASE Missed(w, p)
    <3>1. good' = good /\ mocked' = mocked
      BY <2>2 DEF Missed
    <3>2. \A q \in Recipient : accepted'[<<b, ch, q>>] > lost'[<<b, ch, q>>]
                                 <=> accepted[<<b, ch, q>>] > lost[<<b, ch, q>>]
      <4>1. \/ accepted' = accepted /\ lost' = lost
            \/ /\ accepted' = Bump(accepted, <<b, ch, p>>)
               /\ lost' = Bump(lost, <<b, ch, p>>)
        BY <2>2 DEF Missed, Slot
      <4>2. ASSUME NEW k \in Broadcast \X Channel \X Recipient
            PROVE  accepted'[k] > lost'[k] <=> accepted[k] > lost[k]
        <5>1. accepted[k] \in Nat /\ lost[k] \in Nat
          BY <1>g
        <5>2. \/ accepted'[k] = accepted[k] /\ lost'[k] = lost[k]
              \/ accepted'[k] = accepted[k] + 1 /\ lost'[k] = lost[k] + 1
          BY <1>g, <4>1 DEF Bump
        <5>. QED  BY <5>1, <5>2
      <4>. QED  BY <1>c, <4>2
    <3>3. \A q \in Recipient :
            Success(b, ch, q) <=> \/ accepted'[<<b, ch, q>>] > lost'[<<b, ch, q>>]
                                  \/ <<b, ch, q>> \in mocked'
      BY <3>1, <3>2 DEF Success
    <3>. QED  BY <1>j, <3>1, <3>3 DEF Account
  <2>. QED  BY <2>1, <2>2, <2>3 DEF Tried
<1>5. \A q \in roll'[<<b, ch>>] :
        \/ todo'[<<w, q>>] > 0 \/ accepted'[<<b, ch, q>>] > 0
        \/ <<b, ch, q>> \in undelivered' \cup mocked'
  <2>. SUFFICES ASSUME NEW q \in roll[<<b, ch>>]
       PROVE  \/ todo'[<<w, q>>] > 0 \/ accepted'[<<b, ch, q>>] > 0
              \/ <<b, ch, q>> \in undelivered' \cup mocked'
    BY <1>b
  <2>0. q \in Recipient
    BY <1>a, <1>c DEF TypeOK
  <2>1. \/ todo[<<w, q>>] > 0 \/ accepted[<<b, ch, q>>] > 0
        \/ <<b, ch, q>> \in undelivered \/ <<b, ch, q>> \in mocked
    BY <1>j DEF Account
  <2>2. CASE todo'[<<w, q>>] = todo[<<w, q>>]
    BY <1>c, <1>f, <1>h, <2>0, <2>1, <2>2
  <2>3. CASE todo'[<<w, q>>] # todo[<<w, q>>]
    <3>1. q = p
      BY <1>g, <2>0, <2>3 DEF Tried, Sent, Feigned, Missed
    <3>2. CASE Sent(w, p)
      <4>1. accepted'[<<b, ch, p>>] = accepted[<<b, ch, p>>] + 1
        BY <1>g, <3>2 DEF Sent, Bump, Slot
      <4>. QED  BY <1>c, <1>h, <3>1, <4>1
    <3>3. CASE Missed(w, p)
      BY <2>3, <3>1, <3>3 DEF Missed, Slot
    <3>4. CASE Feigned(w, p)
      BY <3>1, <3>4 DEF Feigned, Slot
    <3>. QED  BY <3>2, <3>3, <3>4 DEF Tried
  <2>. QED  BY <2>2, <2>3
<1>6. Accounts'
  <2>1. ASSUME NEW v \in Worker \ {w}, listed'[v] PROVE Account(v, at[v], Current(v))'
    <3>1. listed[v] /\ at[v] # b /\ at[v] \in Broadcast /\ Current(v) \in Channel
      BY <1>a, <1>b, <1>c, <2>1, CurrentIsChannel DEF Control, Resting
    <3>2. \A q \in Recipient :
            /\ accepted'[<<at[v], Current(v), q>>] = accepted[<<at[v], Current(v), q>>]
            /\ lost'[<<at[v], Current(v), q>>] = lost[<<at[v], Current(v), q>>]
            /\ <<at[v], Current(v), q>> \in mocked' <=> <<at[v], Current(v), q>> \in mocked
      BY <1>h, <3>1
    <3>. QED  BY <1>b, <1>f, <1>k, <3>1, <3>2, OpenAccountKept DEF Books
  <2>2. Account(w, at[w], Current(w))'
    <3>1. PICK e, h : e = b /\ h = ch
      OBVIOUS
    <3>2. at'[w] = e /\ Current(w)' = h
      BY <1>b, <1>d, <3>1
    <3>3. /\ \A q \in Recipient :
               accepted'[<<e, h, q>>] + todo'[<<w, q>>] <= lost'[<<e, h, q>>] + Sources(h, q)
          /\ good'[w] <=> \E q \in Recipient : \/ accepted'[<<e, h, q>>] > lost'[<<e, h, q>>]
                                               \/ <<e, h, q>> \in mocked'
          /\ \A q \in roll'[<<e, h>>] :
               \/ todo'[<<w, q>>] > 0 \/ accepted'[<<e, h, q>>] > 0
               \/ <<e, h, q>> \in undelivered' \cup mocked'
      BY <1>3, <1>4, <1>5, <3>1
    <3>. QED  BY <3>2, <3>3 DEF Account, Sources, Success
  <2>. QED  BY <2>1, <2>2 DEF Accounts
<1>7. CopiesAreExplained'
  <2>1. ASSUME NEW e \in Broadcast, NEW h \in Channel, NEW q \in Recipient
        PROVE  accepted'[<<e, h, q>>] <= lost'[<<e, h, q>>] + Sources(h, q)
    <3>1. CASE <<e, h, q>> = <<b, ch, p>>
      <4>1. e = b /\ h = ch /\ q = p
        BY <3>1
      <4>2. todo'[<<w, p>>] \in 0 .. 2
        BY <1>a, TriedCounts
      <4>. QED  BY <1>3, <1>h, <1>j, <4>1, <4>2
    <3>2. CASE <<e, h, q>> # <<b, ch, p>>
      BY <1>h, <3>2 DEF Books, CopiesAreExplained, Sources
    <3>. QED  BY <3>1, <3>2
  <2>. QED  BY <2>1 DEF CopiesAreExplained, Sources
<1>8. ReportsAreHonest'
  <2>1. ASSUME NEW e \in Broadcast, NEW h \in Channel, report[<<e, h>>] # "none"
        PROVE  \A q \in Recipient : /\ accepted'[<<e, h, q>>] = accepted[<<e, h, q>>]
                                    /\ lost'[<<e, h, q>>] = lost[<<e, h, q>>]
                                    /\ <<e, h, q>> \in mocked' <=> <<e, h, q>> \in mocked
    <3>1. \A q \in Recipient : <<e, h, q>> # <<b, ch, p>>
      BY <1>c, <2>1
    <3>. QED  BY <1>h, <3>1
  <2>. QED  BY <1>b, <2>1 DEF Books, ReportsAreHonest
<1>9. NobodyOverlooked'
  <2>1. ASSUME NEW e \in Broadcast, NEW h \in Channel, report'[<<e, h>>] # "none",
               NEW q \in roll'[<<e, h>>]
        PROVE  \/ accepted'[<<e, h, q>>] > 0
               \/ <<e, h, q>> \in undelivered' \/ <<e, h, q>> \in mocked'
    <3>1. q \in Recipient
      BY <1>a, <1>b DEF TypeOK
    <3>2. \/ accepted[<<e, h, q>>] > 0
          \/ <<e, h, q>> \in undelivered \/ <<e, h, q>> \in mocked
      BY <1>b, <2>1 DEF Books, NobodyOverlooked
    <3>. QED  BY <1>f, <1>h, <3>1, <3>2
  <2>. QED  BY <2>1 DEF NobodyOverlooked
<1>. QED  BY <1>1, <1>2, <1>6, <1>7, <1>8, <1>9 DEF Books

\* The provider's result closes its account.
LEMMA BooksLeft ==
  ASSUME Control, Books, NEW w \in Worker, NEW result, Leaves(w, result)
  PROVE  Books'
<1>. DEFINE b == at[w]  ch == Current(w)
<1>a. TypeOK /\ Resting /\ InLoop(w)
  BY DEF Control, Leaves
<1>b. /\ UNCHANGED <<stage, at, todo, accepted, lost, undelivered, roll, mocked>>
      /\ report' = [report EXCEPT ![<<b, ch>>] = result]
      /\ cursor' = [cursor EXCEPT ![w] = @ + 1]
      /\ listed' = [listed EXCEPT ![w] = FALSE]
      /\ result \in {"ok", "failed"} /\ (result = "ok" <=> good[w])
      /\ \A p \in Recipient : todo[<<w, p>>] = 0
      /\ \A v \in Worker : good'[v] <=> v # w /\ good[v]
  BY DEF Leaves, NextProvider, Bump
<1>c. /\ b \in Broadcast /\ ch \in Channel
      /\ stage[b] = "sending" /\ report[<<b, ch>>] = "none"
      /\ \A v \in Worker \ {w} : at[v] # b
      /\ \A h : Working(b, h) <=> listed[w] /\ h = ch
  BY <1>a, StandingAlone
<1>d. /\ report'[<<b, ch>>] = result
      /\ \A e \in Broadcast, h \in Channel :
           e # b \/ h # ch => report'[<<e, h>>] = report[<<e, h>>]
  BY <1>a, <1>b, <1>c DEF TypeOK
<1>e. /\ ~listed'[w]
      /\ \A v \in Worker \ {w} : listed'[v] = listed[v] /\ cursor'[v] = cursor[v]
  BY <1>a, <1>b DEF TypeOK
<1>f. \A v \in Worker \ {w} : Current(v)' = Current(v)
  BY <1>e DEF Current
<1>g. ~listed[w] => Blank(b, ch)
  BY <1>c DEF Books, BlankUntilRead
<1>h. listed[w] => Account(w, b, ch)
  BY DEF Books, Accounts
<1>1. BlankUntilRead'
  <2>1. ASSUME NEW e \in Broadcast, NEW h \in Channel,
               stage[e] \in {"unmade", "sending"}, report'[<<e, h>>] = "none", ~Working(e, h)'
        PROVE  Blank(e, h)'
    <3>1. e # b \/ h # ch
      BY <1>b, <1>d, <2>1
    <3>2. report[<<e, h>>] = "none"
      BY <1>d, <2>1, <3>1
    <3>3. ~Working(e, h)
      BY <1>b, <1>e, <1>f, <2>1, <3>1 DEF Working
    <3>. QED  BY <1>b, <2>1, <3>2, <3>3 DEF Books, BlankUntilRead, Blank
  <2>. QED  BY <1>b, <2>1 DEF BlankUntilRead
<1>2. Accounts'
  <2>1. ASSUME NEW v \in Worker, listed'[v] PROVE Account(v, at[v], Current(v))'
    <3>1. v # w /\ listed[v] /\ cursor'[v] = cursor[v]
      BY <1>e, <2>1
    <3>2. good'[v] <=> good[v]
      BY <1>b, <3>1
    <3>. QED  BY <1>b, <3>1, <3>2, OpenAccountKept DEF Books
  <2>. QED  BY <2>1 DEF Accounts
<1>3. (LostWereTaken /\ CopiesAreExplained)'
  BY <1>b DEF Books, LostWereTaken, CopiesAreExplained
<1>4. ReportsAreHonest'
  <2>1. good[w] <=> \E p \in Recipient : Success(b, ch, p)
    <3>1. CASE listed[w]
      BY <1>h, <3>1 DEF Account
    <3>2. CASE ~listed[w]
      <4>1. ~good[w]
        BY <1>a, <3>2 DEF Resting
      <4>2. ASSUME NEW p \in Recipient PROVE ~Success(b, ch, p)
        <5>1. /\ accepted[<<b, ch, p>>] = 0 /\ lost[<<b, ch, p>>] = 0
              /\ <<b, ch, p>> \notin mocked
          BY <1>g, <3>2 DEF Blank
        <5>. QED  BY <5>1 DEF Success
      <4>. QED  BY <4>1, <4>2
    <3>. QED  BY <3>1, <3>2
  <2>2. ASSUME NEW e \in Broadcast, NEW h \in Channel, report'[<<e, h>>] # "none"
        PROVE  report'[<<e, h>>] = "ok" <=>
                 \E p \in Recipient : Success(e, h, p)
    <3>1. CASE e = b /\ h = ch
      <4>1. report'[<<e, h>>] = "ok" <=> good[w]
        BY <1>b, <1>d, <3>1
      <4>. QED  BY <2>1, <3>1, <4>1
    <3>2. CASE ~(e = b /\ h = ch)
      BY <1>d, <2>2, <3>2 DEF Books, ReportsAreHonest, Success
    <3>. QED  BY <3>1, <3>2
  <2>. QED  BY <1>b, <2>2 DEF ReportsAreHonest, Success
<1>5. NobodyOverlooked'
  <2>1. ASSUME NEW p \in roll[<<b, ch>>]
        PROVE  \/ accepted[<<b, ch, p>>] > 0
               \/ <<b, ch, p>> \in undelivered \/ <<b, ch, p>> \in mocked
    <3>1. p \in Recipient
      BY <1>a, <1>c, <2>1 DEF TypeOK
    <3>2. listed[w]
      BY <1>g, <2>1 DEF Blank
    <3>3. todo[<<w, p>>] = 0
      BY <1>b, <3>1
    <3>. QED  BY <1>h, <2>1, <3>2, <3>3 DEF Account
  <2>2. ASSUME NEW e \in Broadcast, NEW h \in Channel, report'[<<e, h>>] # "none",
               NEW p \in roll[<<e, h>>]
        PROVE  \/ accepted[<<e, h, p>>] > 0
               \/ <<e, h, p>> \in undelivered \/ <<e, h, p>> \in mocked
    <3>1. CASE e = b /\ h = ch
      BY <2>1, <2>2, <3>1
    <3>2. CASE ~(e = b /\ h = ch)
      BY <1>d, <2>2, <3>2 DEF Books, NobodyOverlooked
    <3>. QED  BY <3>1, <3>2
  <2>. QED  BY <1>b, <2>2 DEF NobodyOverlooked
<1>. QED  BY <1>1, <1>2, <1>3, <1>4, <1>5 DEF Books

\* Opening a broadcast, finishing it, or losing its worker.
LEMMA BooksAround ==
  ASSUME Control, Books, NEW w \in Worker,
         \/ \E b \in Broadcast : OpenBroadcast(w, b)
         \/ FinishBroadcast(w)
         \/ WorkerDies(w)
  PROVE  Books'
<1>a. TypeOK /\ Resting /\ Alone
  BY DEF Control
<1>1. ASSUME NEW b \in Broadcast, OpenBroadcast(w, b) PROVE Books'
  <2>1. /\ UNCHANGED <<world, listed, good, todo>> /\ stage[b] = "unmade"
        /\ stage' = [stage EXCEPT ![b] = "sending"]
        /\ at' = [at EXCEPT ![w] = b] /\ cursor' = [cursor EXCEPT ![w] = 1]
        /\ ~listed[w]
    BY <1>a, <1>1 DEF OpenBroadcast, Resting, InLoop
  <2>2. \A v \in Worker : listed'[v] =>
          listed[v] /\ at'[v] = at[v] /\ cursor'[v] = cursor[v]
    BY <1>a, <2>1 DEF TypeOK
  <2>3. \A e, h : Working(e, h) => Working(e, h)'
    BY <2>1, <2>2 DEF Working, Current
  <2>4. \A e \in Broadcast : stage'[e] \in {"unmade", "sending"} =>
          stage[e] \in {"unmade", "sending"}
    BY <1>a, <2>1 DEF TypeOK
  <2>. QED  BY <2>1, <2>2, <2>3, <2>4, BooksKept
<1>2. CASE FinishBroadcast(w)
  <2>1. /\ UNCHANGED <<world, listed, good, todo, cursor>>
        /\ stage' = [stage EXCEPT ![at[w]] = "sent"]
        /\ at' = [at EXCEPT ![w] = None] /\ at[w] \in Broadcast
        /\ ~listed[w]
    BY <1>a, <1>2, ProvidersAssumption DEF FinishBroadcast, Resting, InLoop, TypeOK
  <2>2. \A v \in Worker : listed'[v] =>
          listed[v] /\ at'[v] = at[v] /\ cursor'[v] = cursor[v]
    BY <1>a, <2>1 DEF TypeOK
  <2>3. \A e, h : Working(e, h) => Working(e, h)'
    BY <2>1, <2>2 DEF Working, Current
  <2>4. \A e \in Broadcast : stage'[e] \in {"unmade", "sending"} =>
          stage[e] \in {"unmade", "sending"}
    BY <1>a, <2>1 DEF TypeOK
  <2>. QED  BY <2>1, <2>2, <2>3, <2>4, BooksKept
<1>3. CASE WorkerDies(w)
  <2>1. /\ UNCHANGED <<world, cursor>>
        /\ stage' = [stage EXCEPT ![at[w]] = "cut"]
        /\ at' = [at EXCEPT ![w] = None] /\ at[w] \in Broadcast /\ at[w] # None
        /\ listed' = [listed EXCEPT ![w] = FALSE]
        /\ good' = [good EXCEPT ![w] = FALSE]
        /\ todo' = [wp \in Worker \X Recipient |-> IF wp[1] = w THEN 0 ELSE todo[wp]]
    BY <1>a, <1>3 DEF WorkerDies, TypeOK
  <2>2. \A v \in Worker : listed'[v] =>
          v # w /\ listed[v] /\ at'[v] = at[v] /\ cursor'[v] = cursor[v]
    BY <1>a, <2>1 DEF TypeOK
  <2>3. \A v \in Worker : listed'[v] =>
          good'[v] = good[v] /\ \A p \in Recipient : todo'[<<v, p>>] = todo[<<v, p>>]
    BY <1>a, <2>1, <2>2 DEF TypeOK
  <2>4. \A e \in Broadcast : stage'[e] \in {"unmade", "sending"} =>
          stage[e] \in {"unmade", "sending"} /\ e # at[w]
    BY <1>a, <2>1 DEF TypeOK
  <2>5. ASSUME NEW e \in Broadcast, e # at[w], NEW h \in Channel, Working(e, h)
        PROVE  Working(e, h)'
    <3>1. PICK v \in Worker : listed[v] /\ at[v] = e /\ Current(v) = h
      BY <2>5 DEF Working
    <3>2. v # w /\ listed'[v] /\ at'[v] = e /\ Current(v)' = h
      BY <1>a, <2>1, <2>5, <3>1 DEF TypeOK, Current
    <3>. QED  BY <3>2 DEF Working
  <2>. QED  BY <2>1, <2>2, <2>3, <2>4, <2>5, BooksKept
<1>. QED  BY <1>1, <1>2, <1>3

LEMMA BooksStep == Control /\ Books /\ [Next]_vars => Books'
<1>. SUFFICES ASSUME Control, Books, [Next]_vars PROVE Books'
  OBVIOUS
<1>1. CASE Citizens \/ UNCHANGED vars
  <2>1. UNCHANGED <<stage, loop, world>>
    BY <1>1, CitizensQuiet DEF Quiet
  <2>2. UNCHANGED <<stage, at, cursor, listed, todo, good>>
    BY <2>1 DEF loop
  <2>3. \A e, h : Working(e, h) => Working(e, h)'
    BY <2>2 DEF Working, Current
  <2>. QED  BY <2>1, <2>2, <2>3, BooksKept
<1>2. ASSUME NEW w \in Worker, Broadcasting(w) PROVE Books'
  <2>1. CASE FinishProvider(w) \/ ReadFails(w)
    BY <2>1, ProviderLeft, BooksLeft DEF Control
  <2>2. CASE Attempt(w)
    BY <2>2, AttemptTries, BooksTried
  <2>. QED
    BY <1>2, <2>1, <2>2, BooksRead, BooksAround DEF Broadcasting
<1>. QED  BY <1>1, <1>2 DEF Next

THEOREM BooksInvariance == Spec => []Books
<1>1. Init => Books  BY InitBooks
<1>2. Control /\ Books /\ [Next]_vars => Books'  BY BooksStep
<1>. QED  BY <1>1, <1>2, ControlInvariance, PTL DEF Spec

\* Retries and loops add no copies beyond the lost answers.
THEOREM CopiesExplained == Spec => []CopiesAreExplained
<1>1. Books => CopiesAreExplained  BY DEF Books
<1>. QED  BY <1>1, BooksInvariance, PTL

\* A provider reports success exactly when one of its messages was confirmed
\* or it only pretended to send, in mock mode.
THEOREM HonestReports == Spec => []ReportsAreHonest
<1>1. Books => ReportsAreHonest  BY DEF Books
<1>. QED  BY <1>1, BooksInvariance, PTL

\* Everyone a provider read was told, is a failure in its details, or is one
\* of those its mock mode calls successes.
THEOREM AllAccountedFor == Spec => []NobodyOverlooked
<1>1. Books => NobodyOverlooked  BY DEF Books
<1>. QED  BY <1>1, BooksInvariance, PTL
=============================================================================
