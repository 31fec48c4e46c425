--------------------------- MODULE SendGate_proofs --------------------------
(***************************************************************************)
(* Proofs about the send gate, for any workers, alerts, limit, window and  *)
(* cooldown: the type invariant, the bound on how far check-then-act can   *)
(* overshoot the limit, and who may pass the cooldown twice.               *)
(***************************************************************************)
EXTENDS SendGate, FiniteSetTheorems, TLAPS

\* Whoever has an alert in hand has it alone, and process() has not returned.
HeldInv ==
  \A w \in Worker :
    /\ at[w] # None <=> step[w] # "idle"
    /\ at[w] # None => answer[at[w]] = "started"
    /\ \A v \in Worker \ {w} : at[w] = at[v] => at[w] = None

\* An alert being sent was let pass by Redis or by its own process.
OwnInv ==
  \A w \in Worker : step[w] = "sending" => checked[at[w]] \in {"forced", "redis", w}

\* What a store let pass and is still on its way out.
Sending(s) ==
  {at[w] : w \in {v \in Worker : step[v] = "sending" /\ checked[at[v]] = s}}

\* What a store answers for: its sends of the last hour and those to come.
Load(s) == Through(s) \cup Sending(s)

\* The places a count is kept.
Stores == {"redis"} \cup Worker

LoadInv ==
  /\ Cardinality(Load("redis")) < Limit + Cardinality(Worker)
  /\ \A w \in Worker : Cardinality(Load(w)) <= Limit

GInv == TypeOK /\ HeldInv /\ OwnInv /\ LoadInv

\* A passage lies in the past, and in a life its process has had.
PastInv ==
  \A p \in gate : p.time <= now /\ p.epoch <= epoch /\ p.life <= life[p.who]

\* A process passes alerts by Redis or by its own memory, never by both.
KindInv ==
  /\ \A p \in gate : p.life = life[p.who] =>
       client[p.who] = IF p.via = "redis" THEN "redis" ELSE "none"
  /\ \A w \in Worker : step[w] = "set" => client[w] = "redis"

\* Since the last override: the key outlives the cooldown of every passage
\* through Redis, and a process remembers its own last passage.
RememberedInv ==
  \A p \in gate : p.epoch = epoch =>
    /\ p.via = "redis" => key >= p.time + Cooldown
    /\ p.via = "memory" /\ p.life = life[p.who] => last[p.who] >= p.time

\* Whoever found no key and is about to set it raced every alert that has
\* passed through Redis within the cooldown.
AboutToSetInv ==
  \A w \in Worker : step[w] = "set" =>
    \A p \in gate : p.via = "redis" /\ p.epoch = epoch /\ now - p.time < Cooldown =>
      {p.alert, at[w]} \in raced

CoolInv == PastInv /\ KindInv /\ RememberedInv /\ AboutToSetInv /\ CooldownHolds

LEMMA StoreMembers ==
  /\ "redis" \in Stores /\ \A w \in Worker : w \in Stores
  /\ \A s \in Stores : s # "none" /\ s # "forced"
BY NameAssumption DEF Stores

\* One element more, and two sets together: how far a cardinality grows.
LEMMA AddOne ==
  ASSUME NEW S, IsFiniteSet(S), NEW x
  PROVE  /\ IsFiniteSet(S \cup {x}) /\ Cardinality(S \cup {x}) \in Nat
         /\ Cardinality(S \cup {x}) <= Cardinality(S) + 1
<1>1. IsFiniteSet(S \cup {x})
      /\ (Cardinality(S \cup {x}) = Cardinality(S) \/ Cardinality(S \cup {x}) = Cardinality(S) + 1)
  BY FS_AddElement
<1>2. Cardinality(S) \in Nat
  BY FS_CardinalityType
<1> QED BY <1>1, <1>2

LEMMA UnionBound ==
  ASSUME NEW S, IsFiniteSet(S), NEW T, IsFiniteSet(T)
  PROVE  /\ IsFiniteSet(S \cup T) /\ Cardinality(S \cup T) \in Nat
         /\ Cardinality(S \cup T) <= Cardinality(S) + Cardinality(T)
<1>1. /\ IsFiniteSet(S \cup T)
      /\ Cardinality(S \cup T) = Cardinality(S) + Cardinality(T) - Cardinality(S \cap T)
  BY FS_Union
<1>2. IsFiniteSet(S \cap T)
  BY FS_Subset, S \cap T \subseteq S
<1>3. /\ Cardinality(S) \in Nat /\ Cardinality(T) \in Nat
      /\ Cardinality(S \cap T) \in Nat /\ Cardinality(S \cup T) \in Nat
  BY <1>1, <1>2, FS_CardinalityType
<1> QED BY <1>1, <1>3

-----------------------------------------------------------------------------
\* The type invariant holds initially.
LEMMA InitType == Init => TypeOK
<1> SUFFICES ASSUME Init PROVE TypeOK
  OBVIOUS
<1> USE NumberAssumption DEF Init, TypeOK, Time
<1>1. /\ now \in Time /\ up \in BOOLEAN /\ flips \in Nat /\ configured \in BOOLEAN
      /\ key \in 0 .. MaxTime + Cooldown /\ epoch \in Nat
  OBVIOUS
<1>2. /\ client \in [Worker -> {"undecided", "redis", "none"}]
      /\ limiter \in [Worker -> {"redis", "memory"}]
  BY DEF FreshClient, FreshLimiter, Decided
<1>3. /\ last \in [Worker -> Time \cup {-Cooldown}]
      /\ at \in [Worker -> Alert \cup {None}]
      /\ step \in [Worker -> {"idle", "cooldown", "set", "limit", "sending"}]
      /\ life \in [Worker -> Nat]
  OBVIOUS
<1>4. /\ answer \in [Alert -> {"new", "started", "sent", "unsent"}]
      /\ checked \in [Alert -> {"none", "forced", "redis"} \cup Worker]
      /\ store \in [Alert -> {"none", "redis"} \cup Worker]
      /\ stamp \in [Alert -> Time]
      /\ gate \subseteq Passage /\ raced \subseteq SUBSET Alert
  OBVIOUS
<1> QED BY <1>1, <1>2, <1>3, <1>4

\* What Goes and Answers do to the worker and its alert.
LEMMA Moves ==
  ASSUME TypeOK, NEW w \in Worker,
         \/ \E s \in {"idle", "cooldown", "set", "limit", "sending"} : Goes(w, s)
         \/ at[w] \in Alert /\ \E what \in {"sent", "unsent"} : Answers(w, what)
  PROVE  /\ at' \in [Worker -> Alert \cup {None}]
         /\ step' \in [Worker -> {"idle", "cooldown", "set", "limit", "sending"}]
         /\ answer' \in [Alert -> {"new", "started", "sent", "unsent"}]
BY DEF Goes, Answers, TypeOK

\* Every step keeps the types.
LEMMA StepType == TypeOK /\ HeldInv /\ [Next]_vars => TypeOK'
<1> SUFFICES ASSUME TypeOK, HeldInv, [Next]_vars PROVE TypeOK'
  OBVIOUS
<1> USE NumberAssumption, AlertAssumption
<1>h. \A w \in Worker : step[w] # "idle" => at[w] \in Alert
  BY DEF HeldInv, TypeOK
<1>c. \A w \in Worker : /\ Client(w) \in {"undecided", "redis", "none"}
                        /\ Counter(w) \in {"redis"} \cup Worker
  BY DEF Client, Decided, Counter, TypeOK
<1>1. ASSUME NEW w \in Worker, NEW a \in Alert, NEW force \in BOOLEAN, Begin(w, a, force)
      PROVE  TypeOK'
  BY <1>1 DEF Begin, TypeOK, Passage, redis, cooling
<1>2. ASSUME NEW w \in Worker, Look(w) PROVE TypeOK'
  <2>1. at[w] \in Alert
    BY <1>2, <1>h DEF Look
  <2>2. client' \in [Worker -> {"undecided", "redis", "none"}]
    BY <1>2, <1>c DEF Look, TypeOK
  <2>3. /\ at' \in [Worker -> Alert \cup {None}]
        /\ step' \in [Worker -> {"idle", "cooldown", "set", "limit", "sending"}]
        /\ answer' \in [Alert -> {"new", "started", "sent", "unsent"}]
    <3>1. \/ Goes(w, "set") \/ Goes(w, "limit") \/ Answers(w, "unsent")
      BY <1>2 DEF Look, Client, Decided, TypeOK
    <3> QED BY <2>1, <3>1, Moves
  <2>4. \/ UNCHANGED <<last, gate>>
        \/ last' = [last EXCEPT ![w] = now] /\ Pass(w, "memory")
    BY <1>2 DEF Look, Client, Decided, TypeOK
  <2>5. last' \in [Worker -> Time \cup {-Cooldown}] /\ gate' \subseteq Passage
    <3>1. CASE UNCHANGED <<last, gate>>
      BY <3>1 DEF TypeOK
    <3>2. CASE last' = [last EXCEPT ![w] = now] /\ Pass(w, "memory")
      BY <2>1, <3>2 DEF TypeOK, Pass, Passage
    <3> QED BY <2>4, <3>1, <3>2
  <2> QED BY <1>2, <2>2, <2>3, <2>5 DEF Look, TypeOK, redis, counts, Passage
<1>3. ASSUME NEW w \in Worker, SetKey(w) PROVE TypeOK'
  <2>1. at[w] \in Alert
    BY <1>3, <1>h DEF SetKey
  <2>2. /\ at' \in [Worker -> Alert \cup {None}]
        /\ step' \in [Worker -> {"idle", "cooldown", "set", "limit", "sending"}]
        /\ answer' \in [Alert -> {"new", "started", "sent", "unsent"}]
    <3>1. \/ Goes(w, "limit") \/ Answers(w, "unsent")
      BY <1>3 DEF SetKey
    <3> QED BY <2>1, <3>1, Moves
  <2>3. key' \in 0 .. MaxTime + Cooldown /\ gate' \subseteq Passage
    BY <1>3, <2>1 DEF SetKey, TypeOK, Pass, Passage, Expiry, Time
  <2>4. raced' \subseteq SUBSET Alert
    <3>1. \A v \in Worker : step[v] = "set" => at[v] \in Alert
      BY <1>h
    <3> QED BY <1>3, <2>1, <3>1 DEF SetKey, TypeOK
  <2> QED BY <1>3, <2>2, <2>3, <2>4 DEF SetKey, TypeOK, redis, counts, Passage
<1>4. ASSUME NEW w \in Worker, CheckLimit(w) PROVE TypeOK'
  <2>1. at[w] \in Alert
    BY <1>4, <1>h DEF CheckLimit
  <2>2. /\ at' \in [Worker -> Alert \cup {None}]
        /\ step' \in [Worker -> {"idle", "cooldown", "set", "limit", "sending"}]
        /\ answer' \in [Alert -> {"new", "started", "sent", "unsent"}]
    <3>1. \/ Goes(w, "sending") \/ Answers(w, "unsent")
      BY <1>4 DEF CheckLimit
    <3> QED BY <2>1, <3>1, Moves
  <2>3. checked' \in [Alert -> {"none", "forced", "redis"} \cup Worker]
    BY <1>4, <1>c, <2>1 DEF CheckLimit, TypeOK
  <2> QED BY <1>4, <2>2, <2>3 DEF CheckLimit, TypeOK, redis, cooling, Passage
<1>5. ASSUME NEW w \in Worker, DeliveryFails(w) PROVE TypeOK'
  <2>1. /\ at' \in [Worker -> Alert \cup {None}]
        /\ step' \in [Worker -> {"idle", "cooldown", "set", "limit", "sending"}]
        /\ answer' \in [Alert -> {"new", "started", "sent", "unsent"}]
    BY <1>5, <1>h, Moves DEF DeliveryFails
  <2> QED BY <1>5, <2>1 DEF DeliveryFails, TypeOK, redis, cooling, counts, Passage
<1>6. ASSUME NEW w \in Worker, DeliverAndRecord(w) PROVE TypeOK'
  <2>1. /\ at' \in [Worker -> Alert \cup {None}]
        /\ step' \in [Worker -> {"idle", "cooldown", "set", "limit", "sending"}]
        /\ answer' \in [Alert -> {"new", "started", "sent", "unsent"}]
    BY <1>6, <1>h, Moves DEF DeliverAndRecord
  <2>2. /\ store' \in [Alert -> {"none", "redis"} \cup Worker]
        /\ stamp' \in [Alert -> Time]
    BY <1>6, <1>c DEF DeliverAndRecord, TypeOK
  <2> QED BY <1>6, <2>1, <2>2 DEF DeliverAndRecord, TypeOK, redis, cooling, Passage
<1>7. ASSUME NEW w \in Worker, Reset(w) PROVE TypeOK'
  BY <1>7 DEF Reset, TypeOK, redis, cooling, Passage
<1>8. ASSUME NEW w \in Worker, ClearCooldown(w) PROVE TypeOK'
  BY <1>8, <1>c DEF ClearCooldown, TypeOK, redis, counts, Passage, Time
<1>9. ASSUME NEW w \in Worker, Restart(w) PROVE TypeOK'
  <2>1. /\ at' \in [Worker -> Alert \cup {None}]
        /\ step' \in [Worker -> {"idle", "cooldown", "set", "limit", "sending"}]
        /\ answer' \in [Alert -> {"new", "started", "sent", "unsent"}]
    <3>1. CASE at[w] = None
      BY <1>9, <3>1 DEF Restart, TypeOK
    <3>2. CASE at[w] # None
      BY <1>9, <3>2, Moves DEF Restart, TypeOK
    <3> QED BY <3>1, <3>2
  <2>2. /\ client' \in [Worker -> {"undecided", "redis", "none"}]
        /\ limiter' \in [Worker -> {"redis", "memory"}]
    BY <1>9 DEF Restart, TypeOK, FreshClient, FreshLimiter, Decided
  <2>3. /\ last' \in [Worker -> Time \cup {-Cooldown}]
        /\ store' \in [Alert -> {"none", "redis"} \cup Worker]
        /\ life' \in [Worker -> Nat]
    BY <1>9 DEF Restart, TypeOK
  <2> QED BY <1>9, <2>1, <2>2, <2>3 DEF Restart, TypeOK, redis, Passage
<1>10. CASE Flip
  BY <1>10 DEF Flip, TypeOK, cooling, counts, Passage
<1>11. CASE Tick
  BY <1>11 DEF Tick, TypeOK, redis, cooling, counts, Passage, Time
<1>12. CASE UNCHANGED vars
  BY <1>12 DEF vars, TypeOK, redis, cooling, counts, Passage
<1> QED BY <1>1, <1>2, <1>3, <1>4, <1>5, <1>6, <1>7, <1>8, <1>9, <1>10, <1>11, <1>12
        DEF Next, Process

\* Every step keeps what a worker has in hand its own.
LEMMA StepHeld == TypeOK /\ HeldInv /\ [Next]_vars => HeldInv'
<1> SUFFICES ASSUME TypeOK, HeldInv, [Next]_vars PROVE HeldInv'
  OBVIOUS
<1> USE AlertAssumption
<1>g. ASSUME NEW w \in Worker, at[w] # None,
             NEW s \in {"cooldown", "set", "limit", "sending"}, Goes(w, s)
      PROVE  HeldInv'
  BY <1>g DEF Goes, HeldInv, TypeOK
<1>a. ASSUME NEW w \in Worker, at[w] # None, NEW what, Answers(w, what)
      PROVE  HeldInv'
  BY <1>a DEF Answers, HeldInv, TypeOK
<1>u. ASSUME UNCHANGED <<at, step, answer>> PROVE HeldInv'
  BY <1>u DEF HeldInv
<1>1. ASSUME NEW w \in Worker, NEW a \in Alert, NEW force \in BOOLEAN, Begin(w, a, force)
      PROVE  HeldInv'
  BY <1>1 DEF Begin, HeldInv, TypeOK
<1>2. ASSUME NEW w \in Worker, Look(w) PROVE HeldInv'
  <2>1. at[w] # None
    BY <1>2 DEF Look, HeldInv
  <2>2. Goes(w, "set") \/ Goes(w, "limit") \/ Answers(w, "unsent")
    BY <1>2 DEF Look
  <2> QED BY <2>1, <2>2, <1>g, <1>a
<1>3. ASSUME NEW w \in Worker, SetKey(w) PROVE HeldInv'
  <2>1. at[w] # None
    BY <1>3 DEF SetKey, HeldInv
  <2>2. Goes(w, "limit") \/ Answers(w, "unsent")
    BY <1>3 DEF SetKey
  <2> QED BY <2>1, <2>2, <1>g, <1>a
<1>4. ASSUME NEW w \in Worker, CheckLimit(w) PROVE HeldInv'
  <2>1. at[w] # None
    BY <1>4 DEF CheckLimit, HeldInv
  <2>2. Goes(w, "sending") \/ Answers(w, "unsent")
    BY <1>4 DEF CheckLimit
  <2> QED BY <2>1, <2>2, <1>g, <1>a
<1>5. ASSUME NEW w \in Worker, DeliveryFails(w) \/ DeliverAndRecord(w) PROVE HeldInv'
  <2>1. at[w] # None
    BY <1>5 DEF DeliveryFails, DeliverAndRecord, HeldInv
  <2>2. Answers(w, "unsent") \/ Answers(w, "sent")
    BY <1>5 DEF DeliveryFails, DeliverAndRecord
  <2> QED BY <2>1, <2>2, <1>a
<1>6. ASSUME NEW w \in Worker, Reset(w) \/ ClearCooldown(w) PROVE HeldInv'
  BY <1>6, <1>u DEF Reset, ClearCooldown
<1>7. ASSUME NEW w \in Worker, Restart(w) PROVE HeldInv'
  BY <1>7, <1>u, <1>a DEF Restart
<1>8. CASE Flip \/ Tick \/ UNCHANGED vars
  BY <1>8, <1>u DEF Flip, Tick, vars
<1> QED BY <1>1, <1>2, <1>3, <1>4, <1>5, <1>6, <1>7, <1>8 DEF Next, Process

\* Every step but the check of the limit leaves the workers that are sending
\* a subset of those that were, with the same alerts and the same passes.
LEMMA StillSending ==
  ASSUME TypeOK, HeldInv, [Next]_vars, \A w \in Worker : ~CheckLimit(w)
  PROVE  \A v \in Worker : step'[v] = "sending" =>
           /\ step[v] = "sending"
           /\ at'[v] = at[v] /\ checked'[at[v]] = checked[at[v]]
<1> SUFFICES ASSUME NEW v \in Worker, step'[v] = "sending"
             PROVE  step[v] = "sending" /\ at'[v] = at[v] /\ checked'[at[v]] = checked[at[v]]
  OBVIOUS
<1> USE AlertAssumption
<1>1. ASSUME NEW w \in Worker, NEW a \in Alert, NEW force \in BOOLEAN, Begin(w, a, force)
      PROVE  step[v] = "sending" /\ at'[v] = at[v] /\ checked'[at[v]] = checked[at[v]]
  BY <1>1 DEF Begin, HeldInv, TypeOK
<1>2. ASSUME NEW w \in Worker, Look(w)
      PROVE  step[v] = "sending" /\ at'[v] = at[v] /\ checked'[at[v]] = checked[at[v]]
  <2>1. Goes(w, "set") \/ Goes(w, "limit") \/ Answers(w, "unsent")
    BY <1>2 DEF Look
  <2> QED BY <1>2, <2>1 DEF Look, Goes, Answers, TypeOK, counts
<1>3. ASSUME NEW w \in Worker, SetKey(w)
      PROVE  step[v] = "sending" /\ at'[v] = at[v] /\ checked'[at[v]] = checked[at[v]]
  BY <1>3 DEF SetKey, Goes, Answers, TypeOK, counts
<1>4. ASSUME NEW w \in Worker, DeliveryFails(w) \/ DeliverAndRecord(w) \/ Restart(w)
      PROVE  step[v] = "sending" /\ at'[v] = at[v] /\ checked'[at[v]] = checked[at[v]]
  BY <1>4 DEF DeliveryFails, DeliverAndRecord, Restart, Answers, TypeOK, counts
<1>5. ASSUME NEW w \in Worker, Reset(w) \/ ClearCooldown(w)
      PROVE  step[v] = "sending" /\ at'[v] = at[v] /\ checked'[at[v]] = checked[at[v]]
  BY <1>5 DEF Reset, ClearCooldown, counts
<1>6. CASE Flip \/ Tick \/ UNCHANGED vars
  BY <1>6 DEF Flip, Tick, vars, counts
<1> QED BY <1>1, <1>2, <1>3, <1>4, <1>5, <1>6 DEF Next, Process

\* An alert on its way out was let pass by Redis, its own process or force.
LEMMA StepOwn == TypeOK /\ HeldInv /\ OwnInv /\ [Next]_vars => OwnInv'
<1> SUFFICES ASSUME TypeOK, HeldInv, OwnInv, [Next]_vars PROVE OwnInv'
  OBVIOUS
<1>1. CASE \A w \in Worker : ~CheckLimit(w)
  BY <1>1, StillSending DEF OwnInv
<1>2. ASSUME NEW w \in Worker, CheckLimit(w) PROVE OwnInv'
  <2>1. at[w] \in Alert
    BY <1>2 DEF CheckLimit, HeldInv, TypeOK
  <2>2. CASE Answers(w, "unsent") /\ UNCHANGED checked
    BY <2>1, <2>2 DEF Answers, OwnInv, TypeOK
  <2>3. CASE Goes(w, "sending") /\ UNCHANGED checked /\ checked[at[w]] = "forced"
    BY <2>3 DEF Goes, OwnInv, TypeOK
  <2>4. CASE Goes(w, "sending") /\ checked' = [checked EXCEPT ![at[w]] = Counter(w)]
    <3>1. Counter(w) \in {"redis", w}
      BY DEF Counter
    <3>2. \A v \in Worker \ {w} : at[v] # at[w]
      BY <2>1, AlertAssumption DEF HeldInv
    <3> QED BY <2>1, <2>4, <3>1, <3>2 DEF Goes, OwnInv, TypeOK
  <2> QED BY <1>2, <2>2, <2>3, <2>4 DEF CheckLimit
<1> QED BY <1>1, <1>2

\* The alerts of a store are finitely many, those in hand no more than workers.
LEMMA Sizes ==
  ASSUME TypeOK, NEW s
  PROVE  /\ IsFiniteSet(Load(s)) /\ IsFiniteSet(Counted(s))
         /\ IsFiniteSet({at[w] : w \in Worker})
         /\ Cardinality({at[w] : w \in Worker}) <= Cardinality(Worker)
<1> DEFINE hands == {at[w] : w \in Worker}
           f == [w \in Worker |-> at[w]]
<1>1. f \in Surjection(Worker, hands)
  BY DEF Surjection
<1>2. IsFiniteSet(hands) /\ Cardinality(hands) <= Cardinality(Worker)
  BY <1>1, WorkerAssumption, FS_Surjection
<1>3. IsFiniteSet(Counted(s))
  BY AlertAssumption, FS_Subset DEF Counted
<1>4. IsFiniteSet(Counted(s) \cup hands)
  BY <1>2, <1>3, FS_Union
<1>5. Load(s) \subseteq Counted(s) \cup hands
  BY DEF Load, Through, Sending
<1>6. IsFiniteSet(Load(s))
  BY <1>4, <1>5, FS_Subset
<1> QED BY <1>2, <1>3, <1>6

\* A store's load grows only by a check of the limit.
LEMMA LoadShrinks ==
  ASSUME TypeOK, HeldInv, [Next]_vars, \A w \in Worker : ~CheckLimit(w),
         NEW s \in Stores
  PROVE  Load(s)' \subseteq Load(s)
<1> USE AlertAssumption, NameAssumption
<1>s. s # "none" /\ s # "forced"
  BY StoreMembers
<1>1. Sending(s)' \subseteq Sending(s)
  BY StillSending DEF Sending
<1>t. ASSUME NEW a \in Alert, a \in Through(s)',
             now' \in Int, now <= now', store'[a] = s => store[a] = s, stamp'[a] = stamp[a],
             checked'[a] = s => checked[a] = s
      PROVE  a \in Load(s)
  BY <1>t, NumberAssumption DEF Load, Through, Counted, TypeOK, Time
<1>2. ASSUME NEW a \in Alert, a \in Through(s)' PROVE a \in Load(s)
  <2>1. CASE \E w \in Worker : DeliverAndRecord(w)
    <3> PICK w \in Worker : DeliverAndRecord(w)
      BY <2>1
    <3>1. at[w] \in Alert /\ checked' = checked /\ now' = now
      BY DEF DeliverAndRecord, HeldInv, TypeOK
    <3>2. CASE a = at[w]
      BY <1>2, <3>1, <3>2 DEF DeliverAndRecord, Load, Through, Sending, Counted
    <3>3. CASE a # at[w]
      BY <1>2, <1>t, <3>1, <3>3 DEF DeliverAndRecord, TypeOK, Time
    <3> QED BY <3>2, <3>3
  <2>2. CASE \E w \in Worker, b \in Alert, force \in BOOLEAN : Begin(w, b, force)
    <3>1. now' = now /\ store' = store /\ stamp' = stamp /\ (checked'[a] = s => checked[a] = s)
      BY <2>2, <1>s DEF Begin, TypeOK
    <3> QED BY <1>2, <1>t, <3>1 DEF TypeOK, Time
  <2>3. CASE \E w \in Worker : Reset(w) \/ Restart(w)
    <3>1. now' = now /\ checked' = checked /\ stamp' = stamp /\ (store'[a] = s => store[a] = s)
      BY <2>3, <1>s DEF Reset, Restart, TypeOK
    <3> QED BY <1>2, <1>t, <3>1 DEF TypeOK, Time
  <2>4. CASE \/ \E w \in Worker : Look(w) \/ SetKey(w) \/ DeliveryFails(w) \/ ClearCooldown(w)
             \/ Flip \/ Tick \/ UNCHANGED vars
    <3>1. now' \in Int /\ now <= now' /\ checked' = checked /\ stamp' = stamp /\ store' = store
      BY <2>4 DEF Look, SetKey, DeliveryFails, ClearCooldown, Flip, Tick, vars, counts, TypeOK, Time
    <3> QED BY <1>2, <1>t, <3>1
  <2> QED BY <2>1, <2>2, <2>3, <2>4 DEF Next, Process
<1>3. Through(s)' \subseteq Load(s)
  BY <1>2 DEF Through, Counted
<1> QED BY <1>1, <1>3 DEF Load

\* Passing the limit: the store had room, and every worker is one more at most.
LEMMA CheckLoad ==
  ASSUME TypeOK, HeldInv, OwnInv, LoadInv, OwnInv', TypeOK', NEW w \in Worker, CheckLimit(w)
  PROVE  LoadInv'
<1> USE AlertAssumption, NameAssumption, NumberAssumption, WorkerAssumption
<1>1. at[w] \in Alert
  BY DEF CheckLimit, HeldInv, TypeOK
<1>2. \A v \in Worker \ {w} : at[v] # at[w]
  BY <1>1 DEF HeldInv
<1>3. Cardinality(Worker) \in Nat
  BY FS_CardinalityType
<1>f. \A s : /\ IsFiniteSet(Load(s)) /\ IsFiniteSet(Counted(s))
             /\ Cardinality(Load(s)) \in Nat /\ Cardinality(Counted(s)) \in Nat
  BY Sizes, FS_CardinalityType
<1>g. ASSUME NEW s \in Stores, Load(s)' \subseteq Load(s)
      PROVE  /\ Cardinality(Load(s)') \in Nat
             /\ Cardinality(Load(s)') <= Cardinality(Load(s))
  BY <1>f, <1>g, FS_Subset, FS_CardinalityType
<1>4. CASE /\ UNCHANGED checked
           /\ \/ Answers(w, "unsent")
              \/ Goes(w, "sending") /\ checked[at[w]] = "forced"
  <2>1. \A v \in Worker : step'[v] = "sending" /\ checked[at'[v]] # "forced" =>
          step[v] = "sending" /\ at'[v] = at[v]
    <3>1. CASE Answers(w, "unsent")
      BY <3>1 DEF Answers, TypeOK
    <3>2. CASE Goes(w, "sending") /\ checked[at[w]] = "forced"
      BY <3>2 DEF Goes, TypeOK
    <3> QED BY <1>4, <3>1, <3>2
  <2>2. ASSUME NEW s \in Stores 
        PROVE  Cardinality(Load(s)') \in Nat /\ Cardinality(Load(s)') <= Cardinality(Load(s))
    <3>1. UNCHANGED <<store, stamp, now, checked>>
      BY <1>4 DEF CheckLimit
    <3>2. Load(s)' \subseteq Load(s)
      <4>1. Through(s)' = Through(s)
        BY <3>1 DEF Through, Counted
      <4>2. Sending(s)' \subseteq Sending(s)
        BY <2>1, <3>1, StoreMembers DEF Sending
      <4> QED BY <4>1, <4>2 DEF Load
    <3> QED BY <3>2, <1>g
  <2> QED BY <1>3, <1>f, <2>2, StoreMembers DEF LoadInv
<1>5. CASE /\ Goes(w, "sending") /\ checked' = [checked EXCEPT ![at[w]] = Counter(w)]
           /\ Room(Counter(w))
  <2> DEFINE c == Counter(w)
  <2>1. /\ UNCHANGED <<store, stamp, now, at>> /\ c \in {"redis", w}
        /\ \A s \in Stores : Counted(s)' = Counted(s)
    BY <1>5 DEF CheckLimit, Goes, Counted, Counter
  <2>2. ASSUME NEW s \in Stores, s # c
        PROVE  Cardinality(Load(s)') \in Nat /\ Cardinality(Load(s)') <= Cardinality(Load(s))
    <3>1. Through(s)' \subseteq Through(s)
      BY <1>1, <1>5, <2>1, <2>2 DEF Through, TypeOK
    <3>2. Sending(s)' \subseteq Sending(s)
      BY <1>1, <1>2, <1>5, <2>1, <2>2 DEF Sending, Goes, TypeOK
    <3>3. Load(s)' \subseteq Load(s)
      BY <3>1, <3>2 DEF Load
    <3> QED BY <1>g, <3>3
  <2>3. Cardinality(Counted(c)) \in Nat /\ Cardinality(Counted(c)) < Limit
    BY <1>5, <1>f DEF Room
  <2>4. CASE c = "redis"
    <3> DEFINE hands == {at[v] : v \in Worker}
    <3>1. Load("redis")' \subseteq Counted("redis") \cup hands
      BY <2>1, StoreMembers DEF Load, Through, Sending
    <3>2. IsFiniteSet(hands) /\ Cardinality(hands) \in Nat /\ Cardinality(hands) <= Cardinality(Worker)
      BY Sizes, FS_CardinalityType
    <3> HIDE DEF hands
    <3>3. /\ IsFiniteSet(Counted("redis") \cup hands)
          /\ Cardinality(Counted("redis") \cup hands) <= Cardinality(Counted("redis")) + Cardinality(hands)
      BY <1>f, <3>2, UnionBound
    <3>4. Cardinality(Load("redis")') < Limit + Cardinality(Worker)
      <4>1. /\ Cardinality(Load("redis")') <= Cardinality(Counted("redis") \cup hands)
            /\ Cardinality(Load("redis")') \in Nat
            /\ Cardinality(Counted("redis") \cup hands) \in Nat
        BY <3>1, <3>3, FS_Subset, FS_CardinalityType
      <4> QED BY <1>3, <1>f, <2>3, <2>4, <3>2, <3>3, <4>1
    <3>5. \A v \in Worker : Cardinality(Load(v)') <= Limit
      BY <1>f, <2>2, <2>4, StoreMembers DEF LoadInv
    <3> QED BY <3>4, <3>5 DEF LoadInv
  <2>5. CASE c = w
    <3>1. w # "redis"
      OBVIOUS
    <3>2. Load(w)' \subseteq Counted(w) \cup {at[w]}
      <4>1. Sending(w)' \subseteq {at[w]}
        BY <2>1 DEF Sending, OwnInv
      <4> QED BY <2>1, <4>1, StoreMembers DEF Load, Through
    <3>3. /\ IsFiniteSet(Counted(w) \cup {at[w]})
          /\ Cardinality(Counted(w) \cup {at[w]}) <= Cardinality(Counted(w)) + 1
      BY <1>f, AddOne
    <3>4. Cardinality(Load(w)') <= Limit
      <4>1. /\ Cardinality(Load(w)') <= Cardinality(Counted(w) \cup {at[w]})
            /\ Cardinality(Load(w)') \in Nat
            /\ Cardinality(Counted(w) \cup {at[w]}) \in Nat
        BY <3>2, <3>3, FS_Subset, FS_CardinalityType
      <4> QED BY <1>f, <2>3, <2>5, <3>3, <4>1
    <3>5. \A v \in Worker \ {w} : Cardinality(Load(v)') <= Limit
      BY <1>f, <2>2, <2>5, StoreMembers DEF LoadInv
    <3>6. Cardinality(Load("redis")') < Limit + Cardinality(Worker)
      BY <1>3, <1>f, <2>2, <2>5, <3>1, StoreMembers DEF LoadInv
    <3> QED BY <3>4, <3>5, <3>6 DEF LoadInv
  <2> QED BY <2>1, <2>4, <2>5
<1> QED BY <1>4, <1>5 DEF CheckLimit

\* No step takes a store past its bound.
LEMMA StepLoad ==
  TypeOK /\ TypeOK' /\ HeldInv /\ OwnInv /\ OwnInv' /\ LoadInv /\ [Next]_vars => LoadInv'
<1> SUFFICES ASSUME TypeOK, TypeOK', HeldInv, OwnInv, OwnInv', LoadInv, [Next]_vars
             PROVE  LoadInv'
  OBVIOUS
<1>1. CASE \E w \in Worker : CheckLimit(w)
  BY <1>1, CheckLoad
<1>2. CASE \A w \in Worker : ~CheckLimit(w)
  <2>1. ASSUME NEW s \in Stores
        PROVE  /\ Cardinality(Load(s)) \in Nat /\ Cardinality(Load(s)') \in Nat
               /\ Cardinality(Load(s)') <= Cardinality(Load(s))
    <3>1. IsFiniteSet(Load(s)) /\ Load(s)' \subseteq Load(s)
      BY <1>2, LoadShrinks, Sizes
    <3> QED BY <3>1, FS_Subset, FS_CardinalityType
  <2>2. Cardinality(Worker) \in Nat
    BY WorkerAssumption, FS_CardinalityType
  <2> QED BY <2>1, <2>2, NumberAssumption, StoreMembers DEF LoadInv
<1> QED BY <1>1, <1>2

\* Nothing is sent and nobody is sending in an initial state.
LEMMA InitLoad == Init => HeldInv /\ OwnInv /\ LoadInv
<1> SUFFICES ASSUME Init PROVE HeldInv /\ OwnInv /\ LoadInv
  OBVIOUS
<1>1. HeldInv /\ OwnInv
  BY DEF Init, HeldInv, OwnInv
<1>2. \A s \in Stores : Load(s) = {}
  BY StoreMembers DEF Init, Load, Through, Counted, Sending
<1>3. Cardinality(Worker) \in Nat /\ Cardinality(Worker) # 0
  BY WorkerAssumption, FS_CardinalityType, FS_EmptySet
<1>4. \A s \in Stores : Cardinality(Load(s)) = 0
  BY <1>2, FS_EmptySet
<1>5. LoadInv
  BY <1>3, <1>4, NumberAssumption, StoreMembers DEF LoadInv
<1> QED BY <1>1, <1>5

LEMMA Inductive == Spec => []GInv
<1>1. Init => GInv
  BY InitType, InitLoad DEF GInv
<1>2. GInv /\ [Next]_vars => GInv'
  BY StepType, StepHeld, StepOwn, StepLoad DEF GInv
<1> QED BY <1>1, <1>2, PTL DEF Spec

\* TypeOK: the types hold for any workers, alerts, limits and bounds.
THEOREM TypeCorrect == Spec => []TypeOK
<1>1. GInv => TypeOK
  BY DEF GInv
<1> QED BY <1>1, Inductive, PTL

\* OvershootBounded: the sends Redis let pass and holds stay below Limit +
\* |Worker|, and those a process let pass by itself within Limit.
THEOREM Overshoot == Spec => []OvershootBounded
<1>1. GInv => OvershootBounded
  <2> SUFFICES ASSUME GInv PROVE OvershootBounded
    OBVIOUS
  <2>1. \A s : /\ Cardinality(Through(s)) <= Cardinality(Load(s))
               /\ Cardinality(Through(s)) \in Nat /\ Cardinality(Load(s)) \in Nat
    BY Sizes, FS_Subset, FS_CardinalityType, \A s : Through(s) \subseteq Load(s)
       DEF GInv, Load
  <2>2. Cardinality(Worker) \in Nat
    BY WorkerAssumption, FS_CardinalityType
  <2> QED BY <2>1, <2>2, NumberAssumption DEF GInv, LoadInv, OvershootBounded
<1> QED BY <1>1, Inductive, PTL
-----------------------------------------------------------------------------
(* The cooldown. *)

\* A step that lets nobody pass and nobody find the key free keeps CoolInv.
LEMMA CoolStays ==
  ASSUME TypeOK, TypeOK', CoolInv, UNCHANGED <<key, last, gate, raced, epoch, life>>,
         now <= now',
         \A v \in Worker : client[v] # "undecided" => client'[v] = client[v],
         \A v \in Worker : step'[v] = "set" => step[v] = "set" /\ at'[v] = at[v]
  PROVE  CoolInv'
<1> USE NumberAssumption
<1>t. /\ now \in Int /\ now' \in Int /\ epoch \in Nat /\ life \in [Worker -> Nat]
      /\ \A p \in gate : p.time \in Int /\ p.who \in Worker /\ p.via \in {"redis", "memory"}
  BY DEF TypeOK, Passage, Time
<1>1. PastInv'
  BY <1>t DEF CoolInv, PastInv
<1>2. KindInv'
  BY <1>t DEF CoolInv, KindInv
<1>3. RememberedInv'
  BY DEF CoolInv, RememberedInv
<1>4. AboutToSetInv'
  <2> SUFFICES ASSUME NEW v \in Worker, step'[v] = "set", NEW p \in gate,
                      p.via = "redis", p.epoch = epoch, now' - p.time < Cooldown
               PROVE  {p.alert, at'[v]} \in raced
    BY DEF AboutToSetInv
  <2>1. now - p.time < Cooldown
    BY <1>t
  <2> QED BY <2>1 DEF CoolInv, AboutToSetInv
<1>5. CooldownHolds'
  BY DEF CoolInv, CooldownHolds
<1> QED BY <1>1, <1>2, <1>3, <1>4, <1>5 DEF CoolInv

\* An override starts a new epoch: nothing before it is held against an alert.
LEMMA CoolOverride ==
  ASSUME TypeOK, CoolInv, NEW w \in Worker, Reset(w) \/ ClearCooldown(w)
  PROVE  CoolInv'
<1> USE NumberAssumption
<1>1. /\ UNCHANGED <<now, gate, raced, at, step, life>> /\ epoch' = epoch + 1
      /\ \A v \in Worker : client[v] # "undecided" => client'[v] = client[v]
  BY DEF Reset, ClearCooldown, cooling, Client, TypeOK
<1>t. epoch \in Nat /\ \A p \in gate : p.epoch \in Nat /\ p.who \in Worker
  BY DEF TypeOK, Passage
<1>2. PastInv'
  BY <1>1, <1>t DEF CoolInv, PastInv
<1>3. KindInv'
  <2>1. \A p \in gate : p.life = life[p.who] => client'[p.who] = client[p.who]
    BY <1>1, <1>t DEF CoolInv, KindInv
  <2>2. \A v \in Worker : step[v] = "set" => client'[v] = "redis"
    BY <1>1 DEF CoolInv, KindInv
  <2> QED BY <1>1, <2>1, <2>2 DEF CoolInv, KindInv
<1>4. \A p \in gate : p.epoch # epoch'
  BY <1>1, <1>t DEF CoolInv, PastInv
<1>5. RememberedInv' /\ AboutToSetInv'
  BY <1>1, <1>4 DEF RememberedInv, AboutToSetInv
<1>6. CooldownHolds'
  BY <1>1 DEF CoolInv, CooldownHolds
<1> QED BY <1>2, <1>3, <1>5, <1>6 DEF CoolInv

\* A restarted process begins a life none of its passages belongs to.
LEMMA CoolRestart ==
  ASSUME TypeOK, HeldInv, CoolInv, NEW w \in Worker, Restart(w)
  PROVE  CoolInv'
<1> USE NumberAssumption
<1>1. /\ UNCHANGED <<now, gate, raced, key, epoch>>
      /\ life' = [life EXCEPT ![w] = @ + 1]
      /\ \A v \in Worker \ {w} : client'[v] = client[v] /\ last'[v] = last[v]
      /\ \A v \in Worker : step'[v] = "set" => v # w /\ step[v] = "set" /\ at'[v] = at[v]
  BY DEF Restart, Answers, HeldInv, TypeOK
<1>t. /\ life \in [Worker -> Nat]
      /\ \A p \in gate : p.life \in Nat /\ p.who \in Worker
  BY DEF TypeOK, Passage
<1>2. PastInv'
  BY <1>1, <1>t DEF CoolInv, PastInv
<1>3. \A p \in gate : p.life = life'[p.who] => p.who # w /\ p.life = life[p.who]
  BY <1>1, <1>t DEF CoolInv, PastInv
<1>4. KindInv'
  BY <1>1, <1>3, <1>t DEF CoolInv, KindInv
<1>5. RememberedInv'
  BY <1>1, <1>3, <1>t DEF CoolInv, RememberedInv
<1>6. AboutToSetInv' /\ CooldownHolds'
  BY <1>1 DEF CoolInv, AboutToSetInv, CooldownHolds
<1> QED BY <1>2, <1>4, <1>5, <1>6 DEF CoolInv

\* One look at the cooldown: refused, free in Redis, or passed from memory.
LEMMA CoolLook ==
  ASSUME TypeOK, TypeOK', HeldInv, CoolInv, NEW w \in Worker, Look(w)
  PROVE  CoolInv'
<1> USE NumberAssumption
<1>1. /\ UNCHANGED <<now, key, raced, epoch, life>>
      /\ client' = [client EXCEPT ![w] = Client(w)]
      /\ \A v \in Worker : client[v] # "undecided" => client'[v] = client[v]
      /\ client'[w] = Client(w) /\ Client(w) \in {"redis", "none"}
  BY DEF Look, Client, Decided, TypeOK
<1>2. CASE Answers(w, "unsent") /\ UNCHANGED <<last, gate>>
  BY <1>1, <1>2, CoolStays DEF Answers, TypeOK, Time
<1>3. CASE /\ Client(w) = "redis" /\ ~KeySet
           /\ Goes(w, "set") /\ UNCHANGED <<last, gate>>
  <2>t. /\ now \in Int /\ key \in Int
        /\ \A p \in gate : p.time \in Int /\ p.who \in Worker
    BY DEF TypeOK, Passage, Time
  <2>1. /\ at' = at /\ step'[w] = "set"
        /\ \A v \in Worker \ {w} : step'[v] = step[v]
    BY <1>3 DEF Goes, TypeOK
  <2>2. PastInv' /\ RememberedInv' /\ CooldownHolds'
    BY <1>1, <1>3 DEF CoolInv, PastInv, RememberedInv, CooldownHolds
  <2>3. KindInv'
    BY <1>1, <1>3, <2>1, <2>t DEF CoolInv, KindInv
  <2>4. \A p \in gate : ~(p.via = "redis" /\ p.epoch = epoch /\ now - p.time < Cooldown)
    BY <1>3, <2>t DEF CoolInv, RememberedInv, KeySet
  <2>5. AboutToSetInv'
    BY <1>1, <1>3, <2>1, <2>4 DEF CoolInv, AboutToSetInv
  <2> QED BY <2>2, <2>3, <2>5 DEF CoolInv
<1>4. CASE /\ Client(w) # "redis" /\ ~Recent(w)
           /\ Goes(w, "limit") /\ last' = [last EXCEPT ![w] = now] /\ Pass(w, "memory")
  <2> DEFINE new == [alert |-> at[w], time |-> now, via |-> "memory",
                     who |-> w, life |-> life[w], epoch |-> epoch]
  <2>t. /\ now \in Int /\ epoch \in Nat /\ life \in [Worker -> Nat]
        /\ last \in [Worker -> Int] /\ client'[w] = "none"
        /\ gate' = gate \cup {new}
        /\ \A p \in gate : p.time \in Int /\ p.who \in Worker /\ p.via \in {"redis", "memory"}
    BY <1>1, <1>4 DEF TypeOK, Passage, Time, Pass
  <2>1. at' = at /\ \A v \in Worker : step'[v] = "set" => step[v] = "set"
    BY <1>4 DEF Goes, TypeOK
  <2>2. PastInv'
    BY <1>1, <2>t DEF CoolInv, PastInv
  <2>3. KindInv'
    BY <1>1, <2>1, <2>t DEF CoolInv, KindInv
  <2>4. RememberedInv'
    BY <1>1, <1>4, <2>t DEF CoolInv, RememberedInv, PastInv
  <2>5. AboutToSetInv'
    BY <1>1, <2>1, <2>t DEF CoolInv, AboutToSetInv
  <2>6. \A q \in gate : q.epoch = epoch /\ now - q.time < Cooldown =>
          <<q.who, q.life>> # <<w, life[w]>>
    <3> SUFFICES ASSUME NEW q \in gate, q.epoch = epoch, q.who = w, q.life = life[w]
                 PROVE  now - q.time >= Cooldown
      BY <2>t
    <3>1. q.via = "memory"
      BY <1>1, <1>4, <2>t DEF CoolInv, KindInv
    <3>2. last[w] >= q.time
      BY <3>1 DEF CoolInv, RememberedInv
    <3> QED BY <1>4, <2>t, <3>2 DEF Recent
  <2>7. CooldownHolds'
    <3> SUFFICES ASSUME NEW p \in gate', NEW q \in gate', Close(p, q)
                 PROVE  \/ {p.alert, q.alert} \in raced
                        \/ /\ "memory" \in {p.via, q.via}
                           /\ <<p.who, p.life>> # <<q.who, q.life>>
      BY <1>1 DEF CooldownHolds, Close
    <3>1. CASE p \in gate /\ q \in gate
      BY <3>1 DEF CoolInv, CooldownHolds
    <3>2. CASE p = new /\ q \in gate
      BY <2>6, <3>2 DEF Close
    <3>3. CASE q = new /\ p \in gate
      BY <2>6, <3>3 DEF Close
    <3>4. CASE p = new /\ q = new
      BY <3>4 DEF Close
    <3> QED BY <2>t, <3>1, <3>2, <3>3, <3>4
  <2> QED BY <2>2, <2>3, <2>4, <2>5, <2>7 DEF CoolInv
<1> QED BY <1>2, <1>3, <1>4 DEF Look

\* Setting the key: the alert passes, and whoever found no key either has raced it.
LEMMA CoolSet ==
  ASSUME TypeOK, TypeOK', HeldInv, CoolInv, NEW w \in Worker, SetKey(w)
  PROVE  CoolInv'
<1> USE NumberAssumption
<1>1. UNCHANGED <<now, client, last, epoch, life>> /\ step[w] = "set"
  BY DEF SetKey
<1>2. CASE Answers(w, "unsent") /\ UNCHANGED <<key, gate, raced>>
  BY <1>1, <1>2, CoolStays DEF Answers, TypeOK, Time
<1>3. CASE /\ Goes(w, "limit") /\ key' = Expiry /\ Pass(w, "redis")
           /\ raced' = raced \cup {{at[w], at[v]} : v \in {u \in Worker \ {w} : step[u] = "set"}}
  <2> DEFINE new == [alert |-> at[w], time |-> now, via |-> "redis",
                     who |-> w, life |-> life[w], epoch |-> epoch]
  <2>t. /\ now \in Int /\ epoch \in Nat /\ life \in [Worker -> Nat] /\ key' = now + Cooldown
        /\ client[w] = "redis"
        /\ gate' = gate \cup {new} /\ raced \subseteq raced'
        /\ \A p \in gate : p.time \in Int /\ p.who \in Worker /\ p.via \in {"redis", "memory"}
    BY <1>1, <1>3 DEF TypeOK, Passage, Time, Pass, Expiry, CoolInv, KindInv
  <2>1. at' = at /\ \A v \in Worker : step'[v] = "set" => step[v] = "set" /\ v # w
    BY <1>3 DEF Goes, TypeOK
  <2>2. PastInv'
    BY <1>1, <2>t DEF CoolInv, PastInv
  <2>3. KindInv'
    BY <1>1, <2>1, <2>t DEF CoolInv, KindInv
  <2>4. RememberedInv'
    BY <1>1, <2>t DEF CoolInv, RememberedInv, PastInv
  <2>5. AboutToSetInv'
    <3> SUFFICES ASSUME NEW v \in Worker, step'[v] = "set", NEW p \in gate',
                        p.via = "redis", p.epoch = epoch, now - p.time < Cooldown
                 PROVE  {p.alert, at[v]} \in raced'
      BY <1>1, <2>1 DEF AboutToSetInv
    <3>1. CASE p \in gate
      BY <2>1, <2>t, <3>1 DEF CoolInv, AboutToSetInv
    <3>2. CASE p = new
      BY <1>3, <2>1, <3>2
    <3> QED BY <2>t, <3>1, <3>2
  <2>6. \A q \in gate : q.epoch = epoch /\ now - q.time < Cooldown =>
          \/ {at[w], q.alert} \in raced
          \/ q.via = "memory" /\ <<q.who, q.life>> # <<w, life[w]>>
    <3> SUFFICES ASSUME NEW q \in gate, q.epoch = epoch, now - q.time < Cooldown
                 PROVE  \/ {at[w], q.alert} \in raced
                        \/ q.via = "memory" /\ <<q.who, q.life>> # <<w, life[w]>>
      OBVIOUS
    <3>1. CASE q.via = "redis"
      <4>1. {q.alert, at[w]} \in raced
        BY <1>1, <3>1 DEF CoolInv, AboutToSetInv
      <4>2. {q.alert, at[w]} = {at[w], q.alert}
        OBVIOUS
      <4> QED BY <4>1, <4>2
    <3>2. CASE q.via = "memory"
      BY <2>t, <3>2 DEF CoolInv, KindInv
    <3> QED BY <2>t, <3>1, <3>2
  <2>7. CooldownHolds'
    <3> SUFFICES ASSUME NEW p \in gate', NEW q \in gate', Close(p, q)
                 PROVE  \/ {p.alert, q.alert} \in raced'
                        \/ /\ "memory" \in {p.via, q.via}
                           /\ <<p.who, p.life>> # <<q.who, q.life>>
      BY DEF CooldownHolds, Close
    <3>1. CASE p \in gate /\ q \in gate
      BY <2>t, <3>1 DEF CoolInv, CooldownHolds
    <3>2. CASE p = new /\ q \in gate
      BY <2>6, <2>t, <3>2 DEF Close
    <3>3. CASE q = new /\ p \in gate
      <4>1. {p.alert, at[w]} = {at[w], p.alert}
        OBVIOUS
      <4> QED BY <2>6, <2>t, <3>3, <4>1 DEF Close
    <3>4. CASE p = new /\ q = new
      BY <3>4 DEF Close
    <3> QED BY <2>t, <3>1, <3>2, <3>3, <3>4
  <2> QED BY <2>2, <2>3, <2>4, <2>5, <2>7 DEF CoolInv
<1> QED BY <1>2, <1>3 DEF SetKey

\* No step lets two alerts pass within the cooldown but by a race or a second memory.
LEMMA StepCool == TypeOK /\ TypeOK' /\ HeldInv /\ CoolInv /\ [Next]_vars => CoolInv'
<1> SUFFICES ASSUME TypeOK, TypeOK', HeldInv, CoolInv, [Next]_vars PROVE CoolInv'
  OBVIOUS
<1> USE NumberAssumption
<1>1. CASE \/ \E w \in Worker : \/ \E a \in Alert, force \in BOOLEAN : Begin(w, a, force)
                                \/ CheckLimit(w) \/ DeliveryFails(w) \/ DeliverAndRecord(w)
           \/ Flip \/ Tick \/ UNCHANGED vars
  <2>1. UNCHANGED <<key, last, gate, raced, epoch, life, client>> /\ now <= now'
    BY <1>1 DEF Begin, CheckLimit, DeliveryFails, DeliverAndRecord, Flip, Tick, vars, cooling,
                TypeOK, Time
  <2>2. \A v \in Worker : step'[v] = "set" => step[v] = "set" /\ at'[v] = at[v]
    <3>1. CASE \E w \in Worker, a \in Alert, force \in BOOLEAN : Begin(w, a, force)
      BY <3>1, AlertAssumption DEF Begin, TypeOK
    <3>2. CASE \E w \in Worker : CheckLimit(w) \/ DeliveryFails(w) \/ DeliverAndRecord(w)
      BY <3>2 DEF CheckLimit, DeliveryFails, DeliverAndRecord, Goes, Answers, TypeOK
    <3>3. CASE Flip \/ Tick \/ UNCHANGED vars
      BY <3>3 DEF Flip, Tick, vars
    <3> QED BY <1>1, <3>1, <3>2, <3>3
  <2> QED BY <2>1, <2>2, CoolStays
<1>2. ASSUME NEW w \in Worker, Reset(w) \/ ClearCooldown(w) PROVE CoolInv'
  BY <1>2, CoolOverride
<1>3. ASSUME NEW w \in Worker, Restart(w) PROVE CoolInv'
  BY <1>3, CoolRestart
<1>4. ASSUME NEW w \in Worker, Look(w) PROVE CoolInv'
  BY <1>4, CoolLook
<1>5. ASSUME NEW w \in Worker, SetKey(w) PROVE CoolInv'
  BY <1>5, CoolSet
<1> QED BY <1>1, <1>2, <1>3, <1>4, <1>5 DEF Next, Process

\* Nobody has passed yet.
LEMMA InitCool == Init => CoolInv
BY DEF Init, CoolInv, PastInv, KindInv, RememberedInv, AboutToSetInv, CooldownHolds

\* CooldownHolds: two alerts pass within the cooldown, with no override between,
\* only by a race between two lookups or because a process keeps its own time.
THEOREM CooldownKept == Spec => []CooldownHolds
<1>1. Init => GInv /\ CoolInv
  BY InitType, InitLoad, InitCool DEF GInv
<1>2. GInv /\ CoolInv /\ [Next]_vars => GInv' /\ CoolInv'
  BY StepType, StepHeld, StepOwn, StepLoad, StepCool DEF GInv
<1>3. CoolInv => CooldownHolds
  BY DEF CoolInv
<1> QED BY <1>1, <1>2, <1>3, PTL DEF Spec
=============================================================================
