------------------------------ MODULE SendGate ------------------------------
(***************************************************************************)
(* What stands between a score and its broadcast: the cooldown of          *)
(* src/src/alerts/cooldown.py and the hourly limit of                      *)
(* src/src/alerts/rate_limit.py, as AlertEngine.process consults them, in  *)
(* several worker processes that share a Redis which comes and goes.       *)
(*                                                                         *)
(* Keys are per location and no operation joins two, so one location is    *)
(* modelled.  A score below the MODERATE threshold touches nothing and is  *)
(* left out.  process never awaits: a worker has one alert in hand.  Redis *)
(* keeps its data while it cannot be reached.                              *)
(***************************************************************************)
EXTENDS Integers, FiniteSets

CONSTANTS
  Worker,      \* uvicorn worker processes
  Alert,       \* calls of process() for the location
  Limit,       \* ALERTS_PER_HOUR
  Window,      \* the limiter's window_seconds
  Cooldown,    \* ALERT_COOLDOWN_MINUTES
  MaxTime,     \* bound on the clock
  MaxFlips,    \* bound on Redis going or coming back
  MaxRestarts, \* bound on restarted workers
  MaxResets    \* bound on reset() and clear_cooldown() calls

ASSUME WorkerAssumption == IsFiniteSet(Worker) /\ Worker # {}
ASSUME NumberAssumption ==
  /\ Limit \in Nat /\ Window \in Nat \ {0} /\ Cooldown \in Nat \ {0}
  /\ MaxTime \in Nat /\ MaxFlips \in Nat /\ MaxRestarts \in Nat /\ MaxResets \in Nat
ASSUME NameAssumption == {"redis", "forced", "none"} \cap Worker = {}

None == <<"none">>

ASSUME AlertAssumption == IsFiniteSet(Alert) /\ None \notin Alert

VARIABLES
  now, up, flips,   \* the clock; whether Redis answers; how often that changed
  configured,       \* whether REDIS_URL is set
  client,           \* per process: cooldown._redis_available
  limiter,          \* per process: where its RateLimiter looks first
  key,              \* when the cooldown key in Redis expires
  last,             \* per process: _memory_cooldown
  at, step,         \* the alert a worker has in hand, and where
  answer,           \* what became of a call: sent, or raised or returned unsent
  checked,          \* whose count let the alert pass the limit
  store, stamp,     \* where its send is recorded ("none"), and when
  gate,             \* history: when, how and in which process it passed the cooldown
  raced,            \* history: alerts both looked up before either set the key
  epoch,            \* history: calls of clear_cooldown and reset
  life              \* per worker: restarts

redis == <<up, flips>>
counts == <<checked, store, stamp>>
cooling == <<key, last, gate, raced>>
vars == <<now, redis, configured, client, limiter, cooling, at, step, answer,
          counts, epoch, life>>
-----------------------------------------------------------------------------
\* get_redis_client on its first call in a process; it never asks again.
Decided == IF up THEN "redis" ELSE "none"
Client(w) == IF client[w] = "undecided" THEN Decided ELSE client[w]

\* The engine is built when a process imports it, the limiter with it.
FreshClient == IF configured THEN Decided ELSE "undecided"
FreshLimiter == IF configured /\ up THEN "redis" ELSE "memory"

Init ==
  /\ now = 0 /\ up \in BOOLEAN /\ flips = 0 /\ configured \in BOOLEAN
  /\ client = [w \in Worker |-> FreshClient]
  /\ limiter = [w \in Worker |-> FreshLimiter]
  /\ key = 0
  /\ last = [w \in Worker |-> -Cooldown]
  /\ at = [w \in Worker |-> None]
  /\ step = [w \in Worker |-> "idle"]
  /\ answer = [a \in Alert |-> "new"]
  /\ checked = [a \in Alert |-> "none"]
  /\ store = [a \in Alert |-> "none"]
  /\ stamp = [a \in Alert |-> 0]
  /\ gate = {}
  /\ raced = {}
  /\ epoch = 0
  /\ life = [w \in Worker |-> 0]

Goes(w, s) == step' = [step EXCEPT ![w] = s] /\ UNCHANGED <<at, answer>>

Answers(w, what) ==
  /\ answer' = [answer EXCEPT ![at[w]] = what]
  /\ at' = [at EXCEPT ![w] = None]
  /\ step' = [step EXCEPT ![w] = "idle"]

\* process(location, score, force): a forced alert skips the cooldown.
Begin(w, a, force) ==
  /\ at[w] = None
  /\ answer[a] = "new"
  /\ at' = [at EXCEPT ![w] = a]
  /\ answer' = [answer EXCEPT ![a] = "started"]
  /\ step' = [step EXCEPT ![w] = IF force THEN "limit" ELSE "cooldown"]
  /\ checked' = [checked EXCEPT ![a] = IF force THEN "forced" ELSE "none"]
  /\ UNCHANGED <<now, redis, configured, client, limiter, cooling, store, stamp, epoch, life>>
-----------------------------------------------------------------------------
(* The cooldown: should_send_alert. *)

Pass(w, via) ==
  gate' = gate \cup {[alert |-> at[w], time |-> now, via |-> via,
                      who |-> w, life |-> life[w], epoch |-> epoch]}

KeySet == key > now
Recent(w) == now - last[w] < Cooldown

\* A process that found Redis once asks it for ever: without it, it raises.
Look(w) ==
  /\ step[w] = "cooldown"
  /\ client' = [client EXCEPT ![w] = Client(w)]
  /\ IF Client(w) = "redis"
       THEN /\ IF up /\ ~KeySet THEN Goes(w, "set") ELSE Answers(w, "unsent")
            /\ UNCHANGED <<last, gate>>
       ELSE IF Recent(w)
              THEN Answers(w, "unsent") /\ UNCHANGED <<last, gate>>
              ELSE Goes(w, "limit") /\ last' = [last EXCEPT ![w] = now] /\ Pass(w, "memory")
  /\ UNCHANGED <<now, redis, configured, limiter, key, raced, counts, epoch, life>>

\* Mutant: the key expires at once.
ExpiryNow == now

Expiry == now + Cooldown

\* EXISTS and SETEX are two calls: other workers look in between.
SetKey(w) ==
  /\ step[w] = "set"
  /\ IF up
       THEN /\ Goes(w, "limit")
            /\ key' = Expiry
            /\ Pass(w, "redis")
            /\ raced' = raced \cup {{at[w], at[v]} : v \in {u \in Worker \ {w} : step[u] = "set"}}
       ELSE Answers(w, "unsent") /\ UNCHANGED <<key, gate, raced>>
  /\ UNCHANGED <<now, redis, configured, client, limiter, last, counts, epoch, life>>
-----------------------------------------------------------------------------
(* The limit: RateLimiter.can_send and record_send. *)

\* The store the limiter uses now: any Redis error falls back to memory.
Counter(w) == IF limiter[w] = "redis" /\ up THEN "redis" ELSE w

\* The sends a store holds that are inside the window.
Counted(s) == {a \in Alert : store[a] = s /\ stamp[a] > now - Window}

\* Mutant: one too many.
RoomInclusive(s) == Cardinality(Counted(s)) <= Limit

Room(s) == Cardinality(Counted(s)) < Limit

CheckLimit(w) ==
  /\ step[w] = "limit"
  /\ IF checked[at[w]] = "forced"
       THEN Goes(w, "sending") /\ UNCHANGED checked
       ELSE IF Room(Counter(w))
              THEN Goes(w, "sending") /\ checked' = [checked EXCEPT ![at[w]] = Counter(w)]
              ELSE Answers(w, "unsent") /\ UNCHANGED checked
  /\ UNCHANGED <<now, redis, configured, client, limiter, cooling, store, stamp, epoch, life>>

\* The provider loop, nobody having the message.
DeliveryFails(w) ==
  /\ step[w] = "sending"
  /\ Answers(w, "unsent")
  /\ UNCHANGED <<now, redis, configured, client, limiter, cooling, counts, epoch, life>>

\* The provider loop and, some provider having succeeded, record_send.
DeliverAndRecord(w) ==
  /\ step[w] = "sending"
  /\ store' = [store EXCEPT ![at[w]] = Counter(w)]
  /\ stamp' = [stamp EXCEPT ![at[w]] = now]
  /\ Answers(w, "sent")
  /\ UNCHANGED <<now, redis, configured, client, limiter, cooling, checked, epoch, life>>
-----------------------------------------------------------------------------
(* Overrides, restarts and the weather. *)

\* RateLimiter.reset(location): Redis when it answers, and this process's list.
Reset(w) ==
  /\ at[w] = None
  /\ epoch < MaxResets
  /\ epoch' = epoch + 1
  /\ store' = [a \in Alert |-> IF store[a] \in {Counter(w), w} THEN "none" ELSE store[a]]
  /\ UNCHANGED <<now, redis, configured, client, limiter, cooling, at, step, answer,
                 checked, stamp, life>>

\* clear_cooldown(location); without an answer of Redis it raises.
ClearCooldown(w) ==
  /\ at[w] = None
  /\ epoch < MaxResets
  /\ Client(w) = "redis" => up
  /\ epoch' = epoch + 1
  /\ client' = [client EXCEPT ![w] = Client(w)]
  /\ IF Client(w) = "redis"
       THEN key' = 0 /\ UNCHANGED last
       ELSE last' = [last EXCEPT ![w] = -Cooldown] /\ UNCHANGED key
  /\ UNCHANGED <<now, redis, configured, limiter, gate, raced, at, step, answer, counts, life>>

\* The process is replaced: what it held in memory is gone, and whether there
\* is a Redis is decided anew.
Restart(w) ==
  /\ \A v \in Worker : life[v] < MaxRestarts
  /\ life' = [life EXCEPT ![w] = @ + 1]
  /\ client' = [client EXCEPT ![w] = FreshClient]
  /\ limiter' = [limiter EXCEPT ![w] = FreshLimiter]
  /\ last' = [last EXCEPT ![w] = -Cooldown]
  /\ store' = [a \in Alert |-> IF store[a] = w THEN "none" ELSE store[a]]
  /\ IF at[w] = None THEN UNCHANGED <<at, step, answer>> ELSE Answers(w, "unsent")
  /\ UNCHANGED <<now, redis, configured, key, gate, raced, checked, stamp, epoch>>

Flip ==
  /\ flips < MaxFlips
  /\ flips' = flips + 1
  /\ up' = ~up
  /\ UNCHANGED <<now, configured, client, limiter, cooling, at, step, answer, counts, epoch, life>>

Tick ==
  /\ now < MaxTime
  /\ now' = now + 1
  /\ UNCHANGED <<redis, configured, client, limiter, cooling, at, step, answer, counts, epoch, life>>
-----------------------------------------------------------------------------
Process(w) ==
  \/ \E a \in Alert, force \in BOOLEAN : Begin(w, a, force)
  \/ Look(w)
  \/ SetKey(w)
  \/ CheckLimit(w)
  \/ DeliveryFails(w)
  \/ DeliverAndRecord(w)

Next ==
  \/ \E w \in Worker : Process(w) \/ Reset(w) \/ ClearCooldown(w) \/ Restart(w)
  \/ Flip
  \/ Tick

Spec == Init /\ [][Next]_vars
-----------------------------------------------------------------------------
(* Properties. *)

Time == 0 .. MaxTime
Passage == [alert : Alert, time : Time, via : {"redis", "memory"}, who : Worker,
            life : Nat, epoch : Nat]

\* The shape of the state: clocks, stores, and what each worker has in hand.
TypeOK ==
  /\ now \in Time /\ up \in BOOLEAN /\ flips \in Nat /\ configured \in BOOLEAN
  /\ client \in [Worker -> {"undecided", "redis", "none"}]
  /\ limiter \in [Worker -> {"redis", "memory"}]
  /\ key \in 0 .. MaxTime + Cooldown
  /\ last \in [Worker -> Time \cup {-Cooldown}]
  /\ at \in [Worker -> Alert \cup {None}]
  /\ step \in [Worker -> {"idle", "cooldown", "set", "limit", "sending"}]
  /\ answer \in [Alert -> {"new", "started", "sent", "unsent"}]
  /\ checked \in [Alert -> {"none", "forced", "redis"} \cup Worker]
  /\ store \in [Alert -> {"none", "redis"} \cup Worker]
  /\ stamp \in [Alert -> Time]
  /\ gate \subseteq Passage
  /\ raced \subseteq SUBSET Alert
  /\ epoch \in Nat
  /\ life \in [Worker -> Nat]

\* Alerts a store let pass and now holds inside the window.
Through(s) == {a \in Counted(s) : checked[a] = s}

\* The count is read before the send and written after it, so the workers can
\* overshoot the limit, but by no more than all of them but one: whatever
\* Redis does and whoever restarts, what it let pass and recorded within an
\* hour stays under Limit + |Worker|, and no process of its own exceeds Limit.
OvershootBounded ==
  /\ Cardinality(Through("redis")) < Limit + Cardinality(Worker)
  /\ \A w \in Worker : Cardinality(Through(w)) <= Limit

Close(p, q) ==
  /\ p.alert # q.alert /\ p.epoch = q.epoch
  /\ p.time - q.time < Cooldown /\ q.time - p.time < Cooldown

\* Two alerts pass the cooldown within its period, with no override between,
\* only because two processes looked before either had set the key, or because
\* one of them keeps its own time in memory: never twice in one process.
CooldownHolds ==
  \A p, q \in gate : Close(p, q) =>
    \/ {p.alert, q.alert} \in raced
    \/ /\ "memory" \in {p.via, q.via}
       /\ <<p.who, p.life>> # <<q.who, q.life>>
=============================================================================
