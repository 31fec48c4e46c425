---------------------------- MODULE LiveSources ----------------------------
(***************************************************************************)
(* A live source of evidence and what stands between it and its readers:   *)
(* the caches of the worker processes, the login to Earth Engine, the      *)
(* fusion and the quality and health reports, and the screens that call    *)
(* their figures current (src/src/hydrology, src/src/data_quality,         *)
(* src/src/copilot, the dashboard).                                        *)
(*                                                                         *)
(* A behaviour is about one source, and its unit of time is the source's:  *)
(*   forecast   Open-Meteo's rain of the next 24 hours                     *)
(*   soil       SMAP's soil moisture                                       *)
(*   satellite  Sentinel-1's water                                         *)
(*   discharge  GloFAS's discharge over its median                         *)
(*   gauges     Flood Hub's river forecast, and the list of its gauges     *)
(*   rainfall   the last days of IMERG or CHIRPS, and IMERG's scale        *)
(*   altimetry  DAHITI's level of the White Volta and of Akosombo          *)
(*   proxy      DAHITI's level upstream of Bagre                           *)
(* The service is up, empty (it answers, with nothing in it) or down (it   *)
(* refuses, fails or times out).  Every worker caches for itself.          *)
(***************************************************************************)
EXTENDS Integers, FiniteSets, FiniteSetsExt

CONSTANTS
  Worker,      \* the API's processes
  Life,        \* per source: how long a worker keeps what it cached
  Window,      \* per source: how far back a reading may have been observed
  StaleAfter,  \* per source: the age from which a reading is flagged
  Graded,      \* per source: the age up to which the quality report passes it
  Near, Far,   \* between which ages the satellite's baseline was observed
  Archives,    \* what images there may be from before: a bound on all of them
  PageLife,    \* how long the dashboard keeps the forecast
  MaxTime      \* bound on time

Source == {"forecast", "soil", "satellite", "discharge", "gauges", "rainfall",
           "altimetry", "proxy"}

\* DAHITI is not cached: a life of 0.
ASSUME LifeAssumption ==
  /\ Life \in [Source -> Nat] /\ 0 \notin {Life["discharge"], Life["rainfall"]}
  /\ Window \in [Source -> Nat] /\ StaleAfter \in [Source -> Nat]
  /\ Graded \in [Source -> Nat] /\ PageLife \in Nat /\ MaxTime \in Nat
  /\ Near \in Nat /\ Far \in Nat

VARIABLES
  source,   \* the source
  screen,   \* the screen in front of it, see Screens
  clock,    \* the time
  service,  \* "up", "empty" or "down"
  newest,   \* when the newest observation that it has was made
  images,   \* of the satellite: when it passed, and in which direction
  pass,     \* the direction of its newest image
  emptyAt,  \* when it was last empty, or Never
  login,    \* per worker: Earth Engine took its login when it started
  cache,    \* per worker: what it keeps
  pageCache, \* what the dashboard keeps
  good,     \* the last reading that the kiosk showed as live
  answer    \* what somebody was told since the time last changed

sourceVars == <<source, screen, clock, service, newest, images, pass, emptyAt,
                login, cache, pageCache, good, answer>>

Pass == {"ascending", "descending"}
Never == -1

\* Kinds: "reading", "dry" (a zero that nobody measured), "list" and "scale"
\* (what the gauges and the rainfall keep), "none" (nothing, with a reason).
Told(kind, obs, flag) == [kind |-> kind, obs |-> obs, at |-> clock, flag |-> flag]
Nothing == [kind |-> "none", obs |-> Never, at |-> Never, flag |-> FALSE]

Silent == [to |-> "nobody", from |-> {}, as |-> "told", what |-> Nothing]

\* The slider of the first page, the public screen and the copilot show the
\* forecast; the national map counts the discharges.
Screens ==
  CASE source = "forecast" -> {"home", "kiosk", "copilot"}
    [] source = "discharge" -> {"map"}
    [] OTHER -> {"none"}

SourcesInit ==
  /\ source \in Source
  /\ screen \in Screens
  /\ clock = 0 /\ service = "up" /\ newest = 0 /\ emptyAt = Never
  /\ pass \in Pass
  /\ \E past \in Archives :
       images = IF source = "satellite" THEN past \cup {<<0, pass>>} ELSE {}
  /\ login = [w \in Worker |-> TRUE]
  /\ cache = [w \in Worker |-> Nothing]
  /\ pageCache = [at |-> Never, what |-> Nothing] /\ good = Nothing /\ answer = Silent
-----------------------------------------------------------------------------
(* A worker asks the service. *)

\* Forecasts and discharges are of today.
Observed == IF source \in {"forecast", "discharge"} THEN clock ELSE newest

\* Two images compare only if the satellite flew in the same direction.
HasBaseline == \E t \in clock - Far .. clock - Near : <<t, pass>> \in images

HasData ==
  /\ service = "up" /\ clock - Observed <= Window[source]
  /\ source = "satellite" => HasBaseline

\* SentinelProcessor logs in when the process starts, the others at each call.
Reached(w) == service # "down" /\ (source = "satellite" => login[w])

\* SMAP's moisture, the rainfall and DAHITI's levels are flagged when old, but
\* for the level upstream of Bagre.
FlagsAge == source \in {"soil", "rainfall", "altimetry"}
Old(obs) == FlagsAge /\ clock - obs > StaleAfter[source]

\* What is fetched.  A day without figures is read as dry by _parse_open_meteo.
Fetched(w) ==
  IF ~Reached(w) THEN Nothing
  ELSE IF HasData
       THEN Told("reading", Observed, Old(Observed))
       ELSE IF source = "forecast" THEN Told("dry", clock, FALSE) ELSE Nothing

\* lru_cache counts by the day and by the month, the others from the fetch.
InLife(t) ==
  IF source \in {"discharge", "rainfall"}
  THEN t # Never /\ t \div Life[source] = clock \div Life[source]
  ELSE t # Never /\ clock - t < Life[source]

\* Mutant: what was cached is kept for good.
HoldsForGood(c, w) == c[w].at # Never

Holds(c, w) == InLife(c[w].at)

\* Mutant: a failure is cached as well.
KeepsFailures(w) == [Fetched(w) EXCEPT !.at = clock]

\* What a worker caches: readings and dry days; of an empty discharge, that
\* there is none.  A failure is not cached.
Keeps(w) ==
  IF source = "discharge" /\ Reached(w) /\ ~HasData THEN Told("none", Never, FALSE)
  ELSE Fetched(w)

\* The list of gauges is kept even if empty.
ListOf(c, w) ==
  IF Holds(c, w) THEN c[w]
  ELSE IF service = "down" THEN Nothing
       ELSE Told(IF service = "up" THEN "list" ELSE "none", Never, FALSE)

\* The scale is 1.0, and is kept, where a year's total is missing.
ScaleOf(c, w) ==
  IF Holds(c, w) THEN {c[w]}
  ELSE {Told("scale", Never, FALSE)}
       \cup (IF service = "empty" THEN {Told("dry", Never, FALSE)} ELSE {})

\* IMERG's days, rescaled; without them CHIRPS's, which are older.
Rainfall(scale) ==
  IF HasData
  THEN {Told(IF scale.kind = "dry" THEN "dry" ELSE "reading", newest, FALSE)}
  ELSE {Told("reading", o, Old(o)) : o \in 0 .. newest} \cup {Nothing}

\* Of a gauge on the list the levels and the forecast are read live.
GaugeForecast(list, w) == IF list.kind = "list" THEN Fetched(w) ELSE Nothing

\* The answers of worker w with caches c, each with what the worker then keeps.
Answers(c, w) ==
  CASE source = "gauges" ->
         LET list == ListOf(c, w)
         IN  {[told |-> GaugeForecast(list, w), kept |-> list]}
    [] source = "rainfall" ->
         IF service = "down" THEN {[told |-> Nothing, kept |-> c[w]]}
         ELSE UNION {{[told |-> t, kept |-> s] : t \in Rainfall(s)} : s \in ScaleOf(c, w)}
    [] OTHER ->
         IF Holds(c, w) THEN {[told |-> c[w], kept |-> c[w]]}
         ELSE {[told |-> Fetched(w), kept |-> Keeps(w)]}
-----------------------------------------------------------------------------
(* Time and the service. *)

TimePasses ==
  /\ clock < MaxTime
  /\ clock' = clock + 1
  /\ answer' = Silent
  /\ UNCHANGED <<source, screen, service, newest, images, pass, emptyAt, login, cache, pageCache, good>>

\* A bound: the satellite passes once in a unit of time.
Publish ==
  /\ source \notin {"forecast", "discharge"}
  /\ source = "satellite" => newest < clock
  /\ newest' = clock
  /\ pass' \in IF source = "satellite" THEN Pass ELSE {pass}
  /\ images' = IF source = "satellite" THEN images \cup {<<clock, pass'>>} ELSE images
  /\ answer' = Silent
  /\ UNCHANGED <<source, screen, clock, service, emptyAt, login, cache, pageCache, good>>

ServiceTurns ==
  /\ \E s \in {"up", "empty", "down"} \ {service} :
       /\ service' = s
       /\ emptyAt' = IF "empty" \in {s, service} THEN clock ELSE emptyAt
  /\ answer' = Silent
  /\ UNCHANGED <<source, screen, clock, newest, images, pass, login, cache, pageCache, good>>

\* A worker's process is replaced.
Restart(w) ==
  /\ login' = [login EXCEPT ![w] = service # "down"]
  /\ cache' = [cache EXCEPT ![w] = Nothing]
  /\ answer' = Silent
  /\ UNCHANGED <<source, screen, clock, service, newest, images, pass, emptyAt, pageCache, good>>
-----------------------------------------------------------------------------
(* The readers. *)

\* A route reads the source in the worker that serves it.
ReadSource(w) ==
  /\ \E a \in Answers(cache, w) :
       /\ cache' = [cache EXCEPT ![w] = a.kept]
       /\ answer' = [to |-> "caller", from |-> {w}, as |-> "told", what |-> a.told]
  /\ UNCHANGED <<source, screen, clock, service, newest, images, pass, emptyAt, login, pageCache, good>>

\* The dashboard's first page and its map keep what they were told for a while,
\* also that there was nothing (_live_forecast_24h_mm, get_national_summary).
PageHolds == pageCache.at # Never /\ clock - pageCache.at < PageLife

\* get_national_summary counts a district without a discharge as calm.
Counted(told) ==
  IF screen = "map" /\ told.kind = "none" THEN Told("dry", clock, FALSE) ELSE told

\* The panels are current while the slider is where the forecast puts it; the
\* map has no slider, and a dash where the call failed.
OpenHome ==
  /\ screen \in {"home", "map"}
  /\ \E w \in Worker, failed, moved \in BOOLEAN : \E a \in Answers(cache, w) :
       LET asked == ~PageHolds /\ ~failed
           shown == IF PageHolds THEN pageCache.what
                    ELSE IF failed THEN Nothing ELSE Counted(a.told)
       IN  /\ screen = "map" => ~moved
           /\ cache' = IF asked THEN [cache EXCEPT ![w] = a.kept] ELSE cache
           /\ pageCache' = IF PageHolds THEN pageCache ELSE [at |-> clock, what |-> shown]
           /\ answer' = [to |-> screen, from |-> {}, what |-> shown,
                         as |-> IF moved \/ shown.kind = "none" THEN "scenario" ELSE "live"]
  /\ UNCHANGED <<source, screen, clock, service, newest, images, pass, emptyAt, login, good>>

\* _live_precipitation_mm: the forecast is all it takes.
NoRain(told) == told.kind = "none"

\* A tool of the copilot whose caller gave no rain, be it for the decision, the
\* evidence, the forecast or the resources, takes the forecast, and says so;
\* without one it computes nothing.
ToolAnswer(told) == IF NoRain(told) THEN "refused" ELSE "live"

\* A question: the model calls a tool, with rain of its own or without, and may
\* fail before or after.
AskCopilot ==
  /\ screen = "copilot"
  /\ \E w \in Worker, given, fails \in BOOLEAN : \E a \in Answers(cache, w) :
       /\ cache' = IF given THEN cache ELSE [cache EXCEPT ![w] = a.kept]
       /\ answer' = [to |-> "copilot", from |-> {}, what |-> IF given THEN Nothing ELSE a.told,
                     as |-> IF fails THEN "refused" ELSE IF given THEN "scenario"
                            ELSE ToolAnswer(a.told)]
  /\ UNCHANGED <<source, screen, clock, service, newest, images, pass, emptyAt, login, pageCache, good>>

\* weather_forecast_24h: a call that fails is a dry day.
FirstCall(told, failed) == IF failed THEN Told("dry", clock, FALSE) ELSE told

\* fetch_situation_state: a forecast that is not available is refused as input.
SecondCall(rain, failed) == ~failed /\ rain.kind # "none"

\* Mutant: the old reading is shown as if it were live.
KioskShowsOldAsLive(connected) ==
  IF connected \/ good # Nothing THEN "live" ELSE "lost"

KioskShows(connected) ==
  IF connected THEN "live" ELSE IF good # Nothing THEN "stale" ELSE "lost"

\* render_kiosk_view: the two calls of /situation may reach two workers.
KioskRefresh ==
  /\ screen = "kiosk"
  /\ \E v, w \in Worker, failed, again \in BOOLEAN : \E a \in Answers(cache, v) :
       LET rain == FirstCall(a.told, failed)
           connected == SecondCall(rain, again)
           first == IF failed THEN cache ELSE [cache EXCEPT ![v] = a.kept]
       IN  \E b \in Answers(first, w) :
             /\ cache' = IF connected THEN [first EXCEPT ![w] = b.kept] ELSE first
             /\ good' = IF connected THEN rain ELSE good
             /\ answer' = [to |-> "kiosk", from |-> {}, as |-> KioskShows(connected),
                           what |-> IF connected THEN rain ELSE good]
  /\ UNCHANGED <<source, screen, clock, service, newest, images, pass, emptyAt, login, pageCache>>

SourcesNext ==
  \/ TimePasses \/ Publish \/ ServiceTurns \/ OpenHome \/ AskCopilot \/ KioskRefresh
  \/ \E w \in Worker : Restart(w) \/ ReadSource(w)

SourcesSpec == SourcesInit /\ [][SourcesNext]_sourceVars
-----------------------------------------------------------------------------
(* What is made of an answer, and reported of its source. *)

\* get_real_forecast_fusion: what counts as present.  Rain that is too old does
\* not; the discharge and the gauges' forecast have no age.
CountsAsPresent(a) == a.kind # "none" /\ (source = "rainfall" => ~a.flag)

PresentFor(a, risk) == IF CountsAsPresent(a) THEN {[of |-> source, risk |-> risk]} ELSE {}

\* fuse_forecasts: the mean of what is present (the weights are 1 unless they
\* are configured); of nothing, 0.
Unified(risks) ==
  IF risks = {} THEN 0
  ELSE FoldSet(LAMBDA r, sum : sum + r.risk, 0, risks) \div Cardinality(risks)

\* freshness_test.
TooOld(a) == clock - a.obs > Graded[source]

\* GET /v1/data-quality, of an answer at this moment: the worst of its tests.
Grade(a) ==
  IF a.kind = "none" THEN IF source = "forecast" THEN "suspect" ELSE "missing"
  ELSE IF source \in {"soil", "altimetry"} /\ TooOld(a) THEN "fail" ELSE "pass"

\* And of all four sources in the report.
SystemStatus(grades) ==
  IF "fail" \in grades THEN "degraded"
  ELSE IF grades \cap {"suspect", "missing"} # {} THEN "partial" ELSE "healthy"

\* GET /v1/health/data-sources: Earth Engine is connected if it was when the
\* worker started, Open-Meteo is asked, of DAHITI the key is looked for.
Reported(w) ==
  CASE source \in {"satellite", "rainfall"} -> IF login[w] THEN "connected" ELSE "unavailable"
    [] source = "forecast" -> IF service = "down" THEN "unavailable" ELSE "connected"
    [] source \in {"altimetry", "proxy"} -> "configured"
    [] OTHER -> "not reported"

Overall(statuses) == IF "unavailable" \in statuses THEN "degraded" ELSE "healthy"
-----------------------------------------------------------------------------
(* Properties. *)

\* How old the observation behind a reading may be when no flag says so.
Trusted ==
  IF FlagsAge THEN StaleAfter[source] ELSE Window[source]
Aged == clock - answer.what.obs

\* A reading that is not flagged was observed within what the source trusts
\* and a cache's life, however caches, restarts and outages mix; a flagged one has no
\* part in the fused risk, and with one in it the quality report is not healthy,
\* whatever the other sources are.  Flood Hub's forecast and the level upstream
\* of Bagre are taken whatever their age.
FreshOrFlagged ==
  answer.to = "caller" /\ answer.what.kind = "reading" =>
    /\ \/ answer.what.flag \/ source \in {"gauges", "proxy"}
       \/ Aged <= Trusted \/ Aged < Trusted + Life[source]
    /\ source = "rainfall" /\ answer.what.flag =>
         \A others \in SUBSET [of : {"discharge", "gauges"}, risk : {0, 100}] :
           Unified(PresentFor(answer.what, 50) \cup others) = Unified(others)
    /\ source \in {"soil", "altimetry"} /\ answer.what.flag =>
         \A others \in SUBSET {"pass", "suspect", "missing", "fail"} :
           SystemStatus(others \cup {Grade(answer.what)}) # "healthy"

\* An outage passes: with the service back, nobody is told that there is
\* nothing, or a zero instead of a reading, unless nothing was observed lately,
\* or the service was empty within the life of a cache.  The satellite can be
\* missing for two more reasons: no image of the newest one's direction is of a
\* baseline's age, which no report tells; or the worker started in an outage,
\* and then until it is restarted, and its health report is degraded.
OutagesPass ==
  answer.to = "caller" /\ service = "up" /\ answer.what.kind # "reading" =>
    \/ clock - Observed > Window[source]
    \/ source = "satellite" /\ ~HasBaseline
    \/ source = "satellite" /\ \A w \in answer.from : Overall({Reported(w)}) = "degraded"
    \/ source \in {"forecast", "discharge", "gauges", "rainfall"} /\ InLife(emptyAt)

\* What a screen shows as current is a reading no older than the two caches it
\* went through, or a dry day for want of one: no figures from the service
\* within that time, or, on the kiosk, a call that failed just now.  Only the
\* map shows calm wherever it knows nothing.
ScreenLife == Life[source] + (IF answer.to \in {"home", "map"} THEN PageLife ELSE 0)
LiveScreensExplained ==
  answer.as = "live" =>
    \/ answer.what.kind = "reading" /\ clock - answer.what.at < ScreenLife
    \/ answer.what.kind = "dry" /\ answer.what.at = clock /\ answer.to = "kiosk"
    \/ answer.what.kind = "dry" /\ clock - answer.what.at < PageLife /\ answer.to = "map"
    \/ /\ answer.what.kind = "dry" /\ clock - answer.what.at < ScreenLife
       /\ service = "empty" \/ (emptyAt # Never /\ clock - emptyAt < ScreenLife)
=============================================================================
