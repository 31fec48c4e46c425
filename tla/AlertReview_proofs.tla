------------------------- MODULE AlertReview_proofs -------------------------
(***************************************************************************)
(* Proofs about AlertReview for every set of workers and alerts, every     *)
(* list of providers, every set of scores and thresholds, and any number   *)
(* of crashes and redeployments.                                           *)
(*                                                                         *)
(* The argument: a worker inside the engine owns the decision it claimed.  *)
(* While it does, the row's status says so (DecisionsHold), no second      *)
(* worker can own the same decision (OneSenderPerDecision), and no         *)
(* provider it has still to call was called for it before (TailUntouched). *)
(* A decision is handed back only for an alert no provider ever sees       *)
(* (UnsendableSilent).                                                     *)
(***************************************************************************)
EXTENDS AlertReview, TLAPS

\* A worker in a handler works for a request, on a row that exists and still
\* reads as it did at the first read.
JobOK ==
  \A w \in Worker : pc[w] # "idle" =>
    /\ job[w] \in Job
    /\ job[w].seen = row[job[w].alert]
    /\ status[job[w].alert] # "absent"

TypeInv == TypeOK /\ JobOK

\* Only a decision about a real alert is in the engine; it is in the provider
\* loop for a well-formed row only, and raised for an ill-formed one only.
EngineOK ==
  \A w \in Worker :
    /\ pc[w] \in {"build", "send", "release"} =>
         job[w].op # "dismiss" /\ job[w].seen.cap = "Actual"
    /\ pc[w] = "send" => job[w].seen.named
    /\ pc[w] = "release" => ~job[w].seen.named

\* The status still shows a decision that is inside the engine.
DecisionsHold ==
  \A w \in Worker :
    /\ InEngine(w, "approve") => status[job[w].alert] \in {"approved", "cancelled"}
    /\ InEngine(w, "cancel") => status[job[w].alert] = "cancelled"

\* A drill, or an alert without a location, is never handed to a provider.
UnsendableSilent ==
  \A a \in Alert : row[a].cap = "Exercise" \/ ~row[a].named =>
    Silent(originals, a) /\ Silent(retractions, a)

\* The providers a worker has still to call were not called before.
Untouched(calls, w) ==
  \A p \in Provider :
    pc[w] = "build" \/ (pc[w] = "send" /\ p >= cursor[w]) =>
      calls[<<job[w].alert, p>>] = 0

TailUntouched ==
  \A w \in Worker :
    /\ InEngine(w, "approve") => Untouched(originals, w)
    /\ InEngine(w, "cancel") => Untouched(retractions, w)

IInv ==
  /\ TypeInv
  /\ EngineOK
  /\ DecisionsHold
  /\ OneSenderPerDecision
  /\ OpenMeansSilent
  /\ RetractedStaysCancelled
  /\ UnsendableSilent
  /\ TailUntouched
  /\ AtMostOneBroadcast
-----------------------------------------------------------------------------
LEMMA InitTypeInv == Init => TypeInv
BY NumProvidersAssumption, RestartsAssumption
   DEF Init, TypeInv, TypeOK, JobOK, Status, Row, BlankRow, Provider, deployment

LEMMA FromToTypes ==
  ASSUME NEW op \in Op
  PROVE  From(op) \in Status \ {"absent"} /\ To(op) \in Status \ {"absent"}
BY DEF Op, Status, From, To

\* Counting one more call keeps a call count a call count.
LEMMA OneMoreCall ==
  ASSUME NEW S, NEW x \in S, NEW calls \in [S -> Nat]
  PROVE  [calls EXCEPT ![x] = @ + 1] \in [S -> Nat]
OBVIOUS

\* Every step keeps the types, and every request's view of its row.
LEMMA StepTypeInv == TypeInv /\ [Next]_vars => TypeInv'
<1> SUFFICES ASSUME TypeInv, [Next]_vars PROVE TypeInv'
  OBVIOUS
<1> USE DEF TypeInv, TypeOK, JobOK, table, outbox, deployment
<1>1. ASSUME NEW a \in Alert, NEW named \in BOOLEAN, NEW score \in Score,
             NEW exercise \in BOOLEAN, AssessDistrict(a, named, score, exercise)
      PROVE  TypeInv'
  <2>1. row' \in [Alert -> Row] /\ status' \in [Alert -> Status]
    BY <1>1, ScoreAssumption DEF AssessDistrict, Row, Status
  <2>2. \A b \in Alert : status[b] # "absent" => status'[b] # "absent" /\ row'[b] = row[b]
    BY <1>1 DEF AssessDistrict
  <2>3. QED BY <1>1, <2>1, <2>2 DEF AssessDistrict, Job
<1>2. ASSUME NEW a \in Alert, NEW named \in BOOLEAN, NEW tier \in DrillTier,
             CreateExerciseAlert(a, named, tier)
      PROVE  TypeInv'
  <2>1. TierMidpointScore[tier] \in 0 .. 100
    BY DrillTierAssumption DEF TierMidpointScore
  <2>2. row' \in [Alert -> Row] /\ status' \in [Alert -> Status]
    BY <1>2, <2>1 DEF CreateExerciseAlert, Row, Status
  <2>3. \A b \in Alert : status[b] # "absent" => status'[b] # "absent" /\ row'[b] = row[b]
    BY <1>2 DEF CreateExerciseAlert
  <2>4. QED BY <1>2, <2>2, <2>3 DEF CreateExerciseAlert, Job
<1>3. ASSUME NEW w \in Worker, NEW op \in Op, NEW a \in Alert, NEW key \in Key,
             ReadForDecision(w, op, a, key)
      PROVE  TypeInv'
  <2>1. [op |-> op, alert |-> a, key |-> key, seen |-> row[a]] \in Job
    BY DEF Job
  <2>2. status[a] # "absent"
    BY <1>3, FromToTypes DEF ReadForDecision
  <2>3. QED BY <1>3, <2>1, <2>2 DEF ReadForDecision, Goto
<1>4. ASSUME NEW w \in Worker, ClaimWon(w) PROVE TypeInv'
  <2>1. job[w] \in Job /\ job[w].op \in Op /\ job[w].alert \in Alert
    BY <1>4 DEF ClaimWon, Job
  <2>2. status' \in [Alert -> Status] /\ row' = row
    BY <1>4, <2>1, FromToTypes DEF ClaimWon
  <2>3. \A b \in Alert : status[b] # "absent" => status'[b] # "absent"
    BY <1>4, <2>1, FromToTypes DEF ClaimWon
  <2>4. QED
    BY <1>4, <2>1, <2>2, <2>3, NumProvidersAssumption
       DEF ClaimWon, EndRequest, Goto, Job
<1>5. ASSUME NEW w \in Worker, ClaimLost(w) PROVE TypeInv'
  BY <1>5, NumProvidersAssumption DEF ClaimLost, EndRequest, Goto
<1>6. ASSUME NEW w \in Worker, PayloadRejected(w) \/ EnterProviderLoop(w) PROVE TypeInv'
  BY <1>6 DEF PayloadRejected, EnterProviderLoop, Goto
<1>7. ASSUME NEW w \in Worker, BelowThreshold(w) \/ FinishProcess(w) PROVE TypeInv'
  BY <1>7, NumProvidersAssumption DEF BelowThreshold, FinishProcess, EndRequest, Goto
<1>8. ASSUME NEW w \in Worker, NEW ok \in BOOLEAN, SendVia(w, ok) PROVE TypeInv'
  <2>1. job[w] \in Job /\ job[w].alert \in Alert
    BY <1>8 DEF SendVia, Job
  <2>2. cursor[w] \in Provider /\ cursor' \in [Worker -> 1 .. NumProviders + 1]
    BY <1>8, NumProvidersAssumption DEF SendVia, Provider
  <2>3. <<job[w].alert, cursor[w]>> \in Alert \X Provider
    BY <2>1, <2>2
  <2>4. originals' \in [Alert \X Provider -> Nat]
    <3>1. PICK ap \in Alert \X Provider :
            originals' = originals \/ originals' = [originals EXCEPT ![ap] = @ + 1]
      BY <1>8, <2>3 DEF SendVia
    <3>2. QED BY <3>1, OneMoreCall
  <2>5. retractions' \in [Alert \X Provider -> Nat]
    <3>1. PICK ap \in Alert \X Provider :
            retractions' = retractions \/ retractions' = [retractions EXCEPT ![ap] = @ + 1]
      BY <1>8, <2>3 DEF SendVia
    <3>2. QED BY <3>1, OneMoreCall
  <2>6. delivered' \subseteq Alert \X Provider
    BY <1>8, <2>3 DEF SendVia
  <2>7. QED BY <1>8, <2>2, <2>4, <2>5, <2>6 DEF SendVia
<1>9. ASSUME NEW w \in Worker, Release(w) PROVE TypeInv'
  <2>1. job[w] \in Job /\ job[w].op \in Op /\ job[w].alert \in Alert
    BY <1>9 DEF Release, Job
  <2>2. status' \in [Alert -> Status]
    BY <1>9, <2>1, FromToTypes DEF Release
  <2>3. \A b \in Alert : status[b] # "absent" => status'[b] # "absent"
    BY <1>9, <2>1, FromToTypes DEF Release
  <2>4. QED
    BY <1>9, <2>1, <2>2, <2>3, NumProvidersAssumption DEF Release, EndRequest, Goto, Job
<1>10. ASSUME NEW w \in Worker, WorkerDies(w) PROVE TypeInv'
  BY <1>10, NumProvidersAssumption, RestartsAssumption DEF WorkerDies, EndRequest, Goto
<1>11. ASSUME NEW t \in Threshold, Redeploy(t) PROVE TypeInv'
  BY <1>11, NumProvidersAssumption, RestartsAssumption DEF Redeploy
<1>12. CASE UNCHANGED vars
  BY <1>12 DEF vars
<1>13. QED
  BY <1>1, <1>2, <1>3, <1>4, <1>5, <1>6, <1>7, <1>8, <1>9, <1>10, <1>11, <1>12
     DEF Next, Handle, Process

\* Every reachable state is well typed, for all constants.
THEOREM TypeCorrect == Spec => []TypeOK
<1>1. Init => TypeInv BY InitTypeInv
<1>2. TypeInv /\ [Next]_vars => TypeInv' BY StepTypeInv
<1>3. TypeInv => TypeOK BY DEF TypeInv
<1>4. QED BY <1>1, <1>2, <1>3, PTL DEF Spec
-----------------------------------------------------------------------------
(* The steps of the safety invariant, grouped by what they disturb. *)

LEMMA InitIInv == Init => IInv
<1> SUFFICES ASSUME Init PROVE IInv
  OBVIOUS
<1>1. TypeInv
  BY InitTypeInv
<1>2. EngineOK /\ DecisionsHold /\ OneSenderPerDecision /\ TailUntouched
  BY DEF Init, EngineOK, DecisionsHold, OneSenderPerDecision, TailUntouched, InEngine
<1>3. \A a \in Alert : Silent(originals, a) /\ Silent(retractions, a)
  BY DEF Init, Silent
<1>4. AtMostOneBroadcast
  BY DEF Init, AtMostOneBroadcast
<1>5. QED
  BY <1>1, <1>2, <1>3, <1>4
     DEF IInv, OpenMeansSilent, RetractedStaysCancelled, UnsendableSilent

\* Workers that leave their handlers, or stay where they are, disturb nothing.
LEMMA LeavingStep ==
  ASSUME IInv, TypeInv',
         UNCHANGED <<table, outbox>>,
         \A w \in Worker :
           \/ pc'[w] = "idle"
           \/ pc'[w] = pc[w] /\ job'[w] = job[w] /\ cursor'[w] = cursor[w]
  PROVE  IInv'
<1> USE DEF IInv, table, outbox
<1>1. EngineOK'
  BY DEF EngineOK
<1>2. DecisionsHold'
  BY DEF DecisionsHold, InEngine
<1>3. OneSenderPerDecision'
  BY DEF OneSenderPerDecision, InEngine
<1>4. TailUntouched'
  BY DEF TailUntouched, Untouched, InEngine
<1>5. OpenMeansSilent' /\ RetractedStaysCancelled' /\ UnsendableSilent' /\ AtMostOneBroadcast'
  BY DEF OpenMeansSilent, RetractedStaysCancelled, UnsendableSilent, AtMostOneBroadcast, Silent
<1>6. QED BY <1>1, <1>2, <1>3, <1>4, <1>5

\* A new row is one that no worker works on and nothing went out for.
LEMMA QueueStep ==
  ASSUME IInv, TypeInv',
         NEW a \in Alert,
         status[a] = "absent",
         status' = [status EXCEPT ![a] = "pending"],
         \A b \in Alert : b # a => row'[b] = row[b],
         UNCHANGED <<pc, job, cursor, outbox>>
  PROVE  IInv'
<1> USE DEF IInv, outbox, TypeInv, TypeOK
<1>1. \A w \in Worker : pc[w] # "idle" =>
        job[w].alert \in Alert /\ job[w].alert # a
  BY DEF JobOK, Job
<1>2. EngineOK'
  BY <1>1 DEF EngineOK
<1>3. DecisionsHold'
  BY <1>1 DEF DecisionsHold, InEngine
<1>4. OneSenderPerDecision'
  BY DEF OneSenderPerDecision, InEngine
<1>5. TailUntouched'
  BY DEF TailUntouched, Untouched, InEngine
<1>6. Silent(originals, a) /\ Silent(retractions, a)
  BY DEF OpenMeansSilent
<1>7. OpenMeansSilent' /\ RetractedStaysCancelled' /\ UnsendableSilent' /\ AtMostOneBroadcast'
  BY <1>6
     DEF OpenMeansSilent, RetractedStaysCancelled, UnsendableSilent, AtMostOneBroadcast, Silent
<1>8. QED BY <1>2, <1>3, <1>4, <1>5, <1>7

\* A request enters a handler.
LEMMA ReadStep ==
  ASSUME IInv, TypeInv',
         NEW w \in Worker, NEW op \in Op, NEW a \in Alert, NEW key \in Key,
         ReadForDecision(w, op, a, key)
  PROVE  IInv'
<1> USE DEF IInv, ReadForDecision, Goto, table, outbox, TypeInv, TypeOK
<1>1. EngineOK'
  BY DEF EngineOK
<1>2. DecisionsHold'
  BY DEF DecisionsHold, InEngine
<1>3. OneSenderPerDecision'
  BY DEF OneSenderPerDecision, InEngine
<1>4. TailUntouched'
  BY DEF TailUntouched, Untouched, InEngine
<1>5. OpenMeansSilent' /\ RetractedStaysCancelled' /\ UnsendableSilent' /\ AtMostOneBroadcast'
  BY DEF OpenMeansSilent, RetractedStaysCancelled, UnsendableSilent, AtMostOneBroadcast, Silent
<1>6. QED BY <1>1, <1>2, <1>3, <1>4, <1>5

\* The winner of a claim finds no other worker holding the same decision.
LEMMA ClaimStep ==
  ASSUME IInv, TypeInv', NEW w \in Worker, ClaimWon(w)
  PROVE  IInv'
<1> USE DEF IInv, TypeInv, TypeOK
<1> DEFINE a == job[w].alert
           op == job[w].op
<1>1. /\ job[w] \in Job /\ a \in Alert /\ op \in Op
      /\ status[a] = From(op)
      /\ status' = [status EXCEPT ![a] = To(op)]
      /\ job[w].seen = row[a]
      /\ UNCHANGED <<row, originals, retractions>>
  BY DEF ClaimWon, JobOK, Job, Matches, outbox
<1>2. \A v \in Worker \ {w} : pc'[v] = pc[v] /\ job'[v] = job[v] /\ cursor'[v] = cursor[v]
  BY DEF ClaimWon, EndRequest, Goto
<1>3. \/ pc'[w] = "idle"
      \/ pc'[w] = "build" /\ job'[w] = job[w] /\ op # "dismiss" /\ job[w].seen.cap = "Actual"
  BY DEF ClaimWon, EndRequest, Goto, ReachesEngine
<1>4. \A v \in Worker \ {w} : pc[v] # "idle" => job[v] \in Job
  BY DEF JobOK
<1>5. EngineOK'
  BY <1>2, <1>3 DEF EngineOK
<1>6. \A v \in Worker : InEngine(v, op) => job[v].alert # a
  BY <1>1 DEF DecisionsHold, EngineOK, InEngine, From, Op
<1>7. DecisionsHold'
  BY <1>1, <1>2, <1>3, <1>4 DEF DecisionsHold, InEngine, From, To, Op, Job
<1>8. OneSenderPerDecision'
  BY <1>1, <1>2, <1>3, <1>6 DEF OneSenderPerDecision, InEngine
<1>9. /\ op = "approve" => Silent(originals, a)
      /\ op = "cancel" => Silent(retractions, a)
  BY <1>1 DEF OpenMeansSilent, RetractedStaysCancelled, From
<1>10. TailUntouched'
  BY <1>1, <1>2, <1>3, <1>9 DEF TailUntouched, Untouched, InEngine, Silent
<1>11. OpenMeansSilent' /\ RetractedStaysCancelled'
  BY <1>1 DEF OpenMeansSilent, RetractedStaysCancelled, Silent, From, To, Op
<1>12. UnsendableSilent' /\ AtMostOneBroadcast'
  BY <1>1 DEF UnsendableSilent, AtMostOneBroadcast, Silent
<1>13. QED BY <1>5, <1>7, <1>8, <1>10, <1>11, <1>12

\* The payload is rejected or accepted; no provider is called yet.
LEMMA BuildStep ==
  ASSUME IInv, TypeInv', NEW w \in Worker,
         PayloadRejected(w) \/ EnterProviderLoop(w)
  PROVE  IInv'
<1> USE DEF IInv, PayloadRejected, EnterProviderLoop, Goto, table, outbox, TypeInv, TypeOK
<1>1. EngineOK'
  BY DEF EngineOK
<1>2. DecisionsHold'
  BY DEF DecisionsHold, InEngine
<1>3. OneSenderPerDecision'
  BY DEF OneSenderPerDecision, InEngine
<1>4. TailUntouched'
  BY DEF TailUntouched, Untouched, InEngine
<1>5. OpenMeansSilent' /\ RetractedStaysCancelled' /\ UnsendableSilent' /\ AtMostOneBroadcast'
  BY DEF OpenMeansSilent, RetractedStaysCancelled, UnsendableSilent, AtMostOneBroadcast, Silent
<1>6. QED BY <1>1, <1>2, <1>3, <1>4, <1>5

\* A provider is called for the alert or for its retraction, the first time.
LEMMA SendStep ==
  ASSUME IInv, TypeInv', NEW w \in Worker, NEW ok \in BOOLEAN, SendVia(w, ok)
  PROVE  IInv'
<1> USE DEF IInv, TypeInv, TypeOK
<1> DEFINE a == job[w].alert
           p == cursor[w]
           ap == <<a, p>>
<1>1. /\ job[w] \in Job /\ a \in Alert /\ p \in Provider /\ ap \in Alert \X Provider
      /\ job[w].op \in {"approve", "cancel"}
      /\ row[a].cap = "Actual" /\ row[a].named
      /\ pc[w] = "send" /\ pc' = pc /\ job' = job /\ status' = status /\ row' = row
      /\ cursor' = [cursor EXCEPT ![w] = @ + 1]
  BY NumProvidersAssumption DEF SendVia, JobOK, Job, Op, EngineOK, Provider, table
<1>2. EngineOK' /\ DecisionsHold' /\ OneSenderPerDecision'
  BY <1>1 DEF EngineOK, DecisionsHold, OneSenderPerDecision, InEngine
<1>3. \A v \in Worker \ {w} : cursor'[v] = cursor[v]
  BY <1>1
<1>4. CASE job[w].op = "approve"
  <2>1. /\ retractions' = retractions
        /\ originals' = [originals EXCEPT ![ap] = @ + 1]
    BY <1>4 DEF SendVia
  <2>2. originals[ap] = 0 /\ status[a] \in {"approved", "cancelled"}
    BY <1>1, <1>4 DEF TailUntouched, Untouched, InEngine, DecisionsHold
  <2>3. \A x \in Alert \X Provider : originals'[x] = IF x = ap THEN 1 ELSE originals[x]
    BY <1>1, <2>1, <2>2
  <2>4. \A b \in Alert, q \in Provider :
          originals'[<<b, q>>] = IF b = a /\ q = p THEN 1 ELSE originals[<<b, q>>]
    BY <1>1, <2>3
  <2>5. \A v \in Worker : InEngine(v, "approve") /\ job[v].alert = a => v = w
    BY <1>1, <1>4 DEF OneSenderPerDecision, InEngine, Op
  <2>6. \A v \in Worker : InEngine(v, "approve") => job[v].alert \in Alert
    BY DEF InEngine, JobOK, Job
  <2>7. \A v \in Worker : InEngine(v, "approve") => Untouched(originals, v)'
    <3> SUFFICES ASSUME NEW v \in Worker, InEngine(v, "approve"), NEW q \in Provider,
                        pc[v] = "build" \/ (pc[v] = "send" /\ q >= cursor'[v])
                 PROVE  originals'[<<job[v].alert, q>>] = 0
      BY <1>1 DEF Untouched
    <3>1. CASE v = w
      BY <1>1, <1>4, <2>4, <3>1 DEF TailUntouched, Untouched, InEngine, Provider
    <3>2. CASE v # w
      <4>1. originals[<<job[v].alert, q>>] = 0
        BY <1>3, <3>2 DEF TailUntouched, Untouched
      <4>2. QED BY <2>4, <2>5, <2>6, <3>2, <4>1
    <3>3. QED BY <3>1, <3>2
  <2>8. \A v \in Worker : InEngine(v, "cancel") => Untouched(retractions, v)'
    <3> SUFFICES ASSUME NEW v \in Worker, InEngine(v, "cancel"), NEW q \in Provider,
                        pc[v] = "build" \/ (pc[v] = "send" /\ q >= cursor'[v])
                 PROVE  retractions[<<job[v].alert, q>>] = 0
      BY <1>1, <2>1 DEF Untouched
    <3>1. v # w
      BY <1>4 DEF InEngine
    <3>2. QED BY <1>3, <3>1 DEF TailUntouched, Untouched
  <2>9. TailUntouched'
    BY <1>1, <2>7, <2>8 DEF TailUntouched, InEngine
  <2>10. OpenMeansSilent' /\ RetractedStaysCancelled' /\ UnsendableSilent'
    BY <1>1, <2>1, <2>2, <2>4
       DEF OpenMeansSilent, RetractedStaysCancelled, UnsendableSilent, Silent
  <2>11. AtMostOneBroadcast'
    <3> SUFFICES ASSUME NEW x \in Alert \X Provider
                 PROVE  originals'[x] <= 1 /\ retractions'[x] <= 1
      BY DEF AtMostOneBroadcast, Provider
    <3>1. originals[x] <= 1 /\ retractions[x] <= 1
      BY DEF AtMostOneBroadcast
    <3> HIDE DEF ap, IInv, TypeInv, TypeOK
    <3>2. QED BY <2>1, <2>3, <3>1
  <2>12. QED BY <1>2, <2>9, <2>10, <2>11
<1>5. CASE job[w].op = "cancel"
  <2>1. /\ originals' = originals
        /\ retractions' = [retractions EXCEPT ![ap] = @ + 1]
    BY <1>5 DEF SendVia
  <2>2. retractions[ap] = 0 /\ status[a] = "cancelled"
    BY <1>1, <1>5 DEF TailUntouched, Untouched, InEngine, DecisionsHold
  <2>3. \A x \in Alert \X Provider : retractions'[x] = IF x = ap THEN 1 ELSE retractions[x]
    BY <1>1, <2>1, <2>2
  <2>4. \A b \in Alert, q \in Provider :
          retractions'[<<b, q>>] = IF b = a /\ q = p THEN 1 ELSE retractions[<<b, q>>]
    BY <1>1, <2>3
  <2>5. \A v \in Worker : InEngine(v, "cancel") /\ job[v].alert = a => v = w
    BY <1>1, <1>5 DEF OneSenderPerDecision, InEngine, Op
  <2>6. \A v \in Worker : InEngine(v, "cancel") => job[v].alert \in Alert
    BY DEF InEngine, JobOK, Job
  <2>7. \A v \in Worker : InEngine(v, "cancel") => Untouched(retractions, v)'
    <3> SUFFICES ASSUME NEW v \in Worker, InEngine(v, "cancel"), NEW q \in Provider,
                        pc[v] = "build" \/ (pc[v] = "send" /\ q >= cursor'[v])
                 PROVE  retractions'[<<job[v].alert, q>>] = 0
      BY <1>1 DEF Untouched
    <3>1. CASE v = w
      BY <1>1, <1>5, <2>4, <3>1 DEF TailUntouched, Untouched, InEngine, Provider
    <3>2. CASE v # w
      <4>1. retractions[<<job[v].alert, q>>] = 0
        BY <1>3, <3>2 DEF TailUntouched, Untouched
      <4>2. QED BY <2>4, <2>5, <2>6, <3>2, <4>1
    <3>3. QED BY <3>1, <3>2
  <2>8. \A v \in Worker : InEngine(v, "approve") => Untouched(originals, v)'
    <3> SUFFICES ASSUME NEW v \in Worker, InEngine(v, "approve"), NEW q \in Provider,
                        pc[v] = "build" \/ (pc[v] = "send" /\ q >= cursor'[v])
                 PROVE  originals[<<job[v].alert, q>>] = 0
      BY <1>1, <2>1 DEF Untouched
    <3>1. v # w
      BY <1>5 DEF InEngine
    <3>2. QED BY <1>3, <3>1 DEF TailUntouched, Untouched
  <2>9. TailUntouched'
    BY <1>1, <2>7, <2>8 DEF TailUntouched, InEngine
  <2>10. OpenMeansSilent' /\ RetractedStaysCancelled' /\ UnsendableSilent'
    BY <1>1, <2>1, <2>2, <2>4
       DEF OpenMeansSilent, RetractedStaysCancelled, UnsendableSilent, Silent
  <2>11. AtMostOneBroadcast'
    <3> SUFFICES ASSUME NEW x \in Alert \X Provider
                 PROVE  originals'[x] <= 1 /\ retractions'[x] <= 1
      BY DEF AtMostOneBroadcast, Provider
    <3>1. originals[x] <= 1 /\ retractions[x] <= 1
      BY DEF AtMostOneBroadcast
    <3> HIDE DEF ap, IInv, TypeInv, TypeOK
    <3>2. QED BY <2>1, <2>3, <3>1
  <2>12. QED BY <1>2, <2>9, <2>10, <2>11
<1>6. QED BY <1>1, <1>4, <1>5

\* A decision is handed back only for an alert that nothing went out for.
LEMMA ReleaseStep ==
  ASSUME IInv, TypeInv', NEW w \in Worker, Release(w)
  PROVE  IInv'
<1> USE DEF IInv, TypeInv, TypeOK
<1> DEFINE a == job[w].alert
           op == job[w].op
<1>1. /\ job[w] \in Job /\ a \in Alert /\ op \in {"approve", "cancel"}
      /\ ~row[a].named /\ InEngine(w, op)
      /\ UNCHANGED <<row, originals, retractions>>
      /\ pc' = [pc EXCEPT ![w] = "idle"]
  BY DEF Release, JobOK, Job, Op, EngineOK, InEngine, EndRequest, Goto, outbox
<1>2. \A v \in Worker \ {w} : pc'[v] = pc[v] /\ job'[v] = job[v] /\ cursor'[v] = cursor[v]
  BY DEF Release, EndRequest, Goto
<1>3. \/ status' = status
      \/ status[a] = To(op) /\ status' = [status EXCEPT ![a] = From(op)]
  BY DEF Release, Matches
<1>4. EngineOK'
  BY <1>1, <1>2 DEF EngineOK
<1>5. OneSenderPerDecision'
  BY <1>1, <1>2 DEF OneSenderPerDecision, InEngine
<1>6. TailUntouched'
  BY <1>1, <1>2 DEF TailUntouched, Untouched, InEngine
<1>7. Silent(originals, a) /\ Silent(retractions, a)
  BY <1>1 DEF UnsendableSilent
<1>8. \A v \in Worker \ {w} : InEngine(v, op) => job[v].alert # a
  BY <1>1 DEF OneSenderPerDecision, Op
<1>9. \A v \in Worker : pc[v] # "idle" => job[v].alert \in Alert
  BY DEF JobOK, Job
<1>10. DecisionsHold'
  <2>1. CASE status' = status
    BY <1>1, <1>2, <2>1 DEF DecisionsHold, InEngine
  <2>2. CASE op = "approve" /\ status[a] = "approved" /\ status' = [status EXCEPT ![a] = "pending"]
    BY <1>1, <1>2, <1>8, <1>9, <2>2 DEF DecisionsHold, InEngine
  <2>3. CASE op = "cancel" /\ status[a] = "cancelled" /\ status' = [status EXCEPT ![a] = "approved"]
    BY <1>1, <1>2, <1>8, <1>9, <2>3 DEF DecisionsHold, InEngine
  <2>4. QED BY <1>1, <1>3, <2>1, <2>2, <2>3 DEF To, From
<1>11. OpenMeansSilent' /\ RetractedStaysCancelled'
  BY <1>1, <1>3, <1>7 DEF OpenMeansSilent, RetractedStaysCancelled, Silent
<1>12. UnsendableSilent' /\ AtMostOneBroadcast'
  BY <1>1 DEF UnsendableSilent, AtMostOneBroadcast, Silent
<1>13. QED BY <1>4, <1>5, <1>6, <1>10, <1>11, <1>12

LEMMA StepIInv == IInv /\ [Next]_vars => IInv'
<1> SUFFICES ASSUME IInv, [Next]_vars PROVE IInv'
  OBVIOUS
<1> USE DEF TypeInv, TypeOK
<1>0. TypeInv /\ TypeInv'
  BY StepTypeInv DEF IInv
<1>1. ASSUME NEW a \in Alert, NEW named \in BOOLEAN, NEW score \in Score,
             NEW exercise \in BOOLEAN, AssessDistrict(a, named, score, exercise)
      PROVE  IInv'
  <2>1. \A b \in Alert : b # a => row'[b] = row[b]
    BY <1>0, <1>1 DEF AssessDistrict
  <2>2. QED BY <1>0, <1>1, <2>1, QueueStep DEF AssessDistrict
<1>2. ASSUME NEW a \in Alert, NEW named \in BOOLEAN, NEW tier \in DrillTier,
             CreateExerciseAlert(a, named, tier)
      PROVE  IInv'
  <2>1. \A b \in Alert : b # a => row'[b] = row[b]
    BY <1>0, <1>2 DEF CreateExerciseAlert
  <2>2. QED BY <1>0, <1>2, <2>1, QueueStep DEF CreateExerciseAlert
<1>3. ASSUME NEW w \in Worker, NEW op \in Op, NEW a \in Alert, NEW key \in Key,
             ReadForDecision(w, op, a, key)
      PROVE  IInv'
  BY <1>0, <1>3, ReadStep
<1>4. ASSUME NEW w \in Worker, ClaimWon(w) PROVE IInv'
  BY <1>0, <1>4, ClaimStep
<1>5. ASSUME NEW w \in Worker,
             ClaimLost(w) \/ BelowThreshold(w) \/ FinishProcess(w) \/ WorkerDies(w)
      PROVE  IInv'
  <2>1. UNCHANGED <<table, outbox>>
    BY <1>5 DEF ClaimLost, BelowThreshold, FinishProcess, WorkerDies
  <2>2. EndRequest(w)
    BY <1>5 DEF ClaimLost, BelowThreshold, FinishProcess, WorkerDies
  <2>3. \A v \in Worker :
          \/ pc'[v] = "idle"
          \/ pc'[v] = pc[v] /\ job'[v] = job[v] /\ cursor'[v] = cursor[v]
    BY <1>0, <2>2 DEF EndRequest, Goto
  <2>4. QED BY <1>0, <2>1, <2>3, LeavingStep
<1>6. ASSUME NEW w \in Worker, PayloadRejected(w) \/ EnterProviderLoop(w) PROVE IInv'
  BY <1>0, <1>6, BuildStep
<1>7. ASSUME NEW w \in Worker, NEW ok \in BOOLEAN, SendVia(w, ok) PROVE IInv'
  BY <1>0, <1>7, SendStep
<1>8. ASSUME NEW w \in Worker, Release(w) PROVE IInv'
  BY <1>0, <1>8, ReleaseStep
<1>9. ASSUME NEW t \in Threshold, Redeploy(t) PROVE IInv'
  <2>1. UNCHANGED <<table, outbox>> /\ \A v \in Worker : pc'[v] = "idle"
    BY <1>9 DEF Redeploy
  <2>2. QED BY <1>0, <2>1, LeavingStep
<1>10. CASE UNCHANGED vars
  <2>1. UNCHANGED <<table, outbox, pc, job, cursor>>
    BY <1>10 DEF vars
  <2>2. QED BY <1>0, <2>1, LeavingStep
<1>11. QED
  BY <1>1, <1>2, <1>3, <1>4, <1>5, <1>6, <1>7, <1>8, <1>9, <1>10
     DEF Next, Handle, Process

\* The inductive invariant holds in every reachable state.
THEOREM Invariance == Spec => []IInv
BY InitIInv, StepIInv, PTL DEF Spec

\* An alert, and its retraction, reach each provider at most once.
THEOREM AtMostOnce == Spec => []AtMostOneBroadcast
<1>1. IInv => AtMostOneBroadcast BY DEF IInv
<1>2. QED BY Invariance, <1>1, PTL

\* Nothing went out for an alert that is open to review or dismissed.
THEOREM OpenAlertsAreSilent == Spec => []OpenMeansSilent
<1>1. IInv => OpenMeansSilent BY DEF IInv
<1>2. QED BY Invariance, <1>1, PTL

\* A cancellation whose retraction went out is never undone.
THEOREM RetractionsStand == Spec => []RetractedStaysCancelled
<1>1. IInv => RetractedStaysCancelled BY DEF IInv
<1>2. QED BY Invariance, <1>1, PTL

\* No drill ever reaches a provider.
THEOREM DrillsNeverSent == Spec => []DrillsStaySilent
<1>1. IInv => DrillsStaySilent BY DEF IInv, UnsendableSilent, DrillsStaySilent
<1>2. QED BY Invariance, <1>1, PTL

\* Two workers never send for the same decision at the same time.
THEOREM OneSender == Spec => []OneSenderPerDecision
<1>1. IInv => OneSenderPerDecision BY DEF IInv
<1>2. QED BY Invariance, <1>1, PTL

\* The key check made on the first read still holds while the request runs.
KeyChecked ==
  \A w \in Worker : pc[w] # "idle" => KeyAccepted(job[w].key, job[w].seen)

LEMMA StepKeyChecked == TypeInv /\ KeyChecked /\ [Next]_vars => KeyChecked'
<1> SUFFICES ASSUME TypeInv, KeyChecked, [Next]_vars PROVE KeyChecked'
  OBVIOUS
<1> USE DEF KeyChecked, TypeInv, TypeOK
<1>1. ASSUME \A v \in Worker : pc'[v] = "idle" \/ (pc[v] # "idle" /\ job'[v] = job[v])
      PROVE  KeyChecked'
  BY <1>1
<1>2. ASSUME UNCHANGED <<pc, job>> PROVE KeyChecked'
  BY <1>2
<1>3. ASSUME NEW a \in Alert, NEW named \in BOOLEAN,
             \/ \E score \in Score, exercise \in BOOLEAN :
                  AssessDistrict(a, named, score, exercise)
             \/ \E tier \in DrillTier : CreateExerciseAlert(a, named, tier)
      PROVE  KeyChecked'
  BY <1>2, <1>3 DEF AssessDistrict, CreateExerciseAlert
<1>4. ASSUME NEW w \in Worker, NEW op \in Op, NEW a \in Alert, NEW key \in Key,
             ReadForDecision(w, op, a, key)
      PROVE  KeyChecked'
  <2>1. /\ job'[w].key = key /\ job'[w].seen = row[a]
        /\ KeyAccepted(key, row[a])
        /\ \A v \in Worker \ {w} : pc'[v] = pc[v] /\ job'[v] = job[v]
    BY <1>4 DEF ReadForDecision, Goto
  <2>2. QED BY <2>1
<1>5. ASSUME NEW w \in Worker, pc[w] # "idle",
             \/ EndRequest(w)
             \/ job' = job /\ \E label \in {"build", "send", "release"} : Goto(w, label)
      PROVE  KeyChecked'
  BY <1>1, <1>5 DEF EndRequest, Goto
<1>6. ASSUME NEW w \in Worker, ClaimWon(w) PROVE KeyChecked'
  BY <1>5, <1>6 DEF ClaimWon
<1>7. ASSUME NEW w \in Worker,
             \/ ClaimLost(w) \/ PayloadRejected(w) \/ BelowThreshold(w)
             \/ EnterProviderLoop(w) \/ FinishProcess(w) \/ Release(w) \/ WorkerDies(w)
      PROVE  KeyChecked'
  BY <1>5, <1>7 DEF ClaimLost, PayloadRejected, BelowThreshold, EnterProviderLoop,
                    FinishProcess, Release, WorkerDies
<1>8. ASSUME NEW w \in Worker, NEW ok \in BOOLEAN, SendVia(w, ok) PROVE KeyChecked'
  BY <1>2, <1>8 DEF SendVia
<1>9. ASSUME NEW t \in Threshold, Redeploy(t) PROVE KeyChecked'
  BY <1>9 DEF Redeploy
<1>10. CASE UNCHANGED vars
  BY <1>2, <1>10 DEF vars
<1>11. QED
  BY <1>3, <1>4, <1>6, <1>7, <1>8, <1>9, <1>10 DEF Next, Handle, Process

\* With a key configured, no worker decides a real alert without the key: the
\* check made on the row as it was first read still speaks of the row.
THEOREM KeyGuarded == Spec => []KeyGuardsRealAlerts
<1>1. Init => KeyChecked
  BY DEF Init, KeyChecked
<1>2. IInv /\ KeyChecked => KeyGuardsRealAlerts
  BY DEF IInv, TypeInv, JobOK, KeyChecked, KeyAccepted, KeyGuardsRealAlerts
<1>3. IInv => TypeInv BY DEF IInv
<1>4. QED BY Invariance, StepKeyChecked, <1>1, <1>2, <1>3, PTL DEF Spec
-----------------------------------------------------------------------------
(* AlertReview implements AlertLifecycle: whatever the workers, the crashes  *)
(* and the redeployments do, the table and the outbox only ever take the     *)
(* steps the abstract queue allows, or stand still.                          *)

drills == {a \in Alert : status[a] # "absent" /\ row[a].cap = "Exercise"}

LEMMA InitRefines == Init => Lifecycle!Init
BY DEF Init, Lifecycle!Init

\* A new row is queued, as a drill or not.
LEMMA QueueRefines ==
  ASSUME TypeInv,
         NEW a \in Alert, NEW r \in Row,
         status[a] = "absent",
         status' = [status EXCEPT ![a] = "pending"],
         row' = [row EXCEPT ![a] = r],
         UNCHANGED outbox
  PROVE  Lifecycle!Queue(a)
<1> USE DEF TypeInv, TypeOK
<1>1. drills' = IF r.cap = "Exercise" THEN drills \cup {a} ELSE drills
  BY DEF drills
<1>2. Lifecycle!Move(a, "absent", "pending")
  BY DEF Lifecycle!Move
<1>3. QED
  BY <1>1, <1>2 DEF Lifecycle!Queue, outbox, drills

\* A step that leaves the table and the outbox alone is a stutter.
LEMMA StutterRefines ==
  ASSUME UNCHANGED <<table, outbox>>
  PROVE  UNCHANGED Lifecycle!vars
BY DEF table, outbox, Lifecycle!vars

\* No step but an insert changes which alerts are drills.
LEMMA DrillsUnchanged ==
  ASSUME row' = row,
         \A a \in Alert : (status'[a] = "absent") = (status[a] = "absent")
  PROVE  drills' = drills
BY DEF drills

LEMMA ClaimRefines ==
  ASSUME TypeInv, NEW w \in Worker, ClaimWon(w)
  PROVE  \E a \in Alert : Lifecycle!Decide(a)
<1> USE DEF TypeInv, TypeOK
<1> DEFINE a == job[w].alert
           op == job[w].op
<1>1. /\ a \in Alert /\ op \in Op
      /\ status[a] = From(op)
      /\ status' = [status EXCEPT ![a] = To(op)]
      /\ UNCHANGED <<row, outbox>>
  BY DEF ClaimWon, JobOK, Job, Matches
<1>2. drills' = drills
  BY <1>1, FromToTypes, DrillsUnchanged
<1>3. \/ Lifecycle!Move(a, "pending", "approved")
      \/ Lifecycle!Move(a, "pending", "dismissed")
      \/ Lifecycle!Move(a, "approved", "cancelled")
  BY <1>1 DEF Lifecycle!Move, From, To, Op
<1>4. Lifecycle!Decide(a)
  BY <1>1, <1>2, <1>3 DEF Lifecycle!Decide, drills, outbox
<1>5. QED BY <1>1, <1>4

LEMMA ReleaseRefines ==
  ASSUME IInv, NEW w \in Worker, Release(w)
  PROVE  \/ \E a \in Alert : Lifecycle!HandBack(a) \/ Lifecycle!Reinstate(a)
         \/ UNCHANGED Lifecycle!vars
<1> USE DEF IInv, TypeInv, TypeOK
<1> DEFINE a == job[w].alert
           op == job[w].op
<1>1. /\ a \in Alert /\ op \in {"approve", "cancel"} /\ ~row[a].named
      /\ UNCHANGED <<row, outbox>>
  BY DEF Release, JobOK, Job, Op, EngineOK
<1>2. Silent(originals, a) /\ Silent(retractions, a)
  BY <1>1 DEF UnsendableSilent
<1>3. CASE status' = status
  BY <1>1, <1>3, StutterRefines DEF table
<1>4. CASE /\ op = "approve" /\ status[a] = "approved"
           /\ status' = [status EXCEPT ![a] = "pending"]
  <2>1. drills' = drills
    BY <1>1, <1>4, DrillsUnchanged
  <2>2. Lifecycle!HandBack(a)
    BY <1>1, <1>2, <1>4, <2>1
       DEF Lifecycle!HandBack, Lifecycle!Move, Lifecycle!Silent, Silent, drills, outbox
  <2>3. QED BY <1>1, <2>2
<1>5. CASE /\ op = "cancel" /\ status[a] = "cancelled"
           /\ status' = [status EXCEPT ![a] = "approved"]
  <2>1. drills' = drills
    BY <1>1, <1>5, DrillsUnchanged
  <2>2. Lifecycle!Reinstate(a)
    BY <1>1, <1>2, <1>5, <2>1
       DEF Lifecycle!Reinstate, Lifecycle!Move, Lifecycle!Silent, Silent, drills, outbox
  <2>3. QED BY <1>1, <2>2
<1>6. QED BY <1>1, <1>3, <1>4, <1>5 DEF Release, Matches, From, To

LEMMA SendRefines ==
  ASSUME IInv, NEW w \in Worker, NEW ok \in BOOLEAN, SendVia(w, ok)
  PROVE  \E a \in Alert, p \in Provider : Lifecycle!Announce(a, p) \/ Lifecycle!Withdraw(a, p)
<1> USE DEF IInv, TypeInv, TypeOK
<1> DEFINE a == job[w].alert
           p == cursor[w]
<1>1. /\ a \in Alert /\ p \in Provider
      /\ job[w].op \in {"approve", "cancel"}
      /\ row[a].cap = "Actual"
      /\ pc[w] = "send" /\ UNCHANGED <<status, row>>
  BY NumProvidersAssumption DEF SendVia, JobOK, Job, Op, EngineOK, Provider, table
<1>2. a \notin drills /\ drills' = drills
  BY <1>1 DEF drills
<1>3. CASE job[w].op = "approve"
  <2>1. originals[<<a, p>>] = 0 /\ status[a] \in {"approved", "cancelled"}
    BY <1>1, <1>3 DEF TailUntouched, Untouched, InEngine, DecisionsHold
  <2>2. originals' = [originals EXCEPT ![<<a, p>>] = 1] /\ retractions' = retractions
    BY <1>3, <2>1 DEF SendVia
  <2>3. Lifecycle!Announce(a, p)
    BY <1>1, <1>2, <2>1, <2>2 DEF Lifecycle!Announce, drills
  <2>4. QED BY <1>1, <2>3
<1>4. CASE job[w].op = "cancel"
  <2>1. retractions[<<a, p>>] = 0 /\ status[a] = "cancelled"
    BY <1>1, <1>4 DEF TailUntouched, Untouched, InEngine, DecisionsHold
  <2>2. retractions' = [retractions EXCEPT ![<<a, p>>] = 1] /\ originals' = originals
    BY <1>4, <2>1 DEF SendVia
  <2>3. Lifecycle!Withdraw(a, p)
    BY <1>1, <1>2, <2>1, <2>2 DEF Lifecycle!Withdraw, drills
  <2>4. QED BY <1>1, <2>3
<1>5. QED BY <1>1, <1>3, <1>4

LEMMA StepRefines == IInv /\ [Next]_vars => [Lifecycle!Next]_(Lifecycle!vars)
<1> SUFFICES ASSUME IInv, [Next]_vars
             PROVE  Lifecycle!Next \/ UNCHANGED Lifecycle!vars
  OBVIOUS
<1>1. TypeInv
  BY DEF IInv
<1>2. ASSUME NEW a \in Alert, NEW named \in BOOLEAN, NEW score \in Score,
             NEW exercise \in BOOLEAN, AssessDistrict(a, named, score, exercise)
      PROVE  Lifecycle!Next
  <2> DEFINE r == [cap |-> IF exercise THEN "Exercise" ELSE "Actual",
                   named |-> named, score |-> score]
  <2>1. r \in Row
    BY ScoreAssumption DEF Row
  <2>2. QED BY <1>1, <1>2, <2>1, QueueRefines DEF AssessDistrict, Lifecycle!Next
<1>3. ASSUME NEW a \in Alert, NEW named \in BOOLEAN, NEW tier \in DrillTier,
             CreateExerciseAlert(a, named, tier)
      PROVE  Lifecycle!Next
  <2> DEFINE r == [cap |-> "Exercise", named |-> named, score |-> TierMidpointScore[tier]]
  <2>1. r \in Row
    BY DrillTierAssumption DEF Row, TierMidpointScore
  <2>2. QED BY <1>1, <1>3, <2>1, QueueRefines DEF CreateExerciseAlert, Lifecycle!Next
<1>4. ASSUME NEW w \in Worker, ClaimWon(w) PROVE Lifecycle!Next
  BY <1>1, <1>4, ClaimRefines DEF Lifecycle!Next
<1>5. ASSUME NEW w \in Worker, NEW ok \in BOOLEAN, SendVia(w, ok) PROVE Lifecycle!Next
  BY <1>5, SendRefines DEF Lifecycle!Next
<1>6. ASSUME NEW w \in Worker, Release(w)
      PROVE  Lifecycle!Next \/ UNCHANGED Lifecycle!vars
  BY <1>6, ReleaseRefines DEF Lifecycle!Next
<1>7. ASSUME UNCHANGED <<table, outbox>> PROVE UNCHANGED Lifecycle!vars
  BY <1>7, StutterRefines
<1>8. ASSUME NEW w \in Worker,
             \/ \E op \in Op, a \in Alert, key \in Key : ReadForDecision(w, op, a, key)
             \/ ClaimLost(w) \/ PayloadRejected(w) \/ BelowThreshold(w)
             \/ EnterProviderLoop(w) \/ FinishProcess(w) \/ WorkerDies(w)
      PROVE  UNCHANGED <<table, outbox>>
  BY <1>8 DEF ReadForDecision, ClaimLost, PayloadRejected, BelowThreshold,
              EnterProviderLoop, FinishProcess, WorkerDies
<1>9. ASSUME NEW t \in Threshold, Redeploy(t) PROVE UNCHANGED <<table, outbox>>
  BY <1>9 DEF Redeploy
<1>10. CASE UNCHANGED vars
  BY <1>7, <1>10 DEF vars
<1>11. QED
  BY <1>2, <1>3, <1>4, <1>5, <1>6, <1>7, <1>8, <1>9, <1>10 DEF Next, Handle, Process

\* The review queue of the code implements the abstract queue.
THEOREM Refinement == Spec => ImplementsLifecycle
BY Invariance, InitRefines, StepRefines, PTL DEF Spec, ImplementsLifecycle, Lifecycle!Spec
=============================================================================
