----------------------- MODULE PredictionLedger_proofs ----------------------
(***************************************************************************)
(* Proofs about the prediction ledger, for every value of the constants:   *)
(* its type invariant, the stability of a curator's settled verdict, and   *)
(* the evidence every recorded confirmation rests on.                      *)
(***************************************************************************)
EXTENDS PredictionLedger, SequenceTheorems, FiniteSetTheorems, TLAPS

\* A pending row names no source and a handler under way holds a verdict:
\* what the type invariant lacks to be used by the theorem on verdicts.
PendingUnsourced ==
  /\ \A id \in Id : ledger[id].outcome = "pending" => ledger[id].source = {}
  /\ \A w \in Worker : call[w] # NoCall => call[w].outcome # "pending"

LInv == TypeOK /\ PendingUnsourced

\* verify_outcome returns a verdict: one of two outcomes and known sources.
LEMMA VerdictType ==
  ASSUME NEW row, NEW up \in SUBSET Source
  PROVE  /\ VerifyOutcome(row, up).outcome \in {"flood_confirmed", "no_evidence_found"}
         /\ VerifyOutcome(row, up).source \in SUBSET Source
BY DEF VerifyOutcome

\* Writing an outcome keeps the rows' type and number, and touches one row.
LEMMA WriteType ==
  ASSUME ledger \in Seq(Row), NEW id \in Id, NEW outcome \in Outcome,
         NEW source \in SUBSET Origin,
         WriteOutcome(id, outcome, source)
  PROVE  /\ ledger' \in Seq(Row) /\ Id' = Id
         /\ ledger'[id].outcome = outcome /\ ledger'[id].source = source
         /\ ledger'[id].district = ledger[id].district /\ ledger'[id].made = ledger[id].made
         /\ \A other \in Id \ {id} : ledger'[other] = ledger[other]
<1> DEFINE new == [district |-> ledger[id].district, made |-> ledger[id].made,
                   outcome |-> outcome, source |-> source]
<1>1. id \in 1 .. Len(ledger) /\ Id = 1 .. Len(ledger)
  BY LenProperties DEF Id
<1>2. ledger[id] \in Row
  BY <1>1, ElementOfSeq
<1>3. new \in Row
  BY <1>2 DEF Row
<1>4. ledger' = [ledger EXCEPT ![id] = new]
  BY DEF WriteOutcome
<1> HIDE DEF new
<1>5. /\ ledger' \in Seq(Row) /\ Len(ledger') = Len(ledger)
      /\ \A j \in 1 .. Len(ledger) : ledger'[j] = IF j = id THEN new ELSE ledger[j]
  BY <1>1, <1>3, <1>4, ExceptSeq
<1>6. Id' = 1 .. Len(ledger')
  BY <1>5, LenProperties DEF Id
<1>7. /\ new.outcome = outcome /\ new.source = source
      /\ new.district = ledger[id].district /\ new.made = ledger[id].made
  BY DEF new
<1> QED BY <1>1, <1>5, <1>6, <1>7

\* So does a curator's verdict, which says nothing the job would say.
LEMMA CurateType ==
  ASSUME ledger \in Seq(Row), NEW id \in Id,
         NEW outcome \in {"flood_confirmed", "no_flood_confirmed"},
         NEW words \in SUBSET {"clipping"}, Curate(id, outcome, words)
  PROVE  /\ ledger' \in Seq(Row) /\ Id' = Id
         /\ ledger'[id].outcome = outcome /\ ledger'[id].source = {"curator"} \cup words
         /\ ledger'[id].district = ledger[id].district /\ ledger'[id].made = ledger[id].made
         /\ \A other \in Id \ {id} : ledger'[other] = ledger[other]
         /\ UNCHANGED <<today, seen, job, todo, waiting, call, ran, missed, failures>>
<1> DEFINE said == {"curator"} \cup words
<1>1. said \in SUBSET Origin
  BY DEF Origin
<1>2. outcome \in Outcome
  BY DEF Outcome
<1>3. WriteOutcome(id, outcome, said)
  BY DEF Curate
<1> HIDE DEF said
<1>4. /\ ledger' \in Seq(Row) /\ Id' = Id
      /\ ledger'[id].outcome = outcome /\ ledger'[id].source = said
      /\ ledger'[id].district = ledger[id].district /\ ledger'[id].made = ledger[id].made
      /\ \A other \in Id \ {id} : ledger'[other] = ledger[other]
  BY <1>1, <1>2, <1>3, WriteType
<1>5. UNCHANGED <<today, seen, job, todo, waiting, call, ran, missed, failures>>
  BY DEF Curate, run
<1> QED BY <1>4, <1>5 DEF said

\* Recording a prediction appends one pending row and keeps the others.
LEMMA RecordType ==
  ASSUME ledger \in Seq(Row), today \in Nat, NEW d \in District, RecordPrediction(d)
  PROVE  /\ ledger' \in Seq(Row) /\ Id \subseteq Id'
         /\ \A id \in Id : ledger'[id] = ledger[id]
         /\ \A id \in Id' \ Id : ledger'[id].outcome = "pending" /\ ledger'[id].source = {}
<1> DEFINE new == [district |-> d, made |-> today, outcome |-> "pending", source |-> {}]
<1>1. new \in Row
  BY DEF Row, Outcome
<1>2. ledger' = Append(ledger, new)
  BY DEF RecordPrediction
<1>3. new.outcome = "pending" /\ new.source = {}
  OBVIOUS
<1> HIDE DEF new
<1>4. /\ ledger' \in Seq(Row) /\ Len(ledger') = Len(ledger) + 1
      /\ \A i \in 1 .. Len(ledger) : ledger'[i] = ledger[i]
      /\ ledger'[Len(ledger) + 1] = new
  BY <1>1, <1>2, AppendProperties
<1>5. Len(ledger) \in Nat /\ Id = 1 .. Len(ledger) /\ Id' = 1 .. Len(ledger')
  BY <1>4, LenProperties DEF Id
<1> QED BY <1>3, <1>4, <1>5
-----------------------------------------------------------------------------
LEMMA InitLInv == Init => LInv
<1> SUFFICES ASSUME Init PROVE LInv
  OBVIOUS
<1>1. Id = {}
  BY DEF Init, Id
<1>2. ledger \in Seq(Row)
  BY EmptySeq DEF Init
<1>3. NoCall \in Call
  BY DEF NoCall, Call, Outcome
<1> QED BY <1>1, <1>2, <1>3 DEF Init, LInv, TypeOK, PendingUnsourced

\* A step that leaves the rows alone keeps the ids.
LEMMA SameRows ==
  ASSUME UNCHANGED ledger
  PROVE  Id' = Id
BY DEF Id

\* Every action keeps the types and the two facts about verdicts.
LEMMA StepLInv == LInv /\ [Next]_vars => LInv'
<1> SUFFICES ASSUME LInv, [Next]_vars PROVE LInv'
  OBVIOUS
<1> USE DEF LInv, TypeOK, PendingUnsourced, run, bounds
<1>1. ASSUME NEW d \in District, RecordPrediction(d) PROVE LInv'
  <2>1. /\ ledger' \in Seq(Row) /\ Id \subseteq Id'
        /\ \A id \in Id : ledger'[id] = ledger[id]
        /\ \A id \in Id' \ Id : ledger'[id].outcome = "pending" /\ ledger'[id].source = {}
    BY <1>1, RecordType
  <2> QED BY <1>1, <2>1 DEF RecordPrediction
<1>2. ASSUME NEW id \in Id, NEW outcome \in {"flood_confirmed", "no_flood_confirmed"},
             NEW words \in SUBSET {"clipping"}, Curate(id, outcome, words)
      PROVE  LInv'
  <2>1. /\ ledger' \in Seq(Row) /\ Id' = Id /\ ledger'[id].outcome = outcome
        /\ \A other \in Id \ {id} : ledger'[other] = ledger[other]
    BY <1>2, CurateType
  <2>2. outcome # "pending"
    OBVIOUS
  <2> QED BY <1>2, <2>1, <2>2, SMTT(20) DEF Curate
<1>3. ASSUME NEW r \in Runner, NEW id \in Id, NEW w \in Worker, NEW up \in SUBSET Source,
             PostAutoVerify(r, id, w, up)
      PROVE  LInv'
  <2> DEFINE verdict == VerifyOutcome(ledger[id], up)
             new == [id |-> id, outcome |-> verdict.outcome, source |-> verdict.source]
  <2>1. /\ verdict.outcome \in {"flood_confirmed", "no_evidence_found"}
        /\ verdict.source \in SUBSET Source
    BY VerdictType
  <2> HIDE DEF verdict
  <2>2. id \in Nat
    BY LenProperties DEF Id
  <2>3. new \in Call /\ new.id = id /\ new.outcome # "pending"
    BY <2>1, <2>2 DEF Call, Outcome
  <2>4. call' = [call EXCEPT ![w] = new]
    BY <1>3 DEF PostAutoVerify, verdict
  <2> HIDE DEF new
  <2>5. Id' = Id
    BY <1>3, SameRows DEF PostAutoVerify
  <2> QED BY <1>3, <2>3, <2>4, <2>5 DEF PostAutoVerify
<1>4. ASSUME NEW r \in Runner, NEW id \in Id, PostFails(r, id) PROVE LInv'
  BY <1>4, SameRows DEF PostFails
<1>5. ASSUME NEW s \in [source : Source, district : District,
                       day : 0 .. today, n : 1 .. ReportsNeeded], Surface(s)
      PROVE  LInv'
  <2>1. s \in Sighting
    BY DEF Sighting
  <2> QED BY <1>5, <2>1, SameRows DEF Surface
<1>6. ASSUME NEW w \in Worker, RecordVerdict(w) PROVE LInv'
  <2>1. /\ call[w] # NoCall /\ call[w] \in Call /\ call[w].id \in Id
        /\ call[w].outcome # "pending"
    BY <1>6 DEF RecordVerdict
  <2>2. call[w].outcome \in Outcome /\ call[w].source \in SUBSET Source
    BY <2>1 DEF Call, Origin
  <2>3. call[w].source \in SUBSET Origin
    BY <2>2 DEF Origin
  <2>4. WriteOutcome(call[w].id, call[w].outcome, call[w].source)
    BY <1>6 DEF RecordVerdict
  <2>5. /\ ledger' \in Seq(Row) /\ Id' = Id
        /\ ledger'[call[w].id].outcome = call[w].outcome
        /\ \A other \in Id \ {call[w].id} : ledger'[other] = ledger[other]
    BY <2>1, <2>2, <2>3, <2>4, WriteType
  <2>6. NoCall \in Call
    BY DEF NoCall, Call, Outcome
  <2> QED BY <1>6, <2>1, <2>5, <2>6 DEF RecordVerdict, StopWaiting
<1>7. ASSUME NEW w \in Worker, HandlerDies(w) PROVE LInv'
  <2>1. NoCall \in Call
    BY DEF NoCall, Call, Outcome
  <2> QED BY <1>7, <2>1, SameRows DEF HandlerDies, StopWaiting
<1>8. ASSUME NEW r \in Runner, StartRun(r) PROVE LInv'
  <2>1. ListPending \subseteq Id
    BY DEF ListPending, Newest
  <2> QED BY <1>8, <2>1, SameRows DEF StartRun
<1>9. ASSUME NEW r \in Runner, StartReverify(r) PROVE LInv'
  <2>1. ListNewsConfirmed \subseteq Id
    BY DEF ListNewsConfirmed
  <2> QED BY <1>9, <2>1, SameRows DEF StartReverify
<1>10. ASSUME NEW r \in Runner, TimeOut(r) PROVE LInv'
  BY <1>10, SameRows DEF TimeOut
<1>11. ASSUME NEW r \in Runner, FinishRun(r) PROVE LInv'
  BY <1>11, SameRows DEF FinishRun
<1>12. ASSUME NEW r \in Runner, RunKilled(r) PROVE LInv'
  BY <1>12, SameRows DEF RunKilled
<1>13. CASE NextDay
  <2>1. today' \in Nat /\ ran' \in BOOLEAN
    <3>1. today' = today + 1 /\ ran' = FALSE
      BY <1>13, Zenon DEF NextDay
    <3>2. today' \in Nat
      BY <3>1
    <3>3. ran' \in BOOLEAN
      BY <3>1, Zenon
    <3> QED BY <3>2, <3>3, Zenon
  <2>2. missed' = missed \/ missed' = missed + 1
    BY <1>13, Zenon DEF NextDay
  <2>3. missed' \in Nat
    BY <2>2
  <2>4. UNCHANGED <<ledger, seen, job, todo, waiting, call, failures, curations, reverified>>
    BY <1>13 DEF NextDay
  <2> QED BY <2>1, <2>3, <2>4, SameRows
<1>14. CASE UNCHANGED vars
  BY <1>14, SameRows DEF vars
<1>15. \A up : up \in (IF Outages THEN SUBSET Source ELSE {Source}) => up \in SUBSET Source
  OBVIOUS
<1> QED
  BY <1>1, <1>2, <1>3, <1>4, <1>5, <1>6, <1>7, <1>8, <1>9, <1>10, <1>11, <1>12,
     <1>13, <1>14, <1>15 DEF Next

\* Whatever the days, limits, outages and failures, every variable keeps its
\* type, pending rows name no source and every call holds a verdict.
THEOREM LedgerInvariance == Spec => []LInv
<1>1. Init => LInv
  BY InitLInv
<1>2. LInv /\ [Next]_vars => LInv'
  BY StepLInv
<1> QED BY <1>1, <1>2, PTL DEF Spec

\* The type invariant of the ledger, its job and its handlers.
THEOREM TypeCorrect == Spec => []TypeOK
<1>1. LInv => TypeOK
  BY DEF LInv
<1> QED BY <1>1, LedgerInvariance, PTL
-----------------------------------------------------------------------------
\* What a step leaves of a curator's settled verdict: see SettledVerdictsStand.
Settled(id) ==
  /\ Curated(id)'
  /\ Touchable(id)' =>
       /\ reverified' > reverified
       /\ ledger[id].outcome = "flood_confirmed"
       /\ ledger[id].source \cap {"news", "clipping"} # {}

\* A step neither takes a settled verdict of a curator's away nor puts its
\* prediction on a list, except a re-verification's: the daily listing only
\* picks pending rows, and only a listed row is verified.
LEMMA StepSettled ==
  ASSUME LInv, [Next]_vars, NEW id \in Id, Curated(id), ~Touchable(id)
  PROVE  Settled(id)
<1> USE DEF LInv, TypeOK, Curated, Touchable, Settled, run, bounds
<1>1. /\ "curator" \in ledger[id].source /\ \A r \in Runner : id \notin todo[r]
      /\ \A w \in Worker : call[w].id # id
      /\ id # 0
  BY LenProperties DEF Id
<1>2. ASSUME NEW d \in District, RecordPrediction(d)
      PROVE  Settled(id)
  <2>1. Id \subseteq Id' /\ ledger'[id] = ledger[id]
    BY <1>2, RecordType
  <2> QED BY <1>1, <1>2, <2>1 DEF RecordPrediction
<1>3. ASSUME NEW row \in Id, NEW outcome \in {"flood_confirmed", "no_flood_confirmed"},
             NEW words \in SUBSET {"clipping"}, Curate(row, outcome, words)
      PROVE  Settled(id)
  <2>1. /\ Id' = Id /\ ledger'[row].source = {"curator"} \cup words
        /\ \A other \in Id \ {row} : ledger'[other] = ledger[other]
    BY <1>3, CurateType
  <2> QED BY <1>1, <1>3, <2>1 DEF Curate
<1>4. ASSUME NEW r \in Runner, NEW row \in Id, NEW w \in Worker, NEW up \in SUBSET Source,
             PostAutoVerify(r, row, w, up)
      PROVE  Settled(id)
  <2>1. row \in todo[r] /\ todo' = [todo EXCEPT ![r] = @ \ {row}] /\ UNCHANGED ledger
    BY <1>4 DEF PostAutoVerify, NextListed
  <2>2. \A v \in Worker : call'[v].id = IF v = w THEN row ELSE call[v].id
    <3> DEFINE new == [id |-> row, outcome |-> VerifyOutcome(ledger[row], up).outcome,
                       source |-> VerifyOutcome(ledger[row], up).source]
    <3>1. call' = [call EXCEPT ![w] = new]
      BY <1>4 DEF PostAutoVerify
    <3>2. new.id = row
      OBVIOUS
    <3> HIDE DEF new
    <3> QED BY <3>1, <3>2
  <2> QED BY <1>1, <2>1, <2>2, SameRows
<1>5. ASSUME NEW r \in Runner, NEW row \in Id, PostFails(r, row)
      PROVE  Settled(id)
  BY <1>1, <1>5, SameRows DEF PostFails
<1>6. ASSUME NEW s, Surface(s)
      PROVE  Settled(id)
  BY <1>1, <1>6, SameRows DEF Surface
<1>7. ASSUME NEW w \in Worker, RecordVerdict(w)
      PROVE  Settled(id)
  <2>1. /\ call[w].id \in Id /\ call[w] \in Call
        /\ WriteOutcome(call[w].id, call[w].outcome, call[w].source)
    BY <1>7 DEF RecordVerdict
  <2>2. /\ call[w].outcome \in Outcome
        /\ call[w].source \in SUBSET Origin
    BY <2>1 DEF Call, Origin
  <2>3. Id' = Id /\ \A other \in Id \ {call[w].id} : ledger'[other] = ledger[other]
    BY <2>1, <2>2, WriteType
  <2>4. /\ \A v \in Worker : call'[v] = IF v = w THEN NoCall ELSE call[v]
        /\ UNCHANGED todo
    BY <1>7 DEF RecordVerdict
  <2>5. call[w].id # id /\ ledger'[id] = ledger[id]
    BY <1>1, <2>3
  <2>6. \A v \in Worker : call'[v].id # id
    BY <1>1, <2>4 DEF NoCall
  <2>7. \A r \in Runner : id \notin todo'[r]
    BY <1>1, <2>4
  <2> QED BY <2>3, <2>5, <2>6, <2>7
<1>8. ASSUME NEW w \in Worker, HandlerDies(w)
      PROVE  Settled(id)
  <2>1. /\ \A v \in Worker : call'[v] = IF v = w THEN NoCall ELSE call[v]
        /\ UNCHANGED <<todo, ledger>>
    BY <1>8 DEF HandlerDies
  <2> QED BY <1>1, <2>1, SameRows DEF NoCall
<1>9. ASSUME NEW r \in Runner, StartRun(r)
      PROVE  Settled(id)
  <2>1. ledger[id].outcome # "pending"
    BY <1>1 DEF PendingUnsourced
  <2>2. id \notin ListPending
    BY <2>1 DEF ListPending, Newest
  <2> QED BY <1>1, <1>9, <2>2, SameRows DEF StartRun
<1>10. ASSUME NEW r \in Runner, StartReverify(r)
      PROVE  Settled(id)
  <2>1. CASE id \in ListNewsConfirmed
    <3>1. /\ ledger[id].outcome = "flood_confirmed"
          /\ ledger[id].source \cap {"news", "clipping"} # {}
      BY <2>1 DEF ListNewsConfirmed
    <3>2. reverified' > reverified
      BY <1>10 DEF StartReverify
    <3> QED BY <1>1, <1>10, <3>1, <3>2, SameRows DEF StartReverify
  <2>2. CASE id \notin ListNewsConfirmed
    BY <1>1, <1>10, <2>2, SameRows DEF StartReverify
  <2> QED BY <2>1, <2>2
<1>11. ASSUME NEW r \in Runner, TimeOut(r)
      PROVE  Settled(id)
  BY <1>1, <1>11, SameRows DEF TimeOut
<1>12. ASSUME NEW r \in Runner, FinishRun(r)
      PROVE  Settled(id)
  BY <1>1, <1>12, SameRows DEF FinishRun
<1>13. ASSUME NEW r \in Runner, RunKilled(r)
      PROVE  Settled(id)
  BY <1>1, <1>13, SameRows DEF RunKilled
<1>14. CASE NextDay
  <2>1. UNCHANGED <<ledger, todo, call>>
    BY <1>14 DEF NextDay
  <2> QED BY <1>1, <2>1, SameRows
<1>15. CASE UNCHANGED vars
  BY <1>1, <1>15, SameRows DEF vars
<1>16. \A up : up \in (IF Outages THEN SUBSET Source ELSE {Source}) => up \in SUBSET Source
  OBVIOUS
<1> QED
  BY <1>2, <1>3, <1>4, <1>5, <1>6, <1>7, <1>8, <1>9, <1>10, <1>11, <1>12, <1>13,
     <1>14, <1>15, <1>16 DEF Next

\* A curator's verdict on a prediction that nobody has listed and no handler
\* is verifying stands until another curator's, or until a re-verification
\* of the news lists it as a confirmation that cites them, however many
\* runs, time-outs and crashes follow.
THEOREM SettledStand == Spec => SettledVerdictsStand
<1> DEFINE Stands == \A id \in Id : Curated(id) /\ ~Touchable(id) => Settled(id)
<1>1. LInv /\ [Next]_vars => [Stands]_vars
  BY StepSettled
<1> QED BY <1>1, LedgerInvariance, PTL DEF Spec, SettledVerdictsStand, Settled
-----------------------------------------------------------------------------
(* What a confirmation rests on.  Evidence only accumulates and a verdict's *)
(* support depends on its row's district and day alone, which never change: *)
(* so a verdict supported when it was found is supported when it is         *)
(* written, and ever after.                                                 *)

CallsAreGrounded ==
  \A w \in Worker : call[w] # NoCall =>
    Supports(seen, call[w].source, ledger[call[w].id])

GInv == LInv /\ IsFiniteSet(seen) /\ ConfirmationsAreGrounded /\ CallsAreGrounded

\* More evidence supports what less evidence did.
LEMMA SupportsMonotone ==
  ASSUME NEW less, NEW more, IsFiniteSet(more), less \subseteq more,
         NEW source, NEW row, Supports(less, source, row)
  PROVE  Supports(more, source, row)
<1> DEFINE Since(s) == s.day - row.made \in 0 .. Window
           Reports(evidence) == {s \in evidence : s.source = "citizens" /\ Since(s)
                                                   /\ s.district = row.district}
<1> USE ReportsAssumption
<1>1. Reports(less) \subseteq Reports(more) /\ Reports(more) \subseteq more
  OBVIOUS
<1>2. IsFiniteSet(Reports(more)) /\ IsFiniteSet(Reports(less))
  BY <1>1, FS_Subset
<1>3. /\ Cardinality(Reports(less)) <= Cardinality(Reports(more))
      /\ Cardinality(Reports(less)) \in Nat /\ Cardinality(Reports(more)) \in Nat
  BY <1>1, <1>2, FS_Subset, FS_CardinalityType
<1>4. "citizens" \in source => Cardinality(Reports(less)) >= ReportsNeeded
  BY DEF Supports
<1>5. "citizens" \in source => Cardinality(Reports(more)) >= ReportsNeeded
  <2> HIDE DEF Reports
  <2> QED BY <1>3, <1>4
<1>6. "news" \in source =>
        \E s \in more : s.source = "news" /\ Since(s) /\ Place[s.district] = Place[row.district]
  BY DEF Supports
<1> QED BY <1>5, <1>6 DEF Supports

\* Support is a matter of the row's district and day.
LEMMA SupportsSameRow ==
  ASSUME NEW evidence, NEW source, NEW row, NEW other,
         other.district = row.district, other.made = row.made,
         Supports(evidence, source, row)
  PROVE  Supports(evidence, source, other)
BY DEF Supports

\* No support is needed for no source, nor for a curator's word.
LEMMA SupportsUnsourced ==
  ASSUME NEW evidence, NEW row, NEW source \in SUBSET {"curator", "clipping"}
  PROVE  Supports(evidence, source, row)
BY DEF Supports

\* verify_outcome names a source only if its evidence lies in the window.
LEMMA VerdictSupported ==
  ASSUME seen \subseteq Sighting, NEW row \in Row, NEW up \in SUBSET Source
  PROVE  Supports(seen, VerifyOutcome(row, up).source, row)
<1> DEFINE Since(s) == s.day - row.made \in 0 .. Window
           source == VerifyOutcome(row, up).source
<1>1. row.made \in Nat /\ \A s \in seen : s.day \in Nat
  BY DEF Row, Sighting
<1>2. \A s \in seen : InWindow(row, s.day) <=> Since(s)
  BY <1>1, WindowAssumption DEF InWindow
<1>3. /\ "news" \in source => NewsConfirms(row)
      /\ "citizens" \in source => CitizensConfirm(row)
  BY DEF VerifyOutcome
<1> HIDE DEF source
<1>4. NewsConfirms(row) =>
        \E s \in seen : s.source = "news" /\ Since(s) /\ Place[s.district] = Place[row.district]
  BY <1>2 DEF NewsConfirms
<1>5. {s \in seen : /\ s.source = "citizens" /\ s.district = row.district
                    /\ InWindow(row, s.day)}
      = {s \in seen : s.source = "citizens" /\ Since(s) /\ s.district = row.district}
  BY <1>2
<1>6. CitizensConfirm(row) =>
        Cardinality({s \in seen : s.source = "citizens" /\ Since(s)
                                  /\ s.district = row.district}) >= ReportsNeeded
  BY <1>5 DEF CitizensConfirm
<1>7. Supports(seen, source, row)
  BY <1>3, <1>4, <1>6 DEF Supports
<1> QED BY <1>7 DEF source

\* What supported a verdict on a row still does after a step that loses no
\* evidence and keeps the row's district and day.
LEMMA SupportKept ==
  ASSUME IsFiniteSet(seen'), seen \subseteq seen', NEW id, NEW source,
         ledger'[id].district = ledger[id].district, ledger'[id].made = ledger[id].made,
         Supports(seen, source, ledger[id])
  PROVE  Supports(seen', source, ledger'[id])
<1>1. Supports(seen', source, ledger[id])
  BY SupportsMonotone
<1> QED BY <1>1, SupportsSameRow

\* A step that leaves rows and calls alone and loses no evidence keeps both.
LEMMA GroundedKept ==
  ASSUME GInv, IsFiniteSet(seen'), seen \subseteq seen', UNCHANGED <<ledger, call>>
  PROVE  ConfirmationsAreGrounded' /\ CallsAreGrounded'
<1>1. Id' = Id /\ ledger' = ledger /\ call' = call
  BY SameRows
<1>2. ASSUME NEW id \in Id PROVE Supports(seen', ledger'[id].source, ledger'[id])
  BY <1>1, SupportKept DEF GInv, ConfirmationsAreGrounded
<1>3. ASSUME NEW w \in Worker, call[w] # NoCall
      PROVE  Supports(seen', call'[w].source, ledger'[call'[w].id])
  <2>1. Supports(seen, call[w].source, ledger[call[w].id])
    BY <1>3 DEF GInv, CallsAreGrounded
  <2>2. Supports(seen', call[w].source, ledger'[call[w].id])
    BY <1>1, <2>1, SupportKept
  <2> QED BY <1>1, <2>2
<1> QED BY <1>1, <1>2, <1>3 DEF ConfirmationsAreGrounded, CallsAreGrounded

LEMMA InitGInv == Init => GInv
<1> SUFFICES ASSUME Init PROVE GInv
  OBVIOUS
<1>1. Id = {} /\ seen = {} /\ \A w \in Worker : call[w] = NoCall
  BY DEF Init, Id
<1> QED
  BY <1>1, InitLInv, FS_EmptySet DEF GInv, ConfirmationsAreGrounded, CallsAreGrounded

LEMMA StepGInv == GInv /\ [Next]_vars => GInv'
<1> SUFFICES ASSUME GInv, [Next]_vars
             PROVE  IsFiniteSet(seen') /\ ConfirmationsAreGrounded' /\ CallsAreGrounded'
  BY StepLInv DEF GInv
<1>0. LInv /\ IsFiniteSet(seen) /\ ConfirmationsAreGrounded /\ CallsAreGrounded
  BY DEF GInv
<1> DEFINE Goal == IsFiniteSet(seen') /\ ConfirmationsAreGrounded' /\ CallsAreGrounded'
<1>1. ASSUME NEW d \in District, RecordPrediction(d) PROVE Goal
  <2>1. /\ Id \subseteq Id' /\ \A id \in Id : ledger'[id] = ledger[id]
        /\ \A id \in Id' \ Id : ledger'[id].source = {}
        /\ seen' = seen /\ call' = call
    BY <1>0, <1>1, RecordType DEF RecordPrediction, LInv, TypeOK
  <2>2. ASSUME NEW id \in Id' PROVE Supports(seen', ledger'[id].source, ledger'[id])
    <3>1. CASE id \in Id
      BY <1>0, <2>1, <3>1 DEF ConfirmationsAreGrounded
    <3>2. CASE id \notin Id
      BY <2>1, <3>2, SupportsUnsourced
    <3> QED BY <3>1, <3>2
  <2>3. ASSUME NEW w \in Worker, call[w] # NoCall
        PROVE  Supports(seen', call'[w].source, ledger'[call'[w].id])
    <3>1. call[w].id \in Id
      BY <1>0, <2>3 DEF LInv, TypeOK
    <3> QED BY <1>0, <2>1, <2>3, <3>1 DEF CallsAreGrounded
  <2> QED BY <1>0, <2>1, <2>2, <2>3 DEF ConfirmationsAreGrounded, CallsAreGrounded
<1>2. ASSUME NEW row \in Id, NEW outcome \in {"flood_confirmed", "no_flood_confirmed"},
             NEW words \in SUBSET {"clipping"}, Curate(row, outcome, words)
      PROVE  Goal
  <2>1. /\ Id' = Id /\ ledger'[row].source = {"curator"} \cup words
        /\ ledger'[row].district = ledger[row].district /\ ledger'[row].made = ledger[row].made
        /\ \A other \in Id \ {row} : ledger'[other] = ledger[other]
        /\ seen' = seen /\ call' = call
    BY <1>0, <1>2, CurateType DEF LInv, TypeOK
  <2>2. ASSUME NEW id \in Id' PROVE Supports(seen', ledger'[id].source, ledger'[id])
    <3>1. CASE id = row
      BY <2>1, <3>1, SupportsUnsourced
    <3>2. CASE id # row
      BY <1>0, <2>1, <3>2 DEF ConfirmationsAreGrounded
    <3> QED BY <3>1, <3>2
  <2>3. ASSUME NEW w \in Worker, call[w] # NoCall
        PROVE  Supports(seen', call'[w].source, ledger'[call'[w].id])
    <3>1. call[w].id \in Id /\ Supports(seen, call[w].source, ledger[call[w].id])
      BY <1>0, <2>3 DEF LInv, TypeOK, CallsAreGrounded
    <3>2. /\ ledger'[call[w].id].district = ledger[call[w].id].district
          /\ ledger'[call[w].id].made = ledger[call[w].id].made
      BY <2>1, <3>1
    <3>3. Supports(seen, call[w].source, ledger'[call[w].id])
      BY <3>1, <3>2, SupportsSameRow
    <3> QED BY <2>1, <3>3
  <2> QED BY <1>0, <2>1, <2>2, <2>3 DEF ConfirmationsAreGrounded, CallsAreGrounded
<1>3. ASSUME NEW r \in Runner, NEW row \in Id, NEW w \in Worker, NEW up \in SUBSET Source,
             PostAutoVerify(r, row, w, up)
      PROVE  Goal
  <2> DEFINE new == [id |-> row, outcome |-> VerifyOutcome(ledger[row], up).outcome,
                     source |-> VerifyOutcome(ledger[row], up).source]
  <2>1. seen' = seen /\ ledger' = ledger /\ Id' = Id /\ call' = [call EXCEPT ![w] = new]
    BY <1>3, SameRows DEF PostAutoVerify
  <2>2. ledger[row] \in Row
    BY <1>0, LenProperties, ElementOfSeq DEF LInv, TypeOK, Id
  <2>3. Supports(seen, new.source, ledger[new.id])
    BY <1>0, <2>2, VerdictSupported DEF LInv, TypeOK
  <2> HIDE DEF new
  <2>4. \A v \in Worker : call'[v] = IF v = w THEN new ELSE call[v]
    BY <1>0, <2>1 DEF LInv, TypeOK
  <2>5. ASSUME NEW v \in Worker, call'[v] # NoCall
        PROVE  Supports(seen, call'[v].source, ledger[call'[v].id])
    BY <1>0, <2>3, <2>4, <2>5 DEF CallsAreGrounded
  <2> QED BY <1>0, <2>1, <2>5 DEF ConfirmationsAreGrounded, CallsAreGrounded
<1>4. ASSUME NEW s, Surface(s) PROVE Goal
  <2>1. seen' = seen \cup {s} /\ UNCHANGED <<ledger, call>>
    BY <1>4 DEF Surface
  <2>2. IsFiniteSet(seen')
    BY <1>0, <2>1, FS_AddElement
  <2> QED BY <2>1, <2>2, GroundedKept
<1>5. ASSUME NEW w \in Worker, RecordVerdict(w) PROVE Goal
  <2> DEFINE row == call[w].id
  <2>1. /\ row \in Id /\ call[w] \in Call /\ call[w] # NoCall
        /\ WriteOutcome(row, call[w].outcome, call[w].source)
        /\ seen' = seen
    BY <1>0, <1>5 DEF RecordVerdict, LInv, TypeOK
  <2>2. /\ call[w].outcome \in Outcome
        /\ call[w].source \in SUBSET Origin
    BY <2>1 DEF Call, Origin
  <2>3. /\ Id' = Id /\ ledger'[row].source = call[w].source
        /\ ledger'[row].district = ledger[row].district /\ ledger'[row].made = ledger[row].made
        /\ \A other \in Id \ {row} : ledger'[other] = ledger[other]
    BY <1>0, <2>1, <2>2, WriteType DEF LInv, TypeOK
  <2>4. \A v \in Worker : call'[v] = IF v = w THEN NoCall ELSE call[v]
    BY <1>0, <1>5 DEF RecordVerdict, LInv, TypeOK
  <2>5. Supports(seen, call[w].source, ledger[row])
    BY <1>0, <2>1 DEF CallsAreGrounded
  <2> HIDE DEF row
  <2>6. ASSUME NEW id \in Id' PROVE Supports(seen', ledger'[id].source, ledger'[id])
    <3>1. CASE id = row
      <4>1. Supports(seen, call[w].source, ledger'[row])
        BY <2>3, <2>5, SupportsSameRow
      <4> QED BY <2>1, <2>3, <3>1, <4>1
    <3>2. CASE id # row
      BY <1>0, <2>1, <2>3, <3>2 DEF ConfirmationsAreGrounded
    <3> QED BY <3>1, <3>2
  <2>7. ASSUME NEW v \in Worker, call'[v] # NoCall
        PROVE  Supports(seen', call'[v].source, ledger'[call'[v].id])
    <3>1. v # w /\ call'[v] = call[v] /\ call[v] # NoCall
      BY <2>4, <2>7
    <3>2. call[v].id \in Id /\ Supports(seen, call[v].source, ledger[call[v].id])
      BY <1>0, <3>1 DEF LInv, TypeOK, CallsAreGrounded
    <3>3. /\ ledger'[call[v].id].district = ledger[call[v].id].district
          /\ ledger'[call[v].id].made = ledger[call[v].id].made
      BY <2>3, <3>2
    <3>4. Supports(seen, call[v].source, ledger'[call[v].id])
      BY <3>2, <3>3, SupportsSameRow
    <3> QED BY <2>1, <3>1, <3>4
  <2> QED BY <1>0, <2>1, <2>6, <2>7 DEF ConfirmationsAreGrounded, CallsAreGrounded
<1>6. ASSUME NEW w \in Worker, HandlerDies(w) PROVE Goal
  <2>1. /\ UNCHANGED <<ledger, seen>> /\ Id' = Id
        /\ \A v \in Worker : call'[v] = IF v = w THEN NoCall ELSE call[v]
    BY <1>0, <1>6, SameRows DEF HandlerDies, LInv, TypeOK
  <2> QED BY <1>0, <2>1 DEF ConfirmationsAreGrounded, CallsAreGrounded
<1>7. ASSUME UNCHANGED <<ledger, seen, call>> PROVE Goal
  BY <1>0, <1>7, GroundedKept
<1>8. ASSUME NEW r \in Runner, NEW id \in Id, PostFails(r, id) PROVE Goal
  BY <1>7, <1>8 DEF PostFails
<1>9. ASSUME NEW r \in Runner, StartRun(r) PROVE Goal
  BY <1>7, <1>9 DEF StartRun
<1>10. ASSUME NEW r \in Runner, StartReverify(r) PROVE Goal
  BY <1>7, <1>10 DEF StartReverify
<1>11. ASSUME NEW r \in Runner, TimeOut(r) PROVE Goal
  BY <1>7, <1>11 DEF TimeOut
<1>12. ASSUME NEW r \in Runner, FinishRun(r) PROVE Goal
  BY <1>7, <1>12 DEF FinishRun
<1>13. ASSUME NEW r \in Runner, RunKilled(r) PROVE Goal
  BY <1>7, <1>13 DEF RunKilled
<1>14. CASE NextDay
  BY <1>7, <1>14 DEF NextDay
<1>15. CASE UNCHANGED vars
  BY <1>7, <1>15 DEF vars
<1>16. \A up : up \in (IF Outages THEN SUBSET Source ELSE {Source}) => up \in SUBSET Source
  OBVIOUS
<1> QED
  BY <1>1, <1>2, <1>3, <1>4, <1>5, <1>6, <1>8, <1>9, <1>10, <1>11, <1>12, <1>13,
     <1>14, <1>15, <1>16 DEF Next

\* Every recorded verdict that names the news or the citizens rests on
\* evidence of theirs inside its window, whatever was re-verified, timed out,
\* verified twice at once or lost with a crash.
THEOREM Grounded == Spec => []ConfirmationsAreGrounded
<1>1. Init => GInv
  BY InitGInv
<1>2. GInv /\ [Next]_vars => GInv'
  BY StepGInv
<1>3. GInv => ConfirmationsAreGrounded
  BY DEF GInv
<1> QED BY <1>1, <1>2, <1>3, PTL DEF Spec
-----------------------------------------------------------------------------
(* Nothing expires, where the listing has room. *)

\* The listing holds every prediction that is too young or has only missed a
\* run, and those whose calls failed; and the days it has outnumber those that
\* can go wrong.  With the code's 500 rows, 3 and 30 days and 72 predictions a
\* day: two missed days and twenty-five failures, for one.
Roomy ==
  /\ MinAge > 0
  /\ MaxMissed + MaxFailures <= MaxAge - MinAge
  /\ PerDay * (MinAge + MaxMissed + 1) + MaxFailures <= Limit

Pending == {id \in Id : ledger[id].outcome = "pending"}

\* A daily run has come to an end today, or is under way, and has no call left
\* to make about the prediction, and no handler is verifying it.
Used(id) ==
  /\ ran \/ \E r \in Runner : job[r] = "daily" /\ id \notin todo[r]
  /\ \A w \in Worker : call[w].id # id

\* The days a prediction waited for a verdict, today included once its run has
\* used it up; a natural number from its first day of verification on.
Late(id) == Age(id) - MinAge + (IF Used(id) THEN 1 ELSE 0)

Eligible == {id \in Pending : Age(id) >= MinAge}

\* What is pending for a reason of its own, not for a missed run.
Overdue == {id \in Eligible : Late(id) > missed}

\* A failure delays one prediction by a day.
LateInv ==
  /\ \A id \in Eligible : Late(id) <= missed + failures
  /\ Cardinality(Overdue) <= failures

Today == {id \in Id : ledger[id].made = today}
Earlier(a) == {id \in Id : ledger[id].made \in a .. today - 1}

\* No day has more predictions than PerDay.
RateInv ==
  /\ \A id \in Id : ledger[id].made <= today
  /\ Cardinality(Today) <= PerDay
  /\ \A a \in 0 .. today : Cardinality(Earlier(a)) <= PerDay * (today - a)

EInv ==
  /\ LInv /\ missed <= MaxMissed /\ failures <= MaxFailures
  /\ RateInv /\ LateInv
-----------------------------------------------------------------------------
\* The ids are finitely many, and their days are numbers.
LEMMA TheIds ==
  ASSUME LInv
  PROVE  /\ IsFiniteSet(Id) /\ Id \subseteq Nat \ {0} /\ today \in Nat
         /\ \A id \in Id : ledger[id].made \in Nat /\ Age(id) \in Int
         /\ \A id \in Eligible : id \in Id /\ Age(id) \in Int /\ Late(id) \in Int
         /\ missed \in Nat /\ failures \in Nat
<1>1. Id = 1 .. Len(ledger) /\ Len(ledger) \in Nat
  BY LenProperties DEF LInv, TypeOK, Id
<1>2. IsFiniteSet(Id)
  BY <1>1, FS_Interval
<1>3. today \in Nat /\ missed \in Nat /\ failures \in Nat
  BY DEF LInv, TypeOK
<1>4. ASSUME NEW id \in Id PROVE ledger[id].made \in Nat /\ Age(id) \in Int
  <2>1. ledger[id] \in Row
    BY <1>1, ElementOfSeq DEF LInv, TypeOK
  <2>2. ledger[id].made \in Nat
    BY <2>1 DEF Row
  <2> QED BY <1>3, <2>2 DEF Age
<1>5. MinAge \in Nat
  BY AgeAssumption
<1>6. ASSUME NEW id \in Eligible PROVE id \in Id /\ Age(id) \in Int /\ Late(id) \in Int
  <2>1. id \in Id
    BY DEF Eligible, Pending
  <2> QED BY <1>4, <1>5, <2>1 DEF Late
<1> QED BY <1>1, <1>2, <1>3, <1>4, <1>6

\* The same of the next state, where it is needed.
LEMMA LateNext ==
  ASSUME LInv'
  PROVE  \A id \in Eligible' : Late(id)' \in Int
<1> SUFFICES ASSUME NEW id \in Eligible' PROVE Late(id)' \in Int
  OBVIOUS
<1>1. id \in Id'
  BY DEF Eligible, Pending
<1>2. id \in 1 .. Len(ledger') /\ ledger' \in Seq(Row) /\ today' \in Nat
  BY <1>1, LenProperties DEF LInv, TypeOK, Id
<1>3. ledger'[id] \in Row
  BY <1>2, ElementOfSeq
<1>4. ledger'[id].made \in Nat
  BY <1>3 DEF Row
<1> QED BY <1>2, <1>4, AgeAssumption DEF Late, Age

\* A subset of a finite set is no larger.
LEMMA NoLarger ==
  ASSUME NEW S, IsFiniteSet(S), NEW T, T \subseteq S
  PROVE  /\ IsFiniteSet(T) /\ Cardinality(T) \in Nat /\ Cardinality(S) \in Nat
         /\ Cardinality(T) <= Cardinality(S)
BY FS_Subset, FS_CardinalityType

\* A set and one more element.
LEMMA OneMore ==
  ASSUME NEW S, IsFiniteSet(S), NEW x, NEW T, T \subseteq S \cup {x}
  PROVE  /\ IsFiniteSet(T) /\ Cardinality(T) \in Nat /\ Cardinality(S) \in Nat
         /\ Cardinality(T) <= Cardinality(S) + 1
<1>1. /\ IsFiniteSet(S \cup {x})
      /\ Cardinality(S \cup {x}) = IF x \in S THEN Cardinality(S) ELSE Cardinality(S) + 1
  BY FS_AddElement
<1>2. Cardinality(S) \in Nat
  BY FS_CardinalityType
<1>3. /\ IsFiniteSet(T) /\ Cardinality(T) \in Nat
      /\ Cardinality(T) <= Cardinality(S \cup {x})
  BY <1>1, NoLarger
<1> QED BY <1>1, <1>2, <1>3

\* Two sets together hold no more than both.
LEMMA BothTogether ==
  ASSUME NEW S, IsFiniteSet(S), NEW T, IsFiniteSet(T)
  PROVE  /\ IsFiniteSet(S \cup T) /\ Cardinality(S \cup T) \in Nat
         /\ Cardinality(S) \in Nat /\ Cardinality(T) \in Nat
         /\ Cardinality(S \cup T) <= Cardinality(S) + Cardinality(T)
<1>1. /\ IsFiniteSet(S \cup T)
      /\ Cardinality(S \cup T) = Cardinality(S) + Cardinality(T) - Cardinality(S \cap T)
  BY FS_Union
<1>2. IsFiniteSet(S \cap T)
  <2>1. S \cap T \subseteq S
    OBVIOUS
  <2> QED BY <2>1, FS_Subset
<1>3. /\ Cardinality(S) \in Nat /\ Cardinality(T) \in Nat
      /\ Cardinality(S \cap T) \in Nat /\ Cardinality(S \cup T) \in Nat
  BY <1>1, <1>2, FS_CardinalityType
<1> QED BY <1>1, <1>3

\* A step after which no prediction is later than it was keeps LateInv.
LEMMA LateStays ==
  ASSUME LInv, LInv', LateInv, Eligible' \subseteq Eligible,
         \A id \in Eligible' : Late(id)' <= Late(id),
         missed' = missed, failures <= failures'
  PROVE  LateInv'
<1>1. missed \in Nat /\ failures \in Nat /\ failures' \in Nat
  BY TheIds DEF LInv, TypeOK
<1>2. \A id \in Eligible' : Late(id) \in Int /\ Late(id)' \in Int
  BY TheIds, LateNext
<1>3. \A id \in Eligible' : Late(id)' <= missed' + failures'
  BY <1>1, <1>2 DEF LateInv
<1>4. Overdue' \subseteq Overdue
  BY <1>1, <1>2 DEF Overdue
<1>5. IsFiniteSet(Overdue)
  BY TheIds, NoLarger DEF Overdue, Eligible, Pending
<1>6. Cardinality(Overdue') <= failures'
  BY <1>1, <1>4, <1>5, NoLarger DEF LateInv
<1> QED BY <1>3, <1>6 DEF LateInv

\* A failure of a call about one prediction may cost that one its day.
LEMMA LateFails ==
  ASSUME LInv, LInv', LateInv, Eligible' \subseteq Eligible, NEW one,
         \A id \in Eligible' : id # one => Late(id)' <= Late(id),
         one \in Eligible' => Late(one)' <= Late(one) + 1,
         missed' = missed, failures' = failures + 1
  PROVE  LateInv'
<1>1. missed \in Nat /\ failures \in Nat /\ failures' \in Nat
  BY TheIds DEF LInv, TypeOK
<1>2. \A id \in Eligible' : Late(id) \in Int /\ Late(id)' \in Int
  BY TheIds, LateNext
<1>3. \A id \in Eligible' : Late(id)' <= missed' + failures'
  BY <1>1, <1>2 DEF LateInv
<1>4. Overdue' \subseteq Overdue \cup {one}
  BY <1>1, <1>2 DEF Overdue
<1>5. IsFiniteSet(Overdue)
  BY TheIds, NoLarger DEF Overdue, Eligible, Pending
<1>6. Cardinality(Overdue') <= failures'
  BY <1>1, <1>4, <1>5, OneMore DEF LateInv
<1> QED BY <1>3, <1>6 DEF LateInv
-----------------------------------------------------------------------------
(* The steps of the job. *)

\* Where rows and days stay, so do the eligible, and their delay if Used does.
LEMMA SameWait ==
  ASSUME LInv, LInv', LateInv, UNCHANGED <<ledger, today, missed>>,
         failures <= failures', \A id \in Eligible : Used(id)' => Used(id)
  PROVE  LateInv'
<1>1. Eligible' = Eligible /\ \A id : Age(id)' = Age(id)
  BY DEF Eligible, Pending, Id, Age
<1>2. \A id \in Eligible : Late(id)' <= Late(id)
  <2> TAKE id \in Eligible
  <2>1. Age(id) \in Int /\ MinAge \in Nat
    BY TheIds, AgeAssumption
  <2> QED BY <1>1, <2>1 DEF Late
<1> QED BY <1>1, <1>2, LateStays

\* A failed call costs the prediction it was about no more than the day.
LEMMA FailedCall ==
  ASSUME LInv, LInv', LateInv, UNCHANGED <<ledger, today, missed>>,
         failures' = failures + 1, NEW one,
         \A id \in Eligible : id # one /\ Used(id)' => Used(id)
  PROVE  LateInv'
<1>1. Eligible' = Eligible /\ \A id : Age(id)' = Age(id)
  BY DEF Eligible, Pending, Id, Age
<1>2. \A id \in Eligible : Age(id) \in Int /\ MinAge \in Nat
  BY TheIds, AgeAssumption
<1>3. \A id \in Eligible : id # one => Late(id)' <= Late(id)
  BY <1>1, <1>2 DEF Late
<1>4. one \in Eligible => Late(one)' <= Late(one) + 1
  BY <1>1, <1>2 DEF Late
<1> QED BY <1>1, <1>3, <1>4, LateFails

\* A verdict takes its row off the list and delays no other.
LEMMA VerdictWait ==
  ASSUME LInv, LInv', LateInv, NEW id \in Id, UNCHANGED <<today, missed, failures>>,
         Id' = Id, ledger'[id].outcome # "pending",
         \A other \in Id \ {id} : ledger'[other] = ledger[other],
         \A other \in Eligible : other # id /\ Used(other)' => Used(other)
  PROVE  LateInv'
<1>1. \A other \in Pending' : other # id /\ other \in Pending /\ Age(other)' = Age(other)
  BY DEF Pending, Age
<1>2. Eligible' \subseteq Eligible
  BY <1>1 DEF Eligible
<1>3. \A other \in Eligible' : Late(other)' <= Late(other)
  <2> TAKE other \in Eligible'
  <2>1. Age(other) \in Int /\ MinAge \in Nat /\ other # id /\ Age(other)' = Age(other)
    BY <1>1, <1>2, TheIds, AgeAssumption DEF Eligible
  <2> QED BY <1>2, <2>1 DEF Late
<1>4. failures <= failures'
  BY TheIds
<1> QED BY <1>2, <1>3, <1>4, LateStays

\* The listing of a daily run has every prediction it is to verify.
LEMMA ListedAll ==
  ASSUME EInv, Roomy
  PROVE  Eligible \subseteq ListPending
<1> SUFFICES ASSUME NEW id \in Eligible PROVE id \in ListPending
  OBVIOUS
<1> USE DEF EInv
<1>n. /\ MinAge \in Nat /\ MaxAge \in Nat /\ MaxMissed \in Nat /\ MaxFailures \in Nat
      /\ PerDay \in Nat /\ Limit \in Nat
      /\ missed \in Nat /\ failures \in Nat /\ today \in Nat /\ id \in Id
      /\ Age(id) \in Int /\ Late(id) \in Int
  BY TheIds, AgeAssumption, LimitAssumption, BoundsAssumption
<1>1. Age(id) \in MinAge .. MaxAge
  <2>1. Age(id) >= MinAge /\ Late(id) <= missed + failures /\ Late(id) >= Age(id) - MinAge
    BY <1>n DEF Eligible, LateInv, Late
  <2> QED BY <1>n, <2>1 DEF Roomy
<1> DEFINE first == IF MinAge + missed <= today THEN today - (MinAge + missed) ELSE 0
           Young == Earlier(first) \cup Today
           Queue == Young \cup Overdue
           newer == {j \in Pending : j > id}
<1>2. first \in 0 .. today /\ today - first <= MinAge + missed
  BY <1>n
<1>3. /\ IsFiniteSet(Earlier(first)) /\ IsFiniteSet(Today) /\ IsFiniteSet(Overdue)
      /\ IsFiniteSet(Pending)
  BY TheIds, NoLarger DEF Earlier, Today, Overdue, Eligible, Pending
<1>4. /\ IsFiniteSet(Queue) /\ Cardinality(Queue) \in Nat
      /\ Cardinality(Queue) <= PerDay * (MinAge + missed + 1) + failures
  <2> HIDE DEF first
  <2>1. Cardinality(Earlier(first)) <= PerDay * (today - first) /\ Cardinality(Today) <= PerDay
    BY <1>2 DEF RateInv
  <2>2. PerDay * (today - first) <= PerDay * (MinAge + missed)
    BY <1>n, <1>2
  <2>3. PerDay * (MinAge + missed + 1) = PerDay * (MinAge + missed) + PerDay
    BY <1>n
  <2>4. /\ IsFiniteSet(Young) /\ Cardinality(Young) \in Nat
        /\ Cardinality(Earlier(first)) \in Nat /\ Cardinality(Today) \in Nat
        /\ Cardinality(Young) <= Cardinality(Earlier(first)) + Cardinality(Today)
    BY <1>3, BothTogether
  <2>5. PerDay * (today - first) \in Int /\ PerDay * (MinAge + missed) \in Nat
    BY <1>n, <1>2
  <2>6. Cardinality(Young) <= PerDay * (MinAge + missed + 1)
    BY <1>n, <2>1, <2>2, <2>3, <2>4, <2>5
  <2> HIDE DEF Young
  <2>7. /\ IsFiniteSet(Queue) /\ Cardinality(Queue) \in Nat /\ Cardinality(Overdue) \in Nat
        /\ Cardinality(Queue) <= Cardinality(Young) + Cardinality(Overdue)
    BY <1>3, <2>4, BothTogether
  <2>8. Cardinality(Overdue) <= failures
    BY DEF LateInv
  <2>9. PerDay * (MinAge + missed + 1) \in Nat
    BY <1>n
  <2> QED BY <1>n, <2>4, <2>6, <2>7, <2>8, <2>9
<1>5. PerDay * (MinAge + missed + 1) + failures <= Limit
  <2>1. PerDay * (MinAge + missed + 1) <= PerDay * (MinAge + MaxMissed + 1)
    BY <1>n
  <2>2. /\ PerDay * (MinAge + missed + 1) \in Nat
        /\ PerDay * (MinAge + MaxMissed + 1) \in Nat
    BY <1>n
  <2> QED BY <1>n, <2>1, <2>2 DEF Roomy
<1>6. Pending \subseteq Queue
  <2> SUFFICES ASSUME NEW j \in Pending, j \notin Young PROVE j \in Overdue
    OBVIOUS
  <2>1. j \in Id /\ ledger[j].made \in Nat /\ ledger[j].made <= today
    BY TheIds DEF Pending, RateInv
  <2>2. ledger[j].made < first
    BY <1>2, <1>n, <2>1 DEF Earlier, Today
  <2>3. Age(j) > MinAge + missed
    BY <1>n, <2>1, <2>2 DEF Age
  <2>4. j \in Eligible /\ Late(j) > missed
    BY <1>n, <2>1, <2>3, TheIds DEF Eligible, Late, Age
  <2> QED BY <2>4 DEF Overdue
<1>7. Cardinality(newer) < Limit
  <2>1. id \in Queue /\ id \in Nat /\ id \notin newer
    BY <1>6, TheIds DEF Eligible
  <2>2. newer \subseteq Queue \ {id}
    BY <1>6, <2>1
  <2> HIDE DEF Queue, newer
  <2>3. IsFiniteSet(Queue \ {id}) /\ Cardinality(Queue \ {id}) = Cardinality(Queue) - 1
    BY <1>4, <2>1, FS_RemoveElement
  <2>4. /\ Cardinality(newer) <= Cardinality(Queue \ {id}) /\ Cardinality(newer) \in Nat
    BY <2>2, <2>3, NoLarger
  <2>5. PerDay * (MinAge + missed + 1) \in Nat
    BY <1>n
  <2> QED BY <1>4, <1>5, <1>n, <2>3, <2>4, <2>5
<1> HIDE DEF newer
<1>8. id \in Newest(Pending, Limit)
  BY <1>7 DEF Newest, newer, Eligible
<1> QED BY <1>1, <1>8 DEF ListPending, Pending
-----------------------------------------------------------------------------
(* How many predictions a day has. *)

\* A new row is today's and the last one.
LEMMA RecordToday ==
  ASSUME LInv, NEW d \in District, RecordPrediction(d)
  PROVE  /\ Id' = Id \cup {Len(ledger) + 1} /\ Len(ledger) + 1 \notin Id
         /\ ledger'[Len(ledger) + 1].made = today
         /\ ledger'[Len(ledger) + 1].outcome = "pending"
         /\ \A id \in Id : ledger'[id] = ledger[id]
<1> DEFINE new == [district |-> d, made |-> today, outcome |-> "pending", source |-> {}]
<1>1. new \in Row /\ new.made = today /\ new.outcome = "pending" /\ ledger \in Seq(Row)
  BY DEF LInv, TypeOK, Row, Outcome
<1>2. ledger' = Append(ledger, new)
  BY DEF RecordPrediction
<1> HIDE DEF new
<1>3. /\ ledger' \in Seq(Row) /\ Len(ledger') = Len(ledger) + 1
      /\ \A i \in 1 .. Len(ledger) : ledger'[i] = ledger[i]
      /\ ledger'[Len(ledger) + 1] = new
  BY <1>1, <1>2, AppendProperties
<1>4. Len(ledger) \in Nat /\ Id = 1 .. Len(ledger) /\ Id' = 1 .. Len(ledger) + 1
  BY <1>1, <1>3, LenProperties DEF Id
<1> QED BY <1>1, <1>3, <1>4

\* Where rows keep their days, the days keep their numbers.
LEMMA SameRate ==
  ASSUME LInv, RateInv, today' = today, Id' = Id,
         \A id \in Id : ledger'[id].made = ledger[id].made
  PROVE  RateInv'
<1>1. Today' = Today /\ \A a : Earlier(a)' = Earlier(a)
  BY DEF Today, Earlier
<1> QED BY <1>1 DEF RateInv

\* Every step keeps the number of predictions a day.
LEMMA StepRate ==
  ASSUME LInv, RateInv, [Next]_vars
  PROVE  RateInv'
<1>n. today \in Nat /\ PerDay \in Nat /\ \A id \in Id : ledger[id].made \in Nat
  BY TheIds, BoundsAssumption
<1>1. ASSUME NEW d \in District, RecordPrediction(d) PROVE RateInv'
  <2>1. PICK n : /\ Id' = Id \cup {n} /\ n \notin Id /\ ledger'[n].made = today
                 /\ \A id \in Id : ledger'[id] = ledger[id]
                 /\ today' = today
    BY <1>1, RecordToday DEF RecordPrediction
  <2>2. Today' \subseteq Today \cup {n}
    BY <2>1 DEF Today
  <2>3. \A a \in 0 .. today : Earlier(a)' = Earlier(a)
    BY <1>n, <2>1 DEF Earlier
  <2>4. Cardinality(Today) < PerDay
    BY <1>1 DEF RecordPrediction, Today
  <2>5. IsFiniteSet(Today)
    BY TheIds, NoLarger DEF Today
  <2>6. Cardinality(Today') <= PerDay
    BY <1>n, <2>2, <2>4, <2>5, OneMore
  <2> QED BY <1>n, <2>1, <2>3, <2>6 DEF RateInv
<1>2. ASSUME NEW id \in Id, NEW outcome \in {"flood_confirmed", "no_flood_confirmed"},
             NEW words \in SUBSET {"clipping"}, Curate(id, outcome, words)
      PROVE  RateInv'
  <2>1. /\ Id' = Id /\ \A other \in Id \ {id} : ledger'[other] = ledger[other]
        /\ ledger'[id].made = ledger[id].made /\ today' = today
    BY <1>2, CurateType DEF LInv, TypeOK
  <2> QED BY <2>1, SameRate
<1>3. ASSUME NEW w \in Worker, RecordVerdict(w) PROVE RateInv'
  <2>1. /\ call[w] \in Call /\ call[w].id \in Id
        /\ WriteOutcome(call[w].id, call[w].outcome, call[w].source) /\ today' = today
    BY <1>3 DEF RecordVerdict, LInv, TypeOK
  <2>2. call[w].outcome \in Outcome /\ call[w].source \in SUBSET Origin
    BY <2>1 DEF Call, Origin
  <2>3. /\ Id' = Id /\ ledger'[call[w].id].made = ledger[call[w].id].made
        /\ \A other \in Id \ {call[w].id} : ledger'[other] = ledger[other]
    BY <2>1, <2>2, WriteType DEF LInv, TypeOK
  <2> QED BY <2>1, <2>3, SameRate
<1>4. CASE NextDay
  <2>1. today' = today + 1 /\ ledger' = ledger /\ Id' = Id
    BY <1>4, SameRows DEF NextDay
  <2>2. Today' = {}
    BY <1>n, <2>1 DEF Today, RateInv
  <2>3. \A id \in Id' : ledger'[id].made <= today'
    BY <1>n, <2>1 DEF RateInv
  <2>4. Cardinality({}) = 0 /\ IsFiniteSet({})
    BY FS_EmptySet
  <2>5. ASSUME NEW a \in 0 .. today' PROVE Cardinality(Earlier(a)') <= PerDay * (today' - a)
    <3>1. CASE a = today'
      <4>1. Earlier(a)' = {}
        BY <1>n, <2>1, <3>1 DEF Earlier
      <4> QED BY <1>n, <2>1, <2>4, <3>1, <4>1
    <3>2. CASE a \in 0 .. today
      <4>1. Earlier(a)' = Earlier(a) \cup Today
        BY <1>n, <2>1, <3>2 DEF Earlier, Today
      <4>2. IsFiniteSet(Earlier(a)) /\ IsFiniteSet(Today)
        BY TheIds, NoLarger DEF Earlier, Today
      <4>3. /\ Cardinality(Earlier(a)') <= Cardinality(Earlier(a)) + Cardinality(Today)
            /\ Cardinality(Earlier(a)') \in Nat
            /\ Cardinality(Earlier(a)) \in Nat /\ Cardinality(Today) \in Nat
        BY <4>1, <4>2, BothTogether
      <4>4. Cardinality(Earlier(a)) <= PerDay * (today - a) /\ Cardinality(Today) <= PerDay
        BY <3>2 DEF RateInv
      <4>5. PerDay * (today' - a) = PerDay * (today - a) + PerDay /\ PerDay * (today - a) \in Nat
        BY <1>n, <2>1, <3>2
      <4> QED BY <1>n, <4>3, <4>4, <4>5
    <3> QED BY <1>n, <2>1, <3>1, <3>2
  <2> QED BY <1>n, <2>2, <2>3, <2>4, <2>5 DEF RateInv
<1>5. CASE UNCHANGED <<today, ledger>>
  BY <1>5, SameRate, SameRows
<1> QED BY <1>1, <1>2, <1>3, <1>4, <1>5
        DEF Next, PostAutoVerify, PostFails, Surface, HandlerDies, StartRun, StartReverify,
            TimeOut, FinishRun, RunKilled, vars
-----------------------------------------------------------------------------
(* The step lemma. *)

\* Every step keeps the delays explained, where the listing has room.
LEMMA StepLate ==
  ASSUME EInv, LInv', Roomy, [Next]_vars
  PROVE  LateInv'
<1> USE DEF EInv
<1>n. /\ MinAge \in Nat /\ missed \in Nat /\ failures \in Nat /\ today \in Nat
      /\ \A id \in Eligible : id \in Id /\ id # 0 /\ Age(id) \in Int /\ Late(id) \in Int
  BY TheIds, AgeAssumption
<1>1. ASSUME NEW d \in District, RecordPrediction(d) PROVE LateInv'
  <2>1. PICK n : /\ Id' = Id \cup {n} /\ n \notin Id /\ ledger'[n].made = today
                 /\ \A id \in Id : ledger'[id] = ledger[id]
                 /\ UNCHANGED <<today, job, todo, call, ran, missed, failures>>
    BY <1>1, RecordToday DEF RecordPrediction, run, bounds
  <2>2. Age(n)' = 0 /\ MinAge > 0
    BY <1>n, <2>1 DEF Age, Roomy
  <2>3. \A id \in Id : Age(id)' = Age(id) /\ (Used(id)' <=> Used(id))
    BY <2>1 DEF Age, Used
  <2>4. Eligible' \subseteq Eligible
    BY <1>n, <2>1, <2>2, <2>3 DEF Eligible, Pending
  <2>5. \A id \in Eligible' : Late(id)' <= Late(id)
    BY <1>n, <2>3, <2>4 DEF Late
  <2> QED BY <1>n, <2>1, <2>4, <2>5, LateStays
<1>2. ASSUME NEW id \in Id, NEW outcome \in {"flood_confirmed", "no_flood_confirmed"},
             NEW words \in SUBSET {"clipping"}, Curate(id, outcome, words)
      PROVE  LateInv'
  <2>1. /\ Id' = Id /\ ledger'[id].outcome # "pending"
        /\ \A other \in Id \ {id} : ledger'[other] = ledger[other]
        /\ UNCHANGED <<today, job, todo, call, ran, missed, failures>>
    BY <1>2, CurateType DEF LInv, TypeOK, run
  <2>2. \A other : Used(other)' => Used(other)
    BY <2>1 DEF Used
  <2> QED BY <2>1, <2>2, VerdictWait
<1>3. ASSUME NEW w \in Worker, RecordVerdict(w) PROVE LateInv'
  <2>1. /\ call[w] \in Call /\ call[w].id \in Id /\ call[w].outcome # "pending"
        /\ WriteOutcome(call[w].id, call[w].outcome, call[w].source)
        /\ UNCHANGED <<today, job, todo, ran, missed, failures>>
        /\ call' = [call EXCEPT ![w] = NoCall]
    BY <1>3 DEF RecordVerdict, LInv, TypeOK, PendingUnsourced, bounds
  <2>2. call[w].outcome \in Outcome /\ call[w].source \in SUBSET Origin
    BY <2>1 DEF Call, Origin
  <2>3. /\ Id' = Id /\ ledger'[call[w].id].outcome # "pending"
        /\ \A other \in Id \ {call[w].id} : ledger'[other] = ledger[other]
    BY <2>1, <2>2, WriteType DEF LInv, TypeOK
  <2>4. \A other \in Eligible : other # call[w].id /\ Used(other)' => Used(other)
    BY <2>1 DEF Used, LInv, TypeOK
  <2> QED BY <2>1, <2>3, <2>4, VerdictWait
<1>4. ASSUME NEW r \in Runner, NEW id \in Id, NEW w \in Worker, NEW up \in SUBSET Source,
             PostAutoVerify(r, id, w, up)
      PROVE  LateInv'
  <2>1. /\ UNCHANGED <<ledger, today, missed, failures, job, ran>>
        /\ todo' = [todo EXCEPT ![r] = @ \ {id}] /\ call[w] = NoCall
    BY <1>4 DEF PostAutoVerify, bounds
  <2>v. PICK new : call' = [call EXCEPT ![w] = new] /\ new.id = id
    <3> DEFINE verdict == VerifyOutcome(ledger[id], up)
               new == [id |-> id, outcome |-> verdict.outcome, source |-> verdict.source]
    <3>1. call' = [call EXCEPT ![w] = new] /\ new.id = id
      BY <1>4 DEF PostAutoVerify
    <3> HIDE DEF new
    <3> QED BY <3>1
  <2>2. \A other \in Eligible : Used(other)' => Used(other)
    BY <1>n, <2>1, <2>v DEF Used, LInv, TypeOK, NoCall
  <2> QED BY <1>n, <2>1, <2>2, SameWait
<1>5. ASSUME NEW r \in Runner, NEW id \in Id, PostFails(r, id) PROVE LateInv'
  <2>1. /\ UNCHANGED <<ledger, today, missed, job, ran, call>> /\ failures' = failures + 1
        /\ todo' = [todo EXCEPT ![r] = @ \ {id}]
    BY <1>5 DEF PostFails
  <2>2. \A other \in Eligible : other # id /\ Used(other)' => Used(other)
    BY <2>1 DEF Used, LInv, TypeOK
  <2> QED BY <2>1, <2>2, FailedCall
<1>6. ASSUME NEW w \in Worker, HandlerDies(w) PROVE LateInv'
  <2>1. /\ UNCHANGED <<ledger, today, missed, job, todo, ran>> /\ failures' = failures + 1
        /\ call' = [call EXCEPT ![w] = NoCall]
    BY <1>6 DEF HandlerDies
  <2>2. \A other \in Eligible : other # call[w].id /\ Used(other)' => Used(other)
    BY <2>1 DEF Used, LInv, TypeOK
  <2> QED BY <2>1, <2>2, FailedCall
<1>7. ASSUME NEW r \in Runner, StartRun(r) PROVE LateInv'
  <2>1. /\ UNCHANGED <<ledger, today, missed, failures, ran, call>>
        /\ todo' = [todo EXCEPT ![r] = ListPending] /\ job' = [job EXCEPT ![r] = "daily"]
    BY <1>7 DEF StartRun, bounds
  <2>2. \A other \in Eligible : other \in todo'[r]
    BY <2>1, ListedAll DEF LInv, TypeOK
  <2>3. \A other \in Eligible : Used(other)' => Used(other)
    BY <2>1, <2>2 DEF Used, LInv, TypeOK
  <2> QED BY <1>n, <2>1, <2>3, SameWait
<1>8. ASSUME NEW r \in Runner, StartReverify(r) PROVE LateInv'
  <2>1. /\ UNCHANGED <<ledger, today, missed, failures, ran, call>> /\ job[r] = "off"
        /\ todo' = [todo EXCEPT ![r] = ListNewsConfirmed]
        /\ job' = [job EXCEPT ![r] = "reverify"]
    BY <1>8 DEF StartReverify
  <2>2. \A other \in Eligible : Used(other)' => Used(other)
    BY <2>1 DEF Used, LInv, TypeOK
  <2> QED BY <1>n, <2>1, <2>2, SameWait
<1>9. ASSUME NEW r \in Runner, FinishRun(r) PROVE LateInv'
  <2>1. /\ UNCHANGED <<ledger, today, missed, failures, todo, call>> /\ todo[r] = {}
        /\ job' = [job EXCEPT ![r] = "off"] /\ ran' = (ran \/ job[r] = "daily")
    BY <1>9 DEF FinishRun, bounds
  <2>2. \A other \in Eligible : Used(other)' => Used(other)
    BY <2>1 DEF Used, LInv, TypeOK
  <2> QED BY <1>n, <2>1, <2>2, SameWait
<1>10. ASSUME NEW r \in Runner, RunKilled(r) PROVE LateInv'
  <2>1. /\ UNCHANGED <<ledger, today, missed, ran, call>> /\ failures' = failures + 1
        /\ job' = [job EXCEPT ![r] = "off"] /\ todo' = [todo EXCEPT ![r] = {}]
    BY <1>10 DEF RunKilled
  <2>2. \A other \in Eligible : Used(other)' => Used(other)
    BY <2>1 DEF Used, LInv, TypeOK
  <2> QED BY <1>n, <2>1, <2>2, SameWait
<1>11. CASE NextDay
  <2>1. /\ today' = today + 1 /\ \A w \in Worker : call[w] = NoCall
        /\ \A r \in Runner : job[r] = "off"
        /\ UNCHANGED <<ledger, job, todo, call, failures>>
    BY <1>11 DEF NextDay, run
  <2>2. \/ ran /\ missed' = missed
        \/ ~ran /\ missed' = missed + 1
    BY <1>11 DEF NextDay
  <2>3. ~ran' /\ \A id : ~Used(id)'
    BY <1>11, <2>1 DEF NextDay, Used
  <2>4. \A id \in Eligible : Used(id) <=> ran
    BY <1>n, <2>1 DEF Used, NoCall
  <2>5. \A id \in Id : Age(id)' = Age(id) + 1 /\ Age(id) \in Int
    BY <1>n, <2>1, TheIds DEF Age
  <2>6. Id' = Id /\ Pending' = Pending
    BY <2>1, SameRows DEF Pending
  <2>7. \A id \in Eligible' :
          \/ id \in Eligible /\ Late(id)' = Late(id) /\ ran
          \/ id \in Eligible /\ Late(id)' = Late(id) + 1 /\ ~ran
          \/ Late(id)' = 0
    <3> TAKE id \in Eligible'
    <3>1. id \in Pending /\ id \in Id /\ Age(id)' >= MinAge
      BY <2>6 DEF Eligible, Pending
    <3>2. CASE Age(id) >= MinAge
      <4>1. id \in Eligible
        BY <3>1, <3>2 DEF Eligible
      <4> QED BY <1>n, <2>3, <2>4, <2>5, <3>1, <4>1 DEF Late
    <3>3. CASE Age(id) < MinAge
      <4>1. Age(id)' = MinAge
        BY <1>n, <2>5, <3>1, <3>3
      <4> QED BY <1>n, <2>3, <4>1 DEF Late
    <3> QED BY <1>n, <2>5, <3>1, <3>2, <3>3
  <2>8. \A id \in Eligible' : Late(id)' <= missed' + failures'
    BY <1>n, <2>1, <2>2, <2>7 DEF LateInv
  <2>9. Overdue' \subseteq Overdue
    BY <1>n, <2>2, <2>7 DEF Overdue
  <2>10. IsFiniteSet(Overdue)
    BY TheIds, NoLarger DEF Overdue, Eligible, Pending
  <2>11. Cardinality(Overdue') <= failures'
    BY <1>n, <2>1, <2>9, <2>10, NoLarger DEF LateInv
  <2> QED BY <2>8, <2>11 DEF LateInv
<1>12. CASE /\ UNCHANGED <<ledger, today, missed, job, todo, call, ran>>
            /\ failures' \in {failures, failures + 1}
  <2>1. \A other : Used(other)' => Used(other)
    BY <1>12 DEF Used
  <2> QED BY <1>n, <1>12, <2>1, SameWait
<1>13. \A up : up \in (IF Outages THEN SUBSET Source ELSE {Source}) => up \in SUBSET Source
  OBVIOUS
<1> QED BY <1>1, <1>2, <1>3, <1>4, <1>5, <1>6, <1>7, <1>8, <1>9, <1>10, <1>11, <1>12, <1>13
        DEF Next, Surface, TimeOut, vars, run, bounds

\* The job's bad luck stays within its bounds.
LEMMA StepLuck ==
  ASSUME LInv, [Next]_vars, missed <= MaxMissed, failures <= MaxFailures
  PROVE  missed' <= MaxMissed /\ failures' <= MaxFailures
<1>1. /\ missed \in Nat /\ failures \in Nat /\ MaxMissed \in Nat /\ MaxFailures \in Nat
  BY TheIds, BoundsAssumption
<1> DEFINE Luck == /\ \/ missed' = missed
                      \/ missed' = missed + 1 /\ missed < MaxMissed
                   /\ \/ failures' = failures
                      \/ failures' = failures + 1 /\ failures < MaxFailures
<1>2. ASSUME NEW r \in Runner, NEW id \in Id, NEW w \in Worker, NEW up \in SUBSET Source,
             PostAutoVerify(r, id, w, up)
      PROVE  Luck
  BY <1>2 DEF PostAutoVerify, bounds
<1>f. ASSUME NEW r \in Runner, NEW id \in Id, PostFails(r, id) PROVE Luck
  BY <1>f DEF PostFails, bounds
<1>3. ASSUME NEW r \in Runner,
             StartRun(r) \/ StartReverify(r) \/ TimeOut(r) \/ FinishRun(r) \/ RunKilled(r)
      PROVE  Luck
  BY <1>3 DEF StartRun, StartReverify, TimeOut, FinishRun, RunKilled, bounds
<1>4. ASSUME NEW w \in Worker, RecordVerdict(w) \/ HandlerDies(w) PROVE Luck
  BY <1>4 DEF RecordVerdict, HandlerDies, bounds
<1>5. ASSUME NEW d \in District, RecordPrediction(d) PROVE Luck
  BY <1>5 DEF RecordPrediction, bounds
<1>6. ASSUME NEW id \in Id, NEW outcome, NEW words, Curate(id, outcome, words) PROVE Luck
  BY <1>6 DEF Curate, bounds
<1>7. ASSUME NEW s, Surface(s) PROVE Luck
  BY <1>7 DEF Surface, bounds
<1>8. ASSUME NextDay PROVE Luck
  BY <1>8 DEF NextDay
<1>9. ASSUME UNCHANGED vars PROVE Luck
  BY <1>9 DEF vars, bounds
<1> HIDE DEF Luck
<1>s. \A up : up \in (IF Outages THEN SUBSET Source ELSE {Source}) => up \in SUBSET Source
  OBVIOUS
<1>10. Luck
  BY <1>2, <1>3, <1>4, <1>5, <1>6, <1>7, <1>8, <1>9, <1>s, <1>f DEF Next
<1> QED BY <1>1, <1>10 DEF Luck

\* The empty ledger satisfies the invariant.
LEMMA InitE == Init => EInv
<1> SUFFICES ASSUME Init PROVE EInv
  OBVIOUS
<1>1. LInv
  BY InitLInv
<1>2. Id = {} /\ today = 0 /\ missed = 0 /\ failures = 0
  BY DEF Init, Id
<1>3. Today = {} /\ Overdue = {} /\ Eligible = {} /\ \A a : Earlier(a) = {}
  BY <1>2 DEF Today, Overdue, Eligible, Pending, Earlier
<1>4. Cardinality({}) = 0
  BY FS_EmptySet
<1>5. RateInv
  <2>1. PerDay \in Nat /\ PerDay * (0 - 0) = 0
    BY BoundsAssumption
  <2>2. \A a \in 0 .. 0 : a = 0
    OBVIOUS
  <2> QED BY <1>2, <1>3, <1>4, <2>1, <2>2 DEF RateInv
<1>6. LateInv
  BY <1>2, <1>3, <1>4 DEF LateInv
<1> QED BY <1>1, <1>2, <1>5, <1>6, BoundsAssumption DEF EInv

\* Where the listing has room and the days outnumber what may go wrong, every
\* prediction has its verdict before it is too old to be asked for: whatever
\* two runs, lost calls, dying handlers, killed runs and days without a run do.
THEOREM NothingExpires ==
  ASSUME Roomy
  PROVE  Spec => []NothingExpiresPending
<1>1. Init => EInv
  BY InitE
<1>2. EInv /\ [Next]_vars => EInv'
  BY StepLInv, StepRate, StepLate, StepLuck DEF EInv
<1>3. EInv => NothingExpiresPending
  <2> SUFFICES ASSUME EInv, NEW id \in Id, Age(id) > MaxAge, ledger[id].outcome = "pending"
               PROVE  FALSE
    BY DEF NothingExpiresPending
  <2>1. /\ MinAge \in Nat /\ MaxAge \in Nat /\ MinAge <= MaxAge /\ MaxMissed \in Nat
        /\ MaxFailures \in Nat /\ missed \in Nat /\ failures \in Nat /\ Age(id) \in Int
        /\ missed <= MaxMissed /\ failures <= MaxFailures
    BY TheIds, AgeAssumption, BoundsAssumption DEF EInv
  <2>2. id \in Eligible
    BY <2>1 DEF Eligible, Pending
  <2>3. Late(id) <= missed + failures /\ Late(id) >= Age(id) - MinAge
    BY <2>1, <2>2 DEF EInv, LateInv, Late
  <2> QED BY <2>1, <2>3, TheIds DEF Roomy, Late
<1> QED BY <1>1, <1>2, <1>3, PTL DEF Spec
=============================================================================
