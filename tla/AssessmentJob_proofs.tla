------------------------ MODULE AssessmentJob_proofs -------------------------
(***************************************************************************)
(* Proofs about the three-hourly job, for any overlapping runs, any list   *)
(* of districts, any of them with a river or a dam, and any number of      *)
(* calls that time out.                                                    *)
(***************************************************************************)
EXTENDS AssessmentJob, FiniteSetTheorems, SequenceTheorems, TLAPS

One(condition) == IF condition THEN 1 ELSE 0

\* A run is past the call at place p of the district at index i; at place 0,
\* past its readings.
Gone(r, i, p) ==
  \/ i < at[r]
  \/ i = at[r] /\ pos[r] > p

\* The place of a signal's call to the queue.
Turn == [forecast |-> 1, antecedent |-> 2, river |-> 3]

\* What a row says of what its run has read, whether written or in flight.
Honest(row) ==
  LET was == reading[<<row.run, row.district>>] IN
  /\ row.value = was[row.signal] \/ row.table = "ledger"
  /\ row.signal = "antecedent" => row.source = was.basis
  /\ row.table = "history" => row.value # Missing
  /\ row.table = "queue" => row.value = "high"
  /\ row.table = "ledger" => row.signal = "forecast"
  /\ row.table = "ledger" => \/ row.value = was.forecast
                             \/ was.forecast = Missing /\ row.value = "zero"

\* What the run makes of what the services said.
Understood(was, told) ==
  /\ was.forecast = Total(told.forecast)
  /\ \/ was.antecedent = Total(told.antecedent)
     \/ told.antecedent \in Gaps /\ was.antecedent = Missing
  /\ was.river = told.river /\ told.river \notin Gaps

UnderstoodInv ==
  \A r \in Run, d \in District : Understood(reading[<<r, d>>], said[<<r, d>>])

\* A row is posted after its district's readings, which stand from then on.
PostedInv ==
  \A row \in rows \cup flight :
    /\ Honest(row)
    /\ \E i \in DOMAIN Districts : Districts[i] = row.district /\ Gone(row.run, i, 0)

\* Only what has a river or a dam upstream has a river score.
RiverInv ==
  \A r \in Run, d \in District : reading[<<r, d>>].river # Missing => d \in Rivered

\* A run ends behind its last district.
ExitInv == \A r \in Run : exit[r] # "running" => at[r] > Len(Districts)

\* The readings above the threshold whose call is over and left no row.
Missed(r) ==
  {ds \in Unqueued(r) :
     \E i \in DOMAIN Districts : Districts[i] = ds[1] /\ Gone(r, i, Turn[ds[2]])}

MissedInv ==
  \A r \in Run : IsFiniteSet(Missed(r)) /\ Cardinality(Missed(r)) <= failures[r]

\* The failures a district can add, up to the place the run is at.
Most(r) ==
  IF pos[r] = 0 THEN 0
  ELSE IF pos[r] = 1 THEN One(Read(r).forecast = Missing)
  ELSE IF pos[r] <= 3 THEN pos[r] - 1 ELSE 3

\* Three of each district it is past, and one fewer if one had no river score.
SlackInv ==
  \A r \in Run : \A i \in DOMAIN Districts :
    failures[r] + One(Gone(r, i, 3) /\ reading[<<r, Districts[i]>>].river = Missing)
      <= 3 * (at[r] - 1) + Most(r)

JInv ==
  /\ TypeOK /\ PostedInv /\ UnderstoodInv /\ RiverInv /\ ExitInv /\ MissedInv /\ SlackInv
  /\ ErrorNeedsRivers
-----------------------------------------------------------------------------
\* The calls of a district, by place.
LEMMA TheCalls ==
  /\ Len(Calls) = 8
  /\ Calls[1] = <<"queue", "forecast">> /\ Calls[2] = <<"queue", "antecedent">>
  /\ Calls[3] = <<"queue", "river">> /\ Calls[4] = <<"history", "forecast">>
  /\ Calls[5] = <<"observe", "forecast">> /\ Calls[6] = <<"observe", "antecedent">>
  /\ Calls[7] = <<"observe", "river">> /\ Calls[8] = <<"ledger", "forecast">>
BY DEF Calls

\* What the call a run has come to is about.
LEMMA TheCall ==
  ASSUME TypeOK, NEW r \in Run, pos[r] > 0
  PROVE  /\ Table(r) \in {"queue", "history", "observe", "ledger"} /\ About(r) \in Signal
         /\ Table(r) = "queue" <=> pos[r] \in 1 .. 3
         /\ Table(r) = "queue" => pos[r] = Turn[About(r)]
         /\ \A s \in Signal : pos[r] = Turn[s] => Table(r) = "queue" /\ About(r) = s
         /\ Table(r) = "ledger" => About(r) = "forecast"
<1>1. pos[r] \in 1 .. 8
  BY TheCalls DEF TypeOK
<1> QED BY <1>1, TheCalls DEF Table, About, Turn, Signal
-----------------------------------------------------------------------------
(* Where the runs are. *)

\* The list of districts, its length and what it lists.
LEMMA TheDistricts ==
  /\ Len(Districts) \in Nat /\ Len(Districts) > 0 /\ DOMAIN Districts = 1 .. Len(Districts)
  /\ \A i \in DOMAIN Districts : Districts[i] \in District
BY DistrictAssumption, LenProperties DEF District

\* A run that has something to do is at a district of the list.
LEMMA AtDistrict ==
  ASSUME TypeOK, NEW r \in Run, at[r] <= Len(Districts)
  PROVE  at[r] \in DOMAIN Districts /\ Here(r) \in District /\ Here(r) = Districts[at[r]]
<1>1. at[r] \in 1 .. Len(Districts)
  BY TheDistricts DEF TypeOK
<1> QED BY <1>1, TheDistricts DEF Here

\* A call takes the run one place on, whether or not it is posted, and past
\* exactly that place.
LEMMA OnePlace ==
  ASSUME TypeOK, NEW r \in Run, pos[r] > 0, Advance(r)
  PROVE  /\ at' \in [Run -> 1 .. Len(Districts) + 1] /\ pos' \in [Run -> 0 .. Len(Calls)]
         /\ \A v \in Run : pos'[v] > 0 => at'[v] <= Len(Districts)
         /\ \A v \in Run : v # r => at'[v] = at[v] /\ pos'[v] = pos[v]
         /\ \/ pos[r] < 8 /\ pos'[r] = pos[r] + 1 /\ at'[r] = at[r]
            \/ pos[r] = 8 /\ pos'[r] = 0 /\ at'[r] = at[r] + 1
         /\ \A v \in Run, i \in DOMAIN Districts, p \in 0 .. 3 :
              Gone(v, i, p)' <=> \/ Gone(v, i, p)
                                 \/ v = r /\ i = at[r] /\ pos[r] = p
<1>1. pos[r] \in 1 .. 8 /\ at[r] \in 1 .. Len(Districts) /\ Len(Calls) = 8 /\ Len(Districts) \in Nat
  BY TheCalls, TheDistricts DEF TypeOK
<1>t. /\ at \in [Run -> 1 .. Len(Districts) + 1] /\ pos \in [Run -> 0 .. 8]
      /\ \A v \in Run : pos[v] > 0 => at[v] <= Len(Districts)
  BY <1>1 DEF TypeOK
<1>2. \/ /\ pos[r] < 8 /\ at' = at
         /\ pos' = [pos EXCEPT ![r] = pos[r] + 1]
      \/ /\ pos[r] = 8 /\ at' = [at EXCEPT ![r] = at[r] + 1]
         /\ pos' = [pos EXCEPT ![r] = 0]
  <2>1. CASE pos[r] = 8
    BY <1>1, <1>t, <2>1 DEF Advance
  <2>2. CASE pos[r] # 8
    BY <1>1, <1>t, <2>2 DEF Advance
  <2> QED BY <1>1, <2>1, <2>2
<1>3. \A v \in Run : v # r => at'[v] = at[v] /\ pos'[v] = pos[v]
  BY <1>2 DEF TypeOK
<1>4. \/ pos[r] < 8 /\ pos'[r] = pos[r] + 1 /\ at'[r] = at[r]
      \/ pos[r] = 8 /\ pos'[r] = 0 /\ at'[r] = at[r] + 1
  BY <1>2 DEF TypeOK
<1>5. /\ at' \in [Run -> 1 .. Len(Districts) + 1] /\ pos' \in [Run -> 0 .. Len(Calls)]
  <2> DEFINE A == 1 .. Len(Districts) + 1
             P == 0 .. 8
  <2>1. at[r] + 1 \in A /\ 0 \in P /\ (pos[r] < 8 => pos[r] + 1 \in P)
    BY <1>1
  <2>2. at \in [Run -> A] /\ pos \in [Run -> P]
    BY <1>t
  <2> HIDE DEF A, P
  <2>3. at' \in [Run -> A] /\ pos' \in [Run -> P]
    BY <1>2, <2>1, <2>2
  <2> QED BY <1>1, <2>3 DEF A, P
<1>6. \A v \in Run : pos'[v] > 0 => at'[v] <= Len(Districts)
  BY <1>1, <1>3, <1>4, <1>t
<1>7. ASSUME NEW v \in Run, NEW i \in DOMAIN Districts, NEW p \in 0 .. 3
      PROVE  Gone(v, i, p)' <=> \/ Gone(v, i, p)
                                \/ v = r /\ i = at[r] /\ pos[r] = p
  <2>1. i \in Nat /\ at[v] \in Nat /\ pos[v] \in Nat
    BY TheDistricts DEF TypeOK
  <2>2. CASE v = r
    BY <1>1, <1>4, <2>1, <2>2 DEF Gone
  <2>3. CASE v # r
    BY <1>3, <2>3 DEF Gone
  <2> QED BY <2>2, <2>3
<1> QED BY <1>3, <1>4, <1>5, <1>6, <1>7

\* Reading a district takes the run past the readings, or past the district if
\* there are none; before, it was past no place of it.
LEMMA FirstPlace ==
  ASSUME TypeOK, NEW r \in Run, Fetch(r)
  PROVE  /\ at' \in [Run -> 1 .. Len(Districts) + 1] /\ pos' \in [Run -> 0 .. Len(Calls)]
         /\ \A v \in Run : pos'[v] > 0 => at'[v] <= Len(Districts)
         /\ \A v \in Run : v # r => at'[v] = at[v] /\ pos'[v] = pos[v]
         /\ \A p \in 0 .. 3 : ~Gone(r, at[r], p)
         /\ \A v \in Run, i \in DOMAIN Districts, p \in 0 .. 3 :
              /\ Gone(v, i, p) => Gone(v, i, p)'
              /\ v # r \/ i # at[r] => (Gone(v, i, p)' <=> Gone(v, i, p))
         /\ reading' \in [Run \X District ->
                   [forecast : Value, antecedent : Value, river : Value, basis : Basis]]
         /\ \A v \in Run, i \in DOMAIN Districts :
              v # r \/ i # at[r] => reading'[<<v, Districts[i]>>] = reading[<<v, Districts[i]>>]
         /\ \E new \in [forecast : Value, antecedent : Value, river : Value, basis : Basis] :
              /\ reading'[<<r, Here(r)>>] = new
              /\ new.river # Missing => Here(r) \in Rivered
              /\ \/ failures'[r] = failures[r]
                 \/ failures'[r] = failures[r] + 1 /\ new.forecast = Missing
              /\ \/ /\ new.forecast = Missing /\ new.antecedent = Missing
                    /\ new.river = Missing
                    /\ at'[r] = at[r] + 1 /\ pos'[r] = 0
                 \/ at'[r] = at[r] /\ pos'[r] = 1
         /\ \A v \in Run : v # r => failures'[v] = failures[v]
         /\ failures' \in [Run -> Nat]
         /\ said' \in [Run \X District -> [forecast : Answer, antecedent : Answer, river : Answer]]
         /\ \A v \in Run, d \in District :
              \/ /\ said'[<<v, d>>] = said[<<v, d>>]
                 /\ reading'[<<v, d>>] = reading[<<v, d>>]
              \/ Understood(reading'[<<v, d>>], said'[<<v, d>>])
<1>1. at[r] <= Len(Districts) /\ pos[r] = 0
  BY DEF Fetch
<1>2. at[r] \in DOMAIN Districts /\ Here(r) \in District /\ Here(r) = Districts[at[r]]
  BY <1>1, AtDistrict
<1>a. PICK told \in Heard(Here(r)) : \E rain \in Antecedent(told.antecedent) :
        /\ said' = [said EXCEPT ![<<r, Here(r)>>] = told]
        /\ reading' = [reading EXCEPT ![<<r, Here(r)>>] =
                         [forecast |-> Total(told.forecast), antecedent |-> rain[1],
                          river |-> told.river, basis |-> rain[2]]]
        /\ failures' = [failures EXCEPT ![r] = IF Total(told.forecast) = Missing THEN @ + 1 ELSE @]
        /\ IF Nothing(Total(told.forecast), rain[1], told.river)
             THEN at' = [at EXCEPT ![r] = @ + 1] /\ UNCHANGED pos
             ELSE pos' = [pos EXCEPT ![r] = 1] /\ UNCHANGED at
  BY DEF Fetch
<1>b. PICK f, a, v, b :
        /\ f = Total(told.forecast) /\ v = told.river
        /\ <<a, b>> \in Antecedent(told.antecedent)
        /\ reading' = [reading EXCEPT ![<<r, Here(r)>>] =
                         [forecast |-> f, antecedent |-> a, river |-> v, basis |-> b]]
        /\ failures' = [failures EXCEPT ![r] = IF f = Missing THEN @ + 1 ELSE @]
        /\ IF Nothing(f, a, v)
             THEN at' = [at EXCEPT ![r] = @ + 1] /\ UNCHANGED pos
             ELSE pos' = [pos EXCEPT ![r] = 1] /\ UNCHANGED at
  <2>1. PICK rain \in Antecedent(told.antecedent) :
        /\ reading' = [reading EXCEPT ![<<r, Here(r)>>] =
                         [forecast |-> Total(told.forecast), antecedent |-> rain[1],
                          river |-> told.river, basis |-> rain[2]]]
        /\ failures' = [failures EXCEPT ![r] = IF Total(told.forecast) = Missing THEN @ + 1 ELSE @]
        /\ IF Nothing(Total(told.forecast), rain[1], told.river)
             THEN at' = [at EXCEPT ![r] = @ + 1] /\ UNCHANGED pos
             ELSE pos' = [pos EXCEPT ![r] = 1] /\ UNCHANGED at
    BY <1>a
  <2>2. rain = <<rain[1], rain[2]>>
    BY <2>1 DEF Antecedent
  <2> QED BY <2>1, <2>2
<1>c. /\ told \in [forecast : Answer, antecedent : Answer, river : Answer]
      /\ v # Missing => Here(r) \in Rivered
      /\ v \in Value /\ v \notin Gaps
  BY <1>2, <1>b, AnswersAssumption DEF Heard, Answer, Value, Gaps, Missing
<1>d. f \in Value /\ a \in Value /\ b \in Basis
  BY <1>b, <1>c DEF Antecedent, Total, Answer, Value, Gaps, Missing, Basis
<1>3. /\ v # Missing => Here(r) \in Rivered
      /\ reading' = [reading EXCEPT ![<<r, Here(r)>>] =
                         [forecast |-> f, antecedent |-> a, river |-> v, basis |-> b]]
      /\ failures' = [failures EXCEPT ![r] = IF f = Missing THEN @ + 1 ELSE @]
      /\ IF Nothing(f, a, v)
           THEN at' = [at EXCEPT ![r] = @ + 1] /\ UNCHANGED pos
           ELSE pos' = [pos EXCEPT ![r] = 1] /\ UNCHANGED at
  BY <1>b, <1>c
<1> DEFINE new == [forecast |-> f, antecedent |-> a, river |-> v, basis |-> b]
<1>4. /\ new \in [forecast : Value, antecedent : Value, river : Value, basis : Basis]
      /\ new.forecast = f /\ new.antecedent = a /\ new.river = v
  BY <1>c, <1>d
<1>5. \/ at'[r] = at[r] + 1 /\ pos'[r] = 0 /\ Nothing(f, a, v)
      \/ at'[r] = at[r] /\ pos'[r] = 1
  BY <1>1, <1>3 DEF TypeOK
<1>6. \A u \in Run : u # r => at'[u] = at[u] /\ pos'[u] = pos[u]
  BY <1>3 DEF TypeOK
<1>7. Len(Districts) \in Nat /\ DOMAIN Districts = 1 .. Len(Districts) /\ Len(Calls) = 8
  BY TheDistricts, TheCalls
<1>t. /\ at \in [Run -> 1 .. Len(Districts) + 1] /\ pos \in [Run -> 0 .. 8]
      /\ \A u \in Run : pos[u] > 0 => at[u] <= Len(Districts)
  BY <1>7 DEF TypeOK
<1>8. at' \in [Run -> 1 .. Len(Districts) + 1] /\ pos' \in [Run -> 0 .. Len(Calls)]
  <2> DEFINE A == 1 .. Len(Districts) + 1
             P == 0 .. 8
  <2>1. at[r] + 1 \in A /\ 1 \in P
    BY <1>2, <1>7
  <2>2. at \in [Run -> A] /\ pos \in [Run -> P]
    BY <1>t
  <2> HIDE DEF A, P
  <2>3. at' \in [Run -> A] /\ pos' \in [Run -> P]
    BY <1>3, <2>1, <2>2
  <2> QED BY <1>7, <2>3 DEF A, P
<1>9. \A u \in Run : pos'[u] > 0 => at'[u] <= Len(Districts)
  BY <1>1, <1>5, <1>6, <1>t
<1>10. \A p \in 0 .. 3 : ~Gone(r, at[r], p)
  BY <1>1, <1>2, <1>7 DEF Gone
<1>11. ASSUME NEW u \in Run, NEW i \in DOMAIN Districts, NEW p \in 0 .. 3
       PROVE  /\ Gone(u, i, p) => Gone(u, i, p)'
              /\ u # r \/ i # at[r] => (Gone(u, i, p)' <=> Gone(u, i, p))
  <2>1. i \in Nat /\ at[r] \in Nat
    BY <1>2, <1>7
  <2>2. CASE u = r
    BY <1>1, <1>5, <2>1, <2>2 DEF Gone
  <2>3. CASE u # r
    BY <1>6, <2>3 DEF Gone
  <2> QED BY <2>2, <2>3
<1>12. /\ reading'[<<r, Here(r)>>] = new
       /\ reading' \in [Run \X District ->
                   [forecast : Value, antecedent : Value, river : Value, basis : Basis]]
  <2> HIDE DEF new
  <2>1. reading' = [reading EXCEPT ![<<r, Here(r)>>] = new]
    BY <1>3 DEF new
  <2>2. <<r, Here(r)>> \in Run \X District
    BY <1>2
  <2> QED BY <1>4, <2>1, <2>2 DEF TypeOK
<1>13. ASSUME NEW u \in Run, NEW i \in DOMAIN Districts, u # r \/ i # at[r]
       PROVE  reading'[<<u, Districts[i]>>] = reading[<<u, Districts[i]>>]
  <2>1. <<u, Districts[i]>> # <<r, Here(r)>>
    BY <1>2, <1>13, DistrictAssumption
  <2>2. <<u, Districts[i]>> \in Run \X District
    BY TheDistricts
  <2> QED BY <1>3, <2>1, <2>2 DEF TypeOK
<1>14. /\ failures' \in [Run -> Nat]
       /\ \A u \in Run : u # r => failures'[u] = failures[u]
       /\ \/ failures'[r] = failures[r]
          \/ failures'[r] = failures[r] + 1 /\ new.forecast = Missing
  BY <1>3 DEF TypeOK
<1>17. said' \in [Run \X District -> [forecast : Answer, antecedent : Answer, river : Answer]]
  BY <1>2, <1>a, <1>c DEF TypeOK
<1>18. ASSUME NEW u \in Run, NEW d \in District
       PROVE  \/ /\ said'[<<u, d>>] = said[<<u, d>>]
                 /\ reading'[<<u, d>>] = reading[<<u, d>>]
              \/ Understood(reading'[<<u, d>>], said'[<<u, d>>])
  <2>1. CASE <<u, d>> = <<r, Here(r)>>
    <3>1. reading'[<<u, d>>] = new /\ said'[<<u, d>>] = told
      BY <1>a, <1>12, <2>1 DEF TypeOK
    <3>2. /\ new.forecast = Total(told.forecast) /\ new.river = told.river
          /\ told.river \notin Gaps /\ new.antecedent = a
      BY <1>b, <1>c
    <3>3. told.antecedent \notin Gaps => Total(told.antecedent) = told.antecedent
      BY DEF Total, Gaps
    <3>4. \/ a = Total(told.antecedent)
          \/ told.antecedent \in Gaps /\ a = Missing
      BY <1>b, <3>3 DEF Antecedent
    <3> QED BY <3>1, <3>2, <3>4 DEF Understood
  <2>2. CASE <<u, d>> # <<r, Here(r)>>
    BY <1>a, <1>3, <2>2 DEF TypeOK
  <2> QED BY <2>1, <2>2
<1> HIDE DEF new
<1>15. \/ /\ new.forecast = Missing /\ new.antecedent = Missing /\ new.river = Missing
          /\ at'[r] = at[r] + 1 /\ pos'[r] = 0
       \/ at'[r] = at[r] /\ pos'[r] = 1
  BY <1>4, <1>5 DEF Nothing
<1>16. new.river # Missing => Here(r) \in Rivered
  BY <1>3, <1>4
<1> QED BY <1>4, <1>6, <1>8, <1>9, <1>10, <1>11, <1>12, <1>13, <1>14, <1>15, <1>16, <1>17, <1>18
-----------------------------------------------------------------------------
(* What a call writes. *)

\* A call, posted or not, and however it ends.
Called(r) == Skip(r) \/ Taken(r) \/ Fails(r) \/ TimesOut(r)

\* A reading is a value.
LEMMA AValue ==
  ASSUME TypeOK, NEW r \in Run, NEW d \in District, NEW s \in Signal
  PROVE  reading[<<r, d>>][s] \in Value /\ reading[<<r, d>>].basis \in Basis
<1>1. <<r, d>> \in Run \X District
  OBVIOUS
<1>2. reading[<<r, d>>] \in
        [forecast : Value, antecedent : Value, river : Value, basis : Basis]
  BY <1>1 DEF TypeOK
<1> QED BY <1>2 DEF Signal

\* What a call changes: it takes its place, and of a call that is posted either
\* the row is written, or the failure is counted and the row may be in flight.
LEMMA CallShape ==
  ASSUME TypeOK, NEW r \in Run, Called(r)
  PROVE  /\ exit[r] = "running" /\ pos[r] > 0 /\ at[r] <= Len(Districts) /\ Advance(r)
         /\ UNCHANGED <<said, reading, exit>> /\ lapses' \in Nat
         /\ \/ ~Posts(r) /\ UNCHANGED <<failures, rows, flight>>
            \/ Posts(r) /\ rows' = rows \cup Written(r) /\ UNCHANGED <<failures, flight>>
            \/ /\ Posts(r) /\ failures' = [failures EXCEPT ![r] = Counted(r)]
               /\ rows' = rows /\ flight' \in {flight, flight \cup Written(r)}
<1>1. CASE Skip(r)
  BY <1>1 DEF Skip, InCalls, TypeOK
<1>2. CASE Taken(r)
  BY <1>2 DEF Taken, InCalls, TypeOK
<1>3. CASE Fails(r)
  BY <1>3 DEF Fails, InCalls, TypeOK, Lapse
<1>4. CASE TimesOut(r)
  BY <1>4 DEF TimesOut, InCalls, TypeOK, Lapse
<1> QED BY <1>1, <1>2, <1>3, <1>4 DEF Called

\* What a call does to the counters: no other run's moves, and its own goes up by
\* one only when a posted row of the review queue is refused.
LEMMA CallFailures ==
  ASSUME TypeOK, NEW r \in Run, Called(r)
  PROVE  /\ failures' \in [Run -> Nat]
         /\ \A v \in Run : v # r => failures'[v] = failures[v]
         /\ \/ failures'[r] = failures[r]
            \/ failures'[r] = failures[r] + 1 /\ Table(r) = "queue" /\ Posts(r)
<1>1. failures \in [Run -> Nat]
  BY DEF TypeOK
<1>c. Counted(r) \in Nat
  BY <1>1 DEF Counted
<1>2. CASE failures' = failures
  BY <1>1, <1>2
<1>3. CASE Posts(r) /\ failures' = [failures EXCEPT ![r] = Counted(r)]
  <2>1. failures'[r] = Counted(r) /\ \A v \in Run : v # r => failures'[v] = failures[v]
    BY <1>1, <1>3
  <2>2. failures' \in [Run -> Nat]
    BY <1>1, <1>c, <1>3
  <2> QED BY <1>3, <2>1, <2>2 DEF Counted
<1>4. \/ failures' = failures
      \/ Posts(r) /\ failures' = [failures EXCEPT ![r] = Counted(r)]
  BY CallShape
<1> QED BY <1>2, <1>3, <1>4

\* A call's row is what the run has read.
LEMMA RowShape ==
  ASSUME TypeOK, NEW r \in Run, pos[r] > 0, Posts(r), NEW row \in Written(r)
  PROVE  /\ row = Row(r) /\ row \in Entry /\ Honest(row)
         /\ row.run = r /\ row.district = Here(r)
         /\ row.table = Table(r) /\ row.signal = About(r)
<1>1. row = Row(r) /\ (Table(r) = "queue" => Content(r) = "high")
  BY DEF Written
<1>2. Here(r) \in District
  BY AtDistrict DEF TypeOK
<1>3. /\ Table(r) \in {"queue", "history", "observe", "ledger"} /\ About(r) \in Signal
  BY TheCall
<1>4. Read(r)[About(r)] \in Value /\ Read(r).basis \in Basis
  BY <1>2, <1>3, AValue DEF Read
<1>5. /\ row.run = r /\ row.district = Here(r) /\ row.table = Table(r)
      /\ row.signal = About(r) /\ row.source = Source(r) /\ row.value = Content(r)
  BY <1>1 DEF Row
<1>6. Content(r) \in Value /\ Source(r) \in Basis \cup {"forecast", "river"}
  BY <1>3, <1>4 DEF Content, Source, Signal, Value
<1>7. row \in Entry
  BY <1>1, <1>2, <1>3, <1>6 DEF Row, Entry
<1>8. /\ Content(r) = Read(r)[About(r)] \/ Table(r) = "ledger"
      /\ About(r) = "antecedent" => Source(r) = Read(r).basis
      /\ Table(r) = "history" => Content(r) # Missing
  BY DEF Content, Source, Posts
<1>10. Table(r) = "ledger" => About(r) = "forecast"
  BY TheCall
<1>11. Table(r) = "ledger" => \/ Content(r) = Read(r).forecast
                              \/ Read(r).forecast = Missing /\ Content(r) = "zero"
  BY <1>10 DEF Content
<1>9. reading[<<row.run, row.district>>] = Read(r)
  BY <1>5 DEF Read
<1> QED BY <1>1, <1>5, <1>7, <1>8, <1>9, <1>10, <1>11 DEF Honest

\* Where nothing is written of a signal's call to the queue, it was not above
\* the threshold.
LEMMA HighIsWritten ==
  ASSUME TypeOK, NEW r \in Run, pos[r] > 0, Table(r) = "queue", Read(r)[About(r)] = "high"
  PROVE  Posts(r) /\ Row(r) \in Written(r)
<1>1. Content(r) = "high"
  BY DEF Content
<1> QED BY <1>1 DEF Posts, Written, Missing
-----------------------------------------------------------------------------
(* The steps, conjunct by conjunct. *)

\* Every step keeps the types.
LEMMA StepType ==
  ASSUME TypeOK, [Next]_vars
  PROVE  TypeOK'
<1>1. ASSUME NEW r \in Run, Fetch(r) PROVE TypeOK'
  <2>1. UNCHANGED <<exit, rows, flight, lapses>>
    BY <1>1 DEF Fetch
  <2>2. /\ at' \in [Run -> 1 .. Len(Districts) + 1] /\ pos' \in [Run -> 0 .. Len(Calls)]
        /\ \A v \in Run : pos'[v] > 0 => at'[v] <= Len(Districts)
        /\ failures' \in [Run -> Nat]
        /\ reading' \in [Run \X District ->
                   [forecast : Value, antecedent : Value, river : Value, basis : Basis]]
        /\ said' \in [Run \X District -> [forecast : Answer, antecedent : Answer, river : Answer]]
    BY <1>1, FirstPlace
  <2> QED BY <2>1, <2>2 DEF TypeOK
<1>2. ASSUME NEW r \in Run, Called(r) PROVE TypeOK'
  <2>1. /\ pos[r] > 0 /\ Advance(r) /\ UNCHANGED <<said, reading, exit>> /\ lapses' \in Nat
    BY <1>2, CallShape
  <2>2. /\ at' \in [Run -> 1 .. Len(Districts) + 1] /\ pos' \in [Run -> 0 .. Len(Calls)]
        /\ \A v \in Run : pos'[v] > 0 => at'[v] <= Len(Districts)
    BY <2>1, OnePlace
  <2>3. Posts(r) => Written(r) \subseteq Entry
    BY <2>1, RowShape
  <2>4. rows' \subseteq Entry /\ flight' \subseteq Entry
    BY <1>2, <2>3, CallShape DEF TypeOK
  <2>5. failures' \in [Run -> Nat]
    BY <1>2, CallFailures
  <2> QED BY <2>1, <2>2, <2>4, <2>5 DEF TypeOK
<1>3. ASSUME NEW r \in Run, End(r) PROVE TypeOK'
  BY <1>3 DEF End, TypeOK
<1>4. ASSUME NEW row \in flight, Land(row) PROVE TypeOK'
  BY <1>4 DEF Land, TypeOK
<1>5. CASE UNCHANGED vars
  BY <1>5 DEF vars, TypeOK
<1> QED BY <1>1, <1>2, <1>3, <1>4, <1>5 DEF Next, Step, Called

\* Every step keeps the rows true.
LEMMA StepPosted ==
  ASSUME TypeOK, TypeOK', PostedInv, [Next]_vars
  PROVE  PostedInv'
<1> DEFINE Past(row) == \E i \in DOMAIN Districts :
                          Districts[i] = row.district /\ Gone(row.run, i, 0)
<1>0. \A row \in rows \cup flight : row \in Entry /\ Honest(row) /\ Past(row)
  BY DEF PostedInv, TypeOK
<1> SUFFICES ASSUME NEW row \in (rows \cup flight)'
             PROVE  Honest(row)' /\ Past(row)'
  BY DEF PostedInv
<1>e. row.run \in Run /\ row.district \in District
  BY DEF TypeOK, Entry
<1>1. ASSUME NEW r \in Run, Fetch(r) PROVE Honest(row)' /\ Past(row)'
  <2>1. row \in rows \cup flight
    BY <1>1 DEF Fetch
  <2>2. PICK i \in DOMAIN Districts : Districts[i] = row.district /\ Gone(row.run, i, 0)
    BY <1>0, <2>1
  <2>f. /\ \A p \in 0 .. 3 : ~Gone(r, at[r], p)
        /\ \A v \in Run, k \in DOMAIN Districts, p \in 0 .. 3 : Gone(v, k, p) => Gone(v, k, p)'
        /\ \A v \in Run, k \in DOMAIN Districts :
             v # r \/ k # at[r] => reading'[<<v, Districts[k]>>] = reading[<<v, Districts[k]>>]
    BY <1>1, FirstPlace
  <2>3. Gone(row.run, i, 0)' /\ (row.run # r \/ i # at[r])
    <3>1. 0 \in 0 .. 3
      OBVIOUS
    <3> QED BY <1>e, <2>2, <2>f, <3>1
  <2>4. reading'[<<row.run, row.district>>] = reading[<<row.run, row.district>>]
    BY <1>e, <2>2, <2>3, <2>f
  <2>5. Honest(row)'
    BY <1>0, <2>1, <2>4 DEF Honest
  <2> QED BY <2>2, <2>3, <2>5
<1>2. ASSUME NEW r \in Run, Called(r) PROVE Honest(row)' /\ Past(row)'
  <2>1. /\ pos[r] > 0 /\ Advance(r) /\ reading' = reading /\ at[r] <= Len(Districts)
    BY <1>2, CallShape
  <2>2. CASE row \in rows \cup flight
    <3>1. Past(row)'
      BY <1>0, <1>e, <2>1, <2>2, OnePlace
    <3> QED BY <1>0, <2>1, <2>2, <3>1 DEF Honest
  <2>3. CASE row \notin rows \cup flight
    <3>1. Posts(r) /\ row \in Written(r)
      BY <1>2, <2>3, CallShape
    <3>2. Honest(row) /\ row.run = r /\ row.district = Here(r)
      BY <2>1, <3>1, RowShape
    <3>3. at[r] \in DOMAIN Districts /\ Here(r) = Districts[at[r]]
      BY <2>1, AtDistrict
    <3>4. PICK i \in DOMAIN Districts : i = at[r] /\ row.district = Districts[i]
      BY <3>2, <3>3
    <3>5. Gone(r, i, 0)
      BY <2>1, <3>4 DEF Gone
    <3>6. Gone(row.run, i, 0)'
      BY <2>1, <3>2, <3>5, OnePlace
    <3>7. Honest(row)'
      BY <2>1, <3>2 DEF Honest
    <3> QED BY <3>4, <3>6, <3>7
  <2> QED BY <2>2, <2>3
<1>3. CASE /\ UNCHANGED <<reading, at, pos>>
           /\ rows' \cup flight' \subseteq rows \cup flight
  <2>1. row \in rows \cup flight
    BY <1>3
  <2> QED BY <1>0, <1>3, <2>1 DEF Honest, Gone
<1> QED BY <1>1, <1>2, <1>3 DEF Next, Step, Called, End, Land, vars

\* Every step keeps what a run reads the total of what was said.
LEMMA StepUnderstood ==
  ASSUME TypeOK, UnderstoodInv, [Next]_vars
  PROVE  UnderstoodInv'
<1>1. ASSUME NEW r \in Run, Fetch(r) PROVE UnderstoodInv'
  <2>1. \A v \in Run, d \in District :
          \/ /\ said'[<<v, d>>] = said[<<v, d>>]
             /\ reading'[<<v, d>>] = reading[<<v, d>>]
          \/ Understood(reading'[<<v, d>>], said'[<<v, d>>])
    BY <1>1, FirstPlace
  <2> QED BY <2>1 DEF UnderstoodInv
<1>2. ASSUME NEW r \in Run, Called(r) PROVE UnderstoodInv'
  BY <1>2, CallShape DEF UnderstoodInv
<1>3. CASE UNCHANGED <<said, reading>>
  BY <1>3 DEF UnderstoodInv
<1> QED BY <1>1, <1>2, <1>3 DEF Next, Step, Called, End, Land, vars

\* Every step keeps the river scores to districts with a river or a dam.
LEMMA StepRiver ==
  ASSUME TypeOK, RiverInv, [Next]_vars
  PROVE  RiverInv'
<1>1. ASSUME NEW r \in Run, Fetch(r) PROVE RiverInv'
  <2> SUFFICES ASSUME NEW v \in Run, NEW d \in District, reading'[<<v, d>>].river # Missing
               PROVE  d \in Rivered
    BY DEF RiverInv
  <2>1. PICK i \in DOMAIN Districts : d = Districts[i]
    BY DEF District
  <2>2. CASE v # r \/ i # at[r]
    <3>1. \A u \in Run, k \in DOMAIN Districts :
            u # r \/ k # at[r] => reading'[<<u, Districts[k]>>] = reading[<<u, Districts[k]>>]
      BY <1>1, FirstPlace
    <3>2. reading'[<<v, d>>] = reading[<<v, d>>]
      BY <2>1, <2>2, <3>1
    <3> QED BY <3>2 DEF RiverInv
  <2>3. CASE v = r /\ i = at[r]
    <3>1. d = Here(r)
      BY <2>1, <2>3 DEF Here
    <3> QED BY <1>1, <2>3, <3>1, FirstPlace
  <2> QED BY <2>2, <2>3
<1>2. CASE reading' = reading
  BY <1>2 DEF RiverInv
<1> QED BY <1>1, <1>2, CallShape DEF Next, Step, Called, End, Land, vars

\* Only a run that is behind its last district ends, and it stays there.
LEMMA StepExit ==
  ASSUME TypeOK, ExitInv, [Next]_vars
  PROVE  ExitInv'
<1> SUFFICES ASSUME NEW v \in Run, exit'[v] # "running"
             PROVE  at'[v] > Len(Districts)
  BY DEF ExitInv
<1>1. ASSUME NEW r \in Run, Fetch(r) PROVE at'[v] > Len(Districts)
  <2>1. exit' = exit /\ exit[r] = "running"
    BY <1>1 DEF Fetch
  <2>2. v # r /\ at[v] > Len(Districts)
    BY <2>1 DEF ExitInv
  <2>3. at'[v] = at[v]
    BY <1>1, <2>2, FirstPlace
  <2> QED BY <2>2, <2>3
<1>2. ASSUME NEW r \in Run, Called(r) PROVE at'[v] > Len(Districts)
  BY <1>2, CallShape, OnePlace DEF ExitInv
<1>3. ASSUME NEW r \in Run, End(r) PROVE at'[v] > Len(Districts)
  BY <1>3 DEF End, ExitInv, TypeOK
<1>4. CASE UNCHANGED <<exit, at>>
  BY <1>4 DEF ExitInv
<1> QED BY <1>1, <1>2, <1>3, <1>4 DEF Next, Step, Called, Land, vars
-----------------------------------------------------------------------------
(* The failures a run has counted. *)

\* SlackInv of one run and one district.
Slack(v, i) ==
  failures[v] + One(Gone(v, i, 3) /\ reading[<<v, Districts[i]>>].river = Missing)
    <= 3 * (at[v] - 1) + Most(v)

\* The numbers SlackInv compares are numbers.
LEMMA SlackNumbers ==
  ASSUME TypeOK, NEW v \in Run
  PROVE  /\ failures[v] \in Nat /\ at[v] \in Nat /\ at[v] >= 1 /\ pos[v] \in 0 .. 8
         /\ Most(v) \in 0 .. 3
<1>1. /\ failures[v] \in Nat /\ at[v] \in 1 .. Len(Districts) + 1 /\ pos[v] \in 0 .. 8
  BY TheCalls DEF TypeOK
<1>2. at[v] \in Nat /\ at[v] >= 1
  BY <1>1, TheDistricts
<1> QED BY <1>1, <1>2 DEF Most, One

\* A run the step is not of keeps its slack.
LEMMA SlackStays ==
  ASSUME NEW v \in Run, NEW i \in DOMAIN Districts, Slack(v, i),
         at'[v] = at[v], pos'[v] = pos[v], failures'[v] = failures[v],
         \A k \in DOMAIN Districts :
           Gone(v, k, 3) \/ (k = at[v] /\ pos[v] > 0)
             => reading'[<<v, Districts[k]>>] = reading[<<v, Districts[k]>>],
         pos[v] = 1 => at[v] \in DOMAIN Districts
  PROVE  Slack(v, i)'
<1>1. Gone(v, i, 3)' <=> Gone(v, i, 3)
  BY DEF Gone
<1>2. Most(v)' = Most(v)
  <2>1. CASE pos[v] = 1
    BY <2>1 DEF Most, One, Read, Here
  <2>2. CASE pos[v] # 1
    BY <2>2 DEF Most
  <2> QED BY <2>1, <2>2
<1>3. CASE Gone(v, i, 3)
  <2>1. reading'[<<v, Districts[i]>>] = reading[<<v, Districts[i]>>]
    BY <1>3
  <2> QED BY <1>1, <1>2, <2>1 DEF Slack
<1>4. CASE ~Gone(v, i, 3)
  BY <1>1, <1>2, <1>4 DEF Slack, One
<1> QED BY <1>3, <1>4

\* Every step keeps the slack.
LEMMA StepSlack ==
  ASSUME TypeOK, TypeOK', SlackInv, [Next]_vars
  PROVE  SlackInv'
<1> SUFFICES ASSUME NEW v \in Run, NEW i \in DOMAIN Districts
             PROVE  Slack(v, i)'
  BY DEF SlackInv, Slack
<1>s. Slack(v, i)
  BY DEF SlackInv, Slack
<1>n. /\ failures[v] \in Nat /\ at[v] \in Nat /\ at[v] >= 1 /\ pos[v] \in 0 .. 8
      /\ Most(v) \in 0 .. 3 /\ i \in Nat
  BY SlackNumbers, TheDistricts
<1>d. pos[v] > 0 => at[v] \in DOMAIN Districts
  BY AtDistrict DEF TypeOK
<1>1. ASSUME NEW r \in Run, Fetch(r) PROVE Slack(v, i)'
  <2>1. /\ \A p \in 0 .. 3 : ~Gone(r, at[r], p)
        /\ \A u \in Run, k \in DOMAIN Districts :
             u # r \/ k # at[r] => reading'[<<u, Districts[k]>>] = reading[<<u, Districts[k]>>]
    BY <1>1, FirstPlace
  <2>2. CASE v # r
    <3>0. \A u \in Run : u # r => failures'[u] = failures[u]
      BY <1>1 DEF Fetch, TypeOK
    <3>1. at'[v] = at[v] /\ pos'[v] = pos[v] /\ failures'[v] = failures[v]
      <4>1. \A u \in Run : u # r => at'[u] = at[u] /\ pos'[u] = pos[u]
        BY <1>1, FirstPlace
      <4> QED BY <2>2, <3>0, <4>1
    <3>2. \A k \in DOMAIN Districts : reading'[<<v, Districts[k]>>] = reading[<<v, Districts[k]>>]
      BY <2>1, <2>2
    <3> QED BY <1>s, <1>d, <3>1, <3>2, SlackStays
  <2>3. CASE v = r
    <3>1. PICK new \in [forecast : Value, antecedent : Value, river : Value, basis : Basis] :
            /\ reading'[<<r, Here(r)>>] = new
            /\ \/ failures'[r] = failures[r]
               \/ failures'[r] = failures[r] + 1 /\ new.forecast = Missing
            /\ \/ /\ new.forecast = Missing /\ new.antecedent = Missing
                  /\ new.river = Missing
                  /\ at'[r] = at[r] + 1 /\ pos'[r] = 0
               \/ at'[r] = at[r] /\ pos'[r] = 1
      BY <1>1, FirstPlace
    <3>2. pos[r] = 0 /\ Most(r) = 0
      BY <1>1 DEF Fetch, Most
    <3>3. failures[r] + One(Gone(r, i, 3) /\ reading[<<r, Districts[i]>>].river = Missing)
            <= 3 * (at[r] - 1)
      BY <1>n, <1>s, <2>3, <3>2 DEF Slack
    <3>4. failures[r] <= 3 * (at[r] - 1)
      BY <1>n, <2>3, <3>3 DEF One
    <3>5. CASE at'[r] = at[r] + 1 /\ pos'[r] = 0
      <4>1. Most(r)' = 0 /\ failures'[r] <= failures[r] + 1 /\ failures'[r] \in Nat
        BY <1>n, <2>3, <3>1, <3>5 DEF Most
      <4> QED BY <1>n, <2>3, <3>4, <3>5, <4>1 DEF Slack, One
    <3>6. CASE at'[r] = at[r] /\ pos'[r] = 1
      <4>1. Read(r)' = new
        BY <3>1, <3>6 DEF Read, Here
      <4>2. Most(r)' = One(new.forecast = Missing)
        BY <3>6, <4>1 DEF Most
      <4>3. failures'[r] <= failures[r] + Most(r)' /\ failures'[r] \in Nat /\ Most(r)' \in Nat
        BY <1>n, <2>3, <3>1, <4>2 DEF One
      <4>4. Gone(r, i, 3)' => i # at[r] /\ Gone(r, i, 3)
        BY <1>n, <2>3, <3>6 DEF Gone
      <4>5. One(Gone(r, i, 3) /\ reading[<<r, Districts[i]>>].river = Missing)'
              <= One(Gone(r, i, 3) /\ reading[<<r, Districts[i]>>].river = Missing)
        BY <2>1, <4>4 DEF One
      <4>6. /\ One(Gone(r, i, 3) /\ reading[<<r, Districts[i]>>].river = Missing) \in Nat
            /\ One(Gone(r, i, 3) /\ reading[<<r, Districts[i]>>].river = Missing)' \in Nat
        BY DEF One
      <4> QED BY <1>n, <2>3, <3>3, <3>6, <4>3, <4>5, <4>6 DEF Slack
    <3> QED BY <3>1, <3>5, <3>6
  <2> QED BY <2>2, <2>3
<1>2. ASSUME NEW r \in Run, Called(r) PROVE Slack(v, i)'
  <2>1. /\ pos[r] > 0 /\ Advance(r) /\ reading' = reading /\ at[r] <= Len(Districts)
    BY <1>2, CallShape
  <2>2. CASE v # r
    <3>1. at'[v] = at[v] /\ pos'[v] = pos[v]
      BY <2>1, <2>2, OnePlace
    <3>2. failures'[v] = failures[v]
      BY <1>2, <2>2, CallFailures
    <3> QED BY <1>s, <1>d, <2>1, <3>1, <3>2, SlackStays
  <2>3. CASE v = r
    <3>1. \/ pos[r] < 8 /\ pos'[r] = pos[r] + 1 /\ at'[r] = at[r]
          \/ pos[r] = 8 /\ pos'[r] = 0 /\ at'[r] = at[r] + 1
      BY <2>1, OnePlace
    <3>2. /\ Table(r) = "queue" <=> pos[r] \in 1 .. 3
          /\ pos[r] = 1 => About(r) = "forecast"
          /\ pos[r] = 3 => About(r) = "river"
      BY <2>1, TheCall DEF Turn, Signal
    <3>3. \/ failures'[r] = failures[r]
          \/ failures'[r] = failures[r] + 1 /\ Table(r) = "queue" /\ Posts(r)
      BY <1>2, CallFailures
    <3>4. Table(r) = "queue" => (Posts(r) <=> Read(r)[About(r)] # Missing)
      BY DEF Posts
    <3>5. /\ 3 \in 0 .. 3
          /\ \A p \in 0 .. 3 : Gone(v, i, p)' <=> \/ Gone(v, i, p)
                                                  \/ v = r /\ i = at[r] /\ pos[r] = p
      BY <2>1, OnePlace
    <3>6. Gone(r, i, 3)' <=> Gone(r, i, 3) \/ (i = at[r] /\ pos[r] = 3)
      BY <2>3, <3>5
    <3>7. i = at[r] => reading[<<r, Districts[i]>>] = Read(r)
      BY DEF Read, Here
    <3> DEFINE Spared == Gone(r, i, 3) /\ reading[<<r, Districts[i]>>].river = Missing
               G == One(Spared)
               H == One(Spared)'
    <3>8. /\ G \in {0, 1} /\ H \in {0, 1}
          /\ failures[r] + G <= 3 * (at[r] - 1) + Most(r)
      BY <1>s, <2>3 DEF One, Slack
    <3>9. /\ H = G \/ (i = at[r] /\ pos[r] = 3 /\ G = 0)
          /\ i = at[r] /\ Read(r).river # Missing => H = 0
      BY <1>n, <2>1, <2>3, <3>6, <3>7 DEF One, Gone
    <3> HIDE DEF G, H, Spared
    <3>10. failures'[r] + H <= 3 * (at'[r] - 1) + Most(r)'
      <4>1. CASE pos[r] = 1
        <5>1. Most(r) = One(Read(r).forecast = Missing) /\ Most(r)' = 1
          BY <3>1, <4>1 DEF Most
        <5>2. failures'[r] = failures[r] \/ (failures'[r] = failures[r] + 1 /\ Most(r) = 0)
          BY <3>2, <3>3, <3>4, <4>1, <5>1 DEF One
        <5>3. Most(r) \in {0, 1} /\ H = G
          BY <3>9, <4>1, <5>1 DEF One
        <5> QED BY <1>n, <2>3, <3>1, <3>8, <4>1, <5>1, <5>2, <5>3
      <4>2. CASE pos[r] = 2
        <5>1. Most(r) = 1 /\ Most(r)' = 2
          BY <3>1, <4>2 DEF Most
        <5> QED BY <1>n, <2>3, <3>1, <3>3, <3>8, <3>9, <4>2, <5>1
      <4>3. CASE pos[r] = 3
        <5>1. Most(r) = 2 /\ Most(r)' = 3
          BY <3>1, <4>3 DEF Most
        <5>2. failures'[r] = failures[r] \/ H = 0 \/ H = G
          BY <3>2, <3>3, <3>4, <3>9, <4>3
        <5> QED BY <1>n, <2>3, <3>1, <3>3, <3>8, <4>3, <5>1, <5>2
      <4>4. CASE pos[r] \in 4 .. 8
        <5>1. Most(r) = 3 /\ Most(r)' = IF pos[r] = 8 THEN 0 ELSE 3
          BY <3>1, <4>4 DEF Most
        <5>2. failures'[r] = failures[r] /\ H = G
          BY <3>2, <3>3, <3>9, <4>4
        <5> QED BY <1>n, <2>3, <3>1, <3>8, <4>4, <5>1, <5>2
      <4> QED BY <1>n, <2>1, <2>3, <4>1, <4>2, <4>3, <4>4
    <3> QED BY <2>3, <3>10 DEF Slack, H, Spared
  <2> QED BY <2>2, <2>3
<1>3. CASE UNCHANGED <<at, pos, reading, failures>>
  BY <1>3, <1>s, <1>d, SlackStays
<1> QED BY <1>1, <1>2, <1>3 DEF Next, Step, Called, End, Land, vars
-----------------------------------------------------------------------------
(* The readings above the threshold that left no row. *)

\* A set grows by one element at most.
LEMMA AddOne ==
  ASSUME NEW S, IsFiniteSet(S), NEW T, NEW x, T \subseteq S \cup {x}
  PROVE  /\ IsFiniteSet(T) /\ Cardinality(T) \in Nat
         /\ Cardinality(T) <= Cardinality(S) + 1
<1>1. /\ IsFiniteSet(S \cup {x})
      /\ Cardinality(S \cup {x}) = IF x \in S THEN Cardinality(S) ELSE Cardinality(S) + 1
  BY FS_AddElement
<1>2. Cardinality(S) \in Nat /\ Cardinality(S \cup {x}) \in Nat
  BY <1>1, FS_CardinalityType
<1>3. IsFiniteSet(T) /\ Cardinality(T) <= Cardinality(S \cup {x})
  BY <1>1, FS_Subset
<1> QED BY <1>1, <1>2, <1>3, FS_CardinalityType

\* MissedInv of one run.
FewMissed(v) == IsFiniteSet(Missed(v)) /\ Cardinality(Missed(v)) <= failures[v]

\* What is missed is at most what was, and the failures at least what they were.
LEMMA MissedStays ==
  ASSUME TypeOK, TypeOK', NEW v \in Run, FewMissed(v), Missed(v)' \subseteq Missed(v),
         failures[v] <= failures'[v]
  PROVE  FewMissed(v)'
<1>1. IsFiniteSet(Missed(v)') /\ Cardinality(Missed(v)') <= Cardinality(Missed(v))
  BY FS_Subset DEF FewMissed
<1>2. Cardinality(Missed(v)) \in Nat /\ Cardinality(Missed(v)') \in Nat
  BY <1>1, FS_CardinalityType DEF FewMissed
<1>3. failures[v] \in Nat /\ failures'[v] \in Nat
  BY DEF TypeOK
<1> QED BY <1>1, <1>2, <1>3 DEF FewMissed

\* Where the readings a run is past stand, and rows stay, only what it comes
\* past now can be missed now.
LEMMA NewlyMissed ==
  ASSUME TypeOK, NEW v \in Run, rows \subseteq rows', NEW ds \in Missed(v)',
         NEW i \in DOMAIN Districts, Districts[i] = ds[1],
         Gone(v, i, Turn[ds[2]]),
         reading'[<<v, ds[1]>>] = reading[<<v, ds[1]>>]
  PROVE  ds \in Missed(v)
BY DEF Missed, Unqueued

\* Every step keeps what is missed counted.
LEMMA StepMissed ==
  ASSUME TypeOK, TypeOK', MissedInv, [Next]_vars
  PROVE  MissedInv'
<1> SUFFICES ASSUME NEW v \in Run PROVE FewMissed(v)'
  BY DEF MissedInv, FewMissed
<1>m. FewMissed(v)
  BY DEF MissedInv, FewMissed
<1>t. \A s \in Signal : Turn[s] \in 0 .. 3
  BY DEF Turn, Signal
<1>u. \A ds \in Missed(v)' :
        /\ ds \in District \X Signal /\ ds[2] \in Signal /\ Turn[ds[2]] \in 0 .. 3
        /\ reading'[<<v, ds[1]>>][ds[2]] = "high"
        /\ \A row \in rows' :
             ~(row.table = "queue" /\ row.run = v /\ row.district = ds[1] /\ row.signal = ds[2])
        /\ \E i \in DOMAIN Districts : Districts[i] = ds[1] /\ Gone(v, i, Turn[ds[2]])'
  <2> TAKE ds \in Missed(v)'
  <2>1. ds \in Unqueued(v)'
    BY DEF Missed
  <2>2. ds \in District \X Signal
    BY <2>1 DEF Unqueued
  <2> QED BY <1>t, <2>1, <2>2 DEF Missed, Unqueued
<1>1. ASSUME NEW r \in Run, Fetch(r) PROVE FewMissed(v)'
  <2>1. failures[v] <= failures'[v] /\ rows' = rows
    <3>1. failures'[v] = failures[v] \/ failures'[v] = failures[v] + 1
      BY <1>1, FirstPlace
    <3>2. failures[v] \in Nat
      BY DEF TypeOK
    <3>3. rows' = rows
      BY <1>1 DEF Fetch
    <3> QED BY <3>1, <3>2, <3>3
  <2>2. ASSUME NEW ds \in Missed(v)' PROVE ds \in Missed(v)
    <3>1. PICK i \in DOMAIN Districts : Districts[i] = ds[1] /\ Gone(v, i, Turn[ds[2]])'
      BY <1>u
    <3>2. CASE v # r \/ i # at[r]
      <4>1. \A u \in Run, k \in DOMAIN Districts :
              u # r \/ k # at[r] => reading'[<<u, Districts[k]>>] = reading[<<u, Districts[k]>>]
        BY <1>1, FirstPlace
      <4>2. \A u \in Run, k \in DOMAIN Districts, p \in 0 .. 3 :
              u # r \/ k # at[r] => (Gone(u, k, p)' <=> Gone(u, k, p))
        BY <1>1, FirstPlace
      <4>3. reading'[<<v, ds[1]>>] = reading[<<v, ds[1]>>]
        BY <3>1, <3>2, <4>1
      <4>4. Gone(v, i, Turn[ds[2]])
        BY <1>u, <3>1, <3>2, <4>2
      <4> QED BY <2>1, <3>1, <4>3, <4>4, NewlyMissed
    <3>3. CASE v = r /\ i = at[r]
      <4>1. PICK new \in [forecast : Value, antecedent : Value, river : Value, basis : Basis] :
              /\ reading'[<<r, Here(r)>>] = new
              /\ \/ /\ new.forecast = Missing /\ new.antecedent = Missing
                    /\ new.river = Missing
                    /\ at'[r] = at[r] + 1 /\ pos'[r] = 0
                 \/ at'[r] = at[r] /\ pos'[r] = 1
        BY <1>1, FirstPlace
      <4>2. Here(r) = ds[1] /\ reading'[<<v, ds[1]>>] = new
        BY <3>1, <3>3, <4>1 DEF Here
      <4>3. new[ds[2]] = "high" /\ ds[2] \in Signal
        BY <1>u, <4>2
      <4>4. CASE at'[r] = at[r] /\ pos'[r] = 1
        <5>1. Turn[ds[2]] \in {1, 2, 3}
          BY <4>3 DEF Turn, Signal
        <5>2. at[r] \in Nat
          BY TheDistricts, <3>3
        <5> QED BY <3>1, <3>3, <4>4, <5>1, <5>2 DEF Gone
      <4>5. CASE new.forecast = Missing /\ new.antecedent = Missing /\ new.river = Missing
        BY <4>3, <4>5 DEF Signal, Missing
      <4> QED BY <4>1, <4>4, <4>5
    <3> QED BY <3>2, <3>3
  <2> QED BY <1>m, <2>1, <2>2, MissedStays
<1>2. ASSUME NEW r \in Run, Called(r) PROVE FewMissed(v)'
  <2>1. /\ pos[r] > 0 /\ Advance(r) /\ reading' = reading /\ at[r] <= Len(Districts)
        /\ rows \subseteq rows'
    BY <1>2, CallShape
  <2>2. failures[v] <= failures'[v] /\ failures[v] \in Nat
    <3>1. failures'[v] = failures[v] \/ failures'[v] = failures[v] + 1
      BY <1>2, CallFailures
    <3>2. failures[v] \in Nat
      BY DEF TypeOK
    <3> QED BY <3>1, <3>2
  <2>3. \A i \in DOMAIN Districts, p \in 0 .. 3 :
           Gone(v, i, p)' <=> \/ Gone(v, i, p)
                              \/ v = r /\ i = at[r] /\ pos[r] = p
    BY <2>1, OnePlace
  <2>4. ASSUME NEW ds \in Missed(v)', ds \notin Missed(v)
        PROVE  /\ v = r /\ ds[1] = Here(r) /\ Table(r) = "queue" /\ ds[2] = About(r)
               /\ Read(r)[About(r)] = "high"
    <3>1. PICK i \in DOMAIN Districts : Districts[i] = ds[1] /\ Gone(v, i, Turn[ds[2]])'
      BY <1>u
    <3>2. Turn[ds[2]] \in 0 .. 3 /\ ds[2] \in Signal
      BY <1>u
    <3>3. ~Gone(v, i, Turn[ds[2]])
      BY <2>1, <2>4, <3>1, NewlyMissed
    <3>4. v = r /\ i = at[r] /\ pos[r] = Turn[ds[2]]
      BY <2>3, <3>1, <3>2, <3>3
    <3>5. Table(r) = "queue" /\ ds[2] = About(r)
      BY <2>1, <3>2, <3>4, TheCall
    <3>6. ds[1] = Here(r)
      BY <3>1, <3>4 DEF Here
    <3>7. Read(r)[About(r)] = "high"
      BY <1>u, <2>1, <3>4, <3>5, <3>6 DEF Read
    <3> QED BY <3>4, <3>5, <3>6, <3>7
  <2>5. CASE Missed(v)' \subseteq Missed(v)
    BY <1>m, <2>2, <2>5, MissedStays
  <2>6. CASE ~(Missed(v)' \subseteq Missed(v))
    <3>1. PICK ds \in Missed(v)' : ds \notin Missed(v)
      BY <2>6
    <3>2. /\ v = r /\ Table(r) = "queue" /\ Read(r)[About(r)] = "high"
          /\ ds[1] = Here(r) /\ ds[2] = About(r)
      BY <2>4, <3>1
    <3>3. Posts(r) /\ Row(r) \in Written(r)
      BY <2>1, <3>2, HighIsWritten
    <3>4. Row(r) \notin rows'
      <4>1. /\ Row(r).run = r /\ Row(r).district = Here(r)
            /\ Row(r).table = Table(r) /\ Row(r).signal = About(r)
        BY <2>1, <3>3, RowShape
      <4> QED BY <1>u, <3>1, <3>2, <4>1
    <3>5. failures'[r] = failures[r] + 1
      <4>1. rows' # rows \cup Written(r)
        BY <3>3, <3>4
      <4>2. failures' = [failures EXCEPT ![r] = Counted(r)]
        BY <1>2, <3>3, <4>1, CallShape
      <4> QED BY <3>2, <4>2 DEF Counted, TypeOK
    <3>6. Missed(v)' \subseteq Missed(v) \cup {<<Here(r), About(r)>>}
      <4>1. ASSUME NEW es \in Missed(v)', es \notin Missed(v)
            PROVE  es = <<Here(r), About(r)>>
        <5>1. es \in District \X Signal
          BY <1>u
        <5> QED BY <2>4, <4>1, <5>1
      <4> QED BY <4>1
    <3>7. /\ IsFiniteSet(Missed(v)') /\ Cardinality(Missed(v)') \in Nat
          /\ Cardinality(Missed(v)') <= Cardinality(Missed(v)) + 1
      BY <1>m, <3>6, AddOne DEF FewMissed
    <3>8. Cardinality(Missed(v)) \in Nat /\ Cardinality(Missed(v)) <= failures[v]
      BY <1>m, FS_CardinalityType DEF FewMissed
    <3>9. Cardinality(Missed(v)') <= failures'[v]
      BY <2>2, <3>2, <3>5, <3>7, <3>8
    <3> QED BY <3>7, <3>9 DEF FewMissed
  <2> QED BY <2>5, <2>6
<1>3. CASE UNCHANGED <<at, pos, reading, failures>> /\ rows \subseteq rows'
  <2>1. Missed(v)' \subseteq Missed(v)
    BY <1>3 DEF Missed, Unqueued, Gone
  <2>2. failures[v] <= failures'[v]
    BY <1>3 DEF TypeOK
  <2> QED BY <1>m, <2>1, <2>2, MissedStays
<1> QED BY <1>1, <1>2, <1>3 DEF Next, Step, Called, End, Land, vars
-----------------------------------------------------------------------------
(* The invariant. *)

\* A run only ends with an error after a river score for every district.
LEMMA StepError ==
  ASSUME TypeOK, RiverInv, SlackInv, ErrorNeedsRivers, [Next]_vars
  PROVE  ErrorNeedsRivers'
<1> SUFFICES ASSUME NEW v \in Run, exit'[v] = "error", NEW d \in District
             PROVE  d \in Rivered /\ reading'[<<v, d>>].river # Missing
  BY DEF ErrorNeedsRivers
<1>1. ASSUME NEW r \in Run, End(r) PROVE d \in Rivered /\ reading'[<<v, d>>].river # Missing
  <2>1. reading' = reading
    BY <1>1 DEF End
  <2>2. CASE exit[v] = "error"
    BY <2>1, <2>2 DEF ErrorNeedsRivers
  <2>3. CASE exit[v] # "error"
    <3>1. v = r /\ Error(r) /\ at[r] > Len(Districts)
      BY <1>1, <2>3 DEF End, TypeOK
    <3>2. at[r] = Len(Districts) + 1 /\ pos[r] = 0 /\ failures[r] \in Nat
      <4>1. at[r] \in 1 .. Len(Districts) + 1 /\ ~(at[r] <= Len(Districts)) /\ pos[r] \in 0 .. 8
        BY <3>1, TheDistricts, TheCalls DEF TypeOK
      <4>2. ~(pos[r] > 0)
        BY <4>1 DEF TypeOK
      <4> QED BY <4>1, <4>2, TheDistricts DEF TypeOK
    <3>3. PICK i \in DOMAIN Districts : d = Districts[i]
      BY DEF District
    <3>4. Gone(r, i, 3)
      BY <3>2, <3>3, TheDistricts DEF Gone
    <3>5. failures[r] + One(reading[<<r, d>>].river = Missing) <= 3 * Len(Districts)
      <4>1. Slack(r, i)
        BY DEF SlackInv, Slack
      <4>2. Most(r) = 0
        BY <3>2 DEF Most
      <4>3. One(Gone(r, i, 3) /\ reading[<<r, Districts[i]>>].river = Missing)
              = One(reading[<<r, d>>].river = Missing)
        BY <3>3, <3>4
      <4> QED BY <3>2, <4>1, <4>2, <4>3, TheDistricts DEF Slack, One
    <3>6. reading[<<r, d>>].river # Missing
      BY <3>1, <3>2, <3>5, TheDistricts DEF Error, One
    <3> QED BY <2>1, <3>1, <3>6 DEF RiverInv
  <2> QED BY <2>2, <2>3
<1>2. ASSUME NEW r \in Run, Fetch(r) PROVE d \in Rivered /\ reading'[<<v, d>>].river # Missing
  <2>1. exit' = exit /\ exit[r] = "running" /\ v # r
    BY <1>2 DEF Fetch
  <2>2. PICK i \in DOMAIN Districts : d = Districts[i]
    BY DEF District
  <2>3. \A u \in Run, k \in DOMAIN Districts :
          u # r \/ k # at[r] => reading'[<<u, Districts[k]>>] = reading[<<u, Districts[k]>>]
    BY <1>2, FirstPlace
  <2>4. reading'[<<v, d>>] = reading[<<v, d>>]
    BY <2>1, <2>2, <2>3
  <2> QED BY <2>1, <2>4 DEF ErrorNeedsRivers
<1>3. CASE UNCHANGED <<exit, reading>>
  BY <1>3 DEF ErrorNeedsRivers
<1> QED BY <1>1, <1>2, <1>3, CallShape DEF Next, Step, Called, Land, vars

\* A run that has read nothing yet satisfies the invariant.
LEMMA InitJ == Init => JInv
<1> SUFFICES ASSUME Init PROVE JInv
  OBVIOUS
<1>1. 1 \in 1 .. Len(Districts) + 1 /\ 0 \in 0 .. Len(Calls) /\ 1 <= Len(Districts)
  BY TheDistricts, TheCalls
<1>2. NotRead \in [forecast : Value, antecedent : Value, river : Value, basis : Basis]
  BY DEF NotRead, Value, Basis
<1>t. NotAsked \in [forecast : Answer, antecedent : Answer, river : Answer]
  BY DEF NotAsked, Answer
<1>3. TypeOK
  BY <1>1, <1>2, <1>t DEF Init, TypeOK
<1>4. \A r \in Run, d \in District : reading[<<r, d>>] = NotRead
  BY DEF Init
<1>5. PostedInv /\ RiverInv /\ ExitInv /\ ErrorNeedsRivers
  BY <1>4 DEF Init, PostedInv, RiverInv, ExitInv, ErrorNeedsRivers, NotRead
<1>u. UnderstoodInv
  <2>1. Understood(NotRead, NotAsked)
    BY DEF Understood, NotRead, NotAsked, Total, Gaps, Missing
  <2>2. \A r \in Run, d \in District : said[<<r, d>>] = NotAsked
    BY DEF Init
  <2> QED BY <1>4, <2>1, <2>2 DEF UnderstoodInv
<1>6. \A r \in Run : Missed(r) = {}
  BY <1>4 DEF Missed, Unqueued, NotRead, Missing, Signal
<1>7. MissedInv
  <2>1. \A r \in Run : failures[r] = 0
    BY DEF Init
  <2>2. IsFiniteSet({}) /\ Cardinality({}) = 0
    BY FS_EmptySet
  <2> QED BY <1>6, <2>1, <2>2 DEF MissedInv
<1>8. \A r \in Run, i \in DOMAIN Districts : ~Gone(r, i, 3)
  BY TheDistricts DEF Init, Gone
<1>9. SlackInv
  <2> SUFFICES ASSUME NEW r \in Run, NEW i \in DOMAIN Districts PROVE Slack(r, i)
    BY DEF SlackInv, Slack
  <2>1. failures[r] = 0 /\ at[r] = 1 /\ Most(r) = 0
    BY DEF Init, Most
  <2> QED BY <1>8, <2>1 DEF Slack, One
<1> QED BY <1>3, <1>5, <1>u, <1>7, <1>9 DEF JInv

\* Every step keeps the invariant.
LEMMA StepJ == JInv /\ [Next]_vars => JInv'
BY StepType, StepPosted, StepUnderstood, StepRiver, StepExit, StepMissed, StepSlack, StepError DEF JInv

\* The invariant holds in every reachable state.
LEMMA AlwaysJ == Spec => []JInv
BY InitJ, StepJ, PTL DEF Spec
-----------------------------------------------------------------------------
\* Every variable keeps its type, whatever runs overlap.
THEOREM TypeCorrect == Spec => []TypeOK
<1>1. JInv => TypeOK
  BY DEF JInv
<1> QED BY <1>1, AlwaysJ, PTL

\* What is on record is what its run was told, however late it is written, but
\* for the dry weather made up where no figure was.
THEOREM RowsAreTold == Spec => []OnlyDrynessIsInvented
<1>1. JInv => OnlyDrynessIsInvented
  <2> SUFFICES ASSUME JInv, NEW row \in rows
               PROVE  LET told == said[<<row.run, row.district>>][row.signal] IN
                      /\ \/ row.value = told
                         \/ /\ told \in Gaps /\ row.signal # "river"
                            /\ row.value \in {Missing, "zero", "low"}
                         \/ told = Missing /\ row.table = "ledger" /\ row.value = "zero"
                      /\ row.signal = "antecedent" =>
                           row.source = reading[<<row.run, row.district>>].basis
                      /\ row.table = "history" => told # Missing
                      /\ row.table = "queue" => told = "high"
    BY DEF OnlyDrynessIsInvented
  <2> DEFINE was == reading[<<row.run, row.district>>]
             told == said[<<row.run, row.district>>]
  <2>1. row.run \in Run /\ row.district \in District /\ row.signal \in Signal
    BY DEF JInv, TypeOK, Entry
  <2>2. Honest(row) /\ Understood(was, told)
    BY <2>1 DEF JInv, PostedInv, UnderstoodInv
  <2>3. told \in [forecast : Answer, antecedent : Answer, river : Answer]
    BY <2>1 DEF JInv, TypeOK
  <2>4. \A answer \in Answer : /\ answer \notin Gaps => Total(answer) = answer
                               /\ answer \in Gaps => Total(answer) \in {"zero", "low"}
    BY DEF Answer, Gaps, Total, Missing
  <2>5. /\ \/ row.value = was[row.signal]
           \/ row.table = "ledger" /\ was.forecast = Missing /\ row.value = "zero"
        /\ row.signal = "antecedent" => row.source = was.basis
        /\ row.table = "history" => row.value # Missing
        /\ row.table = "queue" => row.value = "high"
        /\ row.table = "ledger" => row.signal = "forecast"
    BY <2>2 DEF Honest
  <2>6. \/ was[row.signal] = told[row.signal]
        \/ /\ told[row.signal] \in Gaps /\ row.signal # "river"
           /\ was[row.signal] \in {Missing, "zero", "low"}
    <3>1. CASE row.signal = "forecast"
      BY <2>2, <2>3, <2>4, <3>1 DEF Understood
    <3>2. CASE row.signal = "antecedent"
      BY <2>2, <2>3, <2>4, <3>2 DEF Understood
    <3>3. CASE row.signal = "river"
      BY <2>2, <2>3, <3>3 DEF Understood
    <3> QED BY <2>1, <3>1, <3>2, <3>3 DEF Signal
  <2>7. was.forecast = Missing => told.forecast = Missing
    BY <2>2, <2>3, <2>4 DEF Understood, Missing
  <2> HIDE DEF was, told
  <2>8. /\ \/ row.value = told[row.signal]
           \/ /\ told[row.signal] \in Gaps /\ row.signal # "river"
              /\ row.value \in {Missing, "zero", "low"}
           \/ told[row.signal] = Missing /\ row.table = "ledger" /\ row.value = "zero"
        /\ row.signal = "antecedent" => row.source = was.basis
        /\ row.table = "history" => told[row.signal] # Missing
        /\ row.table = "queue" => told[row.signal] = "high"
    <3>1. CASE row.table = "ledger"
      BY <2>5, <2>6, <2>7, <3>1
    <3>2. CASE row.table # "ledger"
      BY <2>5, <2>6, <3>2 DEF Missing, Gaps
    <3> QED BY <3>1, <3>2
  <2> QED BY <2>8 DEF was, told
<1> QED BY <1>1, AlwaysJ, PTL

\* Of an ended run, every reading above the threshold is queued or counted.
THEOREM EverySignalCounts == Spec => []NoSignalMasked
<1>1. JInv => NoSignalMasked
  <2> SUFFICES ASSUME JInv, NEW r \in Run, exit[r] \in {"ok", "error"}
               PROVE  Cardinality(Unqueued(r)) <= failures[r]
    BY DEF NoSignalMasked
  <2>1. at[r] > Len(Districts) /\ at[r] \in Nat
    BY TheDistricts DEF JInv, ExitInv, TypeOK
  <2>2. \A i \in DOMAIN Districts, p \in Nat : Gone(r, i, p)
    BY <2>1, TheDistricts DEF Gone
  <2>3. Missed(r) = Unqueued(r)
    <3>1. ASSUME NEW ds \in Unqueued(r) PROVE ds \in Missed(r)
      <4>1. ds[1] \in District /\ ds[2] \in Signal
        BY DEF Unqueued
      <4>2. PICK i \in DOMAIN Districts : Districts[i] = ds[1]
        BY <4>1 DEF District
      <4>3. Turn[ds[2]] \in Nat
        BY <4>1 DEF Turn, Signal
      <4> QED BY <2>2, <4>2, <4>3 DEF Missed
    <3> QED BY <3>1 DEF Missed
  <2> QED BY <2>3 DEF JInv, MissedInv
<1> QED BY <1>1, AlwaysJ, PTL

\* An error needs a river score of every district.
THEOREM ErrorsNeedRivers == Spec => []ErrorNeedsRivers
<1>1. JInv => ErrorNeedsRivers
  BY DEF JInv
<1> QED BY <1>1, AlwaysJ, PTL
=============================================================================
