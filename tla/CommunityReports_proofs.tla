---------------------- MODULE CommunityReports_proofs -----------------------
(***************************************************************************)
(* Proofs about the citizens' reports, for any workers, messages, texts    *)
(* and names, any number of lost answers and any threshold.                *)
(***************************************************************************)
EXTENDS CommunityReports, FiniteSetTheorems, SequenceTheorems, WellFoundedInduction, TLAPS

\* The handlers that may yet store an update or have failed to.
Open(u) == {w \in Worker : hand[w] = u /\ step[w] \in {"store", "sorry"}}

\* The citizen was asked to try again.
Sorry(u) == \E r \in replies : r.update = u /\ r.what = "sorry"

One(condition) == IF condition THEN 1 ELSE 0

\* The calls about an update: the open or the last one, and of Telegram's
\* those before it, each of which ended without an answer.
Budget(u) == (IF Telegram(u) THEN late[u] ELSE 0) + One(~(u \in waiting /\ line[u] = None))

\* Every row, every handler that may yet store one and an apology have a call
\* of their own.
CountInv ==
  \A u \in Update :
    /\ IsFiniteSet(Open(u))
    /\ Cardinality(RowsOf(u)) + Cardinality(Open(u)) + One(Sorry(u)) <= Budget(u)

\* Nothing is known of an update nobody wrote.
SaidInv ==
  \A u \in Update : said[u] = None =>
    /\ u \notin waiting /\ RowsOf(u) = {}
    /\ \A w \in Worker : hand[w] # u
    /\ \A r \in replies : r.update # u

\* The service awaits an answer only about what it still holds.
LineInv == \A u \in Update : line[u] # None => u \in waiting

\* "Report received" is only said, or about to be, of what is in the table.
StoredInv ==
  /\ \A w \in Worker : step[w] = "received" => RowsOf(hand[w]) # {}
  /\ \A r \in replies : r.what = "received" => RowsOf(r.update) # {}

\* A row is filed under what its text says, and is valid only by a button.
RowInv ==
  \A i \in DOMAIN reports :
    /\ reports[i].place = Filed(said[reports[i].from])
    /\ reports[i].valid => i \in pressed

CInv == TypeOK /\ SaidInv /\ LineInv /\ StoredInv /\ RowInv /\ CountInv /\ NothingSwallowed
-----------------------------------------------------------------------------
\* Every non-empty set of natural numbers has a least element.
LEMMA LeastNatural ==
  ASSUME NEW T, T \subseteq Nat, T # {}
  PROVE  \E x \in T : \A y \in T : x <= y
<1> DEFINE less == OpToRel(<, Nat)
<1>1. IsWellFoundedOn(less, Nat)
  BY NatLessThanWellFounded
<1>2. \A x, y \in Nat : <<x, y>> \in less <=> x < y
  BY DEF OpToRel
<1> HIDE DEF less
<1>3. PICK x \in T : \A y \in T : ~(<<y, x>> \in less)
  BY <1>1, WFMin
<1>4. ASSUME NEW y \in T PROVE x <= y
  <2>1. x \in Nat /\ y \in Nat
    OBVIOUS
  <2>2. ~(y < x)
    BY <1>2, <1>3, <2>1
  <2> QED BY <2>1, <2>2
<1> QED BY <1>4

\* extract_location: no known name, or the district of the longest one.
LEMMA FiledMeaning ==
  ASSUME NEW text \in Text
  PROVE  /\ Filed(text) \in Place
         /\ \/ Names[text] = {} /\ Filed(text) = Unclassified
            \/ \E t \in Names[text] : /\ DistrictOf[t] = Filed(text)
                                      /\ \A s \in Names[text] : Rank[t] <= Rank[s]
<1>1. CASE Names[text] = {}
  BY <1>1 DEF Filed, Place
<1>2. CASE Names[text] # {}
  <2> DEFINE N == Names[text]
             ranks == {Rank[t] : t \in N}
             longest(t) == \A s \in N : Rank[t] <= Rank[s]
  <2>1. N \subseteq Term /\ N # {} /\ ranks \subseteq Nat /\ ranks # {}
    BY <1>2, TextAssumption, TermAssumption
  <2>2. PICK r \in ranks : \A q \in ranks : r <= q
    <3> HIDE DEF ranks
    <3> QED BY <2>1, LeastNatural
  <2>3. \E t \in N : longest(t)
    BY <2>2
  <2>4. LET t == CHOOSE t \in N : longest(t) IN t \in N /\ longest(t)
    BY <2>3
  <2>5. Filed(text) = DistrictOf[CHOOSE t \in N : longest(t)]
    BY <1>2 DEF Filed
  <2> QED BY <2>1, <2>4, <2>5 DEF Place, District
<1> QED BY <1>1, <1>2

\* A set grows by one element at most, and by one if the element is new.
LEMMA AddOne ==
  ASSUME NEW S, IsFiniteSet(S), NEW x
  PROVE  /\ IsFiniteSet(S \cup {x}) /\ Cardinality(S \cup {x}) \in Nat
         /\ Cardinality(S \cup {x}) <= Cardinality(S) + 1
         /\ x \notin S => Cardinality(S \cup {x}) = Cardinality(S) + 1
<1>1. /\ IsFiniteSet(S \cup {x})
      /\ Cardinality(S \cup {x}) = IF x \in S THEN Cardinality(S) ELSE Cardinality(S) + 1
  BY FS_AddElement
<1>2. Cardinality(S) \in Nat
  BY FS_CardinalityType
<1> QED BY <1>1, <1>2
-----------------------------------------------------------------------------
(* The table: one row more, one row validated, or untouched. *)

\* The shape of the table.
LEMMA TableShape ==
  ASSUME TypeOK
  PROVE  /\ Len(reports) \in Nat /\ DOMAIN reports = 1 .. Len(reports)
         /\ \A i \in DOMAIN reports : reports[i] \in Report
         /\ \A u : IsFiniteSet(RowsOf(u)) /\ Cardinality(RowsOf(u)) \in Nat
<1>1. /\ Len(reports) \in Nat /\ DOMAIN reports = 1 .. Len(reports)
      /\ \A i \in DOMAIN reports : reports[i] \in Report
  BY LenProperties, ElementOfSeq DEF TypeOK
<1>2. IsFiniteSet(DOMAIN reports)
  BY <1>1, FS_Interval
<1>3. \A u : RowsOf(u) \in SUBSET DOMAIN reports
  BY DEF RowsOf
<1> QED BY <1>1, <1>2, <1>3, FS_Subset, FS_CardinalityType

\* What a worker has in hand when it is not idle.
LEMMA InHand ==
  ASSUME TypeOK, NEW w \in Worker, step[w] # "idle"
  PROVE  hand[w] \in Update /\ hand[w] # None
BY NoneAssumption DEF TypeOK

\* submit_report adds the last row, of the update in hand.
LEMMA StoreRows ==
  ASSUME TypeOK, SaidInv, NEW w \in Worker, Store(w), NEW u, u = hand[w]
  PROVE  LET n == Len(reports) + 1
         IN /\ u \in Update /\ said[u] \in Text /\ reports' \in Seq(Report)
            /\ DOMAIN reports' = DOMAIN reports \cup {n} /\ n \notin DOMAIN reports
            /\ reports'[n] = Row(u)
            /\ \A i \in DOMAIN reports : reports'[i] = reports[i]
            /\ RowsOf(u)' = RowsOf(u) \cup {n} /\ n \notin RowsOf(u)
            /\ \A v : v # u => RowsOf(v)' = RowsOf(v)
<1> DEFINE n == Len(reports) + 1
<1>1. u \in Update
  BY InHand DEF Store
<1>2. said[u] \in Text
  BY <1>1 DEF TypeOK, SaidInv
<1>3. Row(u) \in Report
  BY <1>1, <1>2, FiledMeaning DEF Row, Report
<1>4. /\ reports' \in Seq(Report) /\ Len(reports') = n /\ reports'[n] = Row(u)
      /\ \A i \in 1 .. Len(reports) : reports'[i] = reports[i]
  BY <1>3, AppendProperties DEF Store, TypeOK
<1>5. /\ DOMAIN reports' = DOMAIN reports \cup {n} /\ n \notin DOMAIN reports
      /\ \A i \in DOMAIN reports : reports'[i] = reports[i]
  <2>1. DOMAIN reports' = 1 .. Len(reports')
    BY <1>4, LenProperties
  <2>2. DOMAIN reports = 1 .. Len(reports) /\ Len(reports) \in Nat
    BY TableShape
  <2>3. 1 .. n = (1 .. Len(reports)) \cup {n} /\ n \notin 1 .. Len(reports)
    BY <2>2
  <2> QED BY <1>4, <2>1, <2>2, <2>3
<1>6. reports'[n].from = u
  BY <1>4 DEF Row
<1> HIDE DEF n
<1>7. RowsOf(u)' = RowsOf(u) \cup {n} /\ n \notin RowsOf(u)
  BY <1>5, <1>6 DEF RowsOf
<1>8. ASSUME NEW v, v # u PROVE RowsOf(v)' = RowsOf(v)
  BY <1>5, <1>6, <1>8 DEF RowsOf
<1> QED BY <1>1, <1>2, <1>4, <1>5, <1>7, <1>8 DEF n

\* Any other step leaves the rows, but for a validation's flag.
LEMMA OtherRows ==
  ASSUME TypeOK, [Next]_vars, \A w \in Worker : ~Store(w)
  PROVE  /\ reports' \in Seq(Report) /\ DOMAIN reports' = DOMAIN reports
         /\ \A i \in DOMAIN reports :
              reports'[i].from = reports[i].from /\ reports'[i].place = reports[i].place
         /\ \A i \in DOMAIN reports : reports'[i].valid => reports[i].valid \/ i \in pressed'
         /\ pressed \subseteq pressed'
         /\ \A u : RowsOf(u)' = RowsOf(u)
<1>1. CASE reports' = reports /\ pressed \subseteq pressed'
  BY <1>1 DEF TypeOK, RowsOf
<1>2. CASE \E i \in page : Validate(i) /\ reports' # reports
  <2> PICK i \in page : Validate(i) /\ reports' # reports
    BY <1>2
  <2>1. i \in 1 .. Len(reports) /\ pressed' = pressed \cup {i} /\ reports' = Validated(i)
    BY TableShape DEF Validate, TypeOK
  <2>2. /\ reports[i] \in Report /\ DOMAIN reports = 1 .. Len(reports)
        /\ [reports[i] EXCEPT !.valid = TRUE] \in Report
    BY <2>1, TableShape DEF Report
  <2>3. reports' = [reports EXCEPT ![i] = [reports[i] EXCEPT !.valid = TRUE]]
    BY <2>1 DEF Validated
  <2>4. /\ reports' \in Seq(Report) /\ Len(reports') = Len(reports)
        /\ \A j \in 1 .. Len(reports) :
             reports'[j] = IF j = i THEN [reports[i] EXCEPT !.valid = TRUE] ELSE reports[j]
    BY <2>1, <2>2, <2>3, ExceptSeq DEF TypeOK
  <2>5. DOMAIN reports' = DOMAIN reports
    BY <2>3
  <2>6. \A j \in DOMAIN reports : /\ reports'[j].from = reports[j].from
                                  /\ reports'[j].place = reports[j].place
                                  /\ j # i => reports'[j].valid = reports[j].valid
    BY <2>2, <2>4 DEF Report
  <2>7. \A u : RowsOf(u)' = RowsOf(u)
    BY <2>5, <2>6 DEF RowsOf
  <2> QED BY <2>1, <2>4, <2>5, <2>6, <2>7
<1> QED BY <1>1, <1>2 DEF Next, Handle, Deliver, Write, HangUp, Receive, StoreFails, Reply,
           WorkerDies, List, Validate, vars, operator

\* A row, once in the table, stays the row of its update.
LEMMA RowsGrow ==
  ASSUME TypeOK, SaidInv, [Next]_vars
  PROVE  \A u : RowsOf(u) \subseteq RowsOf(u)'
<1>1. ASSUME NEW w \in Worker, Store(w), NEW v PROVE RowsOf(v) \subseteq RowsOf(v)'
  <2>1. PICK u : u = hand[w]
    OBVIOUS
  <2> QED BY <1>1, <2>1, StoreRows
<1>2. CASE \A w \in Worker : ~Store(w)
  BY <1>2, OtherRows
<1> QED BY <1>1, <1>2
-----------------------------------------------------------------------------
(* The chat services and the handlers. *)

\* What a call that ends without an answer does to the service's books.
LEMMA CallLost ==
  ASSUME TypeOK, LineInv, NEW u \in Update, line[u] # None, NoAnswer(u)
  PROVE  /\ waiting' \subseteq waiting /\ drops' \in Nat
         /\ line' \in [Update -> Worker \cup {None}] /\ late' \in [Update -> Nat]
         /\ \A v \in Update : Telegram(v) => (v \in waiting' <=> v \in waiting)
         /\ \A v \in Update : line'[v] # None => v # u /\ line'[v] = line[v] /\ v \in waiting'
         /\ \A v \in Update : late[v] <= late'[v]
<1>1. /\ line' = [line EXCEPT ![u] = None] /\ late' = [late EXCEPT ![u] = @ + 1]
      /\ drops' = drops + 1
      /\ waiting' = IF Telegram(u) THEN waiting ELSE waiting \ {u}
  BY DEF NoAnswer
<1> QED BY <1>1 DEF TypeOK, LineInv

\* Every step keeps the types.
LEMMA StepType ==
  ASSUME TypeOK, SaidInv, LineInv, [Next]_vars
  PROVE  TypeOK'
<1> USE NoneAssumption
<1>t. \A w \in Worker : step[w] # "idle" => hand[w] \in Update
  BY InHand
<1>o. (\A w \in Worker : ~Store(w)) => reports' \in Seq(Report) /\ DOMAIN reports' = DOMAIN reports
  BY OtherRows
<1>1. ASSUME NEW u \in Update, NEW text \in Text, Write(u, text) PROVE TypeOK'
  BY <1>1 DEF Write, TypeOK, handlers, operator
<1>2. ASSUME NEW u \in Update, HangUp(u) PROVE TypeOK'
  <2>1. line[u] # None /\ NoAnswer(u)
    BY <1>2 DEF HangUp
  <2>2. /\ waiting' \subseteq Update /\ drops' \in Nat
        /\ line' \in [Update -> Worker \cup {None}] /\ late' \in [Update -> Nat]
    BY <2>1, CallLost DEF TypeOK
  <2> QED BY <1>2, <2>2 DEF HangUp, TypeOK, handlers, operator
<1>3. ASSUME NEW w \in Worker, NEW u \in Update, Receive(w, u) PROVE TypeOK'
  <2>1. /\ line' \in [Update -> Worker \cup {None}]
        /\ hand' \in [Worker -> Update \cup {None}]
        /\ step' \in [Worker -> {"idle", "store", "asked", "received", "sorry"}]
        /\ \A v \in Worker : hand'[v] = None <=> step'[v] = "idle"
    BY <1>3 DEF Receive, TypeOK
  <2> QED BY <1>3, <2>1 DEF Receive, TypeOK, operator
<1>4. ASSUME NEW w \in Worker, Store(w) PROVE TypeOK'
  <2>1. hand[w] # None
    BY <1>4, InHand DEF Store
  <2>2. /\ step' \in [Worker -> {"idle", "store", "asked", "received", "sorry"}]
        /\ \A v \in Worker : hand'[v] = None <=> step'[v] = "idle"
    BY <1>4, <2>1 DEF Store, TypeOK
  <2>3. reports' \in Seq(Report) /\ DOMAIN reports \subseteq DOMAIN reports'
    <3>1. PICK u : u = hand[w]
      OBVIOUS
    <3> QED BY <1>4, <3>1, StoreRows
  <2> QED BY <1>4, <2>2, <2>3 DEF Store, TypeOK, chat, operator
<1>5. ASSUME NEW w \in Worker, StoreFails(w) PROVE TypeOK'
  <2>1. hand[w] # None
    BY <1>5, InHand DEF StoreFails
  <2>2. /\ step' \in [Worker -> {"idle", "store", "asked", "received", "sorry"}]
        /\ \A v \in Worker : hand'[v] = None <=> step'[v] = "idle"
    BY <1>5, <2>1 DEF StoreFails, TypeOK
  <2> QED BY <1>5, <2>2 DEF StoreFails, TypeOK, chat, operator
<1>6. ASSUME NEW w \in Worker, Reply(w) PROVE TypeOK'
  <2>1. hand[w] \in Update
    BY <1>6, <1>t DEF Reply
  <2>2. /\ step' \in [Worker -> {"idle", "store", "asked", "received", "sorry"}]
        /\ hand' \in [Worker -> Update \cup {None}]
        /\ \A v \in Worker : hand'[v] = None <=> step'[v] = "idle"
    BY <1>6 DEF Reply, TypeOK
  <2>3. replies' \subseteq [update : Update, what : {"asked", "received", "sorry"}]
    BY <1>6, <2>1 DEF Reply, TypeOK
  <2>4. line' \in [Update -> Worker \cup {None}] /\ waiting' \subseteq Update
    BY <1>6 DEF Reply, TypeOK
  <2> QED BY <1>6, <2>2, <2>3, <2>4 DEF Reply, TypeOK, operator
<1>7. ASSUME NEW w \in Worker, WorkerDies(w) PROVE TypeOK'
  <2>1. hand[w] \in Update
    BY <1>7 DEF WorkerDies, TypeOK
  <2>2. /\ step' \in [Worker -> {"idle", "store", "asked", "received", "sorry"}]
        /\ hand' \in [Worker -> Update \cup {None}]
        /\ \A v \in Worker : hand'[v] = None <=> step'[v] = "idle"
    BY <1>7 DEF WorkerDies, TypeOK
  <2>3. /\ waiting' \subseteq Update /\ drops' \in Nat
        /\ line' \in [Update -> Worker \cup {None}] /\ late' \in [Update -> Nat]
    <3>1. CASE line[hand[w]] = w
      <4>1. NoAnswer(hand[w]) /\ line[hand[w]] # None
        BY <1>7, <3>1 DEF WorkerDies
      <4> QED BY <2>1, <4>1, CallLost DEF TypeOK
    <3>2. CASE line[hand[w]] # w
      BY <1>7, <3>2 DEF WorkerDies, TypeOK
    <3> QED BY <3>1, <3>2
  <2> QED BY <1>7, <2>2, <2>3 DEF WorkerDies, TypeOK, operator
<1>8. ASSUME NEW place, List(place) PROVE TypeOK'
  <2>1. page' \subseteq DOMAIN reports
    BY <1>8 DEF List, Newest, In
  <2> QED BY <1>8, <2>1 DEF List, TypeOK, chat, handlers
<1>9. ASSUME NEW i \in page, Validate(i) PROVE TypeOK'
  <2>1. reports' \in Seq(Report) /\ DOMAIN reports' = DOMAIN reports
    <3>1. \A w \in Worker : ~Store(w)
      BY <1>9 DEF Validate, Store, handlers, TypeOK
    <3> QED BY <1>o, <3>1
  <2> QED BY <1>9, <2>1 DEF Validate, TypeOK, chat, handlers
<1>10. CASE UNCHANGED vars
  BY <1>10 DEF vars, TypeOK, chat, handlers, operator
<1> QED BY <1>1, <1>2, <1>3, <1>4, <1>5, <1>6, <1>7, <1>8, <1>9, <1>10 DEF Next, Handle, Deliver

\* Nothing becomes known of an update nobody wrote.
LEMMA StepSaid ==
  ASSUME TypeOK, SaidInv, LineInv, [Next]_vars
  PROVE  /\ SaidInv' /\ \A u \in Update : said[u] # None => said'[u] = said[u]
<1> USE NoneAssumption
<1>1. \A u \in Update : said[u] # None => said'[u] = said[u]
  BY DEF Next, Handle, Deliver, Write, HangUp, Receive, Store, StoreFails, Reply, WorkerDies,
         List, Validate, vars, chat, TypeOK
<1>2. ASSUME NEW u \in Update, said'[u] = None
      PROVE  /\ u \notin waiting' /\ RowsOf(u)' = {}
             /\ \A w \in Worker : hand'[w] # u
             /\ \A r \in replies' : r.update # u
  <2>1. /\ said[u] = None /\ u \notin waiting /\ RowsOf(u) = {}
        /\ \A w \in Worker : hand[w] # u
        /\ \A r \in replies : r.update # u
    BY <1>1, <1>2 DEF SaidInv
  <2>2. u \notin waiting'
    <3>1. ASSUME NEW v \in Update, NEW text \in Text, Write(v, text) PROVE u \notin waiting'
      <4>1. said'[v] # None
        BY <3>1 DEF Write, TypeOK
      <4> QED BY <1>2, <2>1, <3>1, <4>1 DEF Write
    <3>2. CASE waiting' \subseteq waiting
      BY <2>1, <3>2
    <3> QED BY <3>1, <3>2 DEF Next, Handle, Deliver, HangUp, NoAnswer, Receive, Store, StoreFails,
         Reply, WorkerDies, List, Validate, vars, chat
  <2>3. RowsOf(u)' = {}
    <3>1. ASSUME NEW w \in Worker, Store(w) PROVE RowsOf(u)' = {}
      <4>1. PICK v : v = hand[w] /\ v # u
        BY <2>1
      <4> QED BY <2>1, <3>1, <4>1, StoreRows
    <3> QED BY <2>1, <3>1, OtherRows
  <2>4. \A w \in Worker : hand'[w] # u
    <3>1. ASSUME NEW w \in Worker, NEW v \in Update, Receive(w, v)
          PROVE  \A x \in Worker : hand'[x] # u
      BY <2>1, <3>1 DEF Receive, TypeOK
    <3>2. ASSUME NEW w \in Worker, Reply(w) \/ WorkerDies(w)
          PROVE  \A x \in Worker : hand'[x] # u
      BY <2>1, <3>2 DEF Reply, WorkerDies, TypeOK
    <3>3. CASE hand' = hand
      BY <2>1, <3>3
    <3> QED BY <3>1, <3>2, <3>3 DEF Next, Handle, Deliver, Write, HangUp, Store, StoreFails,
         List, Validate, vars, handlers
  <2>5. \A r \in replies' : r.update # u
    <3>1. CASE \E w \in Worker : Reply(w)
      BY <2>1, <3>1 DEF Reply
    <3>2. CASE \A w \in Worker : ~Reply(w)
      <4>1. replies' = replies
        BY <3>2 DEF Next, Handle, Deliver, Write, HangUp, Receive, Store, StoreFails,
             WorkerDies, List, Validate, vars
      <4> QED BY <2>1, <4>1
    <3> QED BY <3>1, <3>2
  <2> QED BY <2>2, <2>3, <2>4, <2>5
<1> QED BY <1>1, <1>2 DEF SaidInv

\* The service goes on awaiting answers only about what it holds.
LEMMA StepLine ==
  ASSUME TypeOK, SaidInv, LineInv, [Next]_vars
  PROVE  LineInv'
<1> USE NoneAssumption
<1>1. ASSUME NEW u \in Update, HangUp(u) PROVE LineInv'
  BY <1>1, CallLost DEF HangUp, LineInv
<1>2. ASSUME NEW w \in Worker, WorkerDies(w) PROVE LineInv'
  <2>1. CASE line[hand[w]] = w
    BY <1>2, <2>1, CallLost DEF WorkerDies, LineInv, TypeOK
  <2>2. CASE line[hand[w]] # w
    BY <1>2, <2>2 DEF WorkerDies, LineInv
  <2> QED BY <2>1, <2>2
<1>3. ASSUME NEW w \in Worker, Reply(w) PROVE LineInv'
  BY <1>3 DEF Reply, LineInv
<1>4. ASSUME NEW w \in Worker, NEW u \in Update, Receive(w, u) PROVE LineInv'
  BY <1>4 DEF Receive, LineInv, TypeOK
<1>5. ASSUME NEW u \in Update, NEW text \in Text, Write(u, text) PROVE LineInv'
  BY <1>5 DEF Write, LineInv, TypeOK
<1>6. CASE UNCHANGED <<line, waiting>>
  BY <1>6 DEF LineInv
<1> QED BY <1>1, <1>2, <1>3, <1>4, <1>5, <1>6
        DEF Next, Handle, Deliver, Store, StoreFails, List, Validate, vars, chat

\* "Report received" is only said with a row in the table.
LEMMA StepStored ==
  ASSUME TypeOK, SaidInv, LineInv, StoredInv, [Next]_vars
  PROVE  StoredInv'
<1> USE NoneAssumption
<1>g. \A u : RowsOf(u) # {} => RowsOf(u)' # {}
  BY RowsGrow
<1>1. ASSUME NEW v \in Worker, step'[v] = "received"
      PROVE  \A u : u = hand'[v] => RowsOf(u)' # {}
  <2>1. CASE Store(v)
    <3>1. PICK u : u = hand[v]
      OBVIOUS
    <3>2. RowsOf(u)' # {}
      BY <2>1, <3>1, StoreRows
    <3> QED BY <2>1, <3>1, <3>2 DEF Store
  <2>2. CASE ~Store(v)
    <3> DEFINE Kept == step[v] = "received" /\ hand'[v] = hand[v]
    <3>0. hand \in [Worker -> Update \cup {None}]
          /\ step \in [Worker -> {"idle", "store", "asked", "received", "sorry"}]
      BY DEF TypeOK
    <3>a. ASSUME NEW w \in Worker, WorkerDies(w) \/ Reply(w) PROVE Kept
      BY <1>1, <3>0, <3>a DEF WorkerDies, Reply
    <3>b. ASSUME NEW w \in Worker, Store(w) \/ StoreFails(w) PROVE Kept
      BY <1>1, <2>2, <3>0, <3>b DEF Store, StoreFails
    <3>c. ASSUME NEW w \in Worker, NEW u \in Update, Receive(w, u) PROVE Kept
      BY <1>1, <3>0, <3>c DEF Receive
    <3>d. ASSUME UNCHANGED <<hand, step>> PROVE Kept
      BY <1>1, <3>d
    <3>e. ASSUME UNCHANGED handlers PROVE Kept
      BY <3>d, <3>e DEF handlers
    <3> HIDE DEF Kept
    <3>1. Kept
      BY <3>a, <3>b, <3>c, <3>e DEF Next, Handle, Deliver, Write, HangUp, List, Validate, vars
    <3> QED BY <1>g, <3>1 DEF StoredInv, Kept
  <2> QED BY <2>1, <2>2
<1>2. ASSUME NEW r \in replies', r.what = "received" PROVE RowsOf(r.update)' # {}
  <2>1. CASE r \in replies
    BY <1>2, <1>g, <2>1 DEF StoredInv
  <2>2. CASE r \notin replies
    <3>1. PICK w \in Worker : Reply(w)
      BY <2>2 DEF Next, Handle, Deliver, Write, HangUp, Receive, Store, StoreFails, WorkerDies,
           List, Validate, vars
    <3>2. r.update = hand[w] /\ step[w] = "received"
      BY <1>2, <2>2, <3>1 DEF Reply
    <3> QED BY <1>g, <3>2 DEF StoredInv
  <2> QED BY <2>1, <2>2
<1> QED BY <1>1, <1>2 DEF StoredInv

\* Rows stay filed under what their text says, and valid only by a button.
LEMMA StepRow ==
  ASSUME TypeOK, SaidInv, LineInv, RowInv, [Next]_vars
  PROVE  RowInv'
<1>s. \A u \in Update : said[u] # None => said'[u] = said[u]
  BY StepSaid
<1>f. \A i \in DOMAIN reports : reports[i].from \in Update /\ said[reports[i].from] # None
  <2> SUFFICES ASSUME NEW i \in DOMAIN reports
               PROVE  reports[i].from \in Update /\ said[reports[i].from] # None
    OBVIOUS
  <2>1. reports[i].from \in Update
    BY TableShape DEF Report
  <2>2. i \in RowsOf(reports[i].from)
    BY DEF RowsOf
  <2> QED BY <2>1, <2>2 DEF SaidInv
<1>1. ASSUME NEW w \in Worker, Store(w) PROVE RowInv'
  <2>1. PICK u : u = hand[w]
    OBVIOUS
  <2>2. said' = said /\ pressed' = pressed
    BY <1>1 DEF Store, chat, operator
  <2>3. /\ reports'[Len(reports) + 1] = Row(u)
        /\ DOMAIN reports' = DOMAIN reports \cup {Len(reports) + 1}
        /\ \A i \in DOMAIN reports : reports'[i] = reports[i]
    BY <1>1, <2>1, StoreRows
  <2>4. Row(u).place = Filed(said[u]) /\ Row(u).from = u /\ Row(u).valid = FALSE
    BY DEF Row
  <2> QED BY <2>2, <2>3, <2>4 DEF RowInv
<1>2. CASE \A w \in Worker : ~Store(w)
  <2>1. /\ DOMAIN reports' = DOMAIN reports
        /\ \A i \in DOMAIN reports :
             reports'[i].from = reports[i].from /\ reports'[i].place = reports[i].place
        /\ \A i \in DOMAIN reports : reports'[i].valid => reports[i].valid \/ i \in pressed'
        /\ pressed \subseteq pressed'
    BY <1>2, OtherRows
  <2> QED BY <1>f, <1>s, <2>1 DEF RowInv
<1> QED BY <1>1, <1>2

\* What Telegram stops repeating is settled.
LEMMA StepSwallowed ==
  ASSUME TypeOK, SaidInv, LineInv, StoredInv, NothingSwallowed, [Next]_vars
  PROVE  NothingSwallowed'
<1> USE NoneAssumption
<1>1. ASSUME NEW u \in Update, Telegram(u), said'[u] # None, u \notin waiting'
      PROVE  Settled(u)'
  <2>1. ASSUME Settled(u) PROVE Settled(u)'
    <3>1. replies \subseteq replies'
      BY DEF Next, Handle, Deliver, Write, HangUp, Receive, Store, StoreFails,
           Reply, WorkerDies, List, Validate, vars
    <3> QED BY <2>1, <3>1, RowsGrow DEF Settled
  <2>2. CASE u \notin waiting
    <3>1. said[u] # None
      BY <1>1, <2>2 DEF Next, Handle, Deliver, Write, HangUp, Receive, Store, StoreFails,
           Reply, WorkerDies, List, Validate, vars, chat, TypeOK
    <3> QED BY <1>1, <2>1, <2>2, <3>1 DEF NothingSwallowed
  <2>3. CASE u \in waiting
    <3>1. PICK w \in Worker : Reply(w)
      <4>1. ASSUME NEW v \in Update, HangUp(v) PROVE FALSE
        BY <1>1, <2>3, <4>1 DEF HangUp, NoAnswer
      <4>2. ASSUME NEW v \in Worker, WorkerDies(v) PROVE FALSE
        BY <1>1, <2>3, <4>2 DEF WorkerDies, NoAnswer
      <4> QED BY <1>1, <2>3, <4>1, <4>2 DEF Next, Handle, Deliver, Write, Receive, Store, StoreFails,
               List, Validate, vars, chat
    <3>2. hand[w] = u
      BY <1>1, <2>3, <3>1 DEF Reply, Acknowledged
    <3>3. CASE step[w] = "received"
      BY <2>1, <3>2, <3>3 DEF StoredInv, Settled
    <3>4. CASE step[w] # "received"
      <4> DEFINE r == [update |-> u, what |-> step[w]]
      <4>1. r \in replies' /\ r.update = u /\ r.what # "received"
        BY <3>1, <3>2, <3>4 DEF Reply
      <4> QED BY <4>1 DEF Settled
    <3> QED BY <3>3, <3>4
  <2> QED BY <2>2, <2>3
<1> QED BY <1>1 DEF NothingSwallowed, Telegram

-----------------------------------------------------------------------------
(* Counting rows against calls. *)

\* What CountInv says of one update.
Counted(u) ==
  /\ IsFiniteSet(Open(u))
  /\ Cardinality(RowsOf(u)) + Cardinality(Open(u)) + One(Sorry(u)) <= Budget(u)

\* The numbers CountInv compares are numbers.
LEMMA Numbers ==
  ASSUME TypeOK, NEW u \in Update, IsFiniteSet(Open(u))
  PROVE  /\ Cardinality(RowsOf(u)) \in Nat /\ Cardinality(Open(u)) \in Nat
         /\ One(Sorry(u)) \in {0, 1} /\ Budget(u) \in Nat
BY TableShape, FS_CardinalityType DEF TypeOK, One, Budget

\* No row more, no handler more, no apology more, and no call fewer.
LEMMA CountStays ==
  ASSUME TypeOK, TypeOK', NEW u \in Update, Counted(u), RowsOf(u)' = RowsOf(u),
         Open(u)' \subseteq Open(u), Sorry(u)' => Sorry(u), Budget(u) <= Budget(u)'
  PROVE  Counted(u)'
<1>1. /\ IsFiniteSet(Open(u)') /\ Cardinality(Open(u)') <= Cardinality(Open(u))
      /\ Cardinality(Open(u)') \in Nat
  BY FS_Subset, FS_CardinalityType DEF Counted
<1>2. /\ Cardinality(RowsOf(u)) \in Nat /\ Cardinality(Open(u)) \in Nat
      /\ One(Sorry(u)) \in {0, 1} /\ Budget(u) \in Nat
  BY Numbers DEF Counted
<1>3. Budget(u)' \in Nat
  BY DEF Budget, One, TypeOK
<1>4. One(Sorry(u)') \in {0, 1} /\ One(Sorry(u)') <= One(Sorry(u))
  BY DEF One
<1>5. Cardinality(RowsOf(u)) + Cardinality(Open(u)) + One(Sorry(u)) <= Budget(u)
  BY DEF Counted
<1>6. Cardinality(RowsOf(u)') + Cardinality(Open(u)') + One(Sorry(u)') <= Budget(u)'
  BY <1>1, <1>2, <1>3, <1>4, <1>5
<1> QED BY <1>1, <1>6 DEF Counted, One

\* One handler fewer for one row or one apology more.
LEMMA CountTurns ==
  ASSUME TypeOK, TypeOK', NEW u \in Update, Counted(u), NEW w \in Open(u),
         Open(u)' = Open(u) \ {w}, Budget(u)' = Budget(u),
         \/ /\ Cardinality(RowsOf(u)') <= Cardinality(RowsOf(u)) + 1
            /\ Cardinality(RowsOf(u)') \in Nat
            /\ Sorry(u)' <=> Sorry(u)
         \/ RowsOf(u)' = RowsOf(u)
  PROVE  Counted(u)'
<1>1. /\ IsFiniteSet(Open(u)') /\ Cardinality(Open(u)') = Cardinality(Open(u)) - 1
  BY FS_RemoveElement DEF Counted
<1>2. /\ Cardinality(RowsOf(u)) \in Nat /\ Cardinality(Open(u)) \in Nat
      /\ One(Sorry(u)) \in {0, 1} /\ Budget(u) \in Nat
  BY Numbers DEF Counted
<1>3. One(Sorry(u)') \in {0, 1}
  BY DEF One
<1>4. Cardinality(RowsOf(u)) + Cardinality(Open(u)) + One(Sorry(u)) <= Budget(u)
  BY DEF Counted
<1>5. CASE /\ Cardinality(RowsOf(u)') <= Cardinality(RowsOf(u)) + 1
           /\ Cardinality(RowsOf(u)') \in Nat /\ (Sorry(u)' <=> Sorry(u))
  <2>1. One(Sorry(u)') = One(Sorry(u))
    BY <1>5 DEF One
  <2>2. Cardinality(RowsOf(u)') + Cardinality(Open(u)') + One(Sorry(u)') <= Budget(u)'
    BY <1>1, <1>2, <1>4, <1>5, <2>1
  <2> QED BY <1>1, <2>2 DEF Counted, One
<1>6. CASE RowsOf(u)' = RowsOf(u)
  <2>1. Cardinality(RowsOf(u)') + Cardinality(Open(u)') + One(Sorry(u)') <= Budget(u)'
    BY <1>1, <1>2, <1>3, <1>4, <1>6
  <2> QED BY <1>1, <2>1 DEF Counted, One
<1> QED BY <1>5, <1>6

\* A call that ends unanswered is one more that may have left a row.
LEMMA BudgetLost ==
  ASSUME TypeOK, LineInv, NEW v \in Update, line[v] # None, NoAnswer(v), NEW u \in Update
  PROVE  Budget(u) <= Budget(u)'
<1>1. /\ line' = [line EXCEPT ![v] = None] /\ late' = [late EXCEPT ![v] = @ + 1]
      /\ waiting' = IF Telegram(v) THEN waiting ELSE waiting \ {v}
  BY DEF NoAnswer
<1>2. v \in waiting
  BY DEF LineInv
<1>3. CASE u = v /\ Telegram(u)
  BY <1>1, <1>2, <1>3 DEF Budget, One, TypeOK, Telegram
<1>4. CASE u = v /\ ~Telegram(u)
  BY <1>1, <1>2, <1>4 DEF Budget, One, TypeOK, Telegram
<1>5. CASE u # v
  BY <1>1, <1>5 DEF Budget, One, TypeOK, Telegram
<1> QED BY <1>3, <1>4, <1>5

\* Every step keeps the count.
LEMMA StepCount ==
  ASSUME TypeOK, TypeOK', SaidInv, LineInv, CountInv, [Next]_vars
  PROVE  CountInv'
<1> USE NoneAssumption
<1> SUFFICES ASSUME NEW u \in Update PROVE Counted(u)'
  BY DEF CountInv, Counted
<1>c. Counted(u)
  BY DEF CountInv, Counted
<1>n. /\ Cardinality(RowsOf(u)) \in Nat /\ Cardinality(Open(u)) \in Nat
      /\ One(Sorry(u)) \in {0, 1} /\ Budget(u) \in Nat
  BY <1>c, Numbers DEF Counted
<1>o. (\A w \in Worker : ~Store(w)) => RowsOf(u)' = RowsOf(u)
  BY OtherRows
<1>1. ASSUME NEW v \in Update, NEW text \in Text, Write(v, text) PROVE Counted(u)'
  <2>1. UNCHANGED <<hand, step, replies, late, line, reports>>
    BY <1>1 DEF Write, handlers
  <2>2. Open(u)' = Open(u) /\ (Sorry(u)' <=> Sorry(u)) /\ RowsOf(u)' = RowsOf(u)
    BY <2>1 DEF Open, Sorry, RowsOf
  <2>3. CASE u = v
    <3>1. RowsOf(u) = {} /\ Open(u) = {} /\ ~Sorry(u)
      BY <1>1, <2>3 DEF Write, SaidInv, Open, Sorry
    <3>2. Budget(u)' \in Nat
      BY DEF Budget, One, TypeOK
    <3>3. One(Sorry(u)') = 0
      BY <2>2, <3>1 DEF One
    <3>4. /\ IsFiniteSet(Open(u)')
          /\ Cardinality(RowsOf(u)') + Cardinality(Open(u)') + One(Sorry(u)') <= Budget(u)'
      BY <2>2, <3>1, <3>2, <3>3, FS_EmptySet
    <3> QED BY <3>4 DEF Counted, One
  <2>4. CASE u # v
    <3>1. u \in waiting' <=> u \in waiting
      BY <1>1, <2>4 DEF Write
    <3>2. Budget(u)' = Budget(u)
      BY <2>1, <3>1 DEF Budget, One, Telegram
    <3> QED BY <1>c, <1>n, <2>2, <3>2, CountStays
  <2> QED BY <2>3, <2>4
<1>2. ASSUME NEW v \in Update, HangUp(v) PROVE Counted(u)'
  <2>1. UNCHANGED <<hand, step, replies, reports>>
    BY <1>2 DEF HangUp, handlers
  <2>2. Open(u)' = Open(u) /\ (Sorry(u)' <=> Sorry(u)) /\ RowsOf(u)' = RowsOf(u)
    BY <2>1 DEF Open, Sorry, RowsOf
  <2>3. Budget(u) <= Budget(u)'
    BY <1>2, BudgetLost DEF HangUp
  <2> QED BY <1>c, <2>2, <2>3, CountStays
<1>3. ASSUME NEW w \in Worker, WorkerDies(w) PROVE Counted(u)'
  <2>1. UNCHANGED <<replies, reports>> /\ hand[w] \in Update
    BY <1>3 DEF WorkerDies, TypeOK
  <2>2. Open(u)' \subseteq Open(u) /\ (Sorry(u)' <=> Sorry(u)) /\ RowsOf(u)' = RowsOf(u)
    BY <1>3, <2>1 DEF WorkerDies, Open, Sorry, RowsOf, TypeOK
  <2>3. Budget(u) <= Budget(u)'
    <3>1. CASE line[hand[w]] = w
      <4>1. NoAnswer(hand[w]) /\ line[hand[w]] # None
        BY <1>3, <3>1 DEF WorkerDies
      <4>2. PICK v \in Update : v = hand[w]
        BY <2>1
      <4> QED BY <4>1, <4>2, BudgetLost
    <3>2. CASE line[hand[w]] # w
      <4>1. UNCHANGED <<waiting, line, late>>
        BY <1>3, <3>2 DEF WorkerDies
      <4> QED BY <1>n, <4>1 DEF Budget, One, Telegram
    <3> QED BY <3>1, <3>2
  <2> QED BY <1>c, <2>2, <2>3, CountStays
<1>4. ASSUME NEW w \in Worker, NEW v \in Update, Receive(w, v) PROVE Counted(u)'
  <2>1. /\ UNCHANGED <<waiting, late, replies, reports>> /\ line' = [line EXCEPT ![v] = w]
        /\ hand' = [hand EXCEPT ![w] = v] /\ v \in waiting /\ line[v] = None
        /\ hand[w] = None
        /\ \E s \in {"asked", "store"} : step' = [step EXCEPT ![w] = s]
    BY <1>4 DEF Receive
  <2>2. (Sorry(u)' <=> Sorry(u)) /\ RowsOf(u)' = RowsOf(u)
    BY <2>1 DEF Sorry, RowsOf
  <2>3. CASE u # v
    <3>1. Open(u)' \subseteq Open(u)
      BY <2>1, <2>3 DEF Open, TypeOK
    <3>2. Budget(u)' = Budget(u)
      BY <2>1, <2>3 DEF Budget, One, Telegram, TypeOK
    <3> QED BY <1>c, <1>n, <2>2, <3>1, <3>2, CountStays
  <2>4. CASE u = v
    <3>1. Open(u)' \subseteq Open(u) \cup {w}
      BY <2>1, <2>4 DEF Open, TypeOK
    <3>2. /\ IsFiniteSet(Open(u) \cup {w})
          /\ Cardinality(Open(u) \cup {w}) \in Nat
          /\ Cardinality(Open(u) \cup {w}) <= Cardinality(Open(u)) + 1
      BY <1>c, AddOne DEF Counted
    <3>3. /\ IsFiniteSet(Open(u)') /\ Cardinality(Open(u)') \in Nat
          /\ Cardinality(Open(u)') <= Cardinality(Open(u)) + 1
      BY <1>n, <3>1, <3>2, FS_Subset, FS_CardinalityType
    <3>4. Budget(u)' = Budget(u) + 1
      BY <2>1, <2>4 DEF Budget, One, Telegram, TypeOK
    <3>5. One(Sorry(u)') = One(Sorry(u))
      BY <2>2 DEF One
    <3>6. Cardinality(RowsOf(u)) + Cardinality(Open(u)) + One(Sorry(u)) <= Budget(u)
      BY <1>c DEF Counted
    <3>7. Cardinality(RowsOf(u)') + Cardinality(Open(u)') + One(Sorry(u)') <= Budget(u)'
      BY <1>n, <2>2, <3>3, <3>4, <3>5, <3>6
    <3> QED BY <3>3, <3>7 DEF Counted, One
  <2> QED BY <2>3, <2>4
<1>5. ASSUME NEW w \in Worker, Store(w) PROVE Counted(u)'
  <2>1. /\ UNCHANGED <<waiting, late, line, hand, replies>>
        /\ step' = [step EXCEPT ![w] = "received"] /\ step[w] = "store"
    BY <1>5 DEF Store, chat
  <2>2. (Sorry(u)' <=> Sorry(u)) /\ Budget(u)' = Budget(u)
    BY <2>1 DEF Sorry, Budget, One, Telegram
  <2>3. CASE hand[w] = u
    <3>1. w \in Open(u) /\ Open(u)' = Open(u) \ {w}
      BY <2>1, <2>3 DEF Open, TypeOK
    <3>2. \E n : RowsOf(u)' = RowsOf(u) \cup {n} /\ n \notin RowsOf(u)
      BY <1>5, <2>3, StoreRows
    <3>3. /\ Cardinality(RowsOf(u)') = Cardinality(RowsOf(u)) + 1
          /\ Cardinality(RowsOf(u)') \in Nat
      <4>1. IsFiniteSet(RowsOf(u))
        BY TableShape
      <4> QED BY <3>2, <4>1, AddOne
    <3> QED BY <1>c, <1>n, <2>2, <3>1, <3>3, CountTurns
  <2>4. CASE hand[w] # u
    <3>1. RowsOf(u)' = RowsOf(u)
      <4>1. PICK v : v = hand[w]
        OBVIOUS
      <4> QED BY <1>5, <2>4, <4>1, StoreRows
    <3>2. Open(u)' \subseteq Open(u)
      BY <2>1, <2>4 DEF Open, TypeOK
    <3> QED BY <1>c, <1>n, <2>2, <3>1, <3>2, CountStays
  <2> QED BY <2>3, <2>4
<1>6. ASSUME NEW w \in Worker, StoreFails(w) PROVE Counted(u)'
  <2>1. /\ UNCHANGED <<waiting, late, line, hand, replies, reports>>
        /\ step' = [step EXCEPT ![w] = "sorry"] /\ step[w] = "store"
    BY <1>6 DEF StoreFails, chat
  <2>2. (Sorry(u)' <=> Sorry(u)) /\ Budget(u)' = Budget(u) /\ RowsOf(u)' = RowsOf(u)
    BY <2>1 DEF Sorry, Budget, One, Telegram, RowsOf
  <2>3. Open(u)' \subseteq Open(u)
    BY <2>1 DEF Open, TypeOK
  <2> QED BY <1>c, <1>n, <2>2, <2>3, CountStays
<1>7. ASSUME NEW w \in Worker, Reply(w) PROVE Counted(u)'
  <2>1. /\ UNCHANGED <<late, reports>> /\ hand' = [hand EXCEPT ![w] = None]
        /\ step' = [step EXCEPT ![w] = "idle"]
        /\ step[w] \in {"asked", "received", "sorry"}
        /\ replies' = replies \cup {[update |-> hand[w], what |-> step[w]]}
    BY <1>7 DEF Reply
  <2>2. RowsOf(u)' = RowsOf(u)
    BY <2>1 DEF RowsOf
  <2>3. Budget(u)' = Budget(u)
    <3>1. CASE u \in Acknowledged(w)
      <4>1. u \in waiting /\ line[u] # None
        BY <3>1 DEF Acknowledged, LineInv
      <4>2. u \notin waiting'
        BY <1>7, <3>1 DEF Reply
      <4> QED BY <2>1, <4>1, <4>2 DEF Budget, One, Telegram
    <3>2. CASE u \notin Acknowledged(w)
      <4>1. (u \in waiting' <=> u \in waiting) /\ line'[u] = line[u]
        BY <1>7, <3>2 DEF Reply
      <4> QED BY <2>1, <4>1 DEF Budget, One, Telegram
    <3> QED BY <3>1, <3>2
  <2>4. CASE hand[w] = u /\ step[w] = "sorry"
    <3>1. w \in Open(u) /\ Open(u)' = Open(u) \ {w}
      BY <2>1, <2>4 DEF Open, TypeOK
    <3> QED BY <1>c, <2>2, <2>3, <3>1, CountTurns
  <2>5. CASE ~(hand[w] = u /\ step[w] = "sorry")
    <3>1. Open(u)' \subseteq Open(u)
      BY <2>1 DEF Open, TypeOK
    <3>2. Sorry(u)' => Sorry(u)
      BY <2>1, <2>5 DEF Sorry
    <3> QED BY <1>c, <1>n, <2>2, <2>3, <3>1, <3>2, CountStays
  <2> QED BY <2>4, <2>5
<1>8. CASE /\ UNCHANGED <<chat, hand, step, replies>>
           /\ \A w \in Worker : ~Store(w)
  <2>1. UNCHANGED <<waiting, late, line, hand, step, replies>>
    BY <1>8 DEF chat
  <2>2. Open(u)' = Open(u) /\ (Sorry(u)' <=> Sorry(u)) /\ Budget(u)' = Budget(u)
    BY <2>1 DEF Open, Sorry, Budget, One, Telegram
  <2> QED BY <1>8, <1>c, <1>n, <1>o, <2>2, CountStays
<1> QED BY <1>1, <1>2, <1>3, <1>4, <1>5, <1>6, <1>7, <1>8
        DEF Next, Handle, Deliver, List, Validate, vars, handlers

\* The empty table satisfies the invariant.
LEMMA InitC == Init => CInv
<1> SUFFICES ASSUME Init PROVE CInv
  OBVIOUS
<1>1. reports = << >> /\ DOMAIN reports = {} /\ reports \in Seq(Report)
  BY DEF Init
<1>2. TypeOK
  BY <1>1, NoneAssumption DEF Init, TypeOK
<1>3. \A u \in Update : RowsOf(u) = {} /\ Open(u) = {} /\ ~Sorry(u)
  BY <1>1 DEF Init, RowsOf, Open, Sorry
<1>4. SaidInv /\ LineInv /\ StoredInv /\ RowInv
  BY <1>1, <1>3, NoneAssumption DEF Init, SaidInv, LineInv, StoredInv, RowInv
<1>5. CountInv
  <2>1. \A u \in Update : Budget(u) = 1 /\ One(Sorry(u)) = 0
    BY <1>3 DEF Init, Budget, One
  <2> QED BY <1>3, <2>1, FS_EmptySet DEF CountInv
<1>6. NothingSwallowed
  BY DEF Init, NothingSwallowed
<1> QED BY <1>2, <1>4, <1>5, <1>6 DEF CInv

\* Every step keeps the invariant.
LEMMA StepC == CInv /\ [Next]_vars => CInv'
BY StepType, StepSaid, StepLine, StepStored, StepRow, StepSwallowed, StepCount DEF CInv

\* The invariant holds in every reachable state.
LEMMA AlwaysC == Spec => []CInv
BY InitC, StepC, PTL DEF Spec
-----------------------------------------------------------------------------
\* Every variable keeps its type, whatever workers and services do.
THEOREM TypeCorrect == Spec => []TypeOK
<1>1. CInv => TypeOK
  BY DEF CInv
<1> QED BY <1>1, AlwaysC, PTL

\* A report is stored once, and of Telegram once more for each lost answer.
THEOREM RowsAreExplained == Spec => []RowsExplained
<1>1. CInv => RowsExplained
  <2> SUFFICES ASSUME CInv, NEW u \in Update
               PROVE  Cardinality(RowsOf(u)) <= IF Telegram(u) THEN 1 + late[u] ELSE 1
    BY DEF RowsExplained
  <2>1. Counted(u)
    BY DEF CInv, CountInv, Counted
  <2>2. late[u] \in Nat
    BY DEF CInv, TypeOK
  <2>3. Budget(u) <= IF Telegram(u) THEN 1 + late[u] ELSE 1
    BY <2>2 DEF Budget, One
  <2>4. /\ Cardinality(RowsOf(u)) \in Nat /\ Cardinality(Open(u)) \in Nat
        /\ One(Sorry(u)) \in {0, 1} /\ Budget(u) \in Nat
    BY <2>1, Numbers DEF Counted, CInv
  <2>5. Cardinality(RowsOf(u)) <= Budget(u)
    BY <2>1, <2>4 DEF Counted
  <2> QED BY <2>2, <2>3, <2>4, <2>5
<1> QED BY <1>1, AlwaysC, PTL

\* What Telegram no longer repeats was stored or answered.
THEOREM NothingIsSwallowed == Spec => []NothingSwallowed
<1>1. CInv => NothingSwallowed
  BY DEF CInv
<1> QED BY <1>1, AlwaysC, PTL

\* "Report received" is true, and so is "try again", but for lost answers.
THEOREM RepliesHonest == Spec => []RepliesAreHonest
<1>1. CInv => RepliesAreHonest
  <2> SUFFICES ASSUME CInv PROVE RepliesAreHonest
    OBVIOUS
  <2> USE DEF CInv
  <2>1. ASSUME NEW r \in replies, r.what = "received"
        PROVE  \E i \in RowsOf(r.update) :
                 \/ reports[i].place = Unclassified /\ Names[said[r.update]] = {}
                 \/ \E t \in Names[said[r.update]] :
                      /\ DistrictOf[t] = reports[i].place
                      /\ \A s \in Names[said[r.update]] : Rank[t] <= Rank[s]
    <3>1. PICK i \in RowsOf(r.update) : TRUE
      BY <2>1 DEF StoredInv
    <3>2. r.update \in Update /\ said[r.update] \in Text
      BY DEF TypeOK, SaidInv
    <3>3. reports[i].place = Filed(said[r.update])
      BY DEF RowInv, RowsOf
    <3> QED BY <3>2, <3>3, FiledMeaning
  <2>2. ASSUME NEW r \in replies, r.what = "sorry"
        PROVE  Cardinality(RowsOf(r.update)) <= late[r.update]
    <3>1. PICK u \in Update : u = r.update
      BY DEF TypeOK
    <3>2. Sorry(u) /\ Counted(u) /\ late[u] \in Nat
      BY <2>2, <3>1 DEF Sorry, CountInv, Counted, TypeOK
    <3>3. /\ Cardinality(RowsOf(u)) \in Nat /\ Cardinality(Open(u)) \in Nat /\ Budget(u) \in Nat
      BY <3>2, Numbers DEF Counted
    <3>4. Cardinality(RowsOf(u)) + 1 <= Budget(u)
      BY <3>2, <3>3 DEF Counted, One
    <3>5. Budget(u) <= late[u] + 1
      BY <3>2 DEF Budget, One
    <3> QED BY <3>1, <3>2, <3>3, <3>4, <3>5
  <2> QED BY <2>1, <2>2 DEF RepliesAreHonest
<1> QED BY <1>1, AlwaysC, PTL

\* Evidence that confirms a flood was validated row by row, in its district.
THEOREM EvidenceReviewed == Spec => []EvidenceIsReviewed
<1>1. CInv => EvidenceIsReviewed
  <2> SUFFICES ASSUME CInv, NEW district \in District, Confirms(district)
               PROVE  Cardinality({i \in pressed : reports[i].place = district}) >= Threshold
    BY DEF EvidenceIsReviewed
  <2> USE DEF CInv
  <2> DEFINE P == {i \in pressed : reports[i].place = district}
  <2>1. Verified(district) \subseteq P
    BY PlaceAssumption DEF Verified, In, RowInv
  <2>2. IsFiniteSet(DOMAIN reports) /\ P \subseteq DOMAIN reports
    BY TableShape, FS_Interval DEF TypeOK
  <2> HIDE DEF P
  <2>3. IsFiniteSet(P)
    BY <2>2, FS_Subset
  <2>4. /\ Cardinality(Verified(district)) <= Cardinality(P)
        /\ Cardinality(P) \in Nat /\ Cardinality(Verified(district)) \in Nat
    BY <2>1, <2>3, FS_Subset, FS_CardinalityType
  <2>5. Cardinality(P) >= Threshold
    BY <2>4, NumberAssumption DEF Confirms
  <2> QED BY <2>5 DEF P
<1> QED BY <1>1, AlwaysC, PTL
=============================================================================
