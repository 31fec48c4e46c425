------------------------- MODULE Durability_proofs --------------------------
(***************************************************************************)
(* Proofs about what is kept: the queue over a database that can fall      *)
(* back, for any alerts and reviewers and any number of replaced           *)
(* containers; the log of the weekly forecasts (WeeklyForecast); and the   *)
(* pulled files of the research data (ResearchPulls).  The three share     *)
(* nothing.                                                                *)
(*                                                                         *)
(* The queue first.                                                        *)
(* A restore cuts the log to a prefix of itself.  The parts of the         *)
(* invariant that promise the existence of a write are therefore stated    *)
(* of every prefix, the others of every pair of writes.                    *)
(***************************************************************************)
EXTENDS Durability, WeeklyForecast, ResearchPulls, FiniteSetTheorems, SequenceTheorems, TLAPS

\* The positions of the log's first n writes.
Upto(n) == 1 .. n

\* The shape of the state, the ids of the rows left to IdsInv.
Types ==
  /\ log \in Seq(Write) /\ replica \in 0 .. Len(log)
  /\ claimed \subseteq Alert \X Kind
  /\ sent \in [Alert \X Kind -> Nat]
  /\ page \in [Reviewer -> SUBSET Write]
  /\ strayed \subseteq [shown : Write, row : Write]
  /\ lost \subseteq [at : 1 .. restores, write : Write]
  /\ restores \in 0 .. MaxRestores

\* In every prefix each id has a last write.
RowsInv ==
  \A n \in 0 .. Len(log) : \A k \in Upto(n) : \E j \in Upto(n) :
    /\ log[j].id = log[k].id
    /\ \A i \in Upto(n) : log[i].id = log[k].id => i <= j

\* In every prefix the ids count up from one.
IdsInv ==
  \A n \in 0 .. Len(log) : \E m \in 0 .. n : {log[k].id : k \in Upto(n)} = 1 .. m

\* Within one file an id names one alert and an alert has one id.
NamesInv ==
  \A i, j \in Upto(Len(log)) : log[i].id = log[j].id <=> log[i].alert = log[j].alert

\* A row goes from pending to approved or dismissed, from approved to
\* cancelled, and no further.
PathInv ==
  \A i, j \in Upto(Len(log)) : i < j /\ log[i].id = log[j].id =>
    /\ log[j].status # "pending"
    /\ \/ log[i].status = "pending"
       \/ log[i].status = "approved" /\ log[j].status = "cancelled"

\* Every write is of a row that was inserted before.
OriginInv ==
  \A k \in Upto(Len(log)) : \E i \in Upto(k) :
    log[i].status = "pending" /\ log[i].id = log[k].id /\ log[i].alert = log[k].alert

\* The file records the decision.
OnFile(a, kind) == \E k \in Upto(Len(log)) : log[k].alert = a /\ log[k].status = kind

One(condition) == IF condition THEN 1 ELSE 0

\* A broadcast made or to come is answered for: by the decision on file, or by
\* a restore that took it back.
SentInv ==
  /\ \A a \in Alert, kind \in Kind : <<a, kind>> \in claimed => OnFile(a, kind)
  /\ \A a \in Alert, kind \in Kind :
       sent[<<a, kind>>] + One(<<a, kind>> \in claimed)
         <= Cardinality(Undone(a, kind)) + One(OnFile(a, kind))

\* The insertion of what a page shows: on file still, or lost by a restore.
Inserted(shown) ==
  \E k \in Upto(Len(log)) :
    log[k].status = "pending" /\ log[k].id = shown.id /\ log[k].alert = shown.alert

InsertionLost(shown) ==
  \E l \in lost :
    l.write.status = "pending" /\ l.write.id = shown.id /\ l.write.alert = shown.alert

PageInv == \A v \in Reviewer : \A shown \in page[v] : Inserted(shown) \/ InsertionLost(shown)

LogInv == RowsInv /\ IdsInv /\ NamesInv /\ PathInv /\ OriginInv

DInv == Types /\ LogInv /\ SentInv /\ PageInv /\ DecisionsHitWhatWasSeen
-----------------------------------------------------------------------------
(* The log: one write more, or the part of it that was copied. *)

\* The log has one write more, w.
Adds(w) ==
  /\ log' \in Seq(Write) /\ Len(log) \in Nat /\ Len(log') = Len(log) + 1
  /\ log'[Len(log) + 1] = w
  /\ \A i \in Upto(Len(log)) : log'[i] = log[i]

\* What appending a write does.
LEMMA AppendAdds ==
  ASSUME log \in Seq(Write), NEW w \in Write, log' = Append(log, w)
  PROVE  Adds(w)
BY AppendProperties, LenProperties, ElementOfSeq DEF Upto, Adds

\* What a restore leaves.
LEMMA Cut ==
  ASSUME log \in Seq(Write), replica \in 0 .. Len(log), log' = Restored
  PROVE  /\ log' \in Seq(Write) /\ Len(log) \in Nat /\ Len(log') = replica
         /\ \A i \in Upto(replica) : log'[i] = log[i]
<1>1. Len(log) \in Nat /\ replica \in Int /\ \A i \in 1 .. replica : log[i] \in Write
  BY LenProperties, ElementOfSeq
<1>2. /\ SubSeq(log, 1, replica) \in Seq(Write)
      /\ Len(SubSeq(log, 1, replica)) = IF 1 <= replica THEN replica - 1 + 1 ELSE 0
      /\ \A i \in 1 .. replica - 1 + 1 : SubSeq(log, 1, replica)[i] = log[1 + i - 1]
  BY <1>1, SubSeqProperties, 1 \in Int
<1> QED BY <1>1, <1>2 DEF Restored, Upto

\* A prefix of a good log is a good log.
LEMMA CutKeepsLog ==
  ASSUME Types, LogInv, log' = Restored
  PROVE  LogInv'
<1>1. /\ Len(log) \in Nat /\ Len(log') = replica /\ replica \in 0 .. Len(log)
      /\ \A i \in Upto(replica) : log'[i] = log[i]
  BY Cut DEF Types
<1>2. /\ \A n \in 0 .. Len(log') : n \in 0 .. Len(log) /\ Upto(n) \subseteq Upto(replica)
      /\ Upto(replica) \subseteq Upto(Len(log))
      /\ \A k \in Upto(replica) : Upto(k) \subseteq Upto(replica)
  BY <1>1 DEF Upto
<1>3. RowsInv'
  <2> SUFFICES ASSUME NEW n \in 0 .. Len(log'), NEW k \in Upto(n)
               PROVE  \E j \in Upto(n) : /\ log'[j].id = log'[k].id
                        /\ \A i \in Upto(n) : log'[i].id = log'[k].id => i <= j
    BY DEF RowsInv, Upto
  <2>1. PICK j \in Upto(n) : /\ log[j].id = log[k].id
                             /\ \A i \in Upto(n) : log[i].id = log[k].id => i <= j
    BY <1>2 DEF LogInv, RowsInv
  <2> QED BY <1>1, <1>2, <2>1
<1>4. IdsInv'
  <2> SUFFICES ASSUME NEW n \in 0 .. Len(log')
               PROVE  \E m \in 0 .. n : {log'[k].id : k \in Upto(n)} = 1 .. m
    BY DEF IdsInv, Upto
  <2>1. {log'[k].id : k \in Upto(n)} = {log[k].id : k \in Upto(n)}
    BY <1>1, <1>2
  <2> QED BY <1>2, <2>1 DEF LogInv, IdsInv
<1>5. NamesInv' /\ PathInv'
  BY <1>1, <1>2 DEF LogInv, NamesInv, PathInv, Upto
<1>6. OriginInv'
  <2> SUFFICES ASSUME NEW k \in Upto(replica)
               PROVE  \E i \in Upto(k) : /\ log'[i].status = "pending"
                        /\ log'[i].id = log'[k].id /\ log'[i].alert = log'[k].alert
    BY <1>1 DEF OriginInv, Upto
  <2>1. PICK i \in Upto(k) :
          log[i].status = "pending" /\ log[i].id = log[k].id /\ log[i].alert = log[k].alert
    BY <1>2 DEF LogInv, OriginInv
  <2> QED BY <1>1, <1>2, <2>1
<1> QED BY <1>3, <1>4, <1>5, <1>6 DEF LogInv

\* Rows are last writes, and every write's row is among them.
LEMMA RowsAreLast ==
  ASSUME Types, LogInv
  PROVE  /\ \A r \in Rows : \E j \in Upto(Len(log)) :
              /\ r = log[j] /\ r \in Write
              /\ \A i \in Upto(Len(log)) : log[i].id = r.id => i <= j
         /\ \A k \in Upto(Len(log)) : \E r \in Rows : r.id = log[k].id /\ r.alert = log[k].alert
<1>1. DOMAIN log = Upto(Len(log)) /\ Len(log) \in Nat /\ \A i \in Upto(Len(log)) : log[i] \in Write
  BY LenProperties, ElementOfSeq DEF Types, Upto
<1>2. ASSUME NEW k \in Upto(Len(log))
      PROVE  \E r \in Rows : r.id = log[k].id /\ r.alert = log[k].alert
  <2>1. PICK j \in Upto(Len(log)) :
          /\ log[j].id = log[k].id
          /\ \A i \in Upto(Len(log)) : log[i].id = log[k].id => i <= j
    <3>1. Len(log) \in 0 .. Len(log)
      BY <1>1
    <3> QED BY <3>1 DEF LogInv, RowsInv
  <2>2. log[j] \in Rows
    BY <1>1, <2>1 DEF Rows
  <2>3. log[j].alert = log[k].alert
    BY <2>1 DEF LogInv, NamesInv
  <2> QED BY <2>1, <2>2, <2>3
<1>3. ASSUME NEW r \in Rows
      PROVE  \E j \in Upto(Len(log)) :
              /\ r = log[j] /\ r \in Write
              /\ \A i \in Upto(Len(log)) : log[i].id = r.id => i <= j
  BY <1>1 DEF Rows
<1> QED BY <1>2, <1>3

\* AUTOINCREMENT's next id is new, and leaves no gap.
LEMMA NextIdIsNew ==
  ASSUME Types, LogInv
  PROVE  /\ {w.id : w \in Rows} = {log[k].id : k \in Upto(Len(log))}
         /\ {w.id : w \in Rows} = 1 .. Cardinality({w.id : w \in Rows})
         /\ NextId \in Nat \ {0} /\ NextId - 1 \in 0 .. Len(log)
         /\ {log[k].id : k \in Upto(Len(log))} = 1 .. NextId - 1
<1> DEFINE ids == {w.id : w \in Rows}
<1>1. ids = {log[k].id : k \in Upto(Len(log))}
  BY RowsAreLast
<1>2. Len(log) \in Nat
  BY LenProperties DEF Types
<1>3. PICK m \in 0 .. Len(log) : ids = 1 .. m
  <2>1. \E m \in 0 .. Len(log) : {log[k].id : k \in Upto(Len(log))} = 1 .. m
    BY DEF LogInv, IdsInv
  <2> QED BY <1>1, <2>1
<1>4. Cardinality(1 .. m) = m
  BY <1>2, FS_Interval
<1>5. NextId = Cardinality(ids) + 1
  BY DEF NextId
<1> HIDE DEF ids
<1>6. Cardinality(ids) = m /\ NextId \in Nat \ {0} /\ NextId - 1 = m
  BY <1>2, <1>3, <1>4, <1>5
<1>7. ids = {w.id : w \in Rows}
  BY DEF ids
<1> QED BY <1>1, <1>3, <1>6, <1>7

\* Appending keeps the last writes and the ids, if the id is one more at most.
LEMMA AppendKeepsRows ==
  ASSUME Types, LogInv, NEW w \in Write, Adds(w),
         w.id \in 1 .. NextId
  PROVE  RowsInv' /\ IdsInv'
<1>1. /\ Len(log) \in Nat /\ Len(log') = Len(log) + 1
      /\ log'[Len(log) + 1] = w /\ \A i \in Upto(Len(log)) : log'[i] = log[i]
  BY DEF Adds
<1> DEFINE top == Len(log) + 1
<1>2. /\ \A n \in 0 .. Len(log') : n = top \/ n \in 0 .. Len(log)
      /\ \A n \in 0 .. Len(log) : Upto(n) \subseteq Upto(Len(log))
      /\ Upto(top) = Upto(Len(log)) \cup {top}
  BY <1>1 DEF Upto
<1>3. RowsInv'
  <2> SUFFICES ASSUME NEW n \in 0 .. Len(log'), NEW k \in Upto(n)
               PROVE  \E j \in Upto(n) : /\ log'[j].id = log'[k].id
                        /\ \A i \in Upto(n) : log'[i].id = log'[k].id => i <= j
    BY DEF RowsInv, Upto
  <2>1. CASE n \in 0 .. Len(log)
    <3>1. PICK j \in Upto(n) : /\ log[j].id = log[k].id
                               /\ \A i \in Upto(n) : log[i].id = log[k].id => i <= j
      BY <2>1 DEF LogInv, RowsInv
    <3> QED BY <1>1, <1>2, <2>1, <3>1
  <2>2. CASE n = top /\ log'[k].id = w.id
    BY <1>1, <2>2 DEF Upto
  <2>3. CASE n = top /\ log'[k].id # w.id
    <3>1. k \in Upto(Len(log))
      BY <1>1, <1>2, <2>3
    <3>2. PICK j \in Upto(Len(log)) :
            /\ log[j].id = log[k].id
            /\ \A i \in Upto(Len(log)) : log[i].id = log[k].id => i <= j
      BY <1>1, <3>1 DEF LogInv, RowsInv
    <3> QED BY <1>1, <1>2, <2>3, <3>1, <3>2
  <2> QED BY <1>2, <2>1, <2>2, <2>3
<1>4. IdsInv'
  <2> SUFFICES ASSUME NEW n \in 0 .. Len(log')
               PROVE  \E m \in 0 .. n : {log'[k].id : k \in Upto(n)} = 1 .. m
    BY DEF IdsInv, Upto
  <2>1. CASE n \in 0 .. Len(log)
    <3>1. {log'[k].id : k \in Upto(n)} = {log[k].id : k \in Upto(n)}
      BY <1>1, <1>2, <2>1
    <3> QED BY <2>1, <3>1 DEF LogInv, IdsInv
  <2>2. CASE n = top
    <3> DEFINE m == NextId - 1
    <3>1. {log'[k].id : k \in Upto(top)} = {log[k].id : k \in Upto(Len(log))} \cup {w.id}
      BY <1>1, <1>2
    <3>2. /\ {log[k].id : k \in Upto(Len(log))} = 1 .. m
          /\ m \in 0 .. Len(log) /\ w.id \in 1 .. m + 1
      <4>1. NextId \in Nat \ {0} /\ NextId = m + 1
        BY NextIdIsNew
      <4> QED BY <4>1, NextIdIsNew
    <3> HIDE DEF m
    <3>3. \/ (1 .. m) \cup {w.id} = 1 .. m
          \/ (1 .. m) \cup {w.id} = 1 .. m + 1
      BY <3>2
    <3>4. m \in 0 .. top /\ m + 1 \in 0 .. top
      BY <1>1, <3>2
    <3> QED BY <2>2, <3>1, <3>2, <3>3, <3>4
  <2> QED BY <1>2, <2>1, <2>2
<1> QED BY <1>3, <1>4


\* A new row keeps the log good.
LEMMA RowAdded ==
  ASSUME Types, LogInv, NEW w \in Write, Adds(w), w.status = "pending", w.id = NextId,
         \A k \in Upto(Len(log)) : log[k].alert # w.alert
  PROVE  LogInv'
<1> DEFINE top == Len(log) + 1
<1>1. \A k \in Upto(Len(log)) : log[k].id # w.id
  <2>1. \A k \in Upto(Len(log)) : log[k].id \in 1 .. NextId - 1
    BY NextIdIsNew
  <2>2. w.id \notin 1 .. NextId - 1
    BY NextIdIsNew
  <2> QED BY <2>1, <2>2
<1>2. /\ Len(log) \in Nat /\ Len(log') = top
      /\ log'[top] = w /\ \A i \in Upto(Len(log)) : log'[i] = log[i]
  BY DEF Adds
<1>3. /\ Upto(Len(log')) = Upto(Len(log)) \cup {top}
      /\ \A i \in Upto(Len(log)) : i < top /\ ~(top < i)
      /\ top \in Upto(top) /\ ~(top < top)
      /\ \A i \in Upto(Len(log)) : Upto(i) \subseteq Upto(Len(log))
  BY <1>2 DEF Upto
<1>4. w.id \in 1 .. NextId
  BY NextIdIsNew DEF Write
<1>5. RowsInv' /\ IdsInv'
  BY <1>4, AppendKeepsRows
<1> HIDE DEF top
<1>6. NamesInv'
  <2> SUFFICES ASSUME NEW i \in Upto(Len(log')), NEW j \in Upto(Len(log'))
               PROVE  log'[i].id = log'[j].id <=> log'[i].alert = log'[j].alert
    BY DEF NamesInv
  <2>1. CASE i = top /\ j = top
    BY <2>1
  <2>2. CASE i = top /\ j \in Upto(Len(log))
    BY <1>1, <1>2, <2>2
  <2>3. CASE i \in Upto(Len(log)) /\ j = top
    BY <1>1, <1>2, <2>3
  <2>4. CASE i \in Upto(Len(log)) /\ j \in Upto(Len(log))
    BY <1>2, <2>4 DEF LogInv, NamesInv
  <2> QED BY <1>3, <2>1, <2>2, <2>3, <2>4
<1>7. PathInv'
  <2> SUFFICES ASSUME NEW i \in Upto(Len(log')), NEW j \in Upto(Len(log')),
                      i < j, log'[i].id = log'[j].id
               PROVE  /\ log'[j].status # "pending"
                      /\ \/ log'[i].status = "pending"
                         \/ log'[i].status = "approved" /\ log'[j].status = "cancelled"
    BY DEF PathInv
  <2>1. i \in Upto(Len(log)) /\ j \in Upto(Len(log))
    BY <1>1, <1>2, <1>3
  <2> QED BY <1>2, <2>1 DEF LogInv, PathInv
<1>8. OriginInv'
  <2> SUFFICES ASSUME NEW k \in Upto(Len(log'))
               PROVE  \E i \in Upto(k) : /\ log'[i].status = "pending"
                        /\ log'[i].id = log'[k].id /\ log'[i].alert = log'[k].alert
    BY DEF OriginInv
  <2>1. CASE k = top
    BY <1>2, <1>3, <2>1
  <2>2. CASE k \in Upto(Len(log))
    <3>1. PICK i \in Upto(k) :
            log[i].status = "pending" /\ log[i].id = log[k].id /\ log[i].alert = log[k].alert
      BY <2>2 DEF LogInv, OriginInv
    <3>2. i \in Upto(Len(log))
      BY <1>3, <2>2
    <3> QED BY <1>2, <2>2, <3>1, <3>2
  <2> QED BY <1>3, <2>1, <2>2
<1> QED BY <1>5, <1>6, <1>7, <1>8 DEF LogInv

\* Queueing an alert the queue has never seen: a new id, a new name.
LEMMA QueueAdds ==
  ASSUME Types, LogInv, NEW a \in Alert, Queue(a)
  PROVE  LogInv' /\ \E w \in Write : Adds(w) /\ w.alert = a /\ w.status = "pending"
<1> DEFINE w == [id |-> NextId, alert |-> a, status |-> "pending"]
<1>1. NextId \in Nat \ {0}
  BY NextIdIsNew
<1>2. w \in Write /\ w.id = NextId /\ w.alert = a /\ w.status = "pending"
  BY <1>1 DEF Write
<1>3. Adds(w)
  BY <1>2, AppendAdds DEF Queue, Types
<1>4. \A k \in Upto(Len(log)) : log[k].alert # a
  BY RowsAreLast DEF Queue
<1> HIDE DEF w
<1> QED BY <1>2, <1>3, <1>4, RowAdded

\* A decision of a row keeps the log good, and is the first of its kind.
LEMMA RowDecided ==
  ASSUME Types, LogInv, NEW row \in Rows, NEW to \in Kind \cup {"dismissed"},
         row.status = From(to),
         NEW w \in Write, Adds(w), w.id = row.id, w.alert = row.alert, w.status = to
  PROVE  LogInv' /\ (to \in Kind => ~OnFile(row.alert, to))
<1> DEFINE top == Len(log) + 1
<1>1. PICK last \in Upto(Len(log)) :
        /\ row = log[last] /\ row \in Write
        /\ \A i \in Upto(Len(log)) : log[i].id = row.id => i <= last
  BY RowsAreLast
<1>2. /\ Len(log) \in Nat /\ Len(log') = top
      /\ log'[top] = w /\ \A i \in Upto(Len(log)) : log'[i] = log[i]
  BY DEF Adds
<1>3. /\ Upto(Len(log')) = Upto(Len(log)) \cup {top}
      /\ \A i \in Upto(Len(log)) : i < top /\ ~(top < i) /\ i \in Int
      /\ ~(top < top) /\ Upto(last) \subseteq Upto(top)
      /\ \A i \in Upto(Len(log)) : Upto(i) \subseteq Upto(Len(log))
  BY <1>2 DEF Upto
<1>4. w.id \in 1 .. NextId
  <2>1. row.id \in {r.id : r \in Rows}
    OBVIOUS
  <2>2. NextId \in Nat \ {0} /\ row.id \in 1 .. NextId - 1
    BY <2>1, NextIdIsNew
  <2> QED BY <2>2
<1>5. RowsInv' /\ IdsInv'
  BY <1>4, AppendKeepsRows
<1>6. to # "pending"
  BY DEF Kind
\* What the row was before: its insertion, or an approval to be cancelled.
<1>7. ASSUME NEW i \in Upto(Len(log)), log[i].id = w.id
      PROVE  \/ log[i].status = "pending"
             \/ log[i].status = "approved" /\ to = "cancelled"
  <2>1. CASE i = last
    BY <1>1, <2>1 DEF From
  <2>2. CASE i < last
    <3>1. \/ log[i].status = "pending"
          \/ log[i].status = "approved" /\ log[last].status = "cancelled"
      BY <1>1, <1>7, <2>2 DEF LogInv, PathInv
    <3>2. log[last].status # "cancelled"
      BY <1>1 DEF From
    <3> QED BY <3>1, <3>2
  <2>3. i <= last /\ i \in Int /\ last \in Int
    BY <1>1, <1>3, <1>7
  <2> QED BY <2>1, <2>2, <2>3
<1> HIDE DEF top
<1>8. NamesInv'
  <2> SUFFICES ASSUME NEW i \in Upto(Len(log')), NEW j \in Upto(Len(log'))
               PROVE  log'[i].id = log'[j].id <=> log'[i].alert = log'[j].alert
    BY DEF NamesInv
  <2> DEFINE at(n) == IF n = top THEN last ELSE n
  <2>1. \A n \in Upto(Len(log')) : /\ at(n) \in Upto(Len(log))
          /\ log'[n].id = log[at(n)].id /\ log'[n].alert = log[at(n)].alert
    BY <1>1, <1>2, <1>3
  <2> HIDE DEF at
  <2> QED BY <2>1 DEF LogInv, NamesInv
<1>9. PathInv'
  <2> SUFFICES ASSUME NEW i \in Upto(Len(log')), NEW j \in Upto(Len(log')),
                      i < j, log'[i].id = log'[j].id
               PROVE  /\ log'[j].status # "pending"
                      /\ \/ log'[i].status = "pending"
                         \/ log'[i].status = "approved" /\ log'[j].status = "cancelled"
    BY DEF PathInv
  <2>1. i \in Upto(Len(log))
    BY <1>3
  <2>2. CASE j = top
    BY <1>2, <1>6, <1>7, <2>1, <2>2
  <2>3. CASE j \in Upto(Len(log))
    BY <1>2, <2>1, <2>3 DEF LogInv, PathInv
  <2> QED BY <1>3, <2>2, <2>3
<1>10. OriginInv'
  <2> SUFFICES ASSUME NEW k \in Upto(Len(log'))
               PROVE  \E i \in Upto(k) : /\ log'[i].status = "pending"
                        /\ log'[i].id = log'[k].id /\ log'[i].alert = log'[k].alert
    BY DEF OriginInv
  <2> DEFINE m == IF k = top THEN last ELSE k
  <2>1. /\ m \in Upto(Len(log)) /\ Upto(m) \subseteq Upto(k)
        /\ log'[k].id = log[m].id /\ log'[k].alert = log[m].alert
    BY <1>1, <1>2, <1>3
  <2> HIDE DEF m
  <2>2. PICK i \in Upto(m) :
          log[i].status = "pending" /\ log[i].id = log[m].id /\ log[i].alert = log[m].alert
    BY <2>1 DEF LogInv, OriginInv
  <2>3. i \in Upto(Len(log))
    BY <1>3, <2>1
  <2> QED BY <1>2, <2>1, <2>2, <2>3
<1>11. ASSUME to \in Kind PROVE ~OnFile(row.alert, to)
  <2> SUFFICES ASSUME NEW k \in Upto(Len(log)), log[k].alert = row.alert, log[k].status = to
               PROVE  FALSE
    BY DEF OnFile
  <2>1. log[k].id = w.id
    BY <1>1 DEF LogInv, NamesInv
  <2> QED BY <1>6, <1>7, <2>1
<1> QED BY <1>5, <1>8, <1>9, <1>10, <1>11 DEF LogInv

\* What a reviewer's decision writes.
LEMMA DecideAdds ==
  ASSUME Types, LogInv, NEW v \in Reviewer, NEW shown \in page[v], NEW row \in Rows,
         NEW to \in Kind \cup {"dismissed"}, Decide(v, shown, row, to)
  PROVE  /\ LogInv' /\ row \in Write
         /\ to \in Kind => ~OnFile(row.alert, to)
         /\ \E w \in Write : Adds(w) /\ w.id = row.id /\ w.alert = row.alert /\ w.status = to
<1> DEFINE w == [row EXCEPT !.status = to]
<1>1. row \in Write
  BY RowsAreLast
<1>2. w \in Write /\ w.id = row.id /\ w.alert = row.alert /\ w.status = to
  BY <1>1 DEF Write, Kind
<1>3. Adds(w) /\ row.status = From(to)
  BY <1>2, AppendAdds DEF Decide, Claimable, Types
<1> HIDE DEF w
<1> QED BY <1>1, <1>2, <1>3, RowDecided
-----------------------------------------------------------------------------
(* What was broadcast, and what the pages show. *)

\* The restores that took a decision back are some of the restores so far.
LEMMA UndoneFinite ==
  ASSUME Types, NEW a, NEW kind
  PROVE  /\ Undone(a, kind) \subseteq 1 .. restores
         /\ IsFiniteSet(Undone(a, kind)) /\ Cardinality(Undone(a, kind)) \in Nat
<1>1. Undone(a, kind) \subseteq 1 .. restores
  BY DEF Types, Undone
<1>2. restores \in Int
  BY BoundAssumption DEF Types
<1>3. IsFiniteSet(1 .. restores)
  BY <1>2, FS_Interval
<1> QED BY <1>1, <1>3, FS_Subset, FS_CardinalityType

\* One write more: what is on file, and what of it is a decision.
LEMMA AddsOnFile ==
  ASSUME NEW w \in Write, Adds(w), NEW a, NEW kind
  PROVE  OnFile(a, kind)' <=> OnFile(a, kind) \/ (w.alert = a /\ w.status = kind)
<1>1. /\ Upto(Len(log')) = Upto(Len(log)) \cup {Len(log) + 1}
      /\ log'[Len(log) + 1] = w /\ \A i \in Upto(Len(log)) : log'[i] = log[i]
  BY DEF Adds, Upto
<1> QED BY <1>1 DEF OnFile

\* A page goes on showing what was inserted, whatever is added to the log.
LEMMA AddsInserted ==
  ASSUME NEW w \in Write, Adds(w), NEW shown, Inserted(shown)
  PROVE  Inserted(shown)'
<1>1. /\ Upto(Len(log)) \subseteq Upto(Len(log'))
      /\ \A i \in Upto(Len(log)) : log'[i] = log[i]
  BY DEF Adds, Upto
<1> QED BY <1>1 DEF Inserted

\* What only reads the log and what was lost stays as they are.
LEMMA SameLog ==
  ASSUME UNCHANGED <<log, lost>>
  PROVE  /\ LogInv => LogInv'
         /\ \A a, kind : (OnFile(a, kind)' <=> OnFile(a, kind)) /\ Undone(a, kind)' = Undone(a, kind)
         /\ \A shown : /\ Inserted(shown)' <=> Inserted(shown)
                       /\ InsertionLost(shown)' <=> InsertionLost(shown)
<1>1. (RowsInv => RowsInv') /\ (IdsInv => IdsInv')
  <2>1. RowsInv => RowsInv'
    BY DEF RowsInv
  <2>2. IdsInv => IdsInv'
    <3>1. log' = log
      OBVIOUS
    <3>2. ASSUME NEW n \in 0 .. Len(log)
          PROVE  {log'[k].id : k \in Upto(n)} = {log[k].id : k \in Upto(n)}
      BY <3>1
    <3>3. 0 .. Len(log') = 0 .. Len(log)
      BY <3>1
    <3> QED BY <3>2, <3>3 DEF IdsInv
  <2> QED BY <2>1, <2>2
<1>2. (NamesInv => NamesInv') /\ (PathInv => PathInv') /\ (OriginInv => OriginInv')
  BY DEF NamesInv, PathInv, OriginInv
<1>3. \A a, kind : (OnFile(a, kind)' <=> OnFile(a, kind)) /\ Undone(a, kind)' = Undone(a, kind)
  BY DEF OnFile, Undone
<1>4. \A shown : /\ Inserted(shown)' <=> Inserted(shown)
                 /\ InsertionLost(shown)' <=> InsertionLost(shown)
  BY DEF Inserted, InsertionLost
<1> QED BY <1>1, <1>2, <1>3, <1>4 DEF LogInv

\* Queueing leaves every decision as it was.
LEMMA QueueStep ==
  ASSUME DInv, NEW a \in Alert, Queue(a)
  PROVE  DInv'
<1>1. UNCHANGED <<replica, claimed, sent, page, strayed, lost, restores>>
  BY DEF Queue
<1>2. PICK w \in Write : LogInv' /\ Adds(w) /\ w.alert = a /\ w.status = "pending"
  BY QueueAdds DEF DInv
<1>3. Types'
  BY <1>1, <1>2 DEF DInv, Types, Adds
<1>4. \A b \in Alert, kind \in Kind :
        (OnFile(b, kind)' <=> OnFile(b, kind)) /\ Undone(b, kind)' = Undone(b, kind)
  BY <1>1, <1>2, AddsOnFile DEF Kind, Undone
<1>5. SentInv'
  BY <1>1, <1>4 DEF DInv, SentInv, One
<1>6. PageInv' /\ DecisionsHitWhatWasSeen'
  BY <1>1, <1>2, AddsInserted DEF DInv, PageInv, InsertionLost, DecisionsHitWhatWasSeen
<1> QED BY <1>2, <1>3, <1>5, <1>6 DEF DInv

\* A decision puts one broadcast in hand and one decision on file; if it hit
\* another alert than the page showed, that alert's insertion was lost.
LEMMA DecideStep ==
  ASSUME DInv, NEW v \in Reviewer, NEW shown \in page[v], NEW row \in Rows,
         NEW to \in Kind \cup {"dismissed"}, Decide(v, shown, row, to)
  PROVE  DInv'
<1>1. UNCHANGED <<replica, sent, page, lost, restores>>
  BY DEF Decide
<1>2. /\ LogInv' /\ row \in Write /\ (to \in Kind => ~OnFile(row.alert, to))
      /\ \E w \in Write : Adds(w) /\ w.id = row.id /\ w.alert = row.alert /\ w.status = to
  BY DecideAdds DEF DInv
<1>3. PICK w \in Write : Adds(w) /\ w.id = row.id /\ w.alert = row.alert /\ w.status = to
  BY <1>2
<1>4. shown \in Write /\ row.alert \in Alert
  BY <1>2 DEF DInv, Types, Write
<1>5. Types'
  <2>1. claimed' \subseteq Alert \X Kind
    BY <1>4 DEF Decide, DInv, Types
  <2>2. strayed' \subseteq [shown : Write, row : Write]
    BY <1>2, <1>4 DEF Decide, DInv, Types
  <2> QED BY <1>1, <1>3, <2>1, <2>2 DEF DInv, Types, Adds
<1>6. \A b, kind : OnFile(b, kind)' <=> OnFile(b, kind) \/ (row.alert = b /\ to = kind)
  BY <1>3, AddsOnFile
<1>7. SentInv'
  <2> SUFFICES ASSUME NEW b \in Alert, NEW kind \in Kind
               PROVE  /\ <<b, kind>> \in claimed' => OnFile(b, kind)'
                      /\ sent[<<b, kind>>] + One(<<b, kind>> \in claimed')
                           <= Cardinality(Undone(b, kind)) + One(OnFile(b, kind)')
    <3>1. /\ \A b \in Alert, kind \in Kind : <<b, kind>> \in claimed' => OnFile(b, kind)'
          /\ \A b \in Alert, kind \in Kind :
               sent'[<<b, kind>>] + One(<<b, kind>> \in claimed')
                 <= Cardinality(Undone(b, kind)') + One(OnFile(b, kind)')
          => SentInv'
      BY DEF SentInv, One
    <3>2. sent' = sent /\ \A b, kind : Undone(b, kind)' = Undone(b, kind)
      BY <1>1 DEF Undone
    <3> QED BY <3>1, <3>2
  <2>1. /\ <<b, kind>> \in claimed => OnFile(b, kind)
        /\ sent[<<b, kind>>] + One(<<b, kind>> \in claimed)
             <= Cardinality(Undone(b, kind)) + One(OnFile(b, kind))
    BY DEF DInv, SentInv
  <2>2. sent[<<b, kind>>] \in Nat /\ Cardinality(Undone(b, kind)) \in Nat
    BY UndoneFinite DEF DInv, Types
  <2>3. CASE b = row.alert /\ kind = to
    <3>1. ~OnFile(b, kind) /\ <<b, kind>> \notin claimed /\ OnFile(b, kind)'
      BY <1>2, <1>6, <2>1, <2>3
    <3> QED BY <2>1, <2>2, <3>1 DEF One
  <2>4. CASE ~(b = row.alert /\ kind = to)
    <3>1. (<<b, kind>> \in claimed' <=> <<b, kind>> \in claimed) /\ (OnFile(b, kind)' <=> OnFile(b, kind))
      BY <1>6, <2>4 DEF Decide
    <3> QED BY <2>1, <3>1 DEF One
  <2> QED BY <2>3, <2>4
<1>8. PageInv'
  BY <1>1, <1>3, AddsInserted DEF DInv, PageInv, InsertionLost
<1>9. shown.alert = row.alert \/ InsertionLost(shown)
  <2>1. CASE Inserted(shown)
    <3>1. PICK k \in Upto(Len(log)) : log[k].id = shown.id /\ log[k].alert = shown.alert
      BY <2>1 DEF Inserted
    <3>2. PICK j \in Upto(Len(log)) : row = log[j]
      BY RowsAreLast DEF DInv
    <3>3. row.id = shown.id
      BY DEF Decide, Claimable
    <3> QED BY <3>1, <3>2, <3>3 DEF DInv, LogInv, NamesInv
  <2> QED BY <2>1 DEF DInv, PageInv
<1>10. DecisionsHitWhatWasSeen'
  <2> SUFFICES ASSUME NEW d \in strayed' PROVE InsertionLost(d.shown)
    BY <1>1 DEF DecisionsHitWhatWasSeen, InsertionLost
  <2>1. CASE d \in strayed
    BY <2>1 DEF DInv, DecisionsHitWhatWasSeen, InsertionLost
  <2>2. CASE d \notin strayed
    BY <1>9, <2>2 DEF Decide
  <2> QED BY <2>1, <2>2
<1> QED BY <1>2, <1>5, <1>7, <1>8, <1>10 DEF DInv

\* A broadcast moves from in hand to sent.
LEMMA BroadcastStep ==
  ASSUME DInv, NEW ak \in claimed, Broadcast(ak)
  PROVE  DInv'
<1>1. UNCHANGED <<log, replica, page, strayed, lost, restores>>
      /\ sent' = [sent EXCEPT ![ak] = @ + 1] /\ claimed' = claimed \ {ak}
  BY DEF Broadcast
<1>2. ak \in Alert \X Kind
  BY DEF DInv, Types
<1>3. Types'
  BY <1>1, <1>2 DEF DInv, Types
<1>4. LogInv' /\ PageInv' /\ DecisionsHitWhatWasSeen'
  BY <1>1, SameLog DEF DInv, PageInv, DecisionsHitWhatWasSeen
<1>5. SentInv'
  <2> SUFFICES ASSUME NEW b \in Alert, NEW kind \in Kind
               PROVE  /\ <<b, kind>> \in claimed' => OnFile(b, kind)
                      /\ sent'[<<b, kind>>] + One(<<b, kind>> \in claimed')
                           <= Cardinality(Undone(b, kind)) + One(OnFile(b, kind))
    BY <1>1, SameLog DEF SentInv, One
  <2>1. /\ <<b, kind>> \in claimed => OnFile(b, kind)
        /\ sent[<<b, kind>>] + One(<<b, kind>> \in claimed)
             <= Cardinality(Undone(b, kind)) + One(OnFile(b, kind))
    BY DEF DInv, SentInv
  <2>2. sent[<<b, kind>>] \in Nat
    BY DEF DInv, Types
  <2>3. CASE ak = <<b, kind>>
    <3>1. sent'[<<b, kind>>] = sent[<<b, kind>>] + 1
      BY <1>1, <2>3 DEF DInv, Types
    <3>2. <<b, kind>> \in claimed /\ <<b, kind>> \notin claimed'
      BY <1>1, <2>3
    <3> QED BY <2>1, <2>2, <3>1, <3>2 DEF One
  <2>4. CASE ak # <<b, kind>>
    <3>1. sent'[<<b, kind>>] = sent[<<b, kind>>]
      BY <1>1, <2>4 DEF DInv, Types
    <3>2. <<b, kind>> \in claimed' <=> <<b, kind>> \in claimed
      BY <1>1, <2>4
    <3> QED BY <2>1, <3>1, <3>2 DEF One
  <2> QED BY <2>3, <2>4
<1> QED BY <1>3, <1>4, <1>5 DEF DInv

\* A restore takes back the tail of the log, and every decision in it is one
\* of those it undid.
LEMMA ReplaceStep ==
  ASSUME DInv, Replace
  PROVE  DInv'
<1>1. /\ restores' = restores + 1 /\ restores < MaxRestores
      /\ log' = Restored /\ claimed' = {} /\ UNCHANGED <<sent, page, strayed>>
      /\ lost' = lost \cup {[at |-> restores + 1, write |-> log[k]] : k \in replica + 1 .. Len(log)}
  BY DEF Replace
<1>2. /\ log' \in Seq(Write) /\ Len(log) \in Nat /\ Len(log') = replica
      /\ \A i \in Upto(replica) : log'[i] = log[i]
  BY <1>1, Cut DEF DInv, Types
<1>t. /\ replica \in 0 .. Len(log) /\ restores \in 0 .. MaxRestores /\ MaxRestores \in Nat
      /\ lost \subseteq [at : 1 .. restores, write : Write]
      /\ \A k \in Upto(Len(log)) : log[k] \in Write
  BY ElementOfSeq, BoundAssumption DEF DInv, Types, Upto
<1>3. /\ \A k \in Upto(Len(log)) : k \in Upto(replica) \/ k \in replica + 1 .. Len(log)
      /\ \A k \in replica + 1 .. Len(log) : k \in Upto(Len(log))
      /\ Upto(replica) \subseteq Upto(Len(log))
  BY <1>2, <1>t DEF Upto
<1>4. Types'
  <2>1. lost' \subseteq [at : 1 .. restores', write : Write]
    <3>1. \A k \in replica + 1 .. Len(log) :
            [at |-> restores + 1, write |-> log[k]] \in [at : 1 .. restores + 1, write : Write]
      BY <1>3, <1>t
    <3>2. lost \subseteq [at : 1 .. restores + 1, write : Write]
      BY <1>t
    <3> QED BY <1>1, <3>1, <3>2
  <2>2. replica' \in 0 .. Len(log')
    BY <1>2, <1>t, <1>1 DEF Replace
  <2>3. restores' \in 0 .. MaxRestores
    BY <1>1, <1>t
  <2> QED BY <1>1, <1>2, <2>1, <2>2, <2>3 DEF DInv, Types
<1>5. LogInv'
  BY <1>1, CutKeepsLog DEF DInv
<1>6. \A k \in Upto(Len(log)) : \/ k \in Upto(Len(log')) /\ log'[k] = log[k]
                                \/ [at |-> restores + 1, write |-> log[k]] \in lost'
  BY <1>1, <1>2, <1>3
<1>7. SentInv'
  <2> SUFFICES ASSUME NEW b \in Alert, NEW kind \in Kind
               PROVE  sent[<<b, kind>>] <= Cardinality(Undone(b, kind)') + One(OnFile(b, kind)')
    <3>1. \A b \in Alert, kind \in Kind : One(<<b, kind>> \in claimed') = 0
      BY <1>1 DEF One
    <3>2. \A b \in Alert, kind \in Kind : sent[<<b, kind>>] \in Nat
      BY DEF DInv, Types
    <3> QED BY <1>1, <3>1, <3>2 DEF SentInv, One, Undone
  <2>1. sent[<<b, kind>>] + One(<<b, kind>> \in claimed)
          <= Cardinality(Undone(b, kind)) + One(OnFile(b, kind))
    BY DEF DInv, SentInv
  <2>2. /\ IsFiniteSet(Undone(b, kind)) /\ Cardinality(Undone(b, kind)) \in Nat
        /\ Undone(b, kind) \subseteq 1 .. restores
    BY UndoneFinite DEF DInv
  <2>3. IsFiniteSet(Undone(b, kind)') /\ Cardinality(Undone(b, kind)') \in Nat
    <3>1. Undone(b, kind)' \subseteq 1 .. restores'
      BY <1>4 DEF Types, Undone
    <3>2. restores' \in Int
      BY <1>1, <1>t
    <3>3. IsFiniteSet(1 .. restores')
      BY <3>2, FS_Interval
    <3> QED BY <3>1, <3>3, FS_Subset, FS_CardinalityType
  <2>4. Undone(b, kind) \subseteq Undone(b, kind)'
    BY <1>1 DEF Undone
  <2>5. Cardinality(Undone(b, kind)) <= Cardinality(Undone(b, kind)')
    BY <2>3, <2>4, FS_Subset
  <2>6. sent[<<b, kind>>] \in Nat
    BY DEF DInv, Types
  <2>7. CASE OnFile(b, kind) => OnFile(b, kind)'
    BY <2>1, <2>2, <2>3, <2>5, <2>6, <2>7 DEF One
  <2>8. CASE OnFile(b, kind) /\ ~OnFile(b, kind)'
    <3>1. restores + 1 \in Undone(b, kind)'
      <4>1. PICK k \in Upto(Len(log)) : log[k].alert = b /\ log[k].status = kind
        BY <2>8 DEF OnFile
      <4>2. ~(k \in Upto(Len(log')) /\ log'[k] = log[k])
        BY <2>8, <4>1 DEF OnFile
      <4>3. [at |-> restores + 1, write |-> log[k]] \in lost'
        BY <1>6, <4>2
      <4> QED BY <4>1, <4>3 DEF Undone
    <3>2. restores + 1 \notin Undone(b, kind)
      BY <1>t, <2>2
    <3>3. Cardinality(Undone(b, kind) \cup {restores + 1}) = Cardinality(Undone(b, kind)) + 1
      BY <2>2, <3>2, FS_AddElement
    <3>4. Cardinality(Undone(b, kind) \cup {restores + 1}) <= Cardinality(Undone(b, kind)')
      BY <2>3, <2>4, <3>1, FS_Subset
    <3> QED BY <2>1, <2>2, <2>3, <2>6, <2>8, <3>3, <3>4 DEF One
  <2> QED BY <2>7, <2>8
<1>8. \A shown : Inserted(shown) => Inserted(shown)' \/ InsertionLost(shown)'
  <2> SUFFICES ASSUME NEW shown, Inserted(shown), ~Inserted(shown)'
               PROVE  InsertionLost(shown)'
    OBVIOUS
  <2>1. PICK k \in Upto(Len(log)) :
          log[k].status = "pending" /\ log[k].id = shown.id /\ log[k].alert = shown.alert
    BY DEF Inserted
  <2>2. ~(k \in Upto(Len(log')) /\ log'[k] = log[k])
    BY <2>1 DEF Inserted
  <2>3. [at |-> restores + 1, write |-> log[k]] \in lost'
    BY <1>6, <2>2
  <2> QED BY <2>1, <2>3 DEF InsertionLost
<1>9. PageInv' /\ DecisionsHitWhatWasSeen'
  BY <1>1, <1>8 DEF DInv, PageInv, InsertionLost, DecisionsHitWhatWasSeen
<1> QED BY <1>4, <1>5, <1>7, <1>9 DEF DInv

\* A page shows rows, and every row was inserted.
LEMMA LookStep ==
  ASSUME DInv, NEW v \in Reviewer, Look(v)
  PROVE  DInv'
<1>1. UNCHANGED <<log, replica, claimed, sent, strayed, lost, restores>>
      /\ page' = [page EXCEPT ![v] = Rows]
  BY DEF Look
<1>2. \A r \in Rows : r \in Write /\ Inserted(r)
  <2> SUFFICES ASSUME NEW r \in Rows PROVE r \in Write /\ Inserted(r)
    OBVIOUS
  <2>1. PICK j \in Upto(Len(log)) : r = log[j] /\ r \in Write
    BY RowsAreLast DEF DInv
  <2>2. PICK i \in Upto(j) :
          log[i].status = "pending" /\ log[i].id = r.id /\ log[i].alert = r.alert
    BY <2>1 DEF DInv, LogInv, OriginInv
  <2>3. i \in Upto(Len(log))
    BY <2>1, LenProperties DEF DInv, Types, Upto
  <2> QED BY <2>1, <2>2, <2>3 DEF Inserted
<1>3. Types'
  BY <1>1, <1>2 DEF DInv, Types
<1>4. LogInv' /\ SentInv' /\ DecisionsHitWhatWasSeen'
  BY <1>1, SameLog DEF DInv, SentInv, One, DecisionsHitWhatWasSeen
<1>5. PageInv'
  BY <1>1, <1>2, SameLog DEF DInv, Types, PageInv
<1> QED BY <1>3, <1>4, <1>5 DEF DInv

\* Every step keeps the invariant.
LEMMA StepDurable == DInv /\ [Next]_vars => DInv'
<1> SUFFICES ASSUME DInv, [Next]_vars PROVE DInv'
  OBVIOUS
<1>1. CASE Replicate \/ UNCHANGED vars
  <2>1. UNCHANGED <<log, claimed, sent, page, strayed, lost, restores>>
    BY <1>1 DEF Replicate, vars
  <2>2. Types'
    BY <1>1, <2>1, LenProperties DEF Replicate, vars, DInv, Types
  <2> QED BY <2>1, <2>2, SameLog DEF DInv, SentInv, One, PageInv, DecisionsHitWhatWasSeen
<1> QED BY <1>1, QueueStep, LookStep, DecideStep, BroadcastStep, ReplaceStep DEF Next

\* It holds of the empty queue.
LEMMA InitDurable == Init => DInv
<1> SUFFICES ASSUME Init PROVE DInv
  OBVIOUS
<1>1. log = << >> /\ Len(log) = 0 /\ log \in Seq(Write) /\ Upto(0) = {}
  BY EmptySeq DEF Init, Upto
<1>2. Types
  BY <1>1, BoundAssumption DEF Init, Types, Kind
<1>3. LogInv
  <2>1. IdsInv
    <3>1. \A n \in 0 .. Len(log) : {log[k].id : k \in Upto(n)} = 1 .. 0
      BY <1>1
    <3> QED BY <1>1, <3>1 DEF IdsInv
  <2> QED BY <1>1, <2>1 DEF LogInv, RowsInv, NamesInv, PathInv, OriginInv
<1>4. SentInv
  <2>1. \A a, kind : ~OnFile(a, kind) /\ Undone(a, kind) = {}
    BY <1>1 DEF Init, OnFile, Undone
  <2>2. \A a, kind : Cardinality(Undone(a, kind)) = 0
    BY <2>1, FS_EmptySet
  <2> QED BY <2>1, <2>2 DEF Init, SentInv, One
<1>5. PageInv /\ DecisionsHitWhatWasSeen
  BY DEF Init, PageInv, DecisionsHitWhatWasSeen
<1> QED BY <1>2, <1>3, <1>4, <1>5 DEF DInv

\* So it always holds.
LEMMA AlwaysDurable == Spec => []DInv
BY InitDurable, StepDurable, PTL DEF Spec

\* TypeOK: the types hold, and AUTOINCREMENT leaves no gap among the ids of
\* the rows, also after a restore.
THEOREM TypeCorrect == Spec => []TypeOK
<1>1. DInv => TypeOK
  <2> SUFFICES ASSUME DInv PROVE TypeOK
    OBVIOUS
  <2>1. {w.id : w \in Rows} = 1 .. Cardinality({w.id : w \in Rows})
    BY NextIdIsNew DEF DInv
  <2>2. lost \subseteq [at : 1 .. MaxRestores, write : Write]
    BY BoundAssumption DEF DInv, Types
  <2> QED BY <2>1, <2>2 DEF DInv, Types, TypeOK
<1> QED BY <1>1, AlwaysDurable, PTL

\* RepeatsAreLosses: a decision is broadcast once, and once more only for each
\* restore that took it back.
THEOREM RepeatsOnlyAfterLoss == Spec => []RepeatsAreLosses
<1>1. DInv => RepeatsAreLosses
  <2> SUFFICES ASSUME DInv, NEW a \in Alert, NEW kind \in Kind
               PROVE  sent[<<a, kind>>] <= Cardinality(Undone(a, kind)) + 1
    BY DEF RepeatsAreLosses
  <2>1. sent[<<a, kind>>] + One(<<a, kind>> \in claimed)
          <= Cardinality(Undone(a, kind)) + One(OnFile(a, kind))
    BY DEF DInv, SentInv
  <2>2. sent[<<a, kind>>] \in Nat /\ Cardinality(Undone(a, kind)) \in Nat
    BY UndoneFinite DEF DInv, Types
  <2> QED BY <2>1, <2>2 DEF One
<1> QED BY <1>1, AlwaysDurable, PTL

\* OpenMeansUnsentOrLost: an alert that is open to review was broadcast no
\* more often than restores took its approval back.
THEOREM OpenIsUnsent == Spec => []OpenMeansUnsentOrLost
<1>1. DInv => OpenMeansUnsentOrLost
  <2> SUFFICES ASSUME DInv, NEW w \in Rows, w.status = "pending"
               PROVE  sent[<<w.alert, "approved">>] <= Cardinality(Undone(w.alert, "approved"))
    BY DEF OpenMeansUnsentOrLost
  <2>1. PICK j \in Upto(Len(log)) : /\ w = log[j] /\ w \in Write
           /\ \A i \in Upto(Len(log)) : log[i].id = w.id => i <= j
    BY RowsAreLast DEF DInv
  <2>2. ~OnFile(w.alert, "approved")
    <3> SUFFICES ASSUME NEW k \in Upto(Len(log)), log[k].alert = w.alert,
                        log[k].status = "approved"
                 PROVE  FALSE
      BY DEF OnFile
    <3>1. log[k].id = w.id
      BY <2>1 DEF DInv, LogInv, NamesInv
    <3>2. k <= j /\ k # j /\ k \in Int /\ j \in Int
      BY <2>1, <3>1, LenProperties DEF Upto, DInv, Types
    <3> QED BY <2>1, <3>1, <3>2 DEF DInv, LogInv, PathInv
  <2>3. w.alert \in Alert /\ "approved" \in Kind
    BY <2>1 DEF Write, Kind
  <2>4. sent[<<w.alert, "approved">>] + One(<<w.alert, "approved">> \in claimed)
          <= Cardinality(Undone(w.alert, "approved")) + One(OnFile(w.alert, "approved"))
    BY <2>3 DEF DInv, SentInv
  <2>5. /\ sent[<<w.alert, "approved">>] \in Nat
        /\ Cardinality(Undone(w.alert, "approved")) \in Nat
    BY <2>3, UndoneFinite DEF DInv, Types
  <2> QED BY <2>2, <2>4, <2>5 DEF One
<1> QED BY <1>1, AlwaysDurable, PTL

\* DecisionsHitWhatWasSeen: a decision lands on another alert than the page
\* showed only after a restore lost the row the page showed.
THEOREM DecisionsHit == Spec => []DecisionsHitWhatWasSeen
<1>1. DInv => DecisionsHitWhatWasSeen
  BY DEF DInv
<1> QED BY <1>1, AlwaysDurable, PTL
-----------------------------------------------------------------------------
(* The weekly forecast.  A commit that the branch would take differs from the *)
(* branch in its own week alone; a run that nobody asked for is the only one  *)
(* of its week, and what it pushed is of that week.                           *)

FileT == {NoFile} \cup {File(r) : r \in Run}

StateT == {"running", "scored", "committed", "green", "red", "killed"}

RunOK(x) ==
  /\ x.state \in StateT /\ x.week \in Weeks /\ x.asked \in BOOLEAN
  /\ x.state = "committed" => x.parent \in Nat /\ x.files \in [Weeks -> FileT]

WeeklyTypes ==
  /\ day \in [monday : 1 .. LastWeek, over : BOOLEAN]
  /\ due \in BOOLEAN
  /\ DOMAIN workflow = Run
  /\ \A r \in Run : workflow[r] # NoRun => RunOK(workflow[r])
  /\ branch.commits \in Nat /\ branch.files \in [Weeks -> FileT]

\* A branch without commits has no files.
EmptyInv == branch.commits = 0 => branch.files = NoFiles

ParentInv ==
  \A r \in Run : workflow[r].state = "committed" =>
    /\ workflow[r].parent <= branch.commits
    /\ workflow[r].files[workflow[r].week] = File(r)
    /\ workflow[r].parent = branch.commits =>
         \A w \in Weeks : w # workflow[r].week => workflow[r].files[w] = branch.files[w]

\* Of the files on the branch: who asked for them, or who pushed them.
LoggedInv ==
  \A w \in Weeks, r \in Run : branch.files[w] = File(r) =>
    /\ workflow[r] # NoRun
    /\ workflow[r].asked \/ (workflow[r].state = "green" /\ workflow[r].week = w)

Unasked(r) == workflow[r] # NoRun /\ ~workflow[r].asked

MondayInv ==
  /\ \A r \in Run : Unasked(r) =>
       workflow[r].week <= day.monday /\ (due => workflow[r].week < day.monday)
  /\ \A r, s \in Run : Unasked(r) /\ Unasked(s) /\ workflow[r].week = workflow[s].week => r = s

WInv == WeeklyTypes /\ EmptyInv /\ ParentInv /\ LoggedInv /\ MondayInv

\* A run that ended without a forecast met what stops one.
MetInv ==
  \A r \in Run : workflow[r].state \in {"red", "killed"} =>
    \A in \in workflow[r].met :
      /\ in \in Weather
      /\ Spent(in) > Budget \/ ~in.engine \/ in.odd \/ ~Scored(in)
-----------------------------------------------------------------------------
(* The pulls.  A file that is torn is excused or being written, a command has *)
(* passed a file only if it is there, or was given up with a warning, and    *)
(* what a command lacks is excused.                                          *)

Tables == {"panel", "audit", "archive"}

StepT ==
  {Get(f) : f \in Files} \cup {Gather(Chunk), Gather(Part)} \cup {Make(t) : t \in Tables}

\* What is put together was asked for before.
Prepared(p) ==
  /\ p \in Seq(StepT)
  /\ \A k \in 1 .. Len(p) : p[k].do = "gather" =>
       \A f \in p[k].files : \E j \in 1 .. k - 1 : p[j] = Get(f)

ShellOK(x) ==
  /\ x \in [cmd : DOMAIN Plan, step : Nat \ {0}, does : {"look", "fetch", "write"},
            lacks : SUBSET Files]
  /\ x.step <= Len(Plan[x.cmd])
  /\ x.does # "look" => Plan[x.cmd][x.step].do = "get"

PullsTypes ==
  /\ goal \in Tables
  /\ file \in [Files -> {"absent", "torn", "whole"}]
  /\ DOMAIN shell = Shell
  /\ \A s \in Shell : shell[s] # Resting => ShellOK(shell[s])
  /\ DOMAIN table = Tables

\* What a command has passed is there.
BehindInv ==
  \A s \in Shell, f \in Files : shell[s] # Resting =>
    \A j \in 1 .. shell[s].step - 1 :
      Plan[shell[s].cmd][j] = Get(f) => file[f] # "absent" \/ f \in Raw

LacksInv == \A s \in Shell : shell[s].lacks \subseteq excused

TornInv == \A f \in Files : file[f] = "torn" => f \in excused \/ Writers(f) # {}

PInv == PullsTypes /\ BehindInv /\ LacksInv /\ TornInv /\ GapsExplained
-----------------------------------------------------------------------------
(* The weekly forecast. *)

LEMMA FileFacts ==
  /\ NoFiles \in [Weeks -> FileT]
  /\ \A r \in Run : File(r) \in FileT /\ File(r) # NoFile
  /\ \A r, s \in Run : File(r) = File(s) => r = s
<1>1. \A r \in Run : File(r).there /\ File(r).run = r
  BY DEF File
<1>2. \A r \in Run : File(r) # NoFile
  BY <1>1 DEF NoFile
<1>3. QED
  BY <1>1, <1>2 DEF NoFiles, FileT

LEMMA StartedIsRun ==
  /\ \A x : RunOK(x) => x # NoRun
  /\ \A x : x = NoRun => x.state \notin StateT
BY DEF RunOK, StateT, NoRun

LEMMA PickedIsWeek == WeeklyTypes => PickedWeek \in Weeks /\ 1 .. LastWeek \subseteq Weeks
BY CountsAssumption DEF WeeklyTypes, PickedWeek, Weeks

\* A run goes on, for the same week and asked for by the same; if it commits,
\* then onto what it fetched.
LEMMA MoveKeeps ==
  ASSUME WInv, NEW r \in Run, NEW x, RunOK(x),
         workflow[r].state \in {"running", "scored", "committed"},
         x.week = workflow[r].week, x.asked = workflow[r].asked,
         x.state = "committed" =>
           /\ x.parent <= branch.commits
           /\ x.files[x.week] = File(r)
           /\ x.parent = branch.commits =>
                \A w \in Weeks : w # x.week => x.files[w] = branch.files[w],
         workflow' = [workflow EXCEPT ![r] = x],
         UNCHANGED <<day, due, branch>>
  PROVE  WInv'
<1> USE DEF WInv
<1>1. workflow[r] # NoRun
  BY DEF NoRun
<1>2. /\ DOMAIN workflow' = Run /\ workflow'[r] = x
      /\ \A s \in Run : s # r => workflow'[s] = workflow[s]
  BY DEF WeeklyTypes
<1>3. x # NoRun
  BY StartedIsRun
<1>4. WeeklyTypes'
  BY <1>2 DEF WeeklyTypes, RunOK, FileT, File, Weeks
<1>5. EmptyInv'
  BY DEF EmptyInv
<1>6. ParentInv'
  <2> SUFFICES ASSUME NEW s \in Run, workflow'[s].state = "committed"
               PROVE  /\ workflow'[s].parent <= branch.commits
                      /\ workflow'[s].files[workflow'[s].week] = File(s)
                      /\ workflow'[s].parent = branch.commits =>
                           \A w \in Weeks : w # workflow'[s].week =>
                             workflow'[s].files[w] = branch.files[w]
    BY DEF ParentInv, File
  <2>1. CASE s = r
    BY <1>2, <2>1
  <2>2. CASE s # r
    BY <1>2, <2>2 DEF ParentInv
  <2>3. QED
    BY <2>1, <2>2
<1>7. LoggedInv'
  <2> SUFFICES ASSUME NEW w \in Weeks, NEW s \in Run, branch.files[w] = File(s)
               PROVE  /\ workflow'[s] # NoRun
                      /\ workflow'[s].asked \/ (workflow'[s].state = "green" /\ workflow'[s].week = w)
    BY DEF LoggedInv, File
  <2>1. /\ workflow[s] # NoRun
        /\ workflow[s].asked \/ (workflow[s].state = "green" /\ workflow[s].week = w)
    BY DEF LoggedInv
  <2>2. CASE s = r
    BY <1>2, <1>3, <2>1, <2>2
  <2>3. CASE s # r
    BY <1>2, <2>1, <2>3
  <2>4. QED
    BY <2>2, <2>3
<1>8. MondayInv'
  <2>1. \A s \in Run : /\ Unasked(s)' = Unasked(s)
                       /\ Unasked(s) => workflow'[s].week = workflow[s].week
    BY <1>1, <1>2, <1>3 DEF Unasked
  <2>2. QED
    BY <2>1 DEF MondayInv
<1>9. QED
  BY <1>4, <1>5, <1>6, <1>7, <1>8

\* A run starts: scheduled, as the only one of its week, or asked for.
LEMMA StartKeeps ==
  ASSUME WInv, NEW r \in Run, NEW week \in Weeks, NEW asked \in BOOLEAN,
         workflow[r] = NoRun \/ workflow[r].state \in {"red", "killed"},
         Started(r, week, asked),
         UNCHANGED <<day, branch>>,
         \/ asked /\ due' = due
         \/ /\ ~asked /\ workflow[r] = NoRun
            /\ due /\ due' = FALSE /\ week = day.monday
  PROVE  WInv'
<1> USE DEF WInv
<1> DEFINE x == [state |-> "running", week |-> week, asked |-> asked]
<1>1. RunOK(x) /\ x.state = "running" /\ x.week = week /\ x.asked = asked
  BY DEF RunOK, StateT
<1>2. workflow' = [workflow EXCEPT ![r] = x]
  BY DEF Started
<1> HIDE DEF x
<1>3. /\ DOMAIN workflow' = Run /\ workflow'[r] = x
      /\ \A s \in Run : s # r => workflow'[s] = workflow[s]
  BY <1>2 DEF WeeklyTypes
<1>4. x # NoRun
  BY <1>1, StartedIsRun
<1>5. WeeklyTypes'
  BY <1>1, <1>3 DEF WeeklyTypes, RunOK, FileT, File, Weeks
<1>6. EmptyInv'
  BY DEF EmptyInv
<1>7. ParentInv'
  <2>1. \A s \in Run : workflow'[s].state = "committed" => workflow'[s] = workflow[s]
    BY <1>1, <1>3
  <2>2. QED
    BY <2>1 DEF ParentInv, File
<1>8. LoggedInv'
  <2> SUFFICES ASSUME NEW w \in Weeks, NEW s \in Run, branch.files[w] = File(s)
               PROVE  /\ workflow'[s] # NoRun
                      /\ workflow'[s].asked \/ (workflow'[s].state = "green" /\ workflow'[s].week = w)
    BY DEF LoggedInv, File
  <2>1. /\ workflow[s] # NoRun
        /\ workflow[s].asked \/ (workflow[s].state = "green" /\ workflow[s].week = w)
    BY DEF LoggedInv
  <2>2. CASE s = r /\ asked
    BY <1>1, <1>3, <1>4, <2>2
  <2>3. CASE s = r /\ ~asked
    BY <2>1, <2>3
  <2>4. CASE s # r
    BY <1>3, <2>1, <2>4
  <2>5. QED
    BY <2>2, <2>3, <2>4
<1>9. MondayInv'
  <2>1. \A s \in Run : s # r => /\ Unasked(s)' = Unasked(s)
                                /\ workflow'[s].week = workflow[s].week
    BY <1>3 DEF Unasked
  <2>2. Unasked(r)' = ~asked /\ workflow'[r].week = week
    BY <1>1, <1>3, <1>4 DEF Unasked
  <2>3. CASE asked
    <3>1. \A s \in Run : Unasked(s)' => Unasked(s) /\ workflow'[s].week = workflow[s].week
      BY <2>1, <2>2, <2>3
    <3>2. UNCHANGED <<day, due>>
      BY <2>3
    <3>3. QED
      BY <3>1, <3>2 DEF MondayInv
  <2>4. CASE ~asked
    <3>1. due /\ due' = FALSE /\ week = day.monday
      BY <2>4
    <3>2. \A s \in Run : Unasked(s) => workflow[s].week < day.monday /\ workflow[s].week \in Int
      BY <3>1 DEF MondayInv, Unasked, WeeklyTypes, RunOK, Weeks
    <3>3. day.monday \in Int
      BY DEF WeeklyTypes
    <3>4. \A s \in Run : Unasked(s)' => workflow'[s].week <= day.monday
      BY <2>1, <2>2, <3>1, <3>2, <3>3
    <3>5. \A s \in Run : s # r /\ Unasked(s)' => workflow'[s].week # workflow'[r].week
      BY <2>1, <2>2, <3>1, <3>2, <3>3
    <3>6. \A s, u \in Run :
            Unasked(s)' /\ Unasked(u)' /\ workflow'[s].week = workflow'[u].week => s = u
      BY <2>1, <3>5 DEF MondayInv
    <3>7. QED
      BY <3>1, <3>4, <3>6 DEF MondayInv
  <2>5. QED
    BY <2>3, <2>4
<1>10. QED
  BY <1>5, <1>6, <1>7, <1>8, <1>9

LEMMA StartsKeep ==
  ASSUME WInv, NEW r \in Run, Schedule(r) \/ Dispatch(r) \/ Rerun(r)
  PROVE  WInv'
<1>1. PickedWeek \in Weeks /\ 1 .. LastWeek \subseteq Weeks
  BY PickedIsWeek DEF WInv
<1>2. CASE Schedule(r)
  <2>1. PickedWeek = day.monday
    BY <1>2 DEF Schedule, PickedWeek
  <2>2. QED
    BY <1>1, <1>2, <2>1, StartKeeps DEF Schedule
<1>3. CASE Dispatch(r)
  <2>1. PICK w \in 1 .. LastWeek \cup {PickedWeek} : Started(r, w, TRUE)
    BY <1>3 DEF Dispatch
  <2>2. w \in Weeks
    BY <1>1
  <2>3. QED
    BY <1>3, <2>1, <2>2, StartKeeps DEF Dispatch
<1>4. CASE Rerun(r)
  BY <1>1, <1>4, StartKeeps DEF Rerun
<1>5. QED
  BY <1>2, <1>3, <1>4

\* How a run ends leaves it what it is.
LEMMA EndedIsRun ==
  ASSUME WeeklyTypes, NEW r \in Run, workflow[r] # NoRun,
         NEW state \in {"green", "red", "killed"}, NEW met
  PROVE  /\ RunOK(Ended(r, state, met))
         /\ Ended(r, state, met).state = state
         /\ Ended(r, state, met).week = workflow[r].week
         /\ Ended(r, state, met).asked = workflow[r].asked
         /\ Ended(r, state, met).met = met
BY DEF Ended, RunOK, WeeklyTypes, StateT

LEMMA ComputeKeeps ==
  ASSUME WInv, NEW r \in Run, Compute(r)
  PROVE  WInv'
<1>1. workflow[r] # NoRun /\ RunOK(workflow[r])
  BY DEF Compute, WInv, WeeklyTypes, NoRun
<1>2. PICK in \in Weather :
        workflow' = [workflow EXCEPT ![r] =
          IF Spent(in) > Budget THEN Ended(r, "killed", {in})
          ELSE IF in.engine /\ ~in.odd /\ Scored(in) THEN [@ EXCEPT !.state = "scored"]
          ELSE Ended(r, "red", {in})]
  BY DEF Compute
<1> DEFINE x == IF Spent(in) > Budget THEN Ended(r, "killed", {in})
                ELSE IF in.engine /\ ~in.odd /\ Scored(in)
                     THEN [workflow[r] EXCEPT !.state = "scored"]
                     ELSE Ended(r, "red", {in})
<1>3. workflow' = [workflow EXCEPT ![r] = x]
  BY <1>2
<1>4. /\ RunOK(x) /\ x.state # "committed"
      /\ x.week = workflow[r].week /\ x.asked = workflow[r].asked
  <2> DEFINE y == [workflow[r] EXCEPT !.state = "scored"]
  <2>1. /\ y.state = "scored" /\ y.week = workflow[r].week /\ y.asked = workflow[r].asked
    BY <1>1 DEF RunOK
  <2>2. RunOK(y)
    BY <1>1, <2>1 DEF RunOK, StateT
  <2>3. QED
    BY <1>1, <2>1, <2>2, EndedIsRun DEF WInv
<1>5. QED
  <2> HIDE DEF x
  <2> QED BY <1>3, <1>4, MoveKeeps DEF Compute

LEMMA CommitKeeps ==
  ASSUME WInv, NEW r \in Run, Commit(r)
  PROVE  WInv'
<1> USE DEF WInv
<1>1. workflow[r] # NoRun /\ RunOK(workflow[r]) /\ workflow[r].week \in Weeks
  BY DEF Commit, WeeklyTypes, NoRun, RunOK
<1>2. PICK base \in Base, same \in BOOLEAN :
        workflow' = [workflow EXCEPT ![r] =
          IF same THEN Ended(r, "red", {})
          ELSE [state |-> "committed", week |-> @.week, asked |-> @.asked,
                parent |-> base.commits,
                files |-> [base.files EXCEPT ![workflow[r].week] = File(r)]]]
  BY DEF Commit
<1>3. CASE same
  <2>1. workflow' = [workflow EXCEPT ![r] = Ended(r, "red", {})]
    BY <1>2, <1>3
  <2>2. QED
    BY <1>1, <2>1, EndedIsRun, MoveKeeps DEF Commit
<1>4. CASE ~same
  <2> DEFINE fs == [base.files EXCEPT ![workflow[r].week] = File(r)]
             x == [state |-> "committed", week |-> workflow[r].week, asked |-> workflow[r].asked,
                   parent |-> base.commits, files |-> fs]
  <2>1. /\ base.files \in [Weeks -> FileT] /\ base.commits \in Nat
        /\ base.commits <= branch.commits
        /\ base.commits = branch.commits => base.files = branch.files
    <3>1. CASE base = branch
      BY <3>1 DEF WeeklyTypes
    <3>2. CASE base = [commits |-> 0, files |-> NoFiles]
      BY <3>2, FileFacts DEF WeeklyTypes, EmptyInv
    <3>3. QED
      BY <3>1, <3>2 DEF Base
  <2>2. /\ fs \in [Weeks -> FileT] /\ fs[workflow[r].week] = File(r)
        /\ \A w \in Weeks : w # workflow[r].week => fs[w] = base.files[w]
    BY <1>1, <2>1, FileFacts
  <2> HIDE DEF fs
  <2>3. /\ x.state = "committed" /\ x.week = workflow[r].week /\ x.asked = workflow[r].asked
        /\ x.parent = base.commits /\ x.files = fs
    OBVIOUS
  <2>4. workflow' = [workflow EXCEPT ![r] = x]
    BY <1>2, <1>4 DEF fs
  <2> HIDE DEF x
  <2>5. RunOK(x)
    BY <1>1, <2>1, <2>2, <2>3 DEF RunOK, StateT
  <2>6. workflow[r].state = "scored" /\ UNCHANGED <<day, due, branch>>
    BY DEF Commit
  <2>7. x.files[x.week] = File(r) /\ x.parent <= branch.commits
    BY <2>1, <2>2, <2>3
  <2>8. x.parent = branch.commits =>
          \A w \in Weeks : w # x.week => x.files[w] = branch.files[w]
    BY <2>1, <2>2, <2>3
  <2>9. QED
    BY <2>3, <2>4, <2>5, <2>6, <2>7, <2>8, MoveKeeps
<1>5. QED
  BY <1>3, <1>4

\* What is pushed is the branch with the run's own week; it makes every other
\* commit one that the branch refuses.
LEMMA PushKeeps ==
  ASSUME WInv, NEW r \in Run, Push(r)
  PROVE  WInv'
<1> USE DEF WInv
<1>1. workflow[r] # NoRun /\ RunOK(workflow[r]) /\ workflow[r].state = "committed"
  BY DEF Push, WeeklyTypes, NoRun, RunOK
<1>2. CASE ~Accepts(r)
  <2>1. workflow' = [workflow EXCEPT ![r] = Ended(r, "red", {})]
    BY <1>2 DEF Push
  <2>2. QED
    BY <1>1, <1>2, <2>1, EndedIsRun, MoveKeeps DEF Push
<1>3. CASE Accepts(r)
  <2>1. /\ branch' = [commits |-> branch.commits + 1, files |-> workflow[r].files]
        /\ workflow' = [workflow EXCEPT ![r] = Ended(r, "green", {})]
        /\ UNCHANGED <<day, due>>
    BY <1>3 DEF Push
  <2>2. PICK x : /\ x = Ended(r, "green", {}) /\ RunOK(x) /\ x.state = "green"
                 /\ x.week = workflow[r].week /\ x.asked = workflow[r].asked
    BY <1>1, EndedIsRun
  <2>3. /\ DOMAIN workflow' = Run /\ workflow'[r] = x
        /\ \A s \in Run : s # r => workflow'[s] = workflow[s]
    BY <2>1, <2>2 DEF WeeklyTypes
  <2>4. x # NoRun
    BY <2>2, StartedIsRun
  <2>5. /\ branch'.commits = branch.commits + 1 /\ branch'.files = workflow[r].files
        /\ branch'.files \in [Weeks -> FileT] /\ branch.commits \in Nat
    BY <1>1, <2>1 DEF RunOK, WeeklyTypes
  <2>6. /\ branch'.files[workflow[r].week] = File(r)
        /\ \A w \in Weeks : w # workflow[r].week => branch'.files[w] = branch.files[w]
    BY <1>1, <1>3, <2>5 DEF ParentInv, Accepts
  <2>7. WeeklyTypes'
    BY <2>1, <2>2, <2>3, <2>5 DEF WeeklyTypes, RunOK, FileT, File, Weeks
  <2>8. EmptyInv'
    BY <2>5 DEF EmptyInv
  <2>9. ParentInv'
    <3>1. \A s \in Run : workflow'[s].state = "committed" =>
            workflow'[s] = workflow[s] /\ workflow[s].parent \in Nat
      BY <2>2, <2>3, StartedIsRun DEF WeeklyTypes, RunOK, StateT
    <3>2. QED
      BY <2>5, <3>1 DEF ParentInv, File
  <2>10. LoggedInv'
    <3> SUFFICES ASSUME NEW w \in Weeks, NEW s \in Run, branch'.files[w] = File(s)
                 PROVE  /\ workflow'[s] # NoRun
                        /\ workflow'[s].asked \/ (workflow'[s].state = "green" /\ workflow'[s].week = w)
      BY DEF LoggedInv, File
    <3>1. CASE w = workflow[r].week
      <4>1. s = r
        BY <2>6, <3>1, FileFacts
      <4>2. QED
        BY <2>2, <2>3, <2>4, <3>1, <4>1
    <3>2. CASE w # workflow[r].week
      <4>1. /\ workflow[s] # NoRun
            /\ workflow[s].asked \/ (workflow[s].state = "green" /\ workflow[s].week = w)
        BY <2>6, <3>2 DEF LoggedInv
      <4>2. CASE s = r
        BY <1>1, <2>2, <2>3, <2>4, <4>1, <4>2
      <4>3. CASE s # r
        BY <2>3, <4>1, <4>3
      <4>4. QED
        BY <4>2, <4>3
    <3>3. QED
      BY <3>1, <3>2
  <2>11. MondayInv'
    <3>1. \A s \in Run : /\ Unasked(s)' = Unasked(s)
                         /\ Unasked(s) => workflow'[s].week = workflow[s].week
      BY <1>1, <2>2, <2>3, <2>4 DEF Unasked
    <3>2. QED
      BY <2>1, <3>1 DEF MondayInv
  <2>12. QED
    BY <2>7, <2>8, <2>9, <2>10, <2>11
<1>4. QED
  BY <1>2, <1>3

\* A new Monday is later than every run's week that nobody asked for.
LEMMA PassDayKeeps ==
  ASSUME WInv, PassDay
  PROVE  WInv'
<1> USE DEF WInv
<1>1. /\ day.monday \in 1 .. LastWeek /\ day' \in [monday : 1 .. LastWeek, over : BOOLEAN]
      /\ due' \in BOOLEAN
      /\ \/ day'.monday = day.monday /\ due' = due
         \/ day'.monday = day.monday + 1
  <2>1. day \in [monday : 1 .. LastWeek, over : BOOLEAN] /\ due \in BOOLEAN
    BY DEF WeeklyTypes
  <2>2. CASE ~day.over /\ day' = [day EXCEPT !.over = TRUE] /\ UNCHANGED due
    <3>1. day'.monday = day.monday /\ day' \in [monday : 1 .. LastWeek, over : BOOLEAN]
      BY <2>1, <2>2
    <3>2. QED
      BY <2>1, <2>2, <3>1
  <2>3. CASE /\ day.over /\ day.monday < LastWeek
             /\ day' = [monday |-> day.monday + 1, over |-> FALSE] /\ due' = TRUE
    <3>1. day'.monday = day.monday + 1 /\ day'.monday \in 1 .. LastWeek
      BY <2>1, <2>3, CountsAssumption
    <3>2. day' \in [monday : 1 .. LastWeek, over : BOOLEAN]
      BY <2>3, <3>1
    <3>3. QED
      BY <2>1, <2>3, <3>1, <3>2
  <2>4. QED
    BY <2>2, <2>3 DEF PassDay
<1>2. UNCHANGED <<workflow, branch>>
  BY DEF PassDay
<1>3. WeeklyTypes'
  BY <1>1, <1>2 DEF WeeklyTypes, RunOK, FileT, File, Weeks
<1>4. \A s \in Run : Unasked(s) => workflow[s].week \in Int
  BY DEF Unasked, WeeklyTypes, RunOK, Weeks
<1>5. \A s \in Run : Unasked(s) =>
        workflow[s].week <= day'.monday /\ (due' => workflow[s].week < day'.monday)
  BY <1>1, <1>4 DEF MondayInv
<1>6. MondayInv'
  BY <1>2, <1>5 DEF MondayInv, Unasked
<1>7. EmptyInv' /\ ParentInv' /\ LoggedInv'
  BY <1>2 DEF EmptyInv, ParentInv, LoggedInv, File
<1>8. QED
  BY <1>3, <1>6, <1>7

LEMMA WeeklyStep == WInv /\ [WeeklyNext]_weekly => WInv'
<1> SUFFICES ASSUME WInv, [WeeklyNext]_weekly PROVE WInv'
  OBVIOUS
<1>1. CASE UNCHANGED weekly
  BY <1>1 DEF weekly, WInv, WeeklyTypes, RunOK, FileT, File, Weeks, EmptyInv, ParentInv,
              LoggedInv, MondayInv, Unasked
<1>2. CASE PassDay
  BY <1>2, PassDayKeeps
<1>3. ASSUME NEW r \in Run, Schedule(r) \/ Dispatch(r) \/ Rerun(r) PROVE WInv'
  BY <1>3, StartsKeep
<1>4. ASSUME NEW r \in Run, Compute(r) \/ Commit(r) \/ Push(r) PROVE WInv'
  BY <1>4, ComputeKeeps, CommitKeeps, PushKeeps
<1>5. QED
  BY <1>1, <1>2, <1>3, <1>4 DEF WeeklyNext

LEMMA WeeklyStarts == WeeklyInit => WInv
<1> SUFFICES ASSUME WeeklyInit PROVE WInv
  OBVIOUS
<1>1. \A r \in Run : workflow[r] = NoRun /\ workflow[r].state = "new"
  BY DEF WeeklyInit, NoRun
<1>2. WeeklyTypes
  BY <1>1, CountsAssumption, FileFacts DEF WeeklyInit, WeeklyTypes
<1>3. \A w \in Weeks, r \in Run : branch.files[w] # File(r)
  BY FileFacts DEF WeeklyInit, NoFiles
<1>4. QED
  BY <1>1, <1>2, <1>3
     DEF WInv, WeeklyInit, EmptyInv, ParentInv, LoggedInv, MondayInv, Unasked

\* No week is lost from the log, and the schedule by itself never replaces what
\* it logged: two runs that nobody asked for are of different weeks.
THEOREM LogKept == WeeklySpec => LogKeepsItsForecasts
<1>1. WInv /\ [WeeklyNext]_weekly =>
        [\A w \in Weeks :
           LET was == branch.files[w]
               is == branch'.files[w]
           IN  was # NoFile /\ is # was =>
                 /\ is # NoFile
                 /\ workflow[is.run].asked \/ workflow[was.run].asked]_weekly
  <2> SUFFICES ASSUME WInv, [WeeklyNext]_weekly, NEW w \in Weeks,
                      branch.files[w] # NoFile, branch'.files[w] # branch.files[w]
               PROVE  /\ branch'.files[w] # NoFile
                      /\ \/ workflow[branch'.files[w].run].asked
                         \/ workflow[branch.files[w].run].asked
    OBVIOUS
  <2> USE DEF WInv
  <2>1. branch' # branch
    OBVIOUS
  <2>2. PICK r \in Run : Push(r) /\ Accepts(r)
    BY <2>1 DEF WeeklyNext, weekly, PassDay, Schedule, Dispatch, Rerun, Compute, Commit, Push
  <2>3. workflow[r] # NoRun /\ RunOK(workflow[r]) /\ workflow[r].state = "committed"
    BY <2>2 DEF Push, WeeklyTypes, NoRun
  <2>4. branch'.files = workflow[r].files
    BY <2>2 DEF Push
  <2>5. w = workflow[r].week /\ branch'.files[w] = File(r)
    BY <2>2, <2>3, <2>4 DEF ParentInv, Accepts
  <2>6. PICK q \in Run : branch.files[w] = File(q)
    BY DEF WeeklyTypes, FileT
  <2>7. File(r).run = r /\ File(q).run = q
    BY DEF File
  <2>8. CASE workflow[q].asked
    BY <2>5, <2>6, <2>7, <2>8, FileFacts
  <2>9. CASE ~workflow[q].asked
    <3>1. workflow[q] # NoRun /\ workflow[q].state = "green" /\ workflow[q].week = w
      BY <2>6, <2>9 DEF LoggedInv
    <3>2. workflow[r].asked
      BY <2>3, <2>5, <2>9, <3>1 DEF MondayInv, Unasked
    <3>3. QED
      BY <2>5, <2>7, <3>2, FileFacts
  <2>10. QED
    BY <2>8, <2>9
<1>2. QED
  BY <1>1, WeeklyStarts, WeeklyStep, PTL DEF WeeklySpec, LogKeepsItsForecasts

-----------------------------------------------------------------------------
(* What a run met that ended without a forecast. *)

\* The time there is: for the other steps, every wait of the twelve batches, and
\* 23 requests that time out.
Timely == Batches <= 6 /\ \A s \in Setup : s + 72 + 23 * Patience <= Budget

LEMMA TheWaits ==
  /\ Patience = 6
  /\ Waited(1) = 1 /\ Waited(2) = 3 /\ Waited(3) = 6 /\ Waited(4) = 6
BY DEF Patience, Waited, Attempts

\* The waits are no more than six quarters a batch; and without refusals a
\* time-out costs no more than eight with them.
LEMMA WaitsAreBounded ==
  ASSUME NEW d \in Delay
  PROVE  /\ Held(d) \in Nat /\ Failures(d) \in Nat /\ Waits(d) \in Nat
         /\ Waits(d) <= 6 * Held(d) /\ Waits(d) <= 2 * Failures(d)
<1>1. /\ d.failed[1] \in Nat /\ d.failed[2] \in Nat
      /\ d.failed[3] \in Nat /\ d.failed[4] \in Nat
  BY CountsAssumption DEF Delay, Attempts
<1> DEFINE a == d.failed[1]  b == d.failed[2]  c == d.failed[3]  e == d.failed[4]
<1>2. /\ Held(d) = a + b + c + e
      /\ Failures(d) = a + 2 * b + 3 * c + 4 * e
      /\ Waits(d) = a + 3 * b + 6 * c + 6 * e
  BY <1>1, TheWaits DEF Held, Failures, Waits
<1> HIDE DEF a, b, c, e
<1>3. a \in Nat /\ b \in Nat /\ c \in Nat /\ e \in Nat
  BY <1>1 DEF a, b, c, e
<1> QED BY <1>2, <1>3

LEMMA MetStep == WeeklyTypes /\ MetInv /\ [WeeklyNext]_weekly => MetInv'
<1> SUFFICES ASSUME WeeklyTypes, MetInv, [WeeklyNext]_weekly,
                    NEW q \in Run, workflow'[q].state \in {"red", "killed"},
                    NEW in \in workflow'[q].met
             PROVE  /\ in \in Weather
                    /\ Spent(in) > Budget \/ ~in.engine \/ in.odd \/ ~Scored(in)
  BY DEF MetInv, Weather, Spent, Scored
<1> DEFINE Goal == /\ in \in Weather
                   /\ Spent(in) > Budget \/ ~in.engine \/ in.odd \/ ~Scored(in)
<1>1. CASE workflow'[q] = workflow[q]
  BY <1>1 DEF MetInv
<1>2. ASSUME NEW r \in Run, Compute(r), workflow'[q] # workflow[q] PROVE Goal
  <2>1. PICK met \in Weather :
          workflow' = [workflow EXCEPT ![r] =
            IF Spent(met) > Budget THEN Ended(r, "killed", {met})
            ELSE IF met.engine /\ ~met.odd /\ Scored(met) THEN [@ EXCEPT !.state = "scored"]
            ELSE Ended(r, "red", {met})]
    BY <1>2 DEF Compute
  <2>2. q = r /\ workflow[r] # NoRun /\ RunOK(workflow[r])
    BY <1>2, <2>1 DEF Compute, WeeklyTypes, NoRun
  <2>3. workflow'[r] = IF Spent(met) > Budget THEN Ended(r, "killed", {met})
                       ELSE IF met.engine /\ ~met.odd /\ Scored(met)
                            THEN [workflow[r] EXCEPT !.state = "scored"]
                            ELSE Ended(r, "red", {met})
    BY <2>1 DEF WeeklyTypes
  <2>4. CASE Spent(met) > Budget
    <3>1. workflow'[r].met = {met}
      BY <2>2, <2>3, <2>4, EndedIsRun
    <3>2. QED
      BY <2>1, <2>2, <2>4, <3>1
  <2>5. CASE ~(Spent(met) > Budget) /\ met.engine /\ ~met.odd /\ Scored(met)
    <3>1. workflow'[r].state = "scored"
      BY <2>2, <2>3, <2>5 DEF RunOK
    <3>2. QED
      BY <2>2, <3>1
  <2>6. CASE ~(Spent(met) > Budget) /\ ~(met.engine /\ ~met.odd /\ Scored(met))
    <3>1. workflow'[r].met = {met}
      BY <2>2, <2>3, <2>6, EndedIsRun
    <3>2. QED
      BY <2>1, <2>2, <2>6, <3>1
  <2>7. QED
    BY <2>4, <2>5, <2>6
<1>3. ASSUME NEW r \in Run, Schedule(r) \/ Dispatch(r) \/ Rerun(r),
             workflow'[q] # workflow[q]
      PROVE Goal
  <2>1. workflow'[q].state = "running"
    BY <1>3 DEF Schedule, Dispatch, Rerun, Started, WeeklyTypes
  <2>2. QED
    BY <2>1
<1>4. ASSUME NEW r \in Run, Commit(r) \/ Push(r), workflow'[q] # workflow[q]
      PROVE  Goal
  <2>1. workflow[r] # NoRun
    BY <1>4 DEF Commit, Push, NoRun
  <2>2. \/ workflow'[q] = Ended(r, "red", {}) \/ workflow'[q] = Ended(r, "green", {})
        \/ workflow'[q].state = "committed"
    BY <1>4 DEF Commit, Push, WeeklyTypes
  <2>3. workflow'[q].state \notin {"red", "killed"} \/ workflow'[q].met = {}
    BY <2>1, <2>2, EndedIsRun
  <2>4. QED
    BY <2>3
<1>5. CASE workflow' = workflow
  BY <1>1, <1>5
<1>6. QED
  BY <1>1, <1>2, <1>3, <1>4, <1>5 DEF WeeklyNext, weekly, PassDay

\* With the time there is, a slow API is survived but for 27 requests that time
\* out, or 24 and refusals.
THEOREM OutagesSurvived ==
  ASSUME Timely
  PROVE  WeeklySpec => []OutagesTolerated
<1>1. MetInv => OutagesTolerated
  <2> SUFFICES ASSUME MetInv, NEW r \in Run, workflow[r].state \in {"red", "killed"},
                      NEW in \in workflow[r].met,
                      in.engine, ~in.odd, ~(10 * in.errors > Districts)
               PROVE  \/ in.delay.timeouts >= 27
                      \/ (in.delay.timeouts >= 24 /\ Failures(in.delay) > in.delay.timeouts)
    BY DEF OutagesTolerated
  <2>1. /\ in \in Weather
        /\ Spent(in) > Budget \/ ~Scored(in)
    BY DEF MetInv
  <2>2. /\ in.delay \in Delay /\ in.setup \in Setup /\ in.errors \in Errors
        /\ Held(in.delay) <= 2 * Batches /\ in.delay.timeouts <= Failures(in.delay)
    BY <2>1, DelaysAssumption DEF Weather
  <2>3. /\ in.delay.timeouts \in Nat /\ in.setup \in Nat /\ Budget \in Nat
        /\ in.errors \in Nat /\ Districts \in Nat /\ Batches \in Nat
    BY <2>2, CountsAssumption, TimesAssumption, ErrorsAssumption DEF Delay
  <2>4. Scored(in)
    BY <2>3 DEF Scored
  <2>5. in.setup + in.delay.timeouts * 6 + Waits(in.delay) > Budget
    BY <2>1, <2>4, TheWaits DEF Spent
  <2>6. in.setup + 72 + 138 <= Budget /\ Batches <= 6
    BY <2>2, TheWaits DEF Timely
  <2>7. /\ Held(in.delay) \in Nat /\ Failures(in.delay) \in Nat /\ Waits(in.delay) \in Nat
        /\ Waits(in.delay) <= 6 * Held(in.delay) /\ Waits(in.delay) <= 2 * Failures(in.delay)
    BY <2>2, WaitsAreBounded
  <2>8. QED
    BY <2>2, <2>3, <2>5, <2>6, <2>7
<1>2. WInv => WeeklyTypes
  BY DEF WInv
<1>3. WeeklyInit => MetInv
  BY DEF WeeklyInit, MetInv, NoRun
<1>4. QED
  BY <1>1, <1>2, <1>3, MetStep, WeeklyStarts, WeeklyStep, PTL DEF WeeklySpec

-----------------------------------------------------------------------------
(* The pulls: what the commands' plans look like. *)

LEMMA StepKinds ==
  /\ \A f : Get(f).do = "get" /\ Get(f).files = {f}
  /\ \A fs : Gather(fs).do = "gather" /\ Gather(fs).files = fs
  /\ \A t : Make(t).do = "make" /\ Make(t).files = {t}
BY DEF Get, Gather, Make

LEMMA StepFacts ==
  ASSUME NEW x \in StepT
  PROVE  /\ x.do = "get" => \E f \in Files : x = Get(f) /\ x.files = {f}
         /\ x.do = "gather" => x.files \in {Chunk, Part}
         /\ x.do = "make" => \E t \in Tables : x.files = {t}
<1>1. CASE \E f \in Files : x = Get(f)
  BY <1>1, StepKinds
<1>2. CASE x \in {Gather(Chunk), Gather(Part)}
  BY <1>2, StepKinds
<1>3. CASE \E t \in Tables : x = Make(t)
  BY <1>3, StepKinds
<1>4. QED
  BY <1>1, <1>2, <1>3 DEF StepT

\* The files of a set, in some order.
LEMMA GetsAll ==
  ASSUME NEW fs, fs \subseteq Files, IsFiniteSet(fs)
  PROVE  /\ Gets(fs) \in Seq(StepT)
         /\ \A k \in 1 .. Len(Gets(fs)) : Gets(fs)[k].do = "get"
         /\ \A f \in fs : \E j \in 1 .. Len(Gets(fs)) : Gets(fs)[j] = Get(f)
<1> DEFINE G == {Get(f) : f \in fs}
<1>1. IsFiniteSet(G)
  <2> DEFINE g == [f \in fs |-> Get(f)]
  <2>1. g \in Surjection(fs, G)
    BY DEF Surjection
  <2> HIDE DEF g
  <2>2. QED
    BY <2>1, FS_Surjection
<1>2. G \subseteq StepT /\ \A x \in G : x.do = "get"
  BY StepKinds DEF StepT
<1>3. \A f \in fs : Get(f) \in G
  OBVIOUS
<1> HIDE DEF G
<1>4. Cardinality(G) \in Nat /\ ExistsBijection(1 .. Cardinality(G), G)
  BY <1>1, FS_CardinalityType
<1>5. PICK n \in Nat : n = Cardinality(G)
  BY <1>4
<1>6. \E f \in [1 .. n -> G] : IsInjective(f)
  BY <1>4, <1>5 DEF ExistsBijection, Bijection, Injection
<1> DEFINE p == SetToSeq(G)
<1>7. p \in [1 .. n -> G] /\ IsInjective(p)
  BY <1>5, <1>6 DEF SetToSeq
<1> HIDE DEF p
<1>8. p \in Injection(1 .. n, G)
  BY <1>7 DEF Injection
<1>9. IsFiniteSet(1 .. n) /\ Cardinality(1 .. n) = n
  BY FS_Interval
<1>10. p \in Surjection(1 .. n, G)
  BY <1>1, <1>5, <1>8, <1>9, FS_Injection
<1>11. p \in Seq(StepT) /\ Len(p) = n /\ \A k \in 1 .. n : p[k] \in G
  BY <1>2, <1>7
<1>12. Gets(fs) = p
  BY DEF Gets, p, G
<1>13. \A f \in fs : \E j \in 1 .. n : p[j] = Get(f)
  BY <1>3, <1>10 DEF Surjection
<1>14. QED
  BY <1>2, <1>11, <1>12, <1>13

\* What puts nothing together is prepared.
LEMMA PlainPrepared ==
  ASSUME NEW p \in Seq(StepT), \A k \in 1 .. Len(p) : p[k].do # "gather"
  PROVE  Prepared(p)
BY DEF Prepared

LEMMA ThenPrepared ==
  ASSUME NEW p, NEW q, Prepared(p), Prepared(q)
  PROVE  Prepared(p \o q)
<1>1. p \in Seq(StepT) /\ q \in Seq(StepT)
  BY DEF Prepared
<1>2. PICK m \in Nat, n \in Nat : m = Len(p) /\ n = Len(q)
  BY <1>1
<1>3. /\ p \o q \in Seq(StepT) /\ Len(p \o q) = m + n
      /\ \A k \in 1 .. m : (p \o q)[k] = p[k]
      /\ \A k \in 1 .. n : (p \o q)[m + k] = q[k]
  BY <1>1, <1>2
<1>4. SUFFICES ASSUME NEW k \in 1 .. m + n, (p \o q)[k].do = "gather", NEW f \in (p \o q)[k].files
               PROVE  \E j \in 1 .. k - 1 : (p \o q)[j] = Get(f)
  BY <1>3 DEF Prepared
<1>5. CASE k \in 1 .. m
  <2>1. PICK j \in 1 .. k - 1 : p[j] = Get(f)
    BY <1>2, <1>3, <1>4, <1>5 DEF Prepared
  <2>2. (p \o q)[j] = Get(f)
    BY <1>2, <1>3, <1>5, <2>1
  <2>3. QED
    BY <2>2
<1>6. CASE k \notin 1 .. m
  <2>1. PICK i \in 1 .. n : k = m + i
    BY <1>2, <1>6
  <2>2. (p \o q)[k] = q[i]
    BY <1>3, <2>1
  <2>3. PICK j \in 1 .. i - 1 : q[j] = Get(f)
    BY <1>2, <1>4, <2>1, <2>2 DEF Prepared
  <2>4. m + j \in 1 .. k - 1 /\ (p \o q)[m + j] = Get(f)
    BY <1>2, <1>3, <2>1, <2>3
  <2>5. QED
    BY <2>4
<1>7. QED
  BY <1>5, <1>6

\* After all of its files, a set is put together.
LEMMA GatherPrepared ==
  ASSUME NEW p, Prepared(p), NEW fs \in {Chunk, Part}, NEW q \in Seq(StepT),
         \A f \in fs : \E j \in 1 .. Len(p) : p[j] = Get(f),
         \A k \in 1 .. Len(q) : q[k].do = "gather" => q[k].files = fs
  PROVE  Prepared(p \o q)
<1>1. p \in Seq(StepT)
  BY DEF Prepared
<1>2. PICK m \in Nat, n \in Nat : m = Len(p) /\ n = Len(q)
  BY <1>1
<1>3. /\ p \o q \in Seq(StepT) /\ Len(p \o q) = m + n
      /\ \A k \in 1 .. m : (p \o q)[k] = p[k]
      /\ \A k \in 1 .. n : (p \o q)[m + k] = q[k]
  BY <1>1, <1>2
<1>4. SUFFICES ASSUME NEW k \in 1 .. m + n, (p \o q)[k].do = "gather", NEW f \in (p \o q)[k].files
               PROVE  \E j \in 1 .. k - 1 : (p \o q)[j] = Get(f)
  BY <1>3 DEF Prepared
<1>5. CASE k \in 1 .. m
  <2>1. PICK j \in 1 .. k - 1 : p[j] = Get(f)
    BY <1>2, <1>3, <1>4, <1>5 DEF Prepared
  <2>2. (p \o q)[j] = Get(f)
    BY <1>2, <1>3, <1>5, <2>1
  <2>3. QED
    BY <2>2
<1>6. CASE k \notin 1 .. m
  <2>1. PICK i \in 1 .. n : k = m + i
    BY <1>2, <1>6
  <2>2. f \in fs
    BY <1>2, <1>3, <1>4, <2>1
  <2>3. PICK j \in 1 .. m : p[j] = Get(f)
    BY <1>2, <2>2
  <2>4. j \in 1 .. k - 1 /\ (p \o q)[j] = Get(f)
    BY <1>3, <2>1, <2>3
  <2>5. QED
    BY <2>4
<1>7. QED
  BY <1>5, <1>6

\* Every command is: each file that it puts together it has passed before.
LEMMA PlansPrepared ==
  \A c \in DOMAIN Plan : Prepared(Plan[c]) /\ Len(Plan[c]) >= 1
<1>1. /\ Chunk \subseteq Files /\ Part \subseteq Files
      /\ Series \subseteq Files /\ Archived \subseteq Files
      /\ {"static", "points", "news", "sample"} \subseteq Files
  BY DEF Files
<1>2. \A f \in Files : Get(f) \in StepT
  BY DEF StepT
<1>3. /\ Gather(Chunk) \in StepT /\ Gather(Part) \in StepT
      /\ \A t \in Tables : Make(t) \in StepT
  BY DEF StepT
<1>4. Prepared(Places) /\ Len(Places) = 2
  <2>1. Places \in Seq(StepT) /\ Len(Places) = 2
        /\ \A k \in 1 .. 2 : Places[k].do = "get"
    BY <1>1, <1>2, StepKinds DEF Places
  <2>2. QED
    BY <2>1, PlainPrepared
<1>5. Prepared(News) /\ Len(News) = 1
  <2>1. News \in Seq(StepT) /\ Len(News) = 1 /\ News[1].do = "get"
    BY <1>1, <1>2, StepKinds DEF News
  <2>2. QED
    BY <2>1, PlainPrepared
<1>6. \A fs \in {Chunk, Part, Series, Archived} : Prepared(Gets(fs))
  <2> SUFFICES ASSUME NEW fs \in {Chunk, Part, Series, Archived}
               PROVE  Prepared(Gets(fs))
    OBVIOUS
  <2>1. fs \subseteq Files /\ IsFiniteSet(fs)
    BY <1>1, FilesAssumption
  <2>2. Gets(fs) \in Seq(StepT) /\ \A k \in 1 .. Len(Gets(fs)) : Gets(fs)[k].do # "gather"
    BY <2>1, GetsAll
  <2>3. QED
    BY <2>2, PlainPrepared
<1>7. Prepared(Dynamic)
  <2> DEFINE q == <<Gather(Chunk)>>
  <2>1. q \in Seq(StepT) /\ Len(q) = 1 /\ q[1].files = Chunk
    BY <1>3, StepKinds
  <2>2. \A f \in Chunk : \E j \in 1 .. Len(Gets(Chunk)) : Gets(Chunk)[j] = Get(f)
    BY <1>1, FilesAssumption, GetsAll
  <2>3. Prepared(Gets(Chunk) \o q)
    <3> HIDE DEF q
    <3> QED BY <1>6, <2>1, <2>2, GatherPrepared
  <2>4. QED
    BY <2>3 DEF Dynamic
<1>8. \A t \in Tables : Prepared(<<Make(t)>>)
  <2> SUFFICES ASSUME NEW t \in Tables PROVE Prepared(<<Make(t)>>)
    OBVIOUS
  <2>1. <<Make(t)>> \in Seq(StepT) /\ \A k \in 1 .. Len(<<Make(t)>>) : <<Make(t)>>[k].do # "gather"
    BY <1>3, StepKinds
  <2>2. QED
    BY <2>1, PlainPrepared
<1>9. \A f \in Files : Prepared(<<Get(f)>>) /\ Len(<<Get(f)>>) = 1
  <2> SUFFICES ASSUME NEW f \in Files PROVE Prepared(<<Get(f)>>)
    OBVIOUS
  <2>1. <<Get(f)>> \in Seq(StepT) /\ \A k \in 1 .. Len(<<Get(f)>>) : <<Get(f)>>[k].do # "gather"
    BY <1>2, StepKinds
  <2>2. QED
    BY <2>1, PlainPrepared
<1>10. \A p, q : Prepared(p) /\ Prepared(q) =>
         Prepared(p \o q) /\ (Len(p) >= 1 => Len(p \o q) >= 1)
  <2> SUFFICES ASSUME NEW p, NEW q, Prepared(p), Prepared(q)
               PROVE  Prepared(p \o q) /\ (Len(p) >= 1 => Len(p \o q) >= 1)
    OBVIOUS
  <2>1. Len(p \o q) = Len(p) + Len(q) /\ Len(p) \in Nat /\ Len(q) \in Nat
    BY DEF Prepared
  <2>2. QED
    BY <2>1, ThenPrepared
<1>11. Prepared(Plan.dynamic) /\ Len(Plan.dynamic) >= 1
  BY <1>4, <1>7, <1>10 DEF Plan
<1>12. Prepared(Plan.discharge) /\ Len(Plan.discharge) >= 1
  BY <1>4, <1>6, <1>10 DEF Plan, Discharge
<1>13. Prepared(Plan.news) /\ Len(Plan.news) >= 1
  <2>1. Plan.news = Places \o News
    BY DEF Plan
  <2>2. QED
    BY <1>4, <1>5, <1>10, <2>1
<1>14. Prepared(Plan.panel) /\ Len(Plan.panel) >= 1
  <2>1. Prepared(Places \o Discharge) /\ Len(Places \o Discharge) >= 1
    BY <1>4, <1>6, <1>10 DEF Discharge
  <2>2. Prepared(Places \o Discharge \o Dynamic) /\ Len(Places \o Discharge \o Dynamic) >= 1
    BY <1>7, <1>10, <2>1
  <2>3. /\ Prepared(Places \o Discharge \o Dynamic \o News)
        /\ Len(Places \o Discharge \o Dynamic \o News) >= 1
    BY <1>5, <1>10, <2>2
  <2>4. Prepared(<<Make("panel")>>)
    BY <1>8 DEF Tables
  <2>5. Plan.panel = Places \o Discharge \o Dynamic \o News \o <<Make("panel")>>
    BY DEF Plan
  <2>6. QED
    BY <1>10, <2>3, <2>4, <2>5
<1>15. Prepared(Plan.audit) /\ Len(Plan.audit) >= 1
  <2> DEFINE p == <<Get("sample")>> \o Gets(Part)
             q == <<Gather(Part), Make("audit")>>
  <2>1. /\ Prepared(p) /\ Len(p) >= 1
    BY <1>1, <1>6, <1>9, <1>10
  <2>2. \A f \in Part : \E j \in 1 .. Len(p) : p[j] = Get(f)
    <3> SUFFICES ASSUME NEW f \in Part PROVE \E j \in 1 .. Len(p) : p[j] = Get(f)
      OBVIOUS
    <3>1. Gets(Part) \in Seq(StepT) /\ \E j \in 1 .. Len(Gets(Part)) : Gets(Part)[j] = Get(f)
      BY <1>1, FilesAssumption, GetsAll
    <3>2. PICK j \in 1 .. Len(Gets(Part)) : Gets(Part)[j] = Get(f)
      BY <3>1
    <3>3. <<Get("sample")>> \in Seq(StepT) /\ Len(<<Get("sample")>>) = 1
      BY <1>1, <1>2
    <3>4. 1 + j \in 1 .. Len(p) /\ p[1 + j] = Get(f)
      BY <3>1, <3>2, <3>3
    <3>5. QED
      BY <3>4
  <2>3. /\ q \in Seq(StepT) /\ Len(q) = 2
        /\ \A k \in 1 .. Len(q) : q[k].do = "gather" => q[k].files = Part
    BY <1>3, StepKinds DEF Tables
  <2>4. Plan.audit = p \o q
    BY DEF Plan
  <2>5. Len(p \o q) >= 1
    BY <2>1, <2>3 DEF Prepared
  <2>6. Prepared(p \o q)
    <3> HIDE DEF p, q
    <3> QED BY <2>1, <2>2, <2>3, GatherPrepared
  <2>7. QED
    BY <2>4, <2>5, <2>6
<1>16. Prepared(Plan.archive) /\ Len(Plan.archive) >= 1
  <2>1. Prepared(<<Get("static")>> \o Gets(Archived)) /\ Len(<<Get("static")>> \o Gets(Archived)) >= 1
    BY <1>1, <1>6, <1>9, <1>10
  <2>2. Prepared(<<Make("archive")>>)
    BY <1>8 DEF Tables
  <2>3. Plan.archive = <<Get("static")>> \o Gets(Archived) \o <<Make("archive")>>
    BY DEF Plan
  <2>4. QED
    BY <1>10, <2>1, <2>2, <2>3
<1>17. DOMAIN Plan = {"dynamic", "discharge", "news", "panel", "audit", "archive"}
  BY DEF Plan
<1>18. QED
  BY <1>11, <1>12, <1>13, <1>14, <1>15, <1>16, <1>17

-----------------------------------------------------------------------------
(* The pulls: the commands at work. *)

\* Where a command stands, and what it does there.
LEMMA StandsAt ==
  ASSUME PullsTypes, NEW s \in Shell, shell[s] # Resting
  PROVE  /\ ShellOK(shell[s]) /\ Step(s) \in StepT /\ shell[s].cmd # "none"
         /\ Prepared(Plan[shell[s].cmd])
         /\ shell[s].step \in 1 .. Len(Plan[shell[s].cmd])
         /\ Step(s).do = "get" =>
              /\ Step(s) = Get(The(s)) /\ Step(s).files = {The(s)} /\ The(s) \in Files
         /\ Step(s).do = "gather" => Step(s).files \in {Chunk, Part}
         /\ Step(s).do = "make" => The(s) \in Tables
<1>1. ShellOK(shell[s])
  BY DEF PullsTypes
<1>2. shell[s].cmd \in DOMAIN Plan /\ shell[s].cmd # "none"
  BY <1>1 DEF ShellOK, Plan
<1>3. Prepared(Plan[shell[s].cmd])
  BY <1>2, PlansPrepared
<1>4. shell[s].step \in 1 .. Len(Plan[shell[s].cmd])
  BY <1>1, <1>3 DEF ShellOK, Prepared
<1>5. Step(s) \in StepT
  BY <1>3, <1>4 DEF Step, Prepared
<1>6. ASSUME Step(s).do = "get"
      PROVE  Step(s) = Get(The(s)) /\ Step(s).files = {The(s)} /\ The(s) \in Files
  <2>1. PICK f \in Files : Step(s) = Get(f) /\ Step(s).files = {f}
    BY <1>5, <1>6, StepFacts
  <2>2. The(s) = f
    BY <2>1 DEF The
  <2>3. QED
    BY <2>1, <2>2
<1>7. Step(s).do = "gather" => Step(s).files \in {Chunk, Part}
  BY <1>5, StepFacts
<1>8. ASSUME Step(s).do = "make" PROVE The(s) \in Tables
  <2>1. PICK t \in Tables : Step(s).files = {t}
    BY <1>5, <1>8, StepFacts
  <2>2. QED
    BY <2>1 DEF The
<1>9. QED
  BY <1>1, <1>2, <1>3, <1>4, <1>5, <1>6, <1>7, <1>8

\* What moves one shell leaves the others.
LEMMA OthersStay ==
  ASSUME PullsTypes, NEW s \in Shell, NEW x, shell' = [shell EXCEPT ![s] = x]
  PROVE  /\ DOMAIN shell' = Shell /\ shell'[s] = x
         /\ \A t \in Shell : t # s => shell'[t] = shell[t]
         /\ \A f, t : t # s => (t \in Writers(f)' <=> t \in Writers(f))
         /\ \A f : x.does # "write" => s \notin Writers(f)'
BY DEF PullsTypes, Writers, Step

\* Files are there for good.
Stays == /\ file' \in [Files -> {"absent", "torn", "whole"}]
         /\ \A f \in Files : file[f] # "absent" => file'[f] # "absent"

\* A shell that is where it was, rests, or has passed a step whose file is there,
\* keeps everything but what is said of torn files and of tables.
LEMMA ShellMoves ==
  ASSUME PullsTypes, BehindInv, LacksInv, NEW s \in Shell, NEW x,
         shell' = [shell EXCEPT ![s] = x],
         Stays, goal' = goal, DOMAIN table' = Tables,
         excused \subseteq excused', x.lacks \subseteq excused',
         x # Resting => ShellOK(x),
         x # Resting =>
           \A f \in Files : \A j \in 1 .. x.step - 1 :
             Plan[x.cmd][j] = Get(f) => file'[f] # "absent" \/ f \in Raw
  PROVE  PullsTypes' /\ BehindInv' /\ LacksInv'
<1>1. /\ DOMAIN shell' = Shell /\ shell'[s] = x
      /\ \A t \in Shell : t # s => shell'[t] = shell[t]
  BY OthersStay
<1>2. PullsTypes'
  <2>1. \A t \in Shell : shell'[t] # Resting => ShellOK(shell'[t])
    BY <1>1 DEF PullsTypes
  <2>2. QED
    BY <1>1, <2>1 DEF PullsTypes, Stays, ShellOK, Plan, Places, Dynamic, Discharge, News, Resting,
       Get, Gets, Gather, Make, Files, Tables
<1>3. BehindInv'
  <2> SUFFICES ASSUME NEW t \in Shell, NEW f \in Files, shell'[t] # Resting,
                      NEW j \in 1 .. shell'[t].step - 1, Plan[shell'[t].cmd][j] = Get(f)
               PROVE  file'[f] # "absent" \/ f \in Raw
    BY DEF BehindInv, Plan, Places, Dynamic, Discharge, News, Resting, Get, Gets, Gather, Make,
       Files, Raw
  <2>1. CASE t = s
    BY <1>1, <2>1
  <2>2. CASE t # s
    <3>1. file[f] # "absent" \/ f \in Raw
      BY <1>1, <2>2 DEF BehindInv
    <3>2. QED
      BY <3>1 DEF Stays
  <2>3. QED
    BY <2>1, <2>2
<1>4. LacksInv'
  BY <1>1 DEF LacksInv
<1>5. QED
  BY <1>2, <1>3, <1>4

\* A command goes on to its next step, or is done.
LEMMA PassMoves ==
  ASSUME PullsTypes, BehindInv, LacksInv, NEW s \in Shell, shell[s] # Resting,
         NEW lacks, lacks \subseteq Files, lacks \subseteq excused', Pass(s, lacks),
         Stays, goal' = goal, DOMAIN table' = Tables, excused \subseteq excused',
         \A f \in Files : Step(s) = Get(f) => file'[f] # "absent" \/ f \in Raw
  PROVE  /\ PullsTypes' /\ BehindInv' /\ LacksInv'
         /\ Passed(s, lacks).does # "write"
<1> DEFINE x == Passed(s, lacks)
<1>1. shell' = [shell EXCEPT ![s] = x]
  BY DEF Pass
<1>2. /\ ShellOK(shell[s]) /\ shell[s].step \in 1 .. Len(Plan[shell[s].cmd])
      /\ Prepared(Plan[shell[s].cmd])
  BY StandsAt
<1>3. CASE shell[s].step = Len(Plan[shell[s].cmd])
  <2>1. x = Resting
    BY <1>3 DEF Passed
  <2>2. x.lacks \subseteq excused' /\ x.does # "write"
    BY <2>1 DEF Resting
  <2>3. QED
    <3> HIDE DEF x
    <3>1. PullsTypes' /\ BehindInv' /\ LacksInv'
      BY <1>1, <2>1, <2>2, ShellMoves
    <3>2. QED
      BY <2>2, <3>1 DEF x
<1>4. CASE shell[s].step # Len(Plan[shell[s].cmd])
  <2>1. x = [shell[s] EXCEPT !.step = @ + 1, !.does = "look", !.lacks = @ \cup lacks]
    BY <1>4 DEF Passed
  <2>2. /\ x.cmd = shell[s].cmd /\ x.step = shell[s].step + 1 /\ x.does = "look"
        /\ x.lacks = shell[s].lacks \cup lacks
        /\ x \in [cmd : DOMAIN Plan, step : Nat \ {0}, does : {"look", "fetch", "write"},
                  lacks : SUBSET Files]
    <3>1. shell[s] \in [cmd : DOMAIN Plan, step : Nat \ {0}, does : {"look", "fetch", "write"},
                        lacks : SUBSET Files]
      BY <1>2 DEF ShellOK
    <3> DEFINE n == shell[s].step + 1
               m == shell[s].lacks \cup lacks
    <3>2. n \in Nat \ {0} /\ m \in SUBSET Files
      BY <3>1
    <3>3. x = [shell[s] EXCEPT !.step = n, !.does = "look", !.lacks = m]
      BY <2>1
    <3> HIDE DEF n, m, x
    <3>4. /\ x.cmd = shell[s].cmd /\ x.step = n /\ x.does = "look" /\ x.lacks = m
          /\ x \in [cmd : DOMAIN Plan, step : Nat \ {0}, does : {"look", "fetch", "write"},
                    lacks : SUBSET Files]
      BY <3>1, <3>2, <3>3
    <3>5. QED
      BY <3>4 DEF n, m
  <2> HIDE DEF x
  <2>3. Len(Plan[shell[s].cmd]) \in Nat
    BY <1>2 DEF Prepared
  <2>4. ShellOK(x)
    BY <1>2, <1>4, <2>2, <2>3 DEF ShellOK
  <2>5. x.lacks \subseteq excused'
    BY <2>2 DEF LacksInv
  <2>6. ASSUME NEW f \in Files, NEW j \in 1 .. x.step - 1, Plan[x.cmd][j] = Get(f)
        PROVE  file'[f] # "absent" \/ f \in Raw
    <3>1. CASE j = shell[s].step
      BY <2>2, <2>6, <3>1 DEF Step
    <3>2. CASE j # shell[s].step
      <4>1. j \in 1 .. shell[s].step - 1
        BY <1>2, <2>2, <3>2
      <4>2. file[f] # "absent" \/ f \in Raw
        BY <2>2, <2>6, <4>1 DEF BehindInv
      <4>3. QED
        BY <4>2 DEF Stays
    <3>3. QED
      BY <3>1, <3>2
  <2>7. PullsTypes' /\ BehindInv' /\ LacksInv'
    BY <1>1, <2>4, <2>5, <2>6, ShellMoves
  <2>8. QED
    BY <2>2, <2>7 DEF x
<1>5. QED
  BY <1>3, <1>4

\* Nothing is torn that was not, and no writer leaves.
LEMMA TornStays ==
  ASSUME PullsTypes, TornInv, NEW s \in Shell, NEW x, shell' = [shell EXCEPT ![s] = x],
         shell[s].does # "write", excused \subseteq excused', file' = file
  PROVE  TornInv'
<1> SUFFICES ASSUME NEW f \in Files, file[f] = "torn", f \notin excused'
             PROVE  Writers(f)' # {}
  BY DEF TornInv, Files
<1>1. PICK t \in Writers(f) : TRUE
  BY DEF TornInv
<1>2. t \in Shell /\ t # s
  BY <1>1 DEF Writers
<1>3. QED
  BY <1>1, <1>2, OthersStay

LEMMA GapsStay ==
  ASSUME GapsExplained, table' = table, excused \subseteq excused'
  PROVE  GapsExplained'
BY DEF GapsExplained, NotMade

LEMMA StartMoves ==
  ASSUME PInv, NEW s \in Shell, NEW c \in Commands, Start(s, c)
  PROVE  PInv'
<1> USE DEF PInv
<1> DEFINE x == [cmd |-> c, step |-> 1, does |-> "look", lacks |-> {}]
<1>1. c \in DOMAIN Plan
  BY DEF Commands, PullsTypes, Tables, Plan
<1>2. Len(Plan[c]) >= 1 /\ Len(Plan[c]) \in Nat
  BY <1>1, PlansPrepared DEF Prepared
<1>3. /\ x.cmd = c /\ x.step = 1 /\ x.does = "look" /\ x.lacks = {}
      /\ x \in [cmd : DOMAIN Plan, step : Nat \ {0}, does : {"look", "fetch", "write"},
                lacks : SUBSET Files]
  BY <1>1
<1>4. /\ shell' = [shell EXCEPT ![s] = x] /\ shell[s] = Resting
      /\ UNCHANGED <<goal, file, table, excused>>
  BY DEF Start
<1> HIDE DEF x
<1>5. ShellOK(x)
  BY <1>2, <1>3 DEF ShellOK
<1>6. shell[s].does # "write"
  BY <1>4 DEF Resting
<1>7. Stays /\ DOMAIN table' = Tables
  BY <1>4 DEF Stays, PullsTypes
<1>8. PullsTypes' /\ BehindInv' /\ LacksInv'
  <2>1. x.lacks \subseteq excused' /\ excused \subseteq excused' /\ goal' = goal
    BY <1>3, <1>4
  <2>2. \A f \in Files : \A j \in 1 .. x.step - 1 :
          Plan[x.cmd][j] = Get(f) => file'[f] # "absent" \/ f \in Raw
    BY <1>3
  <2>3. QED
    BY <1>4, <1>5, <1>7, <2>1, <2>2, ShellMoves
<1>9. TornInv'
  BY <1>4, <1>6, TornStays
<1>10. QED
  BY <1>4, <1>8, <1>9, GapsStay

\* A command that stops or is killed: what it was writing is excused.
LEMMA StopMoves ==
  ASSUME PInv, NEW s \in Shell, Stops(s), UNCHANGED <<goal, file, table>>,
         excused \subseteq excused',
         shell[s].does = "write" => Step(s).files \subseteq excused'
  PROVE  PInv'
<1> USE DEF PInv
<1>1. shell' = [shell EXCEPT ![s] = Resting] /\ Resting.lacks = {} /\ Resting.does # "write"
  BY DEF Stops, Resting
<1>2. Stays /\ DOMAIN table' = Tables
  BY DEF Stays, PullsTypes
<1>3. PullsTypes' /\ BehindInv' /\ LacksInv'
  BY <1>1, <1>2, ShellMoves
<1>4. TornInv'
  <2> SUFFICES ASSUME NEW f \in Files, file[f] = "torn", f \notin excused'
               PROVE  Writers(f)' # {}
    BY DEF TornInv, Files
  <2>1. PICK t \in Writers(f) : TRUE
    BY DEF TornInv
  <2>2. t \in Shell /\ t # s
    BY <2>1 DEF Writers
  <2>3. QED
    BY <1>1, <2>1, <2>2, OthersStay
<1>5. QED
  BY <1>3, <1>4, GapsStay

LEMMA KillMoves ==
  ASSUME PInv, NEW s \in Shell, Kill(s)
  PROVE  PInv'
BY StopMoves DEF Kill

\* A command goes on without having touched a file.
LEMMA PassesOn ==
  ASSUME PInv, NEW s \in Shell, shell[s] # Resting, shell[s].does # "write",
         NEW lacks, lacks \subseteq Files, lacks \subseteq excused', Pass(s, lacks),
         UNCHANGED <<goal, file, table>>, excused \subseteq excused',
         \A f \in Files : Step(s) = Get(f) => file[f] # "absent" \/ f \in Raw
  PROVE  PInv'
<1> USE DEF PInv
<1>1. Stays /\ DOMAIN table' = Tables
  BY DEF Stays, PullsTypes
<1>2. PullsTypes' /\ BehindInv' /\ LacksInv'
  BY <1>1, PassMoves
<1>3. TornInv'
  BY TornStays DEF Pass
<1>4. QED
  BY <1>2, <1>3, GapsStay

LEMMA AtStands ==
  ASSUME PullsTypes, NEW s \in Shell, NEW do, At(s, do)
  PROVE  shell[s] # Resting /\ shell[s].does = "look" /\ Step(s).do = do
BY DEF At, Resting

LEMMA TakeMoves ==
  ASSUME PInv, NEW s \in Shell, Take(s)
  PROVE  PInv'
<1> USE DEF PInv
<1> DEFINE f == The(s)
<1>1. shell[s] # Resting /\ shell[s].does = "look" /\ Step(s).do = "get"
  BY AtStands DEF Take
<1>2. Step(s) = Get(f) /\ f \in Files /\ file[f] # "absent"
  BY <1>1, StandsAt DEF Take
<1>3. \A g \in Files : Step(s) = Get(g) => file[g] # "absent"
  <2>1. \A g : Get(g) = Get(f) => g = f
    BY StepKinds
  <2>2. QED
    BY <1>2, <2>1
<1>4. UNCHANGED <<goal, file, table>>
  BY DEF Take
<1>5. CASE Pass(s, {}) /\ UNCHANGED excused
  BY <1>1, <1>3, <1>4, <1>5, PassesOn
<1>6. CASE /\ file[f] = "torn"
           /\ Stops(s) \/ (f \notin Raw /\ Pass(s, {f}))
           /\ excused' = IF Writers(f) # {} THEN excused \cup {f} ELSE excused
  <2>1. f \in excused' /\ excused \subseteq excused'
    BY <1>2, <1>6 DEF TornInv
  <2>2. CASE Stops(s)
    BY <1>1, <1>4, <2>1, <2>2, StopMoves
  <2>3. CASE Pass(s, {f})
    <3>1. {f} \subseteq Files /\ {f} \subseteq excused'
      BY <1>2, <2>1
    <3> HIDE DEF f
    <3>2. QED
      BY <1>1, <1>3, <1>4, <2>1, <2>3, <3>1, PassesOn
  <2>4. QED
    BY <1>6, <2>2, <2>3
<1>7. QED
  BY <1>5, <1>6 DEF Take

\* A command stays at its step and does something else there.
LEMMA GoesMoves ==
  ASSUME PullsTypes, BehindInv, LacksInv, NEW s \in Shell, shell[s] # Resting,
         Step(s).do = "get", NEW does \in {"fetch", "write"}, Goes(s, does),
         Stays, UNCHANGED <<goal, table, excused>>
  PROVE  /\ PullsTypes' /\ BehindInv' /\ LacksInv'
         /\ \A f : Step(s).files = {f} /\ does = "write" => s \in Writers(f)'
<1> DEFINE x == [shell[s] EXCEPT !.does = does]
<1>1. shell' = [shell EXCEPT ![s] = x]
  BY DEF Goes, PullsTypes
<1>2. ShellOK(shell[s])
  BY StandsAt
<1>3. /\ x.cmd = shell[s].cmd /\ x.step = shell[s].step /\ x.lacks = shell[s].lacks
      /\ x.does = does
      /\ x \in [cmd : DOMAIN Plan, step : Nat \ {0}, does : {"look", "fetch", "write"},
                lacks : SUBSET Files]
  BY <1>2 DEF ShellOK
<1> HIDE DEF x
<1>4. ShellOK(x)
  BY <1>2, <1>3 DEF ShellOK, Step
<1>5. \A f \in Files : \A j \in 1 .. x.step - 1 :
        Plan[x.cmd][j] = Get(f) => file'[f] # "absent" \/ f \in Raw
  BY <1>3 DEF BehindInv, Stays
<1>6. x.lacks \subseteq excused' /\ DOMAIN table' = Tables
  BY <1>3 DEF LacksInv, PullsTypes
<1>7. PullsTypes' /\ BehindInv' /\ LacksInv'
  BY <1>1, <1>4, <1>5, <1>6, ShellMoves
<1>8. shell'[s] = x
  BY <1>1, OthersStay
<1>9. \A f : Step(s).files = {f} /\ does = "write" => s \in Writers(f)'
  <2>1. Plan[x.cmd][x.step] = Step(s)
    BY <1>3 DEF Step
  <2>2. QED
    BY <1>3, <1>8, <2>1 DEF Writers, Step, Plan, Places, Dynamic, Discharge, News, Get, Gets,
       Gather, Make
<1>10. QED
  BY <1>7, <1>9

LEMMA AskMoves ==
  ASSUME PInv, NEW s \in Shell, Ask(s)
  PROVE  PInv'
<1> USE DEF PInv
<1>1. shell[s] # Resting /\ shell[s].does = "look" /\ Step(s).do = "get"
  BY AtStands DEF Ask
<1>2. Goes(s, "fetch") /\ UNCHANGED <<goal, file, table, excused>>
  BY DEF Ask
<1>3. Stays
  BY <1>2 DEF Stays, PullsTypes
<1>4. PullsTypes' /\ BehindInv' /\ LacksInv'
  BY <1>1, <1>2, <1>3, GoesMoves
<1>5. TornInv'
  BY <1>1, <1>2, TornStays DEF Goes, PullsTypes
<1>6. QED
  BY <1>2, <1>4, <1>5, GapsStay

\* Who asks or writes does so for a file.
LEMMA Works ==
  ASSUME PullsTypes, NEW s \in Shell, shell[s].does \in {"fetch", "write"}
  PROVE  /\ shell[s] # Resting /\ Step(s).do = "get"
         /\ Step(s) = Get(The(s)) /\ Step(s).files = {The(s)} /\ The(s) \in Files
<1>1. shell[s] # Resting
  BY DEF Resting
<1>2. Step(s).do = "get"
  BY <1>1, StandsAt DEF ShellOK, Step
<1>3. QED
  BY <1>1, <1>2, StandsAt

LEMMA GiveUpMoves ==
  ASSUME PInv, NEW s \in Shell, GiveUp(s)
  PROVE  PInv'
<1> USE DEF PInv
<1> DEFINE f == The(s)
<1>1. shell[s] # Resting /\ shell[s].does = "fetch" /\ Step(s) = Get(f) /\ f \in Files
  BY Works DEF GiveUp
<1>2. UNCHANGED <<goal, file, table>> /\ excused \subseteq excused'
  BY DEF GiveUp
<1>3. CASE f \in Raw
  <2>1. Pass(s, {f}) /\ {f} \subseteq excused' /\ {f} \subseteq Files
    BY <1>1, <1>3 DEF GiveUp, Skipped
  <2>2. \A g \in Files : Step(s) = Get(g) => g \in Raw
    <3>1. \A g : Get(g) = Get(f) => g = f
      BY StepKinds
    <3>2. QED
      BY <1>1, <1>3, <3>1
  <2> HIDE DEF f
  <2>3. QED
    BY <1>1, <1>2, <2>1, <2>2, PassesOn
<1>4. CASE f \notin Raw
  <2>1. Stops(s)
    BY <1>4 DEF GiveUp, Skipped
  <2>2. QED
    BY <1>1, <1>2, <2>1, StopMoves
<1>5. QED
  BY <1>3, <1>4

LEMMA OpenMoves ==
  ASSUME PInv, NEW s \in Shell, Open(s)
  PROVE  PInv'
<1> USE DEF PInv
<1>1. PICK f \in Files :
        /\ f = The(s) /\ Step(s).files = {f}
        /\ shell[s] # Resting /\ shell[s].does = "fetch" /\ Step(s).do = "get"
  BY Works DEF Open
<1>2. /\ Goes(s, "write") /\ UNCHANGED <<goal, table, excused>>
      /\ file' = [file EXCEPT ![f] = "torn"]
  BY <1>1 DEF Open
<1>3. Stays
  BY <1>2 DEF Stays, PullsTypes
<1>4. PullsTypes' /\ BehindInv' /\ LacksInv' /\ s \in Writers(f)'
  BY <1>1, <1>2, <1>3, GoesMoves
<1>5. TornInv'
  <2> SUFFICES ASSUME NEW g \in Files, file'[g] = "torn", g \notin excused
               PROVE  Writers(g)' # {}
    BY <1>2 DEF TornInv, Files
  <2>1. CASE g = f
    BY <1>4, <2>1
  <2>2. CASE g # f
    <3>1. file[g] = "torn"
      BY <1>2, <2>2 DEF PullsTypes
    <3>2. PICK t \in Writers(g) : TRUE
      BY <3>1 DEF TornInv
    <3>3. t # s
      BY <1>1, <3>2 DEF Writers
    <3>4. QED
      BY <1>2, <3>2, <3>3, OthersStay DEF Goes
  <2>3. QED
    BY <2>1, <2>2
<1>6. QED
  BY <1>2, <1>4, <1>5, GapsStay

\* The last writer of a file leaves it whole; a file that another still writes is
\* torn, and has that writer; one cut short by its sample is excused.
LEMMA CloseMoves ==
  ASSUME PInv, NEW s \in Shell, Close(s)
  PROVE  PInv'
<1> USE DEF PInv
<1> DEFINE f == The(s)
<1>1. /\ shell[s] # Resting /\ shell[s].does = "write" /\ Step(s).do = "get"
      /\ Step(s) = Get(f) /\ Step(s).files = {f} /\ f \in Files
  BY Works DEF Close
<1>2. /\ file' = [file EXCEPT ![f] = IF Writers(f) = {s} /\ Sampled(s) THEN "whole" ELSE "torn"]
      /\ excused' = IF Sampled(s) THEN excused ELSE excused \cup {f}
      /\ Pass(s, {}) /\ UNCHANGED <<goal, table>>
  BY DEF Close
<1>3. /\ \A g \in Files : g # f => file'[g] = file[g]
      /\ file'[f] = IF Writers(f) = {s} /\ Sampled(s) THEN "whole" ELSE "torn"
      /\ file' \in [Files -> {"absent", "torn", "whole"}]
  BY <1>1, <1>2 DEF PullsTypes
<1>4. Stays /\ excused \subseteq excused' /\ DOMAIN table' = Tables
  BY <1>2, <1>3 DEF Stays, PullsTypes
<1>5. \A g \in Files : Step(s) = Get(g) => file'[g] # "absent"
  <2>1. \A g : Get(g) = Get(f) => g = f
    BY StepKinds
  <2>2. QED
    BY <1>1, <1>3, <2>1
<1> HIDE DEF f
<1>6. PullsTypes' /\ BehindInv' /\ LacksInv'
  BY <1>1, <1>2, <1>4, <1>5, PassMoves
<1>7. TornInv'
  <2> SUFFICES ASSUME NEW g \in Files, file'[g] = "torn", g \notin excused'
               PROVE  Writers(g)' # {}
    BY DEF TornInv, Files
  <2>1. PICK t \in Writers(g) : t # s
    <3>1. CASE g = f
      <4>1. Writers(f) # {s}
        BY <1>2, <1>3, <3>1
      <4>2. s \in Writers(f)
        BY <1>1 DEF Writers
      <4>3. QED
        BY <3>1, <4>1, <4>2
    <3>2. CASE g # f
      <4>1. file[g] = "torn"
        BY <1>3, <3>2
      <4>2. PICK t \in Writers(g) : TRUE
        BY <1>4, <4>1 DEF TornInv
      <4>3. t # s
        BY <1>1, <3>2, <4>2 DEF Writers
      <4>4. QED
        BY <4>2, <4>3
    <3>3. QED
      BY <3>1, <3>2
  <2>2. QED
    BY <1>2, <2>1, OthersStay DEF Pass
<1>8. QED
  BY <1>2, <1>4, <1>6, <1>7, GapsStay

\* What is short is torn, as all of it was passed before.
LEMMA CollectMoves ==
  ASSUME PInv, NEW s \in Shell, Collect(s)
  PROVE  PInv'
<1> USE DEF PInv
<1> DEFINE short == {f \in Step(s).files : file[f] # "whole"}
<1>1. shell[s] # Resting /\ shell[s].does = "look" /\ Step(s).do = "gather"
  BY AtStands DEF Collect
<1>2. /\ Pass(s, short) \/ Stops(s)
      /\ excused' = excused \cup {f \in short : Writers(f) # {}}
      /\ UNCHANGED <<goal, file, table>>
  BY DEF Collect
<1>3. /\ Prepared(Plan[shell[s].cmd]) /\ shell[s].step \in 1 .. Len(Plan[shell[s].cmd])
      /\ Step(s).files \in {Chunk, Part}
  BY <1>1, StandsAt
<1>4. Step(s).files \subseteq Files /\ Step(s).files \cap Raw = {}
  BY <1>3, FilesAssumption DEF Files, Raw
<1>5. \A f \in Step(s).files : file[f] # "absent"
  <2> SUFFICES ASSUME NEW f \in Step(s).files PROVE file[f] # "absent"
    OBVIOUS
  <2>1. PICK j \in 1 .. shell[s].step - 1 : Plan[shell[s].cmd][j] = Get(f)
    BY <1>1, <1>3 DEF Prepared, Step
  <2>2. QED
    BY <1>1, <1>4, <2>1 DEF BehindInv
<1>6. \A f \in short : file[f] = "torn" /\ f \in Files
  BY <1>4, <1>5 DEF PullsTypes
<1>7. short \subseteq excused' /\ excused \subseteq excused' /\ short \subseteq Files
  BY <1>2, <1>6 DEF TornInv
<1>8. \A f \in Files : Step(s) # Get(f)
  BY <1>1, StepKinds
<1> HIDE DEF short
<1>9. CASE Pass(s, short)
  BY <1>1, <1>2, <1>7, <1>8, <1>9, PassesOn
<1>10. CASE Stops(s)
  BY <1>1, <1>2, <1>7, <1>10, StopMoves
<1>11. QED
  BY <1>2, <1>9, <1>10

LEMMA WriteMoves ==
  ASSUME PInv, NEW s \in Shell, WriteTable(s)
  PROVE  PInv'
<1> USE DEF PInv
<1>1. shell[s] # Resting /\ shell[s].does = "look" /\ Step(s).do = "make"
  BY AtStands DEF WriteTable
<1>2. /\ table' = [table EXCEPT ![The(s)] = shell[s].lacks] /\ Pass(s, {})
      /\ UNCHANGED <<goal, file, excused>>
  BY DEF WriteTable
<1>3. Stays /\ DOMAIN table' = Tables
  BY <1>2 DEF Stays, PullsTypes
<1>4. \A f \in Files : Step(s) # Get(f)
  BY <1>1, StepKinds
<1>5. PullsTypes' /\ BehindInv' /\ LacksInv'
  BY <1>1, <1>2, <1>3, <1>4, PassMoves
<1>6. TornInv'
  BY <1>1, <1>2, TornStays DEF Pass
<1>7. GapsExplained'
  <2>1. \A t \in DOMAIN table' : table'[t] = table[t] \/ table'[t] = shell[s].lacks
    BY <1>2
  <2>2. shell[s].lacks \subseteq excused
    BY DEF LacksInv
  <2>3. QED
    BY <1>2, <2>1, <2>2 DEF GapsExplained, NotMade
<1>8. QED
  BY <1>5, <1>6, <1>7

LEMMA PullsStep == PInv /\ [PullsNext]_pulls => PInv'
<1> SUFFICES ASSUME PInv, [PullsNext]_pulls PROVE PInv'
  OBVIOUS
<1>1. CASE UNCHANGED pulls
  <2>1. UNCHANGED <<goal, file, shell, table, excused>>
    BY <1>1 DEF pulls
  <2>2. QED
    <3> USE DEF PInv
    <3>1. PullsTypes'
      BY <2>1 DEF PullsTypes, ShellOK, Resting, Plan, Places, Dynamic, Discharge, News, Get,
         Gets, Gather, Make, Files, Tables
    <3>2. BehindInv'
      BY <2>1 DEF BehindInv, Resting, Plan, Places, Dynamic, Discharge, News, Get, Gets, Gather,
         Make, Files, Raw
    <3>3. LacksInv'
      BY <2>1 DEF LacksInv
    <3>4. \A f : Writers(f)' = Writers(f)
      BY <2>1 DEF Writers, Step, Plan, Places, Dynamic, Discharge, News, Get, Gets, Gather, Make
    <3>5. TornInv'
      BY <2>1, <3>4 DEF TornInv, Files
    <3>6. QED
      BY <2>1, <3>1, <3>2, <3>3, <3>5, GapsStay
<1>2. ASSUME NEW s \in Shell,
             \/ \E c \in Commands : Start(s, c)
             \/ Take(s) \/ Ask(s) \/ GiveUp(s) \/ Open(s) \/ Close(s) \/ Collect(s)
             \/ WriteTable(s) \/ Kill(s)
      PROVE  PInv'
  BY <1>2, StartMoves, TakeMoves, AskMoves, GiveUpMoves, OpenMoves, CloseMoves, CollectMoves,
     WriteMoves, KillMoves
<1>3. QED
  BY <1>1, <1>2 DEF PullsNext

LEMMA PullsStart == PullsInit => PInv
<1> SUFFICES ASSUME PullsInit PROVE PInv
  OBVIOUS
<1>1. \A s \in Shell : shell[s] = Resting /\ shell[s].lacks = {}
  BY DEF PullsInit, Resting
<1>2. PullsTypes
  BY <1>1 DEF PullsInit, PullsTypes, Tables
<1>3. TornInv
  BY DEF PullsInit, TornInv
<1>4. GapsExplained
  BY DEF PullsInit, GapsExplained
<1>5. QED
  BY <1>1, <1>2, <1>3, <1>4 DEF PInv, BehindInv, LacksInv

\* Whatever is killed, started again or run beside another, what a table lacks
\* is excused.
THEOREM GapsAreExplained == PullsSpec => []GapsExplained
<1>1. PInv => GapsExplained
  BY DEF PInv
<1>2. QED
  BY <1>1, PullsStart, PullsStep, PTL DEF PullsSpec
=============================================================================
