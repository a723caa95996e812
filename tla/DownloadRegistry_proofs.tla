------------------------ MODULE DownloadRegistry_proofs ------------------------
(***************************************************************************)
(* Theorems about DownloadRegistry, for any finite set of files, any       *)
(* number of slots, of workers and of threads that cancel: never more      *)
(* downloads than slots, and a row for every download that goes on.        *)
(***************************************************************************)
EXTENDS DownloadRegistry, FiniteSetTheorems, TLAPS

(* SlotLimit is inductive once the queue is known to be a sequence of keys *)
(* and the table to have a row for each key.                               *)
TablesOK == entry = [k \in Keys |-> entry[k]] /\ queue \in Seq(Keys)

IInv == TablesOK /\ SlotLimit

Downloading(table) == {k \in Keys : table[k] = "downloading"}

LEMMA DownloadingFinite ==
  ASSUME NEW table
  PROVE  /\ IsFiniteSet(Downloading(table))
         /\ ActiveIn(table) = Cardinality(Downloading(table))
         /\ ActiveIn(table) \in Nat
         /\ Slots(table) \in Nat
         /\ ActiveIn(table) <= MaxActive => ActiveIn(table) + Slots(table) <= MaxActive
<1>1. IsFiniteSet(Downloading(table))
  BY KeysAssumption, FS_Subset DEF Downloading
<1>2. ActiveIn(table) = Cardinality(Downloading(table))
  BY DEF ActiveIn, Downloading
<1>3. ActiveIn(table) \in Nat
  BY <1>1, <1>2, FS_CardinalityType
<1>. QED BY <1>1, <1>2, <1>3, BoundsAssumption DEF Slots

(* A table in which fewer keys are downloading keeps within the limit.     *)
LEMMA FewerDownloads ==
  ASSUME NEW old, NEW new, Downloading(new) \subseteq Downloading(old)
  PROVE  ActiveIn(new) <= ActiveIn(old)
<1>1. IsFiniteSet(Downloading(old))
  BY DownloadingFinite
<1>2. Cardinality(Downloading(new)) <= Cardinality(Downloading(old))
  BY <1>1, FS_Subset
<1>. QED BY <1>2, DownloadingFinite

LEMMA WantedFinite ==
  ASSUME NEW table, NEW wanted, NEW q \in Seq(Keys), NEW n \in 0 .. Len(q)
  PROVE  /\ Wanted(table, wanted, q, n) \subseteq 1 .. n
         /\ IsFiniteSet(Wanted(table, wanted, q, n))
         /\ Cardinality(Wanted(table, wanted, q, n)) \in Nat
<1>1. Wanted(table, wanted, q, n) \subseteq 1 .. n
  BY DEF Wanted
<1>2. n \in Int /\ IsFiniteSet(1 .. n)
  BY FS_Interval
<1>3. IsFiniteSet(Wanted(table, wanted, q, n))
  BY <1>1, <1>2, FS_Subset
<1>. QED BY <1>1, <1>3, FS_CardinalityType

(* One more key popped is at most one more download.                       *)
LEMMA WantedGrows ==
  ASSUME NEW table, NEW wanted, NEW q \in Seq(Keys), NEW n \in 1 .. Len(q)
  PROVE  Cardinality(Wanted(table, wanted, q, n))
           <= Cardinality(Wanted(table, wanted, q, n - 1)) + 1
<1> DEFINE less == Wanted(table, wanted, q, n - 1)
           more == Wanted(table, wanted, q, n)
<1>1. n - 1 \in 0 .. Len(q) /\ n \in 0 .. Len(q)
  OBVIOUS
<1>2. IsFiniteSet(less) /\ Cardinality(less) \in Nat
  BY <1>1, WantedFinite
<1>3. more \subseteq less \cup {n}
  BY <1>1 DEF Wanted
<1>4. IsFiniteSet(less \cup {n}) /\ Cardinality(less \cup {n}) <= Cardinality(less) + 1
  <2>1. IsFiniteSet(less \cup {n}) /\ Cardinality(less \cup {n}) =
          IF n \in less THEN Cardinality(less) ELSE Cardinality(less) + 1
    BY <1>2, FS_AddElement
  <2>. QED BY <2>1, <1>2
<1>5. Cardinality(more) <= Cardinality(less \cup {n}) /\ Cardinality(more) \in Nat
  BY <1>1, <1>3, <1>4, FS_Subset, WantedFinite
<1>6. Cardinality(less \cup {n}) \in Nat
  BY <1>4, FS_CardinalityType
<1>. QED BY <1>2, <1>4, <1>5, <1>6

(* The smallest number of a set, which well-founded induction gives.       *)
LEMMA LeastOf ==
  ASSUME NEW T, T \subseteq Nat, T # {}
  PROVE  \E x \in T : \A y \in T : x <= y
<1>1. PICK x \in T : \A y \in T : ~ (<<y, x>> \in OpToRel(<, Nat))
  BY NatLessThanWellFounded, WFMin
<1>2. \A y \in T : ~ (y < x)
  BY <1>1 DEF OpToRel
<1>. QED BY <1>2

(* There is a first place at which popping stops: the end of the queue, or *)
(* the first one that fills the slots, which fills them exactly.           *)
LEMMA FirstStop ==
  ASSUME NEW table, NEW wanted, NEW q \in Seq(Keys)
  PROVE  \E n \in 0 .. Len(q) :
           /\ Cardinality(Wanted(table, wanted, q, n)) <= Slots(table)
           /\ \/ n = Len(q)
              \/ Cardinality(Wanted(table, wanted, q, n)) = Slots(table)
           /\ \A m \in 0 .. n - 1 : Cardinality(Wanted(table, wanted, q, m)) < Slots(table)
<1> DEFINE c(n) == Cardinality(Wanted(table, wanted, q, n))
           L == Len(q)
           T == {n \in 0 .. L : n = L \/ c(n) >= Slots(table)}
<1>1. L \in Nat /\ Slots(table) \in Nat /\ \A n \in 0 .. L : c(n) \in Nat
  <2>1. \A n \in 0 .. L : c(n) \in Nat
    BY WantedFinite
  <2>2. L \in Nat /\ Slots(table) \in Nat
    BY DownloadingFinite
  <2>. QED BY <2>1, <2>2
<1>2. \A n \in 1 .. L : c(n) <= c(n - 1) + 1
  BY WantedGrows
<1>3. c(0) = 0
  <2>1. Wanted(table, wanted, q, 0) = {}
    BY DEF Wanted
  <2>. QED BY <2>1, FS_EmptySet
<1> HIDE DEF c, L
<1>4. T \subseteq Nat /\ T # {}
  BY <1>1
<1>5. PICK n \in T : \A y \in T : n <= y
  BY <1>4, LeastOf
<1>6. \A m \in 0 .. n - 1 : c(m) < Slots(table)
  BY <1>1, <1>5
<1>7. c(n) <= Slots(table)
  <2>1. CASE n = 0
    BY <2>1, <1>1, <1>3
  <2>2. CASE n # 0
    <3>1. n \in 1 .. L /\ n - 1 \in 0 .. n - 1 /\ n - 1 \in 0 .. L
      BY <2>2, <1>1
    <3>. QED BY <3>1, <1>1, <1>2, <1>6
  <2>. QED BY <2>1, <2>2
<1>. QED BY <1>1, <1>5, <1>6, <1>7 DEF c, L

(* _maybe_start_next promotes no more downloads than there are free slots. *)
LEMMA StartNextLimit ==
  ASSUME NEW table, NEW wanted, NEW q \in Seq(Keys), NEW idle, NEW seen,
         ActiveIn(table) <= MaxActive,
         StartNext(table, wanted, q, idle, seen)
  PROVE  IInv'
<1> DEFINE n  == Popped(table, wanted, q)
           go == Wanted(table, wanted, q, n)
           f  == [i \in go |-> q[i]]
           T  == {k \in Keys : \E i \in go : q[i] = k}
<1>1. n \in 0 .. Len(q) /\ Cardinality(go) <= Slots(table)
  BY FirstStop DEF Popped
<1> HIDE DEF n
<1>2. go \subseteq 1 .. n /\ IsFiniteSet(go) /\ Cardinality(go) \in Nat
  BY <1>1, WantedFinite
<1>3. entry' = [k \in Keys |-> IF \E i \in go : q[i] = k THEN "downloading" ELSE table[k]]
  BY DEF StartNext, n
<1>4. queue' = SubSeq(q, n + 1, Len(q))
  BY DEF StartNext, n
<1>5. queue' \in Seq(Keys)
  BY <1>1, <1>4
<1>6. f \in Surjection(go, T)
  <2>1. \A i \in go : q[i] \in Keys
    BY <1>1, <1>2
  <2>. QED BY <2>1 DEF Surjection
<1>7. IsFiniteSet(T) /\ Cardinality(T) <= Cardinality(go)
  BY <1>2, <1>6, FS_Surjection
<1>8. Downloading(entry') \subseteq Downloading(table) \cup T
  BY <1>3 DEF Downloading
<1> HIDE DEF T, go, f
<1>9. IsFiniteSet(Downloading(table) \cup T)
      /\ Cardinality(Downloading(table) \cup T) <= ActiveIn(table) + Cardinality(T)
  <2>1. IsFiniteSet(Downloading(table) \cap T) /\ Cardinality(Downloading(table) \cap T) \in Nat
    BY <1>7, FS_Subset, FS_CardinalityType
  <2>2. Cardinality(Downloading(table) \cup T)
          = ActiveIn(table) + Cardinality(T) - Cardinality(Downloading(table) \cap T)
        /\ IsFiniteSet(Downloading(table) \cup T)
    BY <1>7, DownloadingFinite, FS_Union
  <2>3. ActiveIn(table) \in Nat /\ Cardinality(T) \in Nat
    BY <1>7, DownloadingFinite, FS_CardinalityType
  <2>. QED BY <2>1, <2>2, <2>3
<1>10. ActiveIn(entry') <= Cardinality(Downloading(table) \cup T)
  BY <1>8, <1>9, FS_Subset, DownloadingFinite
<1>11. ActiveIn(table) + Slots(table) <= MaxActive /\ ActiveIn(table) \in Nat /\ Slots(table) \in Nat
  BY DownloadingFinite
<1>12. ActiveIn(entry') <= MaxActive
  <2>1. Cardinality(T) \in Nat /\ Cardinality(Downloading(table) \cup T) \in Nat
        /\ ActiveIn(entry') \in Nat
    BY <1>7, <1>9, DownloadingFinite, FS_CardinalityType
  <2>. QED BY <2>1, <1>1, <1>2, <1>7, <1>9, <1>10, <1>11, BoundsAssumption
<1>13. SlotLimit'
  BY <1>12 DEF SlotLimit, ActiveIn
<1>. QED BY <1>3, <1>5, <1>13 DEF IInv, TablesOK

LEMMA InitIInv == Init => IInv
<1> SUFFICES ASSUME Init PROVE IInv
  OBVIOUS
<1>1. TablesOK
  BY DEF Init, TablesOK
<1>2. Downloading(entry) = {}
  BY DEF Init, Downloading
<1>3. ActiveIn(entry) = 0
  BY <1>2, DownloadingFinite, FS_EmptySet
<1>. QED BY <1>1, <1>3, BoundsAssumption DEF IInv, SlotLimit

(* A step that writes the rows without a new download.                     *)
LEMMA NoNewDownload ==
  ASSUME IInv, entry' = [k \in Keys |-> entry'[k]], queue' \in Seq(Keys),
         \A k \in Keys : entry'[k] = "downloading" => entry[k] = "downloading"
  PROVE  IInv'
<1>1. ActiveIn(entry') <= ActiveIn(entry)
  BY FewerDownloads DEF Downloading
<1>2. ActiveIn(entry') \in Nat /\ ActiveIn(entry) \in Nat
  BY DownloadingFinite
<1>3. SlotLimit'
  BY <1>1, <1>2, BoundsAssumption DEF IInv, SlotLimit, ActiveIn
<1>. QED BY <1>3 DEF IInv, TablesOK

(* A key that is in the queue has a first place there.                     *)
LEMMA FirstOf ==
  ASSUME NEW q \in Seq(Keys), NEW k, \E i \in 1 .. Len(q) : q[i] = k
  PROVE  \E n \in 1 .. Len(q) : q[n] = k /\ \A j \in 1 .. n - 1 : q[j] # k
<1> DEFINE T == {i \in 1 .. Len(q) : q[i] = k}
<1>1. T \subseteq Nat /\ T # {}
  OBVIOUS
<1>2. PICK n \in T : \A y \in T : n <= y
  BY <1>1, LeastOf
<1>3. ASSUME NEW j \in 1 .. n - 1 PROVE q[j] # k
  BY <1>2
<1>. QED BY <1>2, <1>3

(* list.remove leaves a sequence of keys.                                  *)
LEMMA WithoutSeq == ASSUME NEW q \in Seq(Keys), NEW k PROVE Without(q, k) \in Seq(Keys)
<1>1. CASE \E i \in 1 .. Len(q) : q[i] = k
  <2> DEFINE i == CHOOSE i \in 1 .. Len(q) : q[i] = k /\ \A j \in 1 .. i - 1 : q[j] # k
  <2>1. i \in 1 .. Len(q)
    <3>1. PICK n \in 1 .. Len(q) : q[n] = k /\ \A j \in 1 .. n - 1 : q[j] # k
      BY <1>1, FirstOf
    <3>. QED BY <3>1
  <2>2. Without(q, k) = SubSeq(q, 1, i - 1) \o SubSeq(q, i + 1, Len(q))
    BY <1>1 DEF Without
  <2> HIDE DEF i
  <2>3. SubSeq(q, 1, i - 1) \in Seq(Keys) /\ SubSeq(q, i + 1, Len(q)) \in Seq(Keys)
    BY <2>1
  <2>. QED BY <2>2, <2>3
<1>2. CASE ~ \E i \in 1 .. Len(q) : q[i] = k
  BY <1>2 DEF Without
<1>. QED BY <1>1, <1>2

LEMMA KeyIInv ==
  ASSUME IInv, NEW k \in Keys, StartKnown(k) \/ StartJoin(k) \/ StartNew(k) \/ Elsewhere(k)
  PROVE  IInv'
<1>1. CASE StartKnown(k)
  BY <1>1, NoNewDownload DEF StartKnown, IInv, TablesOK
<1>2. CASE StartJoin(k)
  BY <1>2, NoNewDownload DEF StartJoin, IInv, TablesOK, vars, registry
<1>3. CASE StartNew(k)
  <2> DEFINE table == [entry EXCEPT ![k] = "queued"]
  <2>1. Downloading(table) \subseteq Downloading(entry)
    BY DEF Downloading, IInv, TablesOK
  <2>2. ActiveIn(table) <= MaxActive
    <3>1. ActiveIn(table) <= ActiveIn(entry)
      BY <2>1, FewerDownloads
    <3>2. ActiveIn(table) \in Nat /\ ActiveIn(entry) \in Nat /\ MaxActive \in Nat
      BY DownloadingFinite, BoundsAssumption
    <3>. QED BY <3>1, <3>2 DEF IInv, SlotLimit
  <2>3. Append(queue, k) \in Seq(Keys)
    BY DEF IInv, TablesOK
  <2>. QED BY <1>3, <2>2, <2>3, StartNextLimit DEF StartNew
<1>4. CASE Elsewhere(k)
  BY <1>4, NoNewDownload DEF Elsewhere, IInv, TablesOK, registry
<1>. QED BY <1>1, <1>2, <1>3, <1>4

LEMMA CallerIInv ==
  ASSUME IInv, NEW c \in Callers, CancelFrees(c) \/ \E k \in Keys : Cancel(c, k)
  PROVE  IInv'
<1>1. CASE CancelFrees(c)
  BY <1>1, StartNextLimit DEF CancelFrees, IInv, TablesOK, SlotLimit
<1>2. ASSUME NEW k \in Keys, Cancel(c, k) PROVE IInv'
  <2>1. queue' \in Seq(Keys)
    BY <1>2, WithoutSeq DEF Cancel, IInv, TablesOK
  <2>. QED BY <1>2, <2>1, NoNewDownload DEF Cancel, IInv, TablesOK
<1>. QED BY <1>1, <1>2

LEMMA WorkerIInv == ASSUME IInv, NEW w \in Workers, Work(w) PROVE IInv'
<1>1. CASE Begin(w) \/ Present(w) \/ Absent(w) \/ Refused(w) \/ Transfer(w) \/ Transferred(w) \/ Failed(w)
  <2>1. UNCHANGED registry
    BY <1>1 DEF Begin, Present, Absent, Refused, Transfer, Transferred, Failed, Progress
  <2>. QED BY <2>1, NoNewDownload DEF registry, IInv, TablesOK
<1>2. CASE Mark(w)
  <2>1. UNCHANGED queue /\ entry' \in {Outcome(w), entry}
    BY <1>2 DEF Mark, Report
  <2>. QED BY <2>1, NoNewDownload DEF Outcome, IInv, TablesOK
<1>3. CASE Retire(w)
  BY <1>3, StartNextLimit DEF Retire, IInv, TablesOK, SlotLimit
<1>. QED BY <1>1, <1>2, <1>3 DEF Work

LEMMA StepIInv == IInv /\ [Next]_vars => IInv'
<1> SUFFICES ASSUME IInv, [Next]_vars PROVE IInv'
  OBVIOUS
<1>1. CASE UNCHANGED vars
  BY <1>1 DEF vars, registry, IInv, TablesOK, SlotLimit, ActiveIn
<1>2. CASE \E k \in Keys : StartKnown(k) \/ StartJoin(k) \/ StartNew(k) \/ Elsewhere(k)
  BY <1>2, KeyIInv
<1>3. CASE \E c \in Callers : CancelFrees(c) \/ \E k \in Keys : Cancel(c, k)
  BY <1>3, CallerIInv
<1>4. CASE \E w \in Workers : Work(w)
  BY <1>4, WorkerIInv
<1>. QED BY <1>1, <1>2, <1>3, <1>4 DEF Next

(* However many threads start and cancel downloads while workers end, the  *)
(* table never shows more downloads than _MAX_ACTIVE_DOWNLOADS.            *)
THEOREM WithinSlots == Spec => []SlotLimit
<1>1. IInv => SlotLimit
  BY DEF IInv
<1>. QED BY InitIInv, StepIInv, <1>1, PTL DEF Spec

-----------------------------------------------------------------------------
(* A worker whose Event is registered, or that will read one, has a row    *)
(* that is waiting, downloading or done.                                   *)
Listed == {"queued", "downloading", "done"}

Tells(w) == ev[w] = "current" \/ (at[w] = "born" /\ key[w] \in events)

ThreadsOK ==
  /\ events \subseteq Keys
  /\ at = [w \in Workers |-> at[w]]
  /\ key \in [Workers -> Keys \cup {NoKey}]
  /\ ev \in [Workers -> {"none", "current", "set"}]
  /\ \A w \in Workers : at[w] = "born" => ev[w] = "none"

TellsTruth == \A w \in Workers : Tells(w) => key[w] \in Keys /\ entry[key[w]] \in Listed

ShownInv == TablesOK /\ ThreadsOK /\ TellsTruth

LEMMA InitShown == Init => ShownInv
  BY DEF Init, ShownInv, TablesOK, ThreadsOK, TellsTruth, Tells

(* _maybe_start_next, called with what is true of the table, the Events    *)
(* and the workers that go on: those it starts have a row.                 *)
LEMMA StartNextShown ==
  ASSUME NEW table, NEW wanted, NEW q \in Seq(Keys), NEW idle,
         NEW seen \in [Workers -> {"none", "current", "set"}],
         StartNext(table, wanted, q, idle, seen),
         key \in [Workers -> Keys \cup {NoKey}], events' \subseteq Keys,
         \A w \in Workers \ idle : at[w] = "born" => seen[w] = "none",
         \A w \in Workers \ idle :
           seen[w] = "current" \/ (at[w] = "born" /\ key[w] \in events')
             => key[w] \in Keys /\ table[key[w]] \in Listed
  PROVE  ShownInv'
<1> DEFINE n        == Popped(table, wanted, q)
           go       == Wanted(table, wanted, q, n)
           For(w)   == {i \in go : Hire(go, idle)[i] = w}
           first(w) == CHOOSE i \in For(w) : TRUE
<1>1. n \in 0 .. Len(q)
  BY FirstStop DEF Popped
<1>2. entry' = [k \in Keys |-> IF \E i \in go : q[i] = k THEN "downloading" ELSE table[k]]
      /\ queue' = SubSeq(q, n + 1, Len(q))
  BY DEF StartNext
<1>3. at' = [w \in Workers |-> IF For(w) # {} THEN "born" ELSE IF w \in idle THEN "off" ELSE at[w]]
  BY DEF StartNext
<1>4. key' = [w \in Workers |-> IF For(w) # {} THEN q[first(w)]
                                ELSE IF w \in idle THEN NoKey ELSE key[w]]
  BY DEF StartNext
<1>5. ev' = [w \in Workers |-> IF For(w) # {} \/ w \in idle THEN "none" ELSE seen[w]]
  BY DEF StartNext
<1>6. \A w \in Workers : For(w) # {} => first(w) \in go
  OBVIOUS
<1> HIDE DEF n, first, For
<1>7. go \subseteq 1 .. n
  BY <1>1, WantedFinite
<1> HIDE DEF go
<1>8. \A i \in go : q[i] \in Keys
  BY <1>1, <1>7
<1>9. TablesOK'
  BY <1>1, <1>2 DEF TablesOK
<1>10. ThreadsOK'
  <2>1. key' \in [Workers -> Keys \cup {NoKey}]
    BY <1>4, <1>6, <1>8
  <2>2. ev' \in [Workers -> {"none", "current", "set"}]
    BY <1>5
  <2>3. \A w \in Workers : at'[w] = "born" => ev'[w] = "none"
    BY <1>3, <1>5
  <2>. QED BY <1>3, <2>1, <2>2, <2>3 DEF ThreadsOK
<1>11. TellsTruth'
  <2> SUFFICES ASSUME NEW w \in Workers, Tells(w)'
               PROVE  key'[w] \in Keys /\ entry'[key'[w]] \in Listed
    BY DEF TellsTruth
  <2>1. CASE For(w) # {}
    <3>1. key'[w] = q[first(w)] /\ first(w) \in go /\ q[first(w)] \in Keys
      BY <1>4, <1>6, <1>8, <2>1
    <3>2. entry'[q[first(w)]] = "downloading"
      BY <1>2, <3>1
    <3>. QED BY <3>1, <3>2 DEF Listed
  <2>2. CASE For(w) = {} /\ w \notin idle
    <3>1. at'[w] = at[w] /\ key'[w] = key[w] /\ ev'[w] = seen[w]
      BY <1>3, <1>4, <1>5, <2>2
    <3>2. key[w] \in Keys /\ table[key[w]] \in Listed
      BY <2>2, <3>1 DEF Tells
    <3>. QED BY <1>2, <3>1, <3>2 DEF Listed
  <2>3. CASE For(w) = {} /\ w \in idle
    BY <1>3, <1>5, <2>3 DEF Tells
  <2>. QED BY <2>1, <2>2, <2>3
<1>. QED BY <1>9, <1>10, <1>11 DEF ShownInv

LEMMA KeyShown ==
  ASSUME ShownInv, NEW k \in Keys, StartKnown(k) \/ StartJoin(k) \/ StartNew(k) \/ Elsewhere(k)
  PROVE  ShownInv'
<1>1. CASE StartKnown(k)
  BY <1>1 DEF StartKnown, threads, ShownInv, TablesOK, ThreadsOK, TellsTruth, Tells, Listed
<1>2. CASE StartJoin(k) \/ Elsewhere(k)
  BY <1>2 DEF StartJoin, Elsewhere, vars, registry, threads, ShownInv, TablesOK, ThreadsOK,
              TellsTruth, Tells
<1>3. CASE StartNew(k)
  <2> DEFINE table == [entry EXCEPT ![k] = "queued"]
             seen  == Was(k, "current", "none")
  <2>1. /\ StartNext(table, choices \cup {k}, Append(queue, k), Idle, seen)
        /\ events' = events \cup {k}
    BY <1>3 DEF StartNew
  <2>2. Append(queue, k) \in Seq(Keys) /\ events' \subseteq Keys
    BY <2>1 DEF ShownInv, TablesOK, ThreadsOK
  <2>3. /\ seen \in [Workers -> {"none", "current", "set"}]
        /\ \A w \in Workers : /\ at[w] = "born" => seen[w] = "none"
                              /\ seen[w] = "current" => ev[w] = "current" /\ key[w] # k
    BY DEF Was, ShownInv, ThreadsOK
  <2>4. \A w \in Workers : seen[w] = "current" \/ (at[w] = "born" /\ key[w] \in events')
                             => key[w] \in Keys /\ table[key[w]] \in Listed
    BY <2>1, <2>3 DEF ShownInv, TablesOK, TellsTruth, Tells, Listed
  <2>5. key \in [Workers -> Keys \cup {NoKey}]
    BY DEF ShownInv, ThreadsOK
  <2>. HIDE DEF table, seen
  <2>. QED BY <2>1, <2>2, <2>3, <2>4, <2>5, StartNextShown, Zenon
<1>. QED BY <1>1, <1>2, <1>3

LEMMA CallerShown ==
  ASSUME ShownInv, NEW c \in Callers, CancelFrees(c) \/ \E k \in Keys : Cancel(c, k)
  PROVE  ShownInv'
<1>1. CASE CancelFrees(c)
  <2>1. StartNext(entry, choices, queue, Idle, ev) /\ events' = events
    BY <1>1 DEF CancelFrees
  <2>2. /\ queue \in Seq(Keys) /\ events' \subseteq Keys
        /\ key \in [Workers -> Keys \cup {NoKey}] /\ ev \in [Workers -> {"none", "current", "set"}]
        /\ \A w \in Workers : at[w] = "born" => ev[w] = "none"
    BY <2>1 DEF ShownInv, TablesOK, ThreadsOK
  <2>3. \A w \in Workers : ev[w] = "current" \/ (at[w] = "born" /\ key[w] \in events')
                             => key[w] \in Keys /\ entry[key[w]] \in Listed
    BY <2>1 DEF ShownInv, TellsTruth, Tells
  <2>. QED BY <2>1, <2>2, <2>3, StartNextShown
<1>2. ASSUME NEW k \in Keys, Cancel(c, k) PROVE ShownInv'
  <2>1. TablesOK'
    BY <1>2, WithoutSeq DEF Cancel, ShownInv, TablesOK
  <2>2. ThreadsOK' /\ TellsTruth'
    BY <1>2 DEF Cancel, Was, ShownInv, TablesOK, ThreadsOK, TellsTruth, Tells
  <2>. QED BY <2>1, <2>2 DEF ShownInv
<1>. QED BY <1>1, <1>2

LEMMA WorkerShown ==
  ASSUME ShownInv, OneWorker, NEW w \in Workers, Work(w)
  PROVE  ShownInv'
<1>1. CASE Begin(w)
  BY <1>1 DEF Begin, Move, registry, ShownInv, TablesOK, ThreadsOK, TellsTruth, Tells
<1>2. CASE Present(w) \/ Absent(w) \/ Refused(w) \/ Transfer(w) \/ Transferred(w) \/ Failed(w)
  <2>1. UNCHANGED <<registry, key, ev>> /\ \E phase : phase # "born" /\ Move(w, phase)
    BY <1>2 DEF Present, Absent, Refused, Transfer, Transferred, Failed, Progress
  <2>. QED BY <2>1 DEF Move, registry, ShownInv, TablesOK, ThreadsOK, TellsTruth, Tells
<1>3. CASE Mark(w)
  <2>1. /\ at' = [at EXCEPT ![w] = "next"] /\ ev' = [ev EXCEPT ![w] = "none"]
        /\ key' = [key EXCEPT ![w] = NoKey] /\ UNCHANGED <<queue, events>>
        /\ entry' = entry \/ (~Cancelled(w) /\ entry' = Outcome(w))
    BY <1>3 DEF Mark, Report, Move
  <2>2. TablesOK' /\ ThreadsOK'
    BY <2>1 DEF Outcome, ShownInv, TablesOK, ThreadsOK
  <2>3. ASSUME NEW v \in Workers, Tells(v)'
        PROVE  key'[v] \in Keys /\ entry'[key'[v]] \in Listed
    <3>1. v # w
      BY <2>1, <2>3 DEF Tells, ShownInv, ThreadsOK
    <3>2. Tells(v) /\ key'[v] = key[v]
      BY <2>1, <2>3, <3>1 DEF Tells, ShownInv, ThreadsOK
    <3>3. key[v] \in Keys /\ entry[key[v]] \in Listed /\ ~Cancelled(v)
      BY <3>2 DEF Tells, Cancelled, ShownInv, ThreadsOK, TellsTruth
    <3>4. ~Cancelled(w) => key[w] # key[v]
      BY <3>1, <3>3, KeysAssumption DEF OneWorker
    <3>. QED BY <2>1, <3>2, <3>3, <3>4 DEF Outcome, ShownInv, TablesOK
  <2>. QED BY <2>2, <2>3 DEF ShownInv, TellsTruth
<1>4. CASE Retire(w)
  BY <1>4, StartNextShown DEF Retire, ShownInv, TablesOK, ThreadsOK, TellsTruth, Tells
<1>. QED BY <1>1, <1>2, <1>3, <1>4 DEF Work

LEMMA StepShown == ShownInv /\ OneWorker /\ [Next]_vars => ShownInv'
<1> SUFFICES ASSUME ShownInv, OneWorker, [Next]_vars PROVE ShownInv'
  OBVIOUS
<1>1. CASE UNCHANGED vars
  BY <1>1 DEF vars, registry, threads, ShownInv, TablesOK, ThreadsOK, TellsTruth, Tells
<1>2. CASE \E k \in Keys : StartKnown(k) \/ StartJoin(k) \/ StartNew(k) \/ Elsewhere(k)
  BY <1>2, KeyShown
<1>3. CASE \E c \in Callers : CancelFrees(c) \/ \E k \in Keys : Cancel(c, k)
  BY <1>3, CallerShown
<1>4. CASE \E w \in Workers : Work(w)
  BY <1>4, WorkerShown
<1>. QED BY <1>1, <1>2, <1>3, <1>4 DEF Next

(* However often a file is cancelled and started again while its earlier   *)
(* workers end, the download that can be cancelled keeps its row, as long  *)
(* as every earlier worker knew of its cancellation.                       *)
THEOREM CurrentIsShown == Spec => WorkersAreShown
<1>1. ShownInv => Shown
  BY DEF ShownInv, TellsTruth, Tells, Shown, Listed
<1>. QED BY InitShown, StepShown, <1>1, PTL DEF Spec, WorkersAreShown
=============================================================================
