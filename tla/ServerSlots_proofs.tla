--------------------------- MODULE ServerSlots_proofs ---------------------------
(***************************************************************************)
(* Machine-checked theorems about ServerSlots, for every set of requests,  *)
(* every mix of what they ask for and every number of slots.               *)
(*                                                                         *)
(*   NoResultIsOrphaned    a result is kept for a reader, never for nobody *)
(*   EveryAnswerIsLast     a task is answered once, last and for good      *)
(*   NoTaskIsLost          at most one place, and one while unanswered     *)
(*   EveryTaskHasItsPlace  the same and, unless a pair has an empty        *)
(*                         prompt, no child waits for a parent that is     *)
(*                         done                                            *)
(*                                                                         *)
(* The argument: Placement says where tasks may be (a waiting task is the  *)
(* root of its request, in one queue or in the hands of the main loop, and *)
(* in no slot), Registered ties the ids of a reader to its being there,    *)
(* Answers ties results to places.                                         *)
(***************************************************************************)
EXTENDS ServerSlots, FiniteSetTheorems, TLAPS

(* The tasks to run and to cancel that an entry, and a queue, hold.        *)
RunOf(e)    == IF e.op = "run" THEN {e.task} ELSE {}
CancelOf(e) == IF e.op = "cancel" THEN {e.task} ELSE {}
ToRun(q)    == {q[i].task : i \in {j \in DOMAIN q : q[j].op = "run"}}
ToCancel(q) == {q[i].task : i \in {j \in DOMAIN q : q[j].op = "cancel"}}

OnceInQueue(q) ==
  \A i, j \in DOMAIN q : q[i].op = "run" /\ q[j].op = "run" /\ q[i].task = q[j].task => i = j

Entries == [op : {"run", "cancel", "next"}, task : Tasks \cup {NoTask}]
InDeferred == {deferred[i] : i \in DOMAIN deferred}
Waits   == ToRun(queue) \cup InDeferred
Pending == Waits \cup RunOf(cur)
Cancels == ToCancel(queue) \cup CancelOf(cur)

Root(t) == <<t[1], 0>>
Roots   == Requests \X {0}

Readers  == rd \in [Requests -> {"new", "open", "cancelling", "done"}] /\ shape \in Mixes
Replies  ==
  /\ got \in [Requests -> SUBSET Tasks] /\ waiting \in SUBSET Tasks
  /\ results \in [Tasks -> Seq(Terminal \cup {"partial"})]
Worker   ==
  /\ loop \in {"tasks", "pre", "decode", "post", "abort", "wait"}
  /\ cur \in [op : {"run", "cancel", "next", "none"}, task : Tasks \cup {NoTask}]
  /\ at \in Slots /\ batched \in SUBSET Slots
InSlots  ==
  /\ slot \in [Slots -> [state : States, task : Tasks \cup {NoTask}, n : 0 .. MaxGen]]
  /\ \A s \in Slots : slot[s].state = "IDLE" <=> slot[s].task = NoTask
  /\ \A s \in Slots : slot[s].task # NoTask => slot[s].task \in Ids(slot[s].task[1])
InQueues ==
  /\ queue \in Seq(Entries) /\ deferred \in Seq(Tasks)
  /\ OnceInQueue(queue) /\ \A i, j \in DOMAIN deferred : deferred[i] = deferred[j] => i = j
  /\ ToRun(queue) \cap InDeferred = {}

(* No task waits twice, runs twice, or does both.                          *)
Unique ==
  /\ Pending \subseteq Roots /\ Waits \cap RunOf(cur) = {}
  /\ \A s, o \in Slots : slot[s].task # NoTask /\ slot[s].task = slot[o].task => s = o
  /\ \A s \in Slots : slot[s].task # NoTask => Root(slot[s].task) \notin Pending

(* Before its request is posted a task is nowhere, and it is cancelled     *)
(* when the reader has ended.                                              *)
Posted ==
  /\ \A t \in Pending : rd[t[1]] # "new"
  /\ \A s \in Slots : slot[s].task # NoTask => rd[slot[s].task[1]] # "new"
  /\ \A t \in Cancels : t \in Tasks /\ rd[t[1]] = "done"

Placement == Readers /\ Replies /\ Worker /\ InSlots /\ InQueues /\ Unique /\ Posted

(* The ids of a request are registered exactly while its reader is there.  *)
Registered ==
  /\ \A r \in Requests : rd[r] = "open" => Ids(r) \subseteq waiting
  /\ \A t \in waiting : rd[t[1]] = "open" /\ t \in Ids(t[1])
  /\ \A r \in Requests : rd[r] = "new" => got[r] = {}

Somewhere(t) == Root(t) \in Pending \/ \E s \in Slots : slot[s].task = t

(* A task that is not answered is somewhere, and one that is, nowhere.     *)
Answers ==
  /\ NoOrphanResult
  /\ \A r \in Requests : rd[r] = "open" =>
       \A t \in Ids(r) :
         /\ t \in got[r] => results[t] = <<>>
         /\ \A i \in DOMAIN results[t] : results[t][i] \in Terminal => i = Len(results[t])
         /\ Answered(t) => ~ Somewhere(t)
         /\ Somewhere(t) \/ Answered(t) \/ Failing(r)

IInv == Placement /\ Registered /\ Answers

(* While a batch is made and decoded, DONE_PROMPT marks slots of the batch *)
(* that the round has still to come to.                                    *)
PromptsDone ==
  /\ loop = "decode" => at = 1
  /\ \A s \in Slots : slot[s].state = "DONE_PROMPT" =>
       /\ s \in batched
       /\ \/ loop = "pre" /\ s < at
          \/ loop = "decode"
          \/ loop \in {"post", "abort"} /\ s >= at

(* No request asks for two completions of an empty prompt.                 *)
NoEmptyPair ==
  \A m \in Mixes : \A r \in Requests : m[r].kind = "pair" => ~ m[r].empty

-----------------------------------------------------------------------------
(* What the operations on a queue keep.                                    *)

(* Kept picks the positions in K one by one, each once.                    *)
LEMMA KeptPicks ==
  ASSUME NEW S, NEW q \in Seq(S), NEW K \in SUBSET DOMAIN q
  PROVE  \E idx \in [1 .. Cardinality(K) -> K] :
           /\ \A m, n \in 1 .. Cardinality(K) : idx[m] = idx[n] => m = n
           /\ \A i \in K : \E n \in 1 .. Cardinality(K) : idx[n] = i
           /\ Kept(q, K) = [n \in 1 .. Cardinality(K) |-> q[idx[n]]]
           /\ Cardinality(K) \in Nat
<1> DEFINE N == Cardinality(K)
           Below(i) == {j \in K : j <= i}
           rank == [i \in K |-> Cardinality(Below(i))]
           idx == [n \in 1 .. N |-> CHOOSE i \in K : Cardinality(Below(i)) = n]
<1>1. IsFiniteSet(K) /\ N \in Nat /\ K \subseteq Nat
  <2>1. DOMAIN q = 1 .. Len(q) /\ Len(q) \in Nat /\ Len(q) \in Int /\ 1 \in Int
    OBVIOUS
  <2>2. IsFiniteSet(1 .. Len(q))
    BY ONLY <2>1, FS_Interval
  <2>3. IsFiniteSet(K)
    BY <2>1, <2>2, FS_Subset
  <2>. QED BY <2>1, <2>3, FS_CardinalityType
<1>2. \A i \in K : IsFiniteSet(Below(i)) /\ Below(i) \in SUBSET K /\ i \in Below(i)
  BY <1>1, FS_Subset
<1>3. rank \in [K -> 1 .. N]
  <2> SUFFICES ASSUME NEW i \in K PROVE Cardinality(Below(i)) \in 1 .. N
    OBVIOUS
  <2>1. Cardinality(Below(i)) \in Nat /\ Cardinality(Below(i)) <= N /\ Cardinality(Below(i)) # 0
    BY <1>1, <1>2, FS_Subset, FS_CardinalityType, FS_EmptySet
  <2>. QED BY <2>1, <1>1
<1>4. \A i, j \in K : i < j => rank[i] < rank[j]
  <2> TAKE i, j \in K
  <2> HAVE i < j
  <2>1. Below(i) \in SUBSET (Below(j) \ {j})
    BY <1>1
  <2>4. IsFiniteSet(Below(j) \ {j})
    BY <1>2, FS_RemoveElement
  <2>2. Cardinality(Below(j) \ {j}) = Cardinality(Below(j)) - 1
    BY <1>2, FS_RemoveElement
  <2>3. Cardinality(Below(i)) <= Cardinality(Below(j) \ {j})
    BY <2>1, <2>4, FS_Subset
  <2>. QED BY <1>3, <2>2, <2>3
<1> HIDE DEF rank
<1>5. \A i, j \in K : rank[i] = rank[j] => i = j
  <2> TAKE i, j \in K
  <2> HAVE rank[i] = rank[j]
  <2>1. rank[i] \in Int /\ rank[j] \in Int /\ i \in Int /\ j \in Int
    BY <1>1, <1>3
  <2>2. ~ (i < j) /\ ~ (j < i)
    BY <1>4, <2>1
  <2>. QED BY <2>1, <2>2
<1>6. rank \in Injection(K, 1 .. N)
  BY <1>3, <1>5 DEF Injection, IsInjective
<1>7. \A n \in 1 .. N : \E i \in K : rank[i] = n
  <2>1. IsFiniteSet(1 .. N) /\ Cardinality(1 .. N) = N
    BY <1>1, FS_Interval
  <2>2. rank \in Surjection(K, 1 .. N)
    BY <1>1, <1>6, <2>1, FS_Injection
  <2>. QED BY <2>2 DEF Surjection
<1>8. idx \in [1 .. N -> K] /\ \A n \in 1 .. N : rank[idx[n]] = n
  <2>1. \A n \in 1 .. N : \E i \in K : Cardinality(Below(i)) = n
    BY <1>7 DEF rank
  <2>. QED BY <2>1 DEF rank
<1>9. \A i \in K : idx[rank[i]] = i
  BY <1>3, <1>5, <1>8
<1>10. Kept(q, K) = [n \in 1 .. N |-> q[idx[n]]]
  <2>1. Kept(q, K) = [n \in 1 .. Cardinality(K) |-> q[CHOOSE i \in K : Cardinality({j \in K : j <= i}) = n]]
    BY DEF Kept
  <2>. QED BY <2>1
<1>11. \A i \in K : rank[i] \in 1 .. N
  BY <1>3
<1>12. \A m, n \in 1 .. N : idx[m] = idx[n] => m = n
  <2> HIDE DEF idx
  <2> TAKE m, n \in 1 .. N
  <2> HAVE idx[m] = idx[n]
  <2>1. rank[idx[m]] = m /\ rank[idx[n]] = n
    BY <1>8
  <2>. QED BY <2>1
<1>13. \A i \in K : \E n \in 1 .. N : idx[n] = i
  BY <1>9, <1>11
<1>14. idx \in [1 .. Cardinality(K) -> K]
  BY <1>8
<1> WITNESS idx \in [1 .. Cardinality(K) -> K]
<1> HIDE DEF idx
<1>. QED BY <1>1, <1>10, <1>12, <1>13

LEMMA Appended ==
  ASSUME NEW q \in Seq(Entries), NEW e \in Entries
  PROVE  /\ Append(q, e) \in Seq(Entries)
         /\ ToRun(Append(q, e)) = ToRun(q) \cup RunOf(e)
         /\ ToCancel(Append(q, e)) = ToCancel(q) \cup CancelOf(e)
         /\ OnceInQueue(q) /\ RunOf(e) \cap ToRun(q) = {} => OnceInQueue(Append(q, e))
<1> DEFINE p == Append(q, e)
           n == Len(q)
<1>1. /\ p \in Seq(Entries) /\ n \in Nat /\ DOMAIN q = 1 .. n /\ DOMAIN p = 1 .. n + 1
      /\ p[n + 1] = e /\ \A i \in 1 .. n : p[i] = q[i]
  OBVIOUS
<1> HIDE DEF p, n
<1>2. DOMAIN p = DOMAIN q \cup {n + 1}
  BY <1>1
<1>3. ToRun(p) = ToRun(q) \cup RunOf(e)
  BY <1>1, <1>2 DEF ToRun, RunOf
<1>4. ToCancel(p) = ToCancel(q) \cup CancelOf(e)
  BY <1>1, <1>2 DEF ToCancel, CancelOf
<1>5. OnceInQueue(q) /\ RunOf(e) \cap ToRun(q) = {} => OnceInQueue(p)
  BY <1>1, <1>2 DEF OnceInQueue, ToRun, RunOf
<1>. QED BY <1>1, <1>3, <1>4, <1>5 DEF p

(* p is q with e in front.                                                 *)
Shifted(p, q, e) ==
  /\ DOMAIN q \subseteq Int /\ DOMAIN p \subseteq Int
  /\ 1 \in DOMAIN p /\ p[1] = e
  /\ \A i \in DOMAIN p : i = 1 \/ (i - 1 \in DOMAIN q /\ p[i] = q[i - 1])
  /\ \A i \in DOMAIN q : i >= 1 /\ i + 1 \in DOMAIN p /\ p[i + 1] = q[i]

LEMMA ShiftedKeeps ==
  ASSUME NEW p, NEW q, NEW e, Shifted(p, q, e)
  PROVE  /\ ToRun(p) = ToRun(q) \cup RunOf(e)
         /\ ToCancel(p) = ToCancel(q) \cup CancelOf(e)
         /\ OnceInQueue(q) /\ RunOf(e) \cap ToRun(q) = {} <=> OnceInQueue(p)
<1>1. ToRun(p) = ToRun(q) \cup RunOf(e)
  <2>1. ToRun(p) \subseteq ToRun(q) \cup RunOf(e)
    BY DEF Shifted, ToRun, RunOf
  <2>2. ToRun(q) \subseteq ToRun(p)
    BY DEF Shifted, ToRun
  <2>3. RunOf(e) \subseteq ToRun(p)
    BY DEF Shifted, ToRun, RunOf
  <2>. QED BY <2>1, <2>2, <2>3
<1>2. ToCancel(p) = ToCancel(q) \cup CancelOf(e)
  <2>1. ToCancel(p) \subseteq ToCancel(q) \cup CancelOf(e)
    BY DEF Shifted, ToCancel, CancelOf
  <2>2. ToCancel(q) \subseteq ToCancel(p)
    BY DEF Shifted, ToCancel
  <2>3. CancelOf(e) \subseteq ToCancel(p)
    BY DEF Shifted, ToCancel, CancelOf
  <2>. QED BY <2>1, <2>2, <2>3
<1>3. ASSUME OnceInQueue(q), RunOf(e) \cap ToRun(q) = {} PROVE OnceInQueue(p)
  <2> SUFFICES ASSUME NEW i \in DOMAIN p, NEW j \in DOMAIN p, p[i].op = "run", p[j].op = "run",
                      p[i].task = p[j].task
               PROVE  i = j
    BY DEF OnceInQueue
  <2>1. ASSUME NEW k \in DOMAIN p, k # 1, p[k].op = "run" PROVE p[k].task \in ToRun(q)
    BY <2>1 DEF Shifted, ToRun
  <2>2. CASE i = 1 \/ j = 1
    BY <1>3, <2>1, <2>2 DEF Shifted, RunOf
  <2>3. CASE i # 1 /\ j # 1
    <3>1. i - 1 = j - 1
      BY <1>3, <2>3 DEF Shifted, OnceInQueue
    <3>. QED BY <3>1 DEF Shifted
  <2>. QED BY <2>2, <2>3
<1>4. ASSUME OnceInQueue(p) PROVE OnceInQueue(q)
  <2> SUFFICES ASSUME NEW i \in DOMAIN q, NEW j \in DOMAIN q, q[i].op = "run", q[j].op = "run",
                      q[i].task = q[j].task
               PROVE  i = j
    BY DEF OnceInQueue
  <2>1. i + 1 = j + 1
    BY <1>4 DEF Shifted, OnceInQueue
  <2>. QED BY <2>1 DEF Shifted
<1>5. ASSUME OnceInQueue(p) PROVE RunOf(e) \cap ToRun(q) = {}
  <2> SUFFICES ASSUME e.op = "run", NEW i \in DOMAIN q, q[i].op = "run", q[i].task = e.task
               PROVE  FALSE
    BY DEF RunOf, ToRun
  <2>1. i + 1 = 1
    BY <1>5 DEF Shifted, OnceInQueue
  <2>. QED BY <2>1 DEF Shifted
<1>. QED BY <1>1, <1>2, <1>3, <1>4, <1>5

LEMMA Prepended ==
  ASSUME NEW q \in Seq(Entries), NEW e \in Entries
  PROVE  /\ <<e>> \o q \in Seq(Entries)
         /\ ToRun(<<e>> \o q) = ToRun(q) \cup RunOf(e)
         /\ ToCancel(<<e>> \o q) = ToCancel(q) \cup CancelOf(e)
         /\ OnceInQueue(q) /\ RunOf(e) \cap ToRun(q) = {} => OnceInQueue(<<e>> \o q)
<1> DEFINE p == <<e>> \o q
           n == Len(q)
<1>1. /\ p \in Seq(Entries) /\ n \in Nat /\ DOMAIN q = 1 .. n /\ DOMAIN p = 1 .. n + 1
      /\ p[1] = e /\ \A i \in 2 .. n + 1 : p[i] = q[i - 1]
  OBVIOUS
<1> HIDE DEF p, n
<1>2. Shifted(p, q, e)
  <2>1. ASSUME NEW i \in DOMAIN p, i # 1 PROVE i - 1 \in DOMAIN q /\ p[i] = q[i - 1]
    <3>1. i \in 2 .. n + 1 /\ i - 1 \in 1 .. n
      BY <1>1, <2>1
    <3>. QED BY <1>1, <3>1
  <2>2. ASSUME NEW i \in DOMAIN q PROVE i + 1 \in DOMAIN p /\ p[i + 1] = q[i]
    <3>1. i + 1 \in 2 .. n + 1 /\ (i + 1) - 1 = i
      BY <1>1
    <3>. QED BY <1>1, <3>1
  <2>. QED BY <1>1, <2>1, <2>2 DEF Shifted
<1>4. ToRun(p) = ToRun(q) \cup RunOf(e) /\ ToCancel(p) = ToCancel(q) \cup CancelOf(e)
  BY <1>2, ShiftedKeeps
<1>6. OnceInQueue(q) /\ RunOf(e) \cap ToRun(q) = {} <=> OnceInQueue(p)
  BY <1>2, ShiftedKeeps
<1>. QED BY <1>1, <1>4, <1>6 DEF p

LEMMA Popped ==
  ASSUME NEW q \in Seq(Entries), q # <<>>
  PROVE  /\ Tail(q) \in Seq(Entries) /\ Head(q) \in Entries
         /\ ToRun(q) = ToRun(Tail(q)) \cup RunOf(Head(q))
         /\ ToCancel(q) = ToCancel(Tail(q)) \cup CancelOf(Head(q))
         /\ OnceInQueue(q) => OnceInQueue(Tail(q)) /\ RunOf(Head(q)) \cap ToRun(Tail(q)) = {}
<1> DEFINE p == Tail(q)
           e == Head(q)
           n == Len(p)
<1>1. /\ p \in Seq(Entries) /\ n \in Nat /\ DOMAIN p = 1 .. n /\ DOMAIN q = 1 .. n + 1
      /\ e = q[1] /\ e \in Entries /\ \A i \in 1 .. n : p[i] = q[i + 1]
  OBVIOUS
<1> HIDE DEF p, n, e
<1>2. Shifted(q, p, e)
  <2>1. \A i \in DOMAIN p : i + 1 \in DOMAIN q /\ q[i + 1] = p[i]
    BY <1>1
  <2>2. ASSUME NEW i \in DOMAIN q, i # 1 PROVE i - 1 \in DOMAIN p /\ q[i] = p[i - 1]
    <3>1. i - 1 \in 1 .. n /\ (i - 1) + 1 = i
      BY <1>1, <2>2
    <3>2. p[i - 1] = q[(i - 1) + 1]
      BY <1>1, <3>1
    <3>. QED BY <1>1, <3>1, <3>2
  <2>. QED BY <1>1, <2>1, <2>2 DEF Shifted
<1>4. ToRun(q) = ToRun(p) \cup RunOf(e) /\ ToCancel(q) = ToCancel(p) \cup CancelOf(e)
  BY <1>2, ShiftedKeeps
<1>6. OnceInQueue(p) /\ RunOf(e) \cap ToRun(p) = {} <=> OnceInQueue(q)
  BY <1>2, ShiftedKeeps
<1>. QED BY <1>1, <1>4, <1>6 DEF p, e

(* Cleaning the pending tasks of a request out of the queue, and putting   *)
(* the cancellations in front.                                             *)
LEMMA KeptInQueue ==
  ASSUME NEW q \in Seq(Entries), OnceInQueue(q), NEW K \in SUBSET DOMAIN q
  PROVE  /\ Kept(q, K) \in Seq(Entries) /\ OnceInQueue(Kept(q, K))
         /\ \A i \in DOMAIN Kept(q, K) : \E j \in K : Kept(q, K)[i] = q[j]
         /\ \A j \in K : \E i \in DOMAIN Kept(q, K) : Kept(q, K)[i] = q[j]
<1> DEFINE n == Cardinality(K)
           p == Kept(q, K)
<1>1. PICK idx \in [1 .. n -> K] :
        /\ \A k, m \in 1 .. n : idx[k] = idx[m] => k = m
        /\ \A i \in K : \E k \in 1 .. n : idx[k] = i
        /\ p = [k \in 1 .. n |-> q[idx[k]]]
        /\ n \in Nat
  BY KeptPicks
<1> HIDE DEF n, p
<1>2. DOMAIN p = 1 .. n /\ \A k \in 1 .. n : p[k] = q[idx[k]] /\ idx[k] \in DOMAIN q /\ idx[k] \in K
  BY <1>1
<1>3. p \in Seq(Entries)
  BY <1>1, <1>2
<1>4. OnceInQueue(p)
  BY <1>1, <1>2 DEF OnceInQueue
<1>5. ASSUME NEW j \in K PROVE \E i \in DOMAIN p : p[i] = q[j]
  <2>1. PICK k \in 1 .. n : idx[k] = j
    BY <1>1
  <2>. QED BY <1>2, <2>1
<1>. QED BY <1>2, <1>3, <1>4, <1>5 DEF p

LEMMA CleanedQueue ==
  ASSUME NEW q \in Seq(Entries), NEW T, OnceInQueue(q),
         NEW p, p = Kept(q, {i \in DOMAIN q : ~ (q[i].op = "run" /\ q[i].task \in T)})
  PROVE  /\ p \in Seq(Entries) /\ OnceInQueue(p)
         /\ ToRun(p) = ToRun(q) \ T /\ ToCancel(p) \subseteq ToCancel(q)
<1>1. PICK K \in SUBSET DOMAIN q :
        /\ K = {i \in DOMAIN q : ~ (q[i].op = "run" /\ q[i].task \in T)}
        /\ p = Kept(q, K)
  OBVIOUS
<1>2. /\ p \in Seq(Entries) /\ OnceInQueue(p)
      /\ \A i \in DOMAIN p : \E j \in K : p[i] = q[j]
      /\ \A j \in K : \E i \in DOMAIN p : p[i] = q[j]
  <2> HIDE DEF Kept
  <2>1. p = Kept(q, K)
    BY <1>1
  <2>. QED BY ONLY q \in Seq(Entries), OnceInQueue(q), K \in SUBSET DOMAIN q, <2>1, KeptInQueue
<1>3. ToCancel(p) \subseteq ToCancel(q)
  BY <1>2 DEF ToCancel
<1>4. ToRun(p) \subseteq ToRun(q) \ T
  BY <1>1, <1>2 DEF ToRun
<1>5. ASSUME NEW t \in ToRun(q) \ T PROVE t \in ToRun(p)
  <2>1. PICK j \in DOMAIN q : q[j].op = "run" /\ q[j].task = t
    BY <1>5 DEF ToRun
  <2>2. PICK i \in DOMAIN p : p[i] = q[j]
    BY <1>1, <1>2, <1>5, <2>1
  <2>. QED BY <2>1, <2>2 DEF ToRun
<1>. QED BY <1>2, <1>3, <1>4, <1>5

LEMMA CancelsInFront ==
  ASSUME NEW q \in Seq(Entries), NEW T, NEW c \in Seq(Entries),
         \A i \in DOMAIN c : c[i].op = "cancel" /\ c[i].task \in T
  PROVE  /\ c \o q \in Seq(Entries) /\ ToRun(c \o q) = ToRun(q) /\ ToCancel(c \o q) \subseteq ToCancel(q) \cup T
         /\ OnceInQueue(q) => OnceInQueue(c \o q)
<1> DEFINE n == Len(c)
           m == Len(q)
           p == c \o q
<1>1. n \in Nat /\ DOMAIN c = 1 .. n
  OBVIOUS
<1>2. \A i \in 1 .. n : c[i].op = "cancel" /\ c[i].task \in T
  BY <1>1
<1>3. /\ p \in Seq(Entries) /\ m \in Nat /\ DOMAIN q = 1 .. m /\ DOMAIN p = 1 .. n + m
  OBVIOUS
<1>4. ASSUME NEW i \in n + 1 .. n + m PROVE p[i] = q[i - n]
  OBVIOUS
<1>5. ASSUME NEW i \in 1 .. n PROVE p[i] = c[i]
  OBVIOUS
<1> HIDE DEF m, n, p
<1>6. \A i \in DOMAIN p : \/ i \in 1 .. n /\ p[i].op = "cancel" /\ p[i].task \in T
                          \/ i - n \in DOMAIN q /\ p[i] = q[i - n]
  <2> SUFFICES ASSUME NEW i \in DOMAIN p, i \notin 1 .. n
               PROVE  i - n \in DOMAIN q /\ p[i] = q[i - n]
    BY <1>2, <1>3, <1>5
  <2>1. i \in n + 1 .. n + m /\ i - n \in 1 .. m
    BY <1>1, <1>3
  <2>. QED BY <1>3, <1>4, <2>1
<1>7. ASSUME NEW i \in DOMAIN q PROVE i + n \in DOMAIN p /\ p[i + n] = q[i]
  <2>1. i + n \in n + 1 .. n + m /\ (i + n) - n = i
    BY <1>1, <1>3
  <2>. QED BY <1>1, <1>3, <1>4, <2>1
<1>8. ToRun(p) = ToRun(q)
  <2>1. ASSUME NEW i \in DOMAIN p, p[i].op = "run" PROVE p[i].task \in ToRun(q)
    <3>1. i - n \in DOMAIN q /\ p[i] = q[i - n]
      BY <1>6, <2>1
    <3>. QED BY <2>1, <3>1 DEF ToRun
  <2>2. ToRun(q) \subseteq ToRun(p)
    BY <1>7 DEF ToRun
  <2>. QED BY <2>1, <2>2 DEF ToRun
<1>9. ToCancel(p) \subseteq ToCancel(q) \cup T
  BY <1>6 DEF ToCancel
<1>10. OnceInQueue(q) => OnceInQueue(p)
  <2> SUFFICES ASSUME OnceInQueue(q), NEW i \in DOMAIN p, NEW j \in DOMAIN p, p[i].op = "run", p[j].op = "run",
                      p[i].task = p[j].task
               PROVE  i = j
    BY DEF OnceInQueue
  <2>1. i - n \in DOMAIN q /\ j - n \in DOMAIN q /\ p[i] = q[i - n] /\ p[j] = q[j - n]
    BY <1>6
  <2>2. i - n = j - n
    BY <2>1 DEF OnceInQueue
  <2>. QED BY <1>1, <1>3, <2>2
<1>. QED BY <1>3, <1>8, <1>9, <1>10 DEF p

(* Tasks are taken out of the deferred queue.                              *)
LEMMA KeptInDeferred ==
  ASSUME NEW d \in Seq(Tasks), \A i, j \in DOMAIN d : d[i] = d[j] => i = j,
         NEW K \in SUBSET DOMAIN d
  PROVE  /\ Kept(d, K) \in Seq(Tasks)
         /\ \A i, j \in DOMAIN Kept(d, K) : Kept(d, K)[i] = Kept(d, K)[j] => i = j
         /\ {Kept(d, K)[i] : i \in DOMAIN Kept(d, K)} = {d[i] : i \in K}
<1> DEFINE n == Cardinality(K)
           e == Kept(d, K)
<1>1. PICK idx \in [1 .. n -> K] :
        /\ \A k, m \in 1 .. n : idx[k] = idx[m] => k = m
        /\ \A i \in K : \E k \in 1 .. n : idx[k] = i
        /\ e = [k \in 1 .. n |-> d[idx[k]]]
        /\ n \in Nat
  BY KeptPicks
<1> HIDE DEF n, e
<1>2. DOMAIN e = 1 .. n /\ \A k \in 1 .. n : e[k] = d[idx[k]] /\ idx[k] \in DOMAIN d /\ idx[k] \in K
  BY <1>1
<1>3. e \in Seq(Tasks)
  BY <1>1, <1>2
<1>4. \A i, j \in DOMAIN e : e[i] = e[j] => i = j
  BY <1>1, <1>2
<1>5. {e[i] : i \in DOMAIN e} \subseteq {d[i] : i \in K}
  BY <1>2
<1>6. \A i \in K : \E m \in DOMAIN e : e[m] = d[i]
  <2> TAKE i \in K
  <2>1. PICK k \in 1 .. n : idx[k] = i
    BY <1>1
  <2>2. e[k] = d[i] /\ k \in DOMAIN e
    BY <1>2, <2>1
  <2>. QED BY <2>2
<1>. QED BY <1>3, <1>4, <1>5, <1>6 DEF e

-----------------------------------------------------------------------------
(* Where tasks are.                                                        *)

LEMMA SentTyped ==
  ASSUME Replies, NEW T, NEW k \in Terminal \cup {"partial"}, results' = Sent(T, k)
  PROVE  results' \in [Tasks -> Seq(Terminal \cup {"partial"})]
<1>1. \A t \in Tasks : Append(results[t], k) \in Seq(Terminal \cup {"partial"})
  BY DEF Replies
<1>. QED BY <1>1 DEF Replies, Sent

LEMMA IdsAreTasks == ASSUME NEW r \in Requests PROVE Ids(r) \in SUBSET Tasks
  BY DEF Ids, Tasks

(* The slot wakes one deferred task, or none is there.                     *)
LEMMA PopDeferredMoves ==
  ASSUME InQueues, NEW s, PopDeferred(s)
  PROVE  InQueues' /\ Waits' = Waits /\ ToCancel(queue') = ToCancel(queue)
<1>1. CASE UNCHANGED queues
  BY <1>1 DEF queues, InQueues, Waits, InDeferred
<1>2. ASSUME NEW i \in DOMAIN deferred,
             queue' = <<Entry("run", deferred[i])>> \o queue,
             deferred' = Kept(deferred, DOMAIN deferred \ {i})
      PROVE  InQueues' /\ Waits' = Waits /\ ToCancel(queue') = ToCancel(queue)
  <2> DEFINE e == Entry("run", deferred[i])
             K == DOMAIN deferred \ {i}
  <2>1. e \in Entries /\ RunOf(e) = {deferred[i]} /\ CancelOf(e) = {} /\ deferred[i] \in InDeferred
    BY DEF InQueues, Entry, Entries, RunOf, CancelOf, InDeferred
  <2>2. RunOf(e) \cap ToRun(queue) = {}
    BY <2>1 DEF InQueues
  <2>3. /\ queue' \in Seq(Entries) /\ OnceInQueue(queue')
        /\ ToRun(queue') = ToRun(queue) \cup RunOf(e) /\ ToCancel(queue') = ToCancel(queue) \cup CancelOf(e)
    <3> HIDE DEF e
    <3>. QED BY <1>2, <2>1, <2>2, Prepended DEF InQueues, e
  <2>4. /\ deferred' \in Seq(Tasks) /\ \A j, k \in DOMAIN deferred' : deferred'[j] = deferred'[k] => j = k
        /\ InDeferred' = {deferred[j] : j \in K}
    <3> HIDE DEF K
    <3>1. K \in SUBSET DOMAIN deferred /\ deferred' = Kept(deferred, K)
      BY <1>2 DEF K
    <3>2. deferred \in Seq(Tasks) /\ \A j, k \in DOMAIN deferred : deferred[j] = deferred[k] => j = k
      BY DEF InQueues
    <3>3. /\ Kept(deferred, K) \in Seq(Tasks)
          /\ \A j, k \in DOMAIN Kept(deferred, K) : Kept(deferred, K)[j] = Kept(deferred, K)[k] => j = k
          /\ {Kept(deferred, K)[j] : j \in DOMAIN Kept(deferred, K)} = {deferred[j] : j \in K}
      BY ONLY <3>1, <3>2, KeptInDeferred
    <3>. QED BY <3>1, <3>3 DEF InDeferred
  <2>5. InDeferred' = InDeferred \ {deferred[i]}
    BY <2>4 DEF InQueues, InDeferred
  <2>. QED BY <2>1, <2>3, <2>4, <2>5 DEF InQueues, Waits
<1>. QED BY <1>1, <1>2 DEF PopDeferred

(* What keeps every task in its one place: tasks leave, or stay.           *)
LEMMA Shrinks ==
  ASSUME Placement, InQueues', Pending' \subseteq Pending, Waits' \cap RunOf(cur') = {},
         \A s \in Slots : slot'[s].task \in {slot[s].task, NoTask},
         \A r \in Requests : rd'[r] = rd[r] \/ (rd[r] # "done" /\ rd'[r] # "new"),
         \A t \in Cancels' : t \in Cancels \/ (t \in Tasks /\ rd'[t[1]] = "done")
  PROVE  Unique' /\ Posted'
<1>1. \A s \in Slots : slot[s].task # NoTask => slot[s].task \in Tasks
  BY IdsAreTasks, NoTaskAssumption DEF Placement, InSlots
<1>2. Unique'
  BY DEF Placement, Unique
<1>3. \A t \in Pending' : rd'[t[1]] # "new"
  BY DEF Placement, Unique, Posted, Roots
<1>4. \A s \in Slots : slot'[s].task # NoTask => rd'[slot'[s].task[1]] # "new"
  BY <1>1 DEF Placement, Posted, Tasks
<1>5. \A t \in Cancels' : t \in Tasks /\ rd'[t[1]] = "done"
  BY DEF Placement, Posted, Tasks
<1>. QED BY <1>2, <1>3, <1>4, <1>5 DEF Posted

(* The release of a slot.                                                  *)
LEMMA ReleaseMoves ==
  ASSUME Placement, NEW s \in Slots, Release(s), UNCHANGED <<rd, shape>>,
         cur' = cur \/ (RunOf(cur') = {} /\ CancelOf(cur') = {})
  PROVE  /\ InQueues' /\ InSlots' /\ Unique' /\ Posted' /\ Waits' = Waits
         /\ slot'[s] = Idle /\ \A o \in Slots \ {s} : slot'[o] = slot[o]
<1>1. InQueues' /\ Waits' = Waits /\ ToCancel(queue') = ToCancel(queue)
  BY PopDeferredMoves DEF Release, Placement
<1>2. /\ slot' \in [Slots -> [state : States, task : Tasks \cup {NoTask}, n : 0 .. MaxGen]]
      /\ slot'[s] = Idle /\ \A o \in Slots \ {s} : slot'[o] = slot[o]
  BY BoundsAssumption DEF Release, Placement, InSlots, Idle, States
<1>3. InSlots'
  BY <1>2 DEF Placement, InSlots, Idle, Ids
<1>4. Unique' /\ Posted'
  <2>1. \A o \in Slots : slot'[o].task \in {slot[o].task, NoTask}
    BY <1>2 DEF Idle
  <2>2. Pending' \subseteq Pending /\ Cancels' \subseteq Cancels /\ Waits' \cap RunOf(cur') = {}
    BY <1>1 DEF Pending, Cancels, Placement, Unique
  <2>. QED BY <1>1, <2>1, <2>2, Shrinks
<1>. QED BY <1>1, <1>2, <1>3, <1>4

-----------------------------------------------------------------------------
(* Steps of the HTTP threads.                                              *)

LEMMA PostTasksPlaces == ASSUME Placement, NEW r \in Requests, PostTasks(r) PROVE Placement'
<1> DEFINE t == <<r, 0>>
           e == Entry("run", t)
<1>1. t \in Tasks /\ t \notin Pending /\ e \in Entries /\ RunOf(e) = {t} /\ CancelOf(e) = {}
  BY DEF PostTasks, Placement, Posted, Tasks, Entry, Entries, RunOf, CancelOf
<1>2. \A s \in Slots : slot[s].task # NoTask => Root(slot[s].task) # t
  BY DEF PostTasks, Placement, Posted, Root
<1> HIDE DEF t, e
<1>3. /\ queue' \in Seq(Entries) /\ OnceInQueue(queue')
      /\ ToRun(queue') = ToRun(queue) \cup {t} /\ ToCancel(queue') = ToCancel(queue)
  BY <1>1, Appended DEF PostTasks, Placement, InQueues, Pending, Waits, t, e
<1>4. InQueues' /\ Pending' = Pending \cup {t} /\ Cancels' = Cancels /\ Waits' \cap RunOf(cur') = {}
  <2>1. UNCHANGED <<deferred, cur>> /\ InDeferred' = InDeferred
    BY DEF PostTasks, main, InDeferred
  <2>2. InQueues'
    BY <1>1, <1>3, <2>1 DEF Placement, InQueues, Pending, Waits
  <2>. QED BY <1>1, <1>3, <2>1, <2>2 DEF Placement, Unique, Pending, Waits, Cancels
<1>5. Readers' /\ Replies' /\ Worker' /\ InSlots'
  BY IdsAreTasks DEF PostTasks, main, Placement, Readers, Replies, Worker, InSlots, Ids
<1>6. Unique'
  BY <1>2, <1>4 DEF PostTasks, main, Placement, Unique, Roots, t
<1>7. Posted'
  BY <1>4 DEF PostTasks, main, Placement, Posted, Readers, Tasks, t, Roots, Unique, InSlots
<1>. QED BY <1>4, <1>5, <1>6, <1>7 DEF Placement

LEMMA ReaderPlaces ==
  ASSUME Placement, NEW r \in Requests, Receive(r) \/ Disconnect(r) \/ Close(r) PROVE Placement'
<1>1. UNCHANGED <<shape, queues, main>>
  BY DEF Receive, Disconnect, Close
<1>2. Readers' /\ \A q \in Requests : rd'[q] = rd[q] \/ (rd[q] # "done" /\ rd'[q] # "new")
  BY <1>1 DEF Receive, Disconnect, Close, Forget, Placement, Readers
<1>3. Replies'
  <2>1. CASE \E t \in Ids(r) : /\ results[t] # <<>> /\ results' = [results EXCEPT ![t] = Tail(@)]
                              /\ got' \in {got, [got EXCEPT ![r] = @ \cup {t}]} /\ waiting' = waiting
    <3>1. PICK t \in Tasks : /\ results[t] # <<>> /\ results' = [results EXCEPT ![t] = Tail(@)]
                             /\ got' \in {got, [got EXCEPT ![r] = @ \cup {t}]} /\ waiting' = waiting
      BY <2>1, IdsAreTasks
    <3>2. Tail(results[t]) \in Seq(Terminal \cup {"partial"})
      BY <3>1 DEF Placement, Replies
    <3>. QED BY <3>1, <3>2 DEF Placement, Replies
  <2>2. CASE Forget(r) /\ UNCHANGED got
    BY <2>2 DEF Forget, Placement, Replies
  <2>3. CASE Close(r)
    BY <2>3 DEF Close, Placement, Replies
  <2>. QED BY <2>1, <2>2, <2>3 DEF Receive, Disconnect
<1>4. Worker' /\ InSlots' /\ InQueues'
  BY <1>1 DEF main, queues, Placement, Worker, InSlots, InQueues, Ids, InDeferred
<1>5. Unique' /\ Posted'
  BY <1>1, <1>2, <1>4, Shrinks DEF main, queues, Placement, Unique, Pending, Waits, InDeferred, Cancels
<1>. QED BY <1>2, <1>3, <1>4, <1>5 DEF Placement

LEMMA CancellationsInFront ==
  ASSUME NEW r \in Requests, NEW q \in Seq(Entries), NEW order \in [1 .. Cardinality(Ids(r)) -> Ids(r)]
  PROVE  LET p == Cancellations(order) \o q IN
         /\ p \in Seq(Entries) /\ ToRun(p) = ToRun(q) /\ ToCancel(p) \subseteq ToCancel(q) \cup Ids(r)
         /\ OnceInQueue(q) => OnceInQueue(p)
<1> DEFINE n == Cardinality(Ids(r))
           c == Cancellations(order)
<1>1. Ids(r) \in SUBSET Tasks /\ n \in Nat
  <2>1. IsFiniteSet({<<r, 0>>}) /\ IsFiniteSet({<<r, 1>>}) /\ IsFiniteSet({})
    BY FS_Singleton, FS_EmptySet
  <2>2. IsFiniteSet(Ids(r))
    BY <2>1, FS_Union DEF Ids
  <2>. QED BY <2>2, FS_CardinalityType, IdsAreTasks
<1>2. DOMAIN c = 1 .. n /\ c = [i \in 1 .. n |-> Entry("cancel", order[i])]
  BY <1>1 DEF Cancellations
<1>3. \A i \in 1 .. n : order[i] \in Ids(r) /\ Entry("cancel", order[i]) \in Entries
  BY <1>1 DEF Entry, Entries
<1>4. c \in Seq(Entries) /\ \A i \in DOMAIN c : c[i].op = "cancel" /\ c[i].task \in Ids(r)
  <2> HIDE DEF n, c
  <2>. QED BY <1>1, <1>2, <1>3 DEF Entry
<1> HIDE DEF n, c
<1>5. /\ c \o q \in Seq(Entries) /\ ToRun(c \o q) = ToRun(q)
      /\ ToCancel(c \o q) \subseteq ToCancel(q) \cup Ids(r)
      /\ OnceInQueue(q) => OnceInQueue(c \o q)
  BY ONLY q \in Seq(Entries), <1>4, CancelsInFront
<1>. QED BY <1>5 DEF c

LEMMA PostCancelsPlaces == ASSUME Placement, NEW r \in Requests, PostCancels(r) PROVE Placement'
<1> DEFINE q == WithoutRun(Ids(r))
           d == {i \in DOMAIN deferred : deferred[i] \notin Ids(r)}
<1>1. /\ q \in Seq(Entries) /\ OnceInQueue(q)
      /\ ToRun(q) \subseteq ToRun(queue) /\ ToCancel(q) \subseteq ToCancel(queue)
  <2>1. queue \in Seq(Entries) /\ OnceInQueue(queue)
    BY DEF Placement, InQueues
  <2>2. q = Kept(queue, {i \in DOMAIN queue : ~ (queue[i].op = "run" /\ queue[i].task \in Ids(r))})
    BY DEF WithoutRun
  <2> HIDE DEF q
  <2>3. /\ q \in Seq(Entries) /\ OnceInQueue(q)
        /\ ToRun(q) = ToRun(queue) \ Ids(r) /\ ToCancel(q) \subseteq ToCancel(queue)
    BY ONLY <2>1, <2>2, CleanedQueue
  <2>. QED BY <2>3
<1> HIDE DEF q
<1>2. PICK order \in [1 .. Cardinality(Ids(r)) -> Ids(r)] :
        queue' = Cancellations(order) \o q
  BY DEF PostCancels, q
<1>3. Ids(r) \in SUBSET Tasks
  BY IdsAreTasks
<1>4. /\ queue' \in Seq(Entries) /\ OnceInQueue(queue')
      /\ ToRun(queue') = ToRun(q) /\ ToCancel(queue') \subseteq ToCancel(q) \cup Ids(r)
  BY <1>1, <1>2, CancellationsInFront
<1>5. /\ deferred' \in Seq(Tasks) /\ \A j, k \in DOMAIN deferred' : deferred'[j] = deferred'[k] => j = k
      /\ InDeferred' \subseteq InDeferred
  <2>1. d \in SUBSET DOMAIN deferred /\ deferred' = Kept(deferred, d)
    BY DEF PostCancels, WithoutDeferred
  <2> HIDE DEF d
  <2>2. /\ deferred' \in Seq(Tasks) /\ \A j, k \in DOMAIN deferred' : deferred'[j] = deferred'[k] => j = k
        /\ {deferred'[i] : i \in DOMAIN deferred'} = {deferred[i] : i \in d}
    <3>1. deferred \in Seq(Tasks) /\ \A j, k \in DOMAIN deferred : deferred[j] = deferred[k] => j = k
      BY DEF Placement, InQueues
    <3>2. /\ Kept(deferred, d) \in Seq(Tasks)
          /\ \A j, k \in DOMAIN Kept(deferred, d) : Kept(deferred, d)[j] = Kept(deferred, d)[k] => j = k
          /\ {Kept(deferred, d)[j] : j \in DOMAIN Kept(deferred, d)} = {deferred[j] : j \in d}
      BY ONLY <2>1, <3>1, KeptInDeferred
    <3>. QED BY <2>1, <3>2
  <2>. QED BY <2>1, <2>2 DEF InDeferred
<1>6. InQueues' /\ Waits' \subseteq Waits
  BY <1>1, <1>4, <1>5 DEF Placement, InQueues, Waits
<1>7. Readers' /\ \A p \in Requests : rd'[p] = rd[p] \/ (rd[p] # "done" /\ rd'[p] # "new")
  BY DEF PostCancels, Placement, Readers
<1>8. Replies' /\ Worker' /\ InSlots'
  BY DEF PostCancels, resp, main, Placement, Replies, Worker, InSlots, Ids
<1>9. \A t \in Cancels' : t \in Cancels \/ (t \in Tasks /\ rd'[t[1]] = "done")
  <2>1. \A t \in Ids(r) : t \in Tasks /\ t[1] = r
    BY <1>3 DEF Ids
  <2>2. rd'[r] = "done"
    BY DEF PostCancels, Placement, Readers
  <2>. QED BY <1>1, <1>4, <2>1, <2>2 DEF PostCancels, main, Cancels
<1>10. Unique' /\ Posted'
  <2>1. Pending' \subseteq Pending /\ Waits' \cap RunOf(cur') = {}
    BY <1>6 DEF PostCancels, main, Placement, Unique, Pending
  <2>2. \A s \in Slots : slot'[s].task \in {slot[s].task, NoTask}
    BY DEF PostCancels, main
  <2>. QED BY <1>6, <1>7, <1>9, <2>1, <2>2, Shrinks
<1>. QED BY <1>6, <1>7, <1>8, <1>10 DEF Placement

(* The cleanup takes the tasks of the request, and no others.              *)
LEMMA PostCancelsWaits == ASSUME Placement, NEW r \in Requests, PostCancels(r) PROVE Waits' = Waits \ Ids(r)
<1> DEFINE q == WithoutRun(Ids(r))
           d == {i \in DOMAIN deferred : deferred[i] \notin Ids(r)}
<1>1. q \in Seq(Entries) /\ ToRun(q) = ToRun(queue) \ Ids(r)
  <2>1. queue \in Seq(Entries) /\ OnceInQueue(queue)
    BY DEF Placement, InQueues
  <2>2. q = Kept(queue, {i \in DOMAIN queue : ~ (queue[i].op = "run" /\ queue[i].task \in Ids(r))})
    BY DEF WithoutRun
  <2> HIDE DEF q
  <2>. QED BY ONLY <2>1, <2>2, CleanedQueue
<1> HIDE DEF q
<1>2. PICK order \in [1 .. Cardinality(Ids(r)) -> Ids(r)] : queue' = Cancellations(order) \o q
  BY DEF PostCancels, q
<1>3. ToRun(queue') = ToRun(q)
  BY <1>1, <1>2, CancellationsInFront
<1>4. InDeferred' = InDeferred \ Ids(r)
  <2>1. d \in SUBSET DOMAIN deferred /\ deferred' = Kept(deferred, d)
    BY DEF PostCancels, WithoutDeferred
  <2>2. deferred \in Seq(Tasks) /\ \A j, k \in DOMAIN deferred : deferred[j] = deferred[k] => j = k
    BY DEF Placement, InQueues
  <2> HIDE DEF d
  <2>3. {Kept(deferred, d)[j] : j \in DOMAIN Kept(deferred, d)} = {deferred[j] : j \in d}
    BY ONLY <2>1, <2>2, KeptInDeferred
  <2>4. {deferred[j] : j \in d} = InDeferred \ Ids(r)
    BY DEF d, InDeferred
  <2>. QED BY <2>1, <2>3, <2>4 DEF InDeferred
<1>. QED BY <1>1, <1>3, <1>4 DEF Waits

-----------------------------------------------------------------------------
(* Steps of the main loop: tasks.                                          *)

Fixed == <<rd, shape, got, waiting>>   \* what no step of the main loop changes

LEMMA FixedKeeps ==
  ASSUME Placement, UNCHANGED Fixed, NEW T, NEW k \in Terminal \cup {"partial"},
         results' = results \/ results' = Sent(T, k)
  PROVE  Readers' /\ Replies' /\ \A r \in Requests : rd'[r] = rd[r]
  BY SentTyped DEF Fixed, Placement, Readers, Replies

LEMMA PopTaskPlaces == ASSUME Placement, PopTask PROVE Placement' /\ Pending' = Pending
<1> DEFINE q == queue
<1>1. /\ cur = None /\ cur' = Head(q) /\ queue' = Tail(q)
      /\ UNCHANGED <<rd, shape, got, waiting, results, deferred, loop, at, batched, slot>>
  BY DEF PopTask, http, resp
<1>2. /\ Tail(q) \in Seq(Entries) /\ Head(q) \in Entries
      /\ ToRun(q) = ToRun(Tail(q)) \cup RunOf(Head(q))
      /\ ToCancel(q) = ToCancel(Tail(q)) \cup CancelOf(Head(q))
      /\ OnceInQueue(Tail(q)) /\ RunOf(Head(q)) \cap ToRun(Tail(q)) = {}
  BY Popped DEF PopTask, Placement, InQueues
<1>3. RunOf(cur) = {} /\ CancelOf(cur) = {} /\ InDeferred' = InDeferred
  BY <1>1 DEF None, Entry, RunOf, CancelOf, InDeferred
<1>4. InQueues' /\ Pending' = Pending /\ Cancels' = Cancels /\ Waits' \cap RunOf(cur') = {}
  BY <1>1, <1>2, <1>3 DEF Placement, InQueues, Unique, Pending, Waits, Cancels
<1>5. Readers' /\ Replies' /\ Worker' /\ InSlots'
  BY <1>1, <1>2 DEF Placement, Readers, Replies, Worker, InSlots, Ids, Entries
<1>6. Unique' /\ Posted'
  BY <1>1, <1>4, Shrinks
<1>. QED BY <1>4, <1>5, <1>6 DEF Placement

LEMMA NoneWorks == None \in [op : {"run", "cancel", "next", "none"}, task : Tasks \cup {NoTask}]
                   /\ RunOf(None) = {} /\ CancelOf(None) = {}
  BY DEF None, Entry, RunOf, CancelOf

(* The main loop is done with its task, and answers it at most.            *)
LEMMA HandledPlaces ==
  ASSUME Placement, Handled, UNCHANGED Fixed, UNCHANGED queues, UNCHANGED slot,
         NEW T, NEW k \in Terminal \cup {"partial"}, results' = results \/ results' = Sent(T, k)
  PROVE  Placement'
<1>1. cur' = None /\ UNCHANGED <<queue, deferred, loop, at, batched, slot, shape>> /\ InDeferred' = InDeferred
  BY DEF Handled, Fixed, queues, InDeferred
<1>2. InQueues' /\ Pending' \subseteq Pending /\ Cancels' \subseteq Cancels /\ Waits' \cap RunOf(cur') = {}
  BY <1>1, NoneWorks DEF Placement, InQueues, Pending, Waits, Cancels
<1>3. Readers' /\ Replies' /\ \A r \in Requests : rd'[r] = rd[r]
  BY FixedKeeps
<1>4. Worker' /\ InSlots'
  BY <1>1, NoneWorks DEF Placement, Worker, InSlots, Ids
<1>5. Unique' /\ Posted'
  BY <1>1, <1>2, <1>3, Shrinks
<1>. QED BY <1>2, <1>3, <1>4, <1>5 DEF Placement

LEMMA RefuseAnswerPlaces ==
  ASSUME Placement, SkipNextResponse \/ RefuseTask \/ AnswerTask PROVE Placement'
<1>1. Handled /\ UNCHANGED Fixed /\ UNCHANGED queues /\ UNCHANGED slot
  BY DEF SkipNextResponse, RefuseTask, AnswerTask, http, resp, Fixed
<1>2. results' = results \/ \E T : \E k \in Terminal \cup {"partial"} : results' = Sent(T, k)
  BY DEF SkipNextResponse, RefuseTask, AnswerTask, resp, Terminal
<1>. QED BY <1>1, <1>2, HandledPlaces

LEMMA CancelTaskPlaces == ASSUME Placement, CancelTask PROVE Placement'
<1>1. CASE UNCHANGED <<queues, slot>>
  <2>1. Handled /\ UNCHANGED Fixed /\ UNCHANGED queues /\ UNCHANGED slot /\ UNCHANGED results
    BY <1>1 DEF CancelTask, http, resp, Fixed
  <2>. QED BY <2>1, HandledPlaces
<1>2. ASSUME NEW s \in Slots, Release(s) PROVE Placement'
  <2>1. cur' = None /\ UNCHANGED <<rd, shape, got, waiting, results, loop, at, batched>>
    BY DEF CancelTask, Handled, http, resp
  <2>2. InQueues' /\ InSlots' /\ Unique' /\ Posted'
    BY <1>2, <2>1, NoneWorks, ReleaseMoves
  <2>3. Readers' /\ Replies' /\ Worker'
    BY <2>1, NoneWorks DEF Placement, Readers, Replies, Worker
  <2>. QED BY <2>2, <2>3 DEF Placement
<1>. QED BY <1>1, <1>2 DEF CancelTask, Processing

LEMMA DeferTaskPlaces == ASSUME Placement, DeferTask PROVE Placement' /\ Pending' = Pending
<1> DEFINE t == cur.task
<1>1. /\ cur' = None /\ deferred' = Append(deferred, t) /\ cur.op = "run"
      /\ UNCHANGED <<rd, shape, got, waiting, results, queue, loop, at, batched, slot>>
  BY DEF DeferTask, Handling, Handled, http, resp
<1>2. RunOf(cur) = {t} /\ t \in Tasks /\ t \notin Waits
  BY <1>1 DEF Placement, Unique, Pending, RunOf, Roots, Tasks
<1> HIDE DEF t
<1>3. deferred' \in Seq(Tasks) /\ InDeferred' = InDeferred \cup {t}
      /\ \A i, j \in DOMAIN deferred' : deferred'[i] = deferred'[j] => i = j
  <2> DEFINE n == Len(deferred)
  <2>1. /\ deferred' \in Seq(Tasks) /\ n \in Nat /\ DOMAIN deferred = 1 .. n /\ DOMAIN deferred' = 1 .. n + 1
        /\ deferred'[n + 1] = t /\ \A i \in 1 .. n : deferred'[i] = deferred[i]
    BY <1>1, <1>2 DEF Placement, InQueues
  <2> HIDE DEF n
  <2>2. DOMAIN deferred' = DOMAIN deferred \cup {n + 1}
    BY <2>1
  <2>3. \A i \in DOMAIN deferred : deferred[i] # t
    BY <1>2 DEF Waits, InDeferred
  <2>4. InDeferred' = InDeferred \cup {t}
    BY <2>1, <2>2 DEF InDeferred
  <2>5. \A i, j \in DOMAIN deferred' : deferred'[i] = deferred'[j] => i = j
    BY <2>1, <2>2, <2>3 DEF Placement, InQueues
  <2>. QED BY <2>1, <2>4, <2>5
<1>4. InQueues'
  BY <1>1, <1>2, <1>3 DEF Placement, InQueues, Waits
<1>5. Pending' = Pending /\ Cancels' \subseteq Cancels /\ Waits' \cap RunOf(cur') = {}
  BY <1>1, <1>2, <1>3, NoneWorks DEF Pending, Waits, Cancels
<1>6. Readers' /\ Replies' /\ Worker' /\ InSlots'
  BY <1>1, NoneWorks DEF Placement, Readers, Replies, Worker, InSlots, Ids
<1>7. Unique' /\ Posted'
  BY <1>1, <1>4, <1>5, Shrinks
<1>. QED BY <1>4, <1>5, <1>6, <1>7 DEF Placement

(* A task moves from the main loop into its slots.                         *)
LEMMA LaunchTaskPlaces == ASSUME Placement, LaunchTask PROVE Placement'
<1> DEFINE t == cur.task
<1>1. /\ cur' = None /\ cur.op = "run" /\ UNCHANGED <<rd, shape, got, waiting, results, queue, deferred, loop, at, batched>>
      /\ \E p \in Placed(t) :
           slot' = [s \in Slots |-> IF s = p[1] THEN Launched(t)
                                    ELSE IF s = p[2] THEN Launched(<<t[1], 1>>) ELSE slot[s]]
  BY DEF LaunchTask, Handling, Handled, http, resp, queues
<1>2. PICK p \in Placed(t) :
           slot' = [s \in Slots |-> IF s = p[1] THEN Launched(t)
                                    ELSE IF s = p[2] THEN Launched(<<t[1], 1>>) ELSE slot[s]]
  BY <1>1
<1>3. t \in Roots /\ t \in Tasks /\ t[1] \in Requests /\ t = <<t[1], 0>> /\ t \in Pending /\ t \notin Waits /\ RunOf(cur) = {t}
  BY <1>1 DEF Placement, Unique, Pending, RunOf, Roots, Tasks
<1>4. p[1] \in Slots /\ p[2] \in Slots /\ (p[1] = p[2]) = (Kind(t) # "pair")
  BY DEF Placed, Available, Free
<1> HIDE DEF t
<1>5. /\ Launched(t) \in [state : States, task : Tasks \cup {NoTask}, n : 0 .. MaxGen]
      /\ Launched(<<t[1], 1>>) \in [state : States, task : Tasks \cup {NoTask}, n : 0 .. MaxGen]
      /\ Launched(t).task = t /\ Launched(<<t[1], 1>>).task = <<t[1], 1>>
      /\ Launched(t).state # "IDLE" /\ Launched(<<t[1], 1>>).state # "IDLE"
  BY <1>3, BoundsAssumption DEF Launched, States, Tasks
<1>6. t \in Ids(t[1]) /\ t # NoTask /\ <<t[1], 1>> # NoTask /\ <<t[1], 1>> # t
      /\ (p[1] # p[2] => <<t[1], 1>> \in Ids(t[1]))
  BY <1>3, <1>4, NoTaskAssumption DEF Ids, Kind, Tasks
<1>7. \A s \in Slots : \/ s = p[1] /\ slot'[s] = Launched(t)
                       \/ s # p[1] /\ s = p[2] /\ slot'[s] = Launched(<<t[1], 1>>)
                       \/ s # p[1] /\ s # p[2] /\ slot'[s] = slot[s]
  BY <1>2
<1>8. slot' \in [Slots -> [state : States, task : Tasks \cup {NoTask}, n : 0 .. MaxGen]]
  BY <1>2, <1>5 DEF Placement, InSlots
<1>9. InSlots'
  <2>1. UNCHANGED shape
    BY <1>1
  <2>2. \A r : Ids(r)' = Ids(r)
    BY <2>1 DEF Ids
  <2>3. ASSUME NEW s \in Slots
        PROVE  /\ slot'[s].state = "IDLE" <=> slot'[s].task = NoTask
               /\ slot'[s].task # NoTask => slot'[s].task \in Ids(slot'[s].task[1])
    BY <1>5, <1>6, <1>7 DEF Placement, InSlots
  <2>. QED BY <1>8, <2>2, <2>3 DEF InSlots
<1>10. \A s \in Slots : slot[s].task # NoTask => slot[s].task # t /\ slot[s].task # <<t[1], 1>>
  BY <1>3, <1>6 DEF Placement, Unique, Root
<1>11. Pending' = Waits /\ Waits' = Waits /\ Cancels' \subseteq Cancels /\ RunOf(cur') = {}
  BY <1>1, NoneWorks DEF Pending, Waits, InDeferred, Cancels
<1>12. Unique'
  <2>1. \A s, o \in Slots : slot'[s].task # NoTask /\ slot'[s].task = slot'[o].task => s = o
    BY <1>5, <1>6, <1>7, <1>10 DEF Placement, Unique
  <2>2. \A s \in Slots : slot'[s].task # NoTask => Root(slot'[s].task) \notin Waits
    BY <1>3, <1>5, <1>7 DEF Placement, Unique, Root, Pending
  <2>. QED BY <1>11, <2>1, <2>2 DEF Placement, Unique, Pending
<1>13. Posted'
  <2>1. rd[t[1]] # "new"
    BY <1>3 DEF Placement, Posted
  <2>2. \A s \in Slots : slot'[s].task # NoTask => rd[slot'[s].task[1]] # "new"
    BY <1>5, <1>7, <2>1 DEF Placement, Posted
  <2>. QED BY <1>1, <1>11, <2>2 DEF Placement, Posted, Pending
<1>14. Readers' /\ Replies' /\ Worker' /\ InQueues'
  BY <1>1, NoneWorks DEF Placement, Readers, Replies, Worker, InQueues, InDeferred
<1>. QED BY <1>9, <1>12, <1>13, <1>14 DEF Placement

LEMMA RefuseParentPlaces == ASSUME Placement, RefuseParent PROVE Placement'
<1>1. PICK s \in Slots : Release(s)
  BY DEF RefuseParent, Placed, Free
<1>2. cur' = None /\ UNCHANGED <<rd, shape, got, waiting, loop, at, batched>>
      /\ results' = Sent({cur.task}, "error")
  BY DEF RefuseParent, Handled, http
<1>3. InQueues' /\ InSlots' /\ Unique' /\ Posted'
  BY <1>1, <1>2, NoneWorks, ReleaseMoves
<1>4. Readers' /\ Replies'
  BY <1>2, FixedKeeps DEF Fixed, Terminal
<1>5. Worker'
  BY <1>2, NoneWorks DEF Placement, Worker
<1>. QED BY <1>3, <1>4, <1>5 DEF Placement

-----------------------------------------------------------------------------
(* Steps of the main loop: a round over the slots.                         *)

LEMMA RoundPlaces ==
  ASSUME Placement, UNCHANGED Fixed, UNCHANGED cur, Worker', InSlots', InQueues',
         Waits' = Waits, Cancels' \subseteq Cancels,
         \A s \in Slots : slot'[s].task \in {slot[s].task, NoTask},
         NEW T, NEW k \in Terminal \cup {"partial"}, results' = results \/ results' = Sent(T, k)
  PROVE  Placement'
<1>1. Readers' /\ Replies' /\ \A r \in Requests : rd'[r] = rd[r]
  BY FixedKeeps
<1>2. Pending' = Pending /\ Waits' \cap RunOf(cur') = {}
  BY DEF Pending, Placement, Unique
<1>3. Unique' /\ Posted'
  BY <1>1, <1>2, Shrinks
<1>. QED BY <1>1, <1>3 DEF Placement

LEMMA QueuesSame ==
  ASSUME Placement, UNCHANGED queues, UNCHANGED cur
  PROVE  InQueues' /\ Waits' = Waits /\ Cancels' = Cancels
<1>1. UNCHANGED <<queue, deferred>> /\ InDeferred' = InDeferred
  BY DEF queues, InDeferred
<1>. QED BY <1>1 DEF Placement, InQueues, Waits, Cancels

LEMMA Advances ==
  ASSUME Worker, NEW next \in {"decode", "wait"}, Advance(next), UNCHANGED cur, batched' \in SUBSET Slots
  PROVE  Worker'
<1>1. at' \in Slots /\ loop' \in {loop, next}
  BY BoundsAssumption DEF Advance, Worker, Slots
<1>. QED BY <1>1 DEF Worker

LEMMA FinishPlaces ==
  ASSUME Placement, NEW s \in Slots, NEW k \in Terminal, Finish(s, k), UNCHANGED http, UNCHANGED cur, Worker'
  PROVE  Placement' /\ slot'[s] = Idle /\ (\A o \in Slots \ {s} : slot'[o] = slot[o]) /\ Waits' = Waits
<1>1. Release(s) /\ UNCHANGED Fixed /\ UNCHANGED <<rd, shape>> /\ results' = Sent({slot[s].task}, k)
  BY DEF Finish, http, Fixed
<1>2. InQueues' /\ InSlots' /\ Unique' /\ Posted' /\ Waits' = Waits /\ slot'[s] = Idle
      /\ \A o \in Slots \ {s} : slot'[o] = slot[o]
  BY <1>1, ReleaseMoves
<1>3. Readers' /\ Replies'
  BY <1>1, FixedKeeps
<1>. QED BY <1>2, <1>3 DEF Placement

LEMMA LoopPlaces ==
  ASSUME Placement, BeginUpdate \/ WakeUp \/ NothingToDecode \/ AbortAllSlots PROVE Placement'
<1>1. UNCHANGED Fixed /\ UNCHANGED <<cur, slot, shape, deferred, results>>
  BY DEF BeginUpdate, WakeUp, NothingToDecode, AbortAllSlots, http, resp, queues, Fixed
<1>2. Worker' /\ InSlots'
  BY <1>1, BoundsAssumption
     DEF Placement, Worker, InSlots, Ids, BeginUpdate, WakeUp, NothingToDecode, AbortAllSlots, Slots
<1>3. InQueues' /\ Waits' = Waits /\ Cancels' = Cancels
  <2>1. CASE queue' = <<NextResponse>> /\ queue = <<>>
    <3>1. /\ queue' \in Seq(Entries) /\ OnceInQueue(queue')
          /\ ToRun(queue') = {} /\ ToCancel(queue') = {} /\ ToRun(queue) = {} /\ ToCancel(queue) = {}
      BY <2>1 DEF NextResponse, Entry, Entries, OnceInQueue, ToRun, ToCancel
    <3>. QED BY <1>1, <3>1 DEF Placement, InQueues, InDeferred, Waits, Cancels
  <2>2. CASE UNCHANGED queues
    BY <1>1, <2>2, QueuesSame
  <2>. QED BY <2>1, <2>2
       DEF BeginUpdate, WakeUp, NothingToDecode, AbortAllSlots, queues
<1>. QED BY <1>1, <1>2, <1>3, RoundPlaces

(* A slot moves on.                                                        *)
LEMMA SlotMoves ==
  ASSUME InSlots, NEW s \in Slots, slot[s].task # NoTask, NEW state \in States \ {"IDLE"}, NEW n \in 0 .. MaxGen,
         slot' = [slot EXCEPT ![s].state = state, ![s].n = n] \/ slot' = [slot EXCEPT ![s].state = state],
         UNCHANGED shape
  PROVE  InSlots' /\ \A o \in Slots : slot'[o].task = slot[o].task
  BY DEF InSlots, Ids

LEMMA PreDecodePlaces == ASSUME Placement, PreDecode PROVE Placement'
<1>1. UNCHANGED http /\ UNCHANGED Fixed /\ UNCHANGED <<cur, shape>>
  BY DEF PreDecode, http, resp, Fixed, Finish, Move
<1>2. Worker' /\ at \in Slots
  <2>1. Advance("decode") /\ batched' \in SUBSET Slots
    BY DEF PreDecode, Placement, Worker
  <2>. QED BY <1>1, <2>1, Advances DEF Placement, Worker
<1>3. CASE UNCHANGED <<resp, queues, slot>>
  <2>1. InSlots' /\ UNCHANGED results
    BY <1>1, <1>3 DEF Placement, InSlots, Ids, resp
  <2>. QED BY <1>1, <1>2, <1>3, <2>1, QueuesSame, RoundPlaces
<1>4. CASE /\ slot[at].state \in {"STARTED", "PROCESSING_PROMPT"}
           /\ Move(at, "PROCESSING_PROMPT") \/ Move(at, "DONE_PROMPT")
  <2>1. slot[at].task # NoTask /\ UNCHANGED results /\ UNCHANGED queues
    BY <1>2, <1>4 DEF Placement, InSlots, Move, resp
  <2>3. 0 \in 0 .. MaxGen
    BY BoundsAssumption
  <2>4. \E state \in States \ {"IDLE"} : slot' = [slot EXCEPT ![at].state = state]
    BY <1>4 DEF Move, States
  <2>2. InSlots' /\ \A o \in Slots : slot'[o].task = slot[o].task
    BY <1>1, <1>2, <2>1, <2>3, <2>4, SlotMoves DEF Placement
  <2>. QED BY <1>1, <1>2, <2>1, <2>2, QueuesSame, RoundPlaces
<1>5. CASE Finish(at, "error") \/ Finish(at, "final")
  BY <1>1, <1>2, <1>5, FinishPlaces DEF Terminal
<1>. QED BY <1>3, <1>4, <1>5 DEF PreDecode

LEMMA DecodePlaces == ASSUME Placement, Decode PROVE Placement'
<1>1. UNCHANGED Fixed /\ UNCHANGED <<cur, shape, results>> /\ UNCHANGED queues
  BY DEF Decode, http, resp, Fixed
<1>2. Worker'
  BY DEF Decode, Placement, Worker, Children
<1>3. InSlots' /\ \A s \in Slots : slot'[s].task = slot[s].task
  BY <1>1 DEF Decode, Children, Placement, InSlots, Ids, States
<1>. QED BY <1>1, <1>2, <1>3, QueuesSame, RoundPlaces

LEMMA AbortSlotPlaces == ASSUME Placement, AbortSlot PROVE Placement'
<1>1. UNCHANGED http /\ UNCHANGED Fixed /\ UNCHANGED <<cur, shape>>
  BY DEF AbortSlot, http, resp, Fixed, Finish
<1>2. Worker' /\ at \in Slots
  BY <1>1, Advances DEF AbortSlot, Placement, Worker
<1>3. CASE UNCHANGED <<resp, queues, slot>>
  <2>1. InSlots' /\ UNCHANGED results
    BY <1>1, <1>3 DEF Placement, InSlots, Ids, resp
  <2>. QED BY <1>1, <1>2, <1>3, <2>1, QueuesSame, RoundPlaces
<1>4. CASE Finish(at, "error")
  BY <1>1, <1>2, <1>4, FinishPlaces DEF Terminal
<1>. QED BY <1>3, <1>4 DEF AbortSlot

LEMMA PostDecodePlaces == ASSUME Placement, PostDecode PROVE Placement'
<1>1. UNCHANGED http /\ UNCHANGED Fixed /\ UNCHANGED <<cur, shape>>
  BY DEF PostDecode, http, resp, Fixed, Finish
<1>2. Worker' /\ at \in Slots
  BY <1>1, Advances DEF PostDecode, Placement, Worker
<1>3. CASE UNCHANGED <<resp, queues, slot>>
  <2>1. InSlots' /\ UNCHANGED results
    BY <1>1, <1>3 DEF Placement, InSlots, Ids, resp
  <2>. QED BY <1>1, <1>2, <1>3, <2>1, QueuesSame, RoundPlaces
<1>4. CASE Finish(at, "error") \/ Finish(at, "final")
  BY <1>1, <1>2, <1>4, FinishPlaces DEF Terminal
<1>5. CASE /\ slot[at].state \in {"DONE_PROMPT", "GENERATING"} /\ slot[at].n < MaxGen
           /\ slot' = [slot EXCEPT ![at].state = "GENERATING", ![at].n = @ + 1]
           /\ results' = Sent({slot[at].task}, "partial") /\ UNCHANGED queues
  <2>1. slot[at].task # NoTask /\ slot[at].n + 1 \in 0 .. MaxGen
    BY <1>2, <1>5, BoundsAssumption DEF Placement, InSlots
  <2>2. InSlots' /\ \A o \in Slots : slot'[o].task = slot[o].task
    BY <1>1, <1>2, <1>5, <2>1, SlotMoves DEF Placement, States
  <2>. QED BY <1>1, <1>2, <1>5, <2>2, QueuesSame, RoundPlaces
<1>. QED BY <1>3, <1>4, <1>5 DEF PostDecode

LEMMA InitPlaces == Init => Placement
<1> SUFFICES ASSUME Init PROVE Placement
  OBVIOUS
<1>1. Readers /\ Replies
  BY DEF Init, Readers, Replies
<1>2. Worker
  BY NoneWorks, BoundsAssumption DEF Init, Worker, Slots
<1>3. InSlots /\ \A s \in Slots : slot[s].task = NoTask
  BY BoundsAssumption DEF Init, InSlots, Idle, States
<1>4. InQueues /\ Waits = {} /\ ToCancel(queue) = {}
  BY DEF Init, InQueues, Waits, InDeferred, ToRun, ToCancel, OnceInQueue
<1>5. Pending = {} /\ Cancels = {}
  BY <1>4, NoneWorks DEF Init, Pending, Cancels
<1>. QED BY <1>1, <1>2, <1>3, <1>4, <1>5 DEF Placement, Unique, Posted

LEMMA StutterPlaces == ASSUME Placement, UNCHANGED vars PROVE Placement'
  BY QueuesSame, RoundPlaces
     DEF vars, http, resp, main, Fixed, Placement, Worker, InSlots, Ids

LEMMA NextPlaces == ASSUME Placement, [Next]_vars PROVE Placement'
<1>1. ASSUME NEW r \in Requests, PostTasks(r) \/ Reader(r) \/ Disconnect(r) PROVE Placement'
  BY <1>1, PostTasksPlaces, ReaderPlaces, PostCancelsPlaces DEF Reader
<1>2. CASE PopTask \/ SkipNextResponse \/ CancelTask \/ DeferTask \/ LaunchTask
           \/ RefuseTask \/ RefuseParent \/ AnswerTask
  BY <1>2, PopTaskPlaces, RefuseAnswerPlaces, CancelTaskPlaces, DeferTaskPlaces, LaunchTaskPlaces,
     RefuseParentPlaces
<1>3. CASE BeginUpdate \/ WakeUp \/ PreDecode \/ Decode \/ NothingToDecode \/ AbortAllSlots
           \/ AbortSlot \/ PostDecode
  BY <1>3, LoopPlaces, PreDecodePlaces, DecodePlaces, AbortSlotPlaces, PostDecodePlaces
<1>. QED BY <1>1, <1>2, <1>3, StutterPlaces DEF Next, MainLoop

-----------------------------------------------------------------------------
(* Answers.                                                                *)

LEMMA SentTo ==
  ASSUME Placement, NEW u \in Tasks, NEW k, results' = Sent({u}, k), NEW t \in Tasks
  PROVE  IF t = u /\ u \in waiting THEN results'[t] = Append(results[t], k) ELSE results'[t] = results[t]
  BY DEF Sent

LEMMA AppendedResult ==
  ASSUME Placement, NEW t \in Tasks, NEW k, results'[t] = Append(results[t], k)
  PROVE  /\ DOMAIN results'[t] = DOMAIN results[t] \cup {Len(results'[t])}
         /\ Len(results'[t]) \notin DOMAIN results[t] /\ results'[t][Len(results'[t])] = k
         /\ \A i \in DOMAIN results[t] : results'[t][i] = results[t][i]
         /\ results'[t] # <<>>
<1>1. results[t] \in Seq(Terminal \cup {"partial"})
  BY DEF Placement, Replies
<1>. QED BY <1>1

(* A step of the main loop keeps the answers when it answers no task but   *)
(* one that it has, and lets go of a task by answering it.                 *)
LEMMA AnswersKept ==
  ASSUME IInv, UNCHANGED Fixed, NEW u \in Tasks, NEW k \in Terminal \cup {"partial"},
         \/ results' = results
         \/ results' = Sent({u}, k) /\ Somewhere(u) /\ (k \in Terminal => ~ Somewhere(u)'),
         \A t \in Tasks : rd[t[1]] = "open" /\ Somewhere(t)' => Somewhere(t),
         \A t \in Tasks : rd[t[1]] = "open" /\ t \in Ids(t[1]) /\ Somewhere(t) /\ ~ Somewhere(t)'
           => /\ results' = Sent({u}, k) /\ u \in Ids(t[1])
              /\ k = "error" \/ (k = "final" /\ u = t)
  PROVE  Registered' /\ Answers'
<1>1. rd' = rd /\ got' = got /\ waiting' = waiting /\ shape' = shape /\ \A r : Ids(r)' = Ids(r)
  BY DEF Fixed, Ids
<1>2. Registered'
  BY <1>1 DEF IInv, Registered
<1>3. \A t \in Tasks : \/ results'[t] = results[t]
                       \/ t = u /\ results'[t] = Append(results[t], k) /\ t \in waiting
                          /\ results' = Sent({u}, k)
  BY SentTo DEF IInv
<1>4. NoOrphanResult'
  <2> SUFFICES ASSUME NEW t \in Tasks, results'[t] # <<>> PROVE rd[t[1]] = "open" /\ t \in waiting
    BY <1>1 DEF NoOrphanResult
  <2>. QED BY <1>3 DEF IInv, Registered, Answers, NoOrphanResult
<1>5. ASSUME NEW r \in Requests, rd[r] = "open", NEW t \in Ids(r)
      PROVE  /\ t \in got[r] => results'[t] = <<>>
             /\ \A i \in DOMAIN results'[t] : results'[t][i] \in Terminal => i = Len(results'[t])
             /\ Answered(t)' => ~ Somewhere(t)'
             /\ Somewhere(t)' \/ Answered(t)' \/ Failing(r)'
  <2>1. t \in Tasks /\ t[1] = r
    BY IdsAreTasks DEF Ids
  <2>2. /\ t \in got[r] => results[t] = <<>>
        /\ \A i \in DOMAIN results[t] : results[t][i] \in Terminal => i = Len(results[t])
        /\ Answered(t) => ~ Somewhere(t)
        /\ Somewhere(t) \/ Answered(t) \/ Failing(r)
    BY <1>5 DEF IInv, Answers
  <2>3. Failing(r) => Failing(r)'
    <3>1. ASSUME NEW j \in Ids(r), Queued(j, {"error"}) PROVE Queued(j, {"error"})'
      <4>1. j \in Tasks
        BY IdsAreTasks
      <4>2. CASE results'[j] = results[j]
        BY <3>1, <4>2 DEF Queued
      <4>3. CASE results'[j] = Append(results[j], k)
        BY <3>1, <4>1, <4>3, AppendedResult DEF Queued, IInv
      <4>. QED BY <1>3, <4>1, <4>2, <4>3
    <3>. QED BY <1>1, <3>1 DEF Failing
  <2>4. CASE results'[t] = results[t]
    <3>1. Answered(t)' <=> Answered(t)
      BY <1>1, <2>4 DEF Answered, Queued
    <3>2. Somewhere(t)' => Somewhere(t)
      BY <1>5, <2>1
    <3>3. CASE Somewhere(t) /\ ~ Somewhere(t)'
      <4>1. results' = Sent({u}, k) /\ u \in Ids(r) /\ (k = "error" \/ (k = "final" /\ u = t))
        BY <1>5, <2>1, <3>3
      <4>2. u \in Tasks /\ u \in waiting /\ results'[u] = Append(results[u], k)
        BY <1>5, <4>1, SentTo, IdsAreTasks DEF IInv, Registered
      <4>3. Queued(u, {k})'
        BY <4>2, AppendedResult DEF Queued, IInv
      <4>4. CASE k = "error"
        BY <1>1, <2>2, <2>4, <3>1, <3>3, <4>1, <4>3, <4>4 DEF Failing
      <4>5. CASE k = "final" /\ u = t
        BY <2>2, <2>4, <3>1, <3>3, <4>3, <4>5 DEF Answered, Queued, Terminal
      <4>. QED BY <4>1, <4>4, <4>5
    <3>. QED BY <2>2, <2>3, <2>4, <3>1, <3>2, <3>3
  <2>5. CASE t = u /\ results'[t] = Append(results[t], k) /\ results' = Sent({u}, k)
    <3>1. Somewhere(t) /\ ~ Answered(t) /\ (k \in Terminal => ~ Somewhere(t)')
      BY <2>2, <2>5, <1>3, <2>1, AppendedResult DEF IInv
    <3>2. /\ DOMAIN results'[t] = DOMAIN results[t] \cup {Len(results'[t])}
          /\ results'[t][Len(results'[t])] = k
          /\ \A i \in DOMAIN results[t] : results'[t][i] = results[t][i]
      BY <2>1, <2>5, AppendedResult DEF IInv
    <3>3. t \notin got[r] /\ \A i \in DOMAIN results[t] : results[t][i] \notin Terminal
      BY <2>1, <3>1 DEF Answered, Queued
    <3>4. \A i \in DOMAIN results'[t] : results'[t][i] \in Terminal => i = Len(results'[t])
      BY <3>2, <3>3
    <3>5. Answered(t)' <=> k \in Terminal
      BY <1>1, <2>1, <3>2, <3>3 DEF Answered, Queued
    <3>6. CASE k \in Terminal
      BY <3>1, <3>3, <3>4, <3>5, <3>6
    <3>7. CASE k \notin Terminal
      <4>1. Somewhere(t)'
        BY <1>5, <2>1, <3>1, <3>7 DEF Terminal
      <4>. QED BY <3>3, <3>4, <3>5, <3>7, <4>1
    <3>. QED BY <3>6, <3>7
  <2>. QED BY <1>3, <2>1, <2>4, <2>5
<1>. QED BY <1>1, <1>2, <1>4, <1>5 DEF Answers

(* A request starts: its tasks are somewhere, and have no result yet.      *)
LEMMA PostTasksAnswers == ASSUME IInv, NEW r \in Requests, PostTasks(r) PROVE Registered' /\ Answers'
<1>1. /\ rd' = [rd EXCEPT ![r] = "open"] /\ rd[r] = "new" /\ waiting' = waiting \cup Ids(r)
      /\ UNCHANGED <<shape, got, results, slot>> /\ \A q : Ids(q)' = Ids(q)
  BY DEF PostTasks, main, Ids
<1>2. \A q \in Requests : rd'[q] = IF q = r THEN "open" ELSE rd[q]
  BY <1>1 DEF IInv, Placement, Readers
<1>3. \A t \in Ids(r) : t \in Tasks /\ t[1] = r /\ Root(t) = <<r, 0>>
  BY IdsAreTasks DEF Ids, Root
<1>4. Registered'
  BY <1>1, <1>2, <1>3 DEF IInv, Registered, Placement, Replies, Tasks
<1>5. NoOrphanResult'
  BY <1>1, <1>2 DEF IInv, Answers, NoOrphanResult, Tasks
<1>6. Pending' = Pending \cup {<<r, 0>>}
  <2> DEFINE e == Entry("run", <<r, 0>>)
  <2>1. e \in Entries /\ RunOf(e) = {<<r, 0>>}
    BY DEF Entry, Entries, Tasks, RunOf
  <2> HIDE DEF e
  <2>2. ToRun(queue') = ToRun(queue) \cup {<<r, 0>>}
    BY <2>1, Appended DEF PostTasks, IInv, Placement, InQueues, e
  <2>. QED BY <2>2 DEF PostTasks, main, Pending, Waits, InDeferred
<1>7. ASSUME NEW q \in Requests, rd'[q] = "open", NEW t \in Ids(q)
      PROVE  /\ t \in got[q] => results[t] = <<>>
             /\ \A i \in DOMAIN results[t] : results[t][i] \in Terminal => i = Len(results[t])
             /\ Answered(t) => ~ Somewhere(t)'
             /\ Somewhere(t)' \/ Answered(t) \/ Failing(q)
  <2>1. CASE q = r
    <3>1. results[t] = <<>> /\ got[q] = {}
      BY <1>1, <1>3, <1>7, <2>1 DEF IInv, Answers, NoOrphanResult, Registered
    <3>2. Root(t) \in Pending' /\ ~ Answered(t)
      BY <1>3, <1>6, <1>7, <2>1, <3>1 DEF Answered, Queued
    <3>. QED BY <3>1, <3>2 DEF Somewhere
  <2>2. CASE q # r
    <3>1. t[1] = q /\ Root(t) # <<r, 0>>
      BY <1>7, <2>2 DEF Ids, Root
    <3>2. Somewhere(t)' <=> Somewhere(t)
      BY <1>1, <1>6, <3>1 DEF Somewhere, Root
    <3>. QED BY <1>2, <1>7, <2>2, <3>2 DEF IInv, Answers
  <2>. QED BY <2>1, <2>2
<1>. QED BY <1>1, <1>4, <1>5, <1>7 DEF Answers, Answered, Queued, Failing

(* A reader receives, or goes: the others keep what they have.             *)
LEMMA OthersKeep ==
  ASSUME IInv, NEW r \in Requests, UNCHANGED shape,
         \A q \in Requests \ {r} : rd'[q] = rd[q] /\ got'[q] = got[q],
         \A t \in Tasks : t[1] # r => results'[t] = results[t] /\ (Somewhere(t)' <=> Somewhere(t)),
         NEW q \in Requests \ {r}, rd'[q] = "open", NEW t \in Ids(q)
  PROVE  /\ t \in got'[q] => results'[t] = <<>>
         /\ \A i \in DOMAIN results'[t] : results'[t][i] \in Terminal => i = Len(results'[t])
         /\ Answered(t)' => ~ Somewhere(t)'
         /\ Somewhere(t)' \/ Answered(t)' \/ Failing(q)'
<1>1. \A j \in Ids(q) : j \in Tasks /\ j[1] = q
  BY IdsAreTasks DEF Ids
<1>2. Answered(t)' <=> Answered(t)
  BY <1>1 DEF Answered, Queued
<1>3. Failing(q)' <=> Failing(q)
  BY <1>1 DEF Failing, Queued, Ids
<1>. QED BY <1>1, <1>2, <1>3 DEF IInv, Answers

LEMMA GoneAnswers ==
  ASSUME IInv, NEW r \in Requests, UNCHANGED <<shape, got>>, rd' \in [Requests -> {"new", "open", "cancelling", "done"}],
         rd'[r] \in {"cancelling", "done"}, \A q \in Requests \ {r} : rd'[q] = rd[q],
         waiting' = waiting \ Ids(r),
         \A t \in Tasks : t[1] = r => results'[t] = <<>>,
         \A t \in Tasks : t[1] # r => results'[t] = results[t] /\ (Somewhere(t)' <=> Somewhere(t))
  PROVE  Registered' /\ Answers'
<1>1. \A q : Ids(q)' = Ids(q)
  BY DEF Ids
<1>2. \A q : \A t \in Ids(q) : t[1] = q
  BY DEF Ids
<1>3. Registered'
  <2>1. ASSUME NEW q \in Requests, rd'[q] = "open" PROVE Ids(q) \subseteq waiting'
    BY <1>2, <2>1 DEF IInv, Registered
  <2>2. ASSUME NEW t \in waiting' PROVE rd'[t[1]] = "open" /\ t \in Ids(t[1])
    <3>1. t \in waiting /\ t \in Tasks /\ t[1] \in Requests /\ t[1] # r
      BY <2>2 DEF IInv, Registered, Placement, Replies, Tasks
    <3>. QED BY <3>1 DEF IInv, Registered
  <2>. QED BY <1>1, <2>1, <2>2 DEF IInv, Registered
<1>4. NoOrphanResult'
  BY <1>2 DEF IInv, Answers, NoOrphanResult, Tasks
<1>5. ASSUME NEW q \in Requests, rd'[q] = "open", NEW t \in Ids(q)
      PROVE  /\ t \in got'[q] => results'[t] = <<>>
             /\ \A i \in DOMAIN results'[t] : results'[t][i] \in Terminal => i = Len(results'[t])
             /\ Answered(t)' => ~ Somewhere(t)'
             /\ Somewhere(t)' \/ Answered(t)' \/ Failing(q)'
  BY <1>5, OthersKeep
<1>. QED BY <1>1, <1>4, <1>3, <1>5 DEF Answers

LEMMA ReceiveAnswers ==
  ASSUME IInv, NEW r \in Requests, NEW u \in Ids(r), rd[r] = "open", results[u] # <<>>, Head(results[u]) # "error",
         results' = [results EXCEPT ![u] = Tail(@)],
         got' = IF Head(results[u]) = "final" THEN [got EXCEPT ![r] = @ \cup {u}] ELSE got,
         UNCHANGED <<rd, waiting, shape, queue, deferred, cur, slot>>
  PROVE  Registered' /\ Answers'
<1>1. u \in Tasks /\ u[1] = r /\ \A q : Ids(q)' = Ids(q)
  BY IdsAreTasks DEF Ids
<1>2. Registered'
  BY <1>1 DEF IInv, Registered, Placement, Replies
<1>3. \A t : Somewhere(t)' <=> Somewhere(t)
  BY DEF Somewhere, Pending, Waits, InDeferred
<1>4. results'[u] = Tail(results[u]) /\ \A t \in Tasks \ {u} : results'[t] = results[t]
  BY <1>1 DEF IInv, Placement, Replies
<1>5. NoOrphanResult'
  BY <1>1, <1>4 DEF IInv, Answers, NoOrphanResult, Registered
<1>6. /\ u \in got[r] => results[u] = <<>>
      /\ \A i \in DOMAIN results[u] : results[u][i] \in Terminal => i = Len(results[u])
      /\ Answered(u) => ~ Somewhere(u)
  BY DEF IInv, Answers
<1>7. \A q \in Requests \ {r} : got'[q] = got[q]
  BY DEF IInv, Placement, Replies
<1> DEFINE x == results[u]
           y == Tail(x)
           n == Len(y)
<1>8. /\ n \in Nat /\ DOMAIN y = 1 .. n /\ DOMAIN x = 1 .. n + 1 /\ Len(x) = n + 1 /\ Head(x) = x[1]
      /\ \A i \in 1 .. n : y[i] = x[i + 1]
  BY <1>1 DEF IInv, Placement, Replies
<1>9. x[1] = "final" => y = <<>>
  <2> SUFFICES ASSUME x[1] = "final" PROVE n = 0
    BY <1>1 DEF IInv, Placement, Replies
  <2> HIDE DEF n
  <2>1. 1 \in 1 .. n + 1 /\ "final" \in Terminal
    BY <1>8 DEF Terminal
  <2>2. 1 = n + 1
    BY <1>6, <1>8, <2>1
  <2>. QED BY <1>8, <2>2
<1>10. \A i \in DOMAIN y : y[i] \in Terminal => i = n
  BY <1>6, <1>8
<1>11. Answered(u)' <=> Answered(u)
  <2>1. CASE x[1] = "final"
    <3>1. u \in got'[r]
      BY <1>1, <1>8, <2>1 DEF IInv, Placement, Replies
    <3>2. Queued(u, Terminal)
      BY <1>8, <2>1 DEF Queued, Terminal
    <3>. QED BY <1>1, <3>1, <3>2 DEF Answered
  <2>2. CASE x[1] # "final"
    <3>1. got' = got
      BY <1>8, <2>2
    <3>2. x[1] \notin Terminal
      BY <1>8, <2>2 DEF Terminal
    <3>3. Queued(u, Terminal) <=> Queued(u, Terminal)'
      <4>1. ASSUME NEW i \in DOMAIN x, x[i] \in Terminal PROVE i - 1 \in DOMAIN y /\ y[i - 1] \in Terminal
        <5>1. i # 1
          BY <3>2, <4>1
        <5>2. i - 1 \in 1 .. n /\ (i - 1) + 1 = i
          BY <1>8, <5>1
        <5>. QED BY <1>8, <4>1, <5>2
      <4>2. ASSUME NEW i \in DOMAIN y, y[i] \in Terminal PROVE i + 1 \in DOMAIN x /\ x[i + 1] \in Terminal
        BY <1>8, <4>2
      <4>. QED BY <1>4, <4>1, <4>2 DEF Queued
    <3>. QED BY <3>1, <3>3 DEF Answered
  <2>. QED BY <2>1, <2>2
<1>12. Failing(r) => Failing(r)'
  <2>1. Queued(u, {"error"}) => Queued(u, {"error"})'
    <3>1. ASSUME NEW i \in DOMAIN x, x[i] = "error" PROVE i - 1 \in DOMAIN y /\ y[i - 1] = "error"
      <4>1. i # 1
        BY <1>8, <3>1
      <4>2. i - 1 \in 1 .. n /\ (i - 1) + 1 = i
        BY <1>8, <4>1
      <4>. QED BY <1>8, <3>1, <4>2
    <3>. QED BY <1>4, <3>1 DEF Queued
  <2>2. \A j \in Ids(r) \ {u} : Queued(j, {"error"}) => Queued(j, {"error"})'
    BY <1>4, IdsAreTasks DEF Queued
  <2>. QED BY <1>1, <2>1, <2>2 DEF Failing
<1> HIDE DEF x, y, n
<1>13. ASSUME NEW t \in Ids(r)
       PROVE  /\ t \in got'[r] => results'[t] = <<>>
              /\ \A i \in DOMAIN results'[t] : results'[t][i] \in Terminal => i = Len(results'[t])
              /\ Answered(t)' => ~ Somewhere(t)'
              /\ Somewhere(t)' \/ Answered(t)' \/ Failing(r)'
  <2>1. /\ t \in got[r] => results[t] = <<>>
        /\ \A i \in DOMAIN results[t] : results[t][i] \in Terminal => i = Len(results[t])
        /\ Answered(t) => ~ Somewhere(t)
        /\ Somewhere(t) \/ Answered(t) \/ Failing(r)
    BY DEF IInv, Answers
  <2>2. CASE t = u
    <3>1. u \in got'[r] => results'[u] = <<>>
      BY <1>4, <1>6, <1>8, <1>9 DEF x, y
    <3>. QED BY <1>3, <1>4, <1>6, <1>10, <1>11, <1>12, <2>1, <2>2, <3>1 DEF x, y, n
  <2>3. CASE t # u
    <3>1. results'[t] = results[t] /\ (t \in got'[r] <=> t \in got[r]) /\ t[1] = r
      BY <1>1, <1>4, <2>3, IdsAreTasks DEF IInv, Placement, Replies, Ids
    <3>2. Answered(t)' <=> Answered(t)
      BY <3>1 DEF Answered, Queued
    <3>. QED BY <1>3, <1>12, <2>1, <3>1, <3>2
  <2>. QED BY <2>2, <2>3
<1>14. ASSUME NEW q \in Requests \ {r}, rd'[q] = "open", NEW t \in Ids(q)
       PROVE  /\ t \in got'[q] => results'[t] = <<>>
              /\ \A i \in DOMAIN results'[t] : results'[t][i] \in Terminal => i = Len(results'[t])
              /\ Answered(t)' => ~ Somewhere(t)'
              /\ Somewhere(t)' \/ Answered(t)' \/ Failing(q)'
  <2>1. \A j \in Tasks : j[1] # r => results'[j] = results[j]
    BY <1>1, <1>4
  <2>. QED BY <1>3, <1>7, <1>14, <2>1, OthersKeep
<1>. QED BY <1>1, <1>2, <1>5, <1>13, <1>14 DEF Answers

LEMMA ReaderAnswers ==
  ASSUME IInv, NEW r \in Requests, Receive(r) \/ Disconnect(r) \/ Close(r) PROVE Registered' /\ Answers'
<1>1. UNCHANGED <<shape, queue, deferred, cur, slot>> /\ rd[r] = "open"
  BY DEF Receive, Disconnect, Close, queues, main
<1>2. \A t : Somewhere(t)' <=> Somewhere(t)
  BY <1>1 DEF Somewhere, Pending, Waits, InDeferred
<1>3. CASE Forget(r) /\ UNCHANGED got
  <2>1. /\ rd' \in [Requests -> {"new", "open", "cancelling", "done"}] /\ rd'[r] = "cancelling"
        /\ \A q \in Requests \ {r} : rd'[q] = rd[q]
    BY <1>3 DEF Forget, IInv, Placement, Readers
  <2>2. \A t \in Tasks : results'[t] = IF t \in Ids(r) THEN <<>> ELSE results[t]
    BY <1>3 DEF Forget
  <2>3. \A t \in Tasks : t[1] = r => results'[t] = <<>>
    BY <2>2 DEF IInv, Answers, NoOrphanResult, Registered
  <2>4. \A t \in Tasks : t[1] # r => results'[t] = results[t]
    BY <2>2 DEF Ids
  <2>. QED BY <1>1, <1>2, <1>3, <2>1, <2>3, <2>4, GoneAnswers DEF Forget
<1>4. CASE Close(r)
  <2>1. /\ rd' \in [Requests -> {"new", "open", "cancelling", "done"}] /\ rd'[r] = "done"
        /\ \A q \in Requests \ {r} : rd'[q] = rd[q]
        /\ UNCHANGED <<got, results>> /\ waiting' = waiting \ Ids(r)
    BY <1>4 DEF Close, IInv, Placement, Readers
  <2>2. \A t \in Tasks : t[1] = r => results[t] = <<>>
    <3>1. \A t \in Ids(r) : results[t] = <<>>
      BY <1>1, <1>4 DEF Close, IInv, Answers
    <3>. QED BY <3>1 DEF IInv, Answers, NoOrphanResult, Registered
  <2>. QED BY <1>1, <1>2, <2>1, <2>2, GoneAnswers
<1>5. ASSUME NEW u \in Ids(r), results[u] # <<>>, Head(results[u]) # "error",
             results' = [results EXCEPT ![u] = Tail(@)],
             got' = IF Head(results[u]) = "final" THEN [got EXCEPT ![r] = @ \cup {u}] ELSE got,
             UNCHANGED <<rd, waiting>>
      PROVE  Registered' /\ Answers'
  BY <1>1, <1>5, ReceiveAnswers
<1>. QED BY <1>3, <1>4, <1>5 DEF Receive, Disconnect

LEMMA PostCancelsAnswers == ASSUME IInv, NEW r \in Requests, PostCancels(r) PROVE Registered' /\ Answers'
<1>1. UNCHANGED <<shape, got, waiting, results, cur, slot>> /\ rd[r] = "cancelling"
  BY DEF PostCancels, resp, main
<1>2. /\ rd' \in [Requests -> {"new", "open", "cancelling", "done"}] /\ rd'[r] = "done"
      /\ \A q \in Requests \ {r} : rd'[q] = rd[q]
  BY DEF PostCancels, IInv, Placement, Readers
<1>3. waiting' = waiting \ Ids(r)
  BY <1>1 DEF IInv, Registered, Ids
<1>4. \A t \in Tasks : t[1] = r => results[t] = <<>>
  BY <1>1 DEF IInv, Answers, NoOrphanResult
<1>5. Waits' = Waits \ Ids(r)
  BY PostCancelsWaits DEF IInv
<1>6. ASSUME NEW t \in Tasks, t[1] # r PROVE Somewhere(t)' <=> Somewhere(t)
  <2>1. Root(t) \notin Ids(r)
    BY <1>6 DEF Root, Ids
  <2>. QED BY <1>1, <1>5, <2>1 DEF Somewhere, Pending, Root
<1>. QED BY <1>1, <1>2, <1>3, <1>4, <1>6, GoneAnswers

-----------------------------------------------------------------------------
(* Answers: the main loop.                                                 *)

(* While it is in the hands of the main loop a task is somewhere, and when *)
(* the loop is done with it, nowhere.                                      *)
LEMMA TaskInHand ==
  ASSUME Placement, cur.op = "run"
  PROVE  /\ cur.task \in Tasks /\ cur.task = <<cur.task[1], 0>> /\ cur.task[1] \in Requests
         /\ Root(cur.task) = cur.task /\ cur.task \in Pending /\ cur.task \notin Waits
         /\ RunOf(cur) = {cur.task}
         /\ \A s \in Slots : slot[s].task # NoTask => slot[s].task[1] # cur.task[1]
<1>1. RunOf(cur) = {cur.task} /\ cur.task \in Roots
  BY DEF Placement, Unique, Pending, RunOf
<1>2. cur.task \in Tasks /\ cur.task = <<cur.task[1], 0>> /\ cur.task[1] \in Requests
  BY <1>1 DEF Roots, Tasks
<1>3. Root(cur.task) = cur.task /\ cur.task \in Pending /\ cur.task \notin Waits
  BY <1>1, <1>2 DEF Root, Pending, Placement, Unique
<1>4. \A s \in Slots : slot[s].task # NoTask => slot[s].task[1] # cur.task[1]
  BY <1>2, <1>3 DEF Placement, Unique, Root
<1>. QED BY <1>1, <1>2, <1>3, <1>4

(* The loop is done with its task, and no slot has it.                     *)
LEMMA HandDone ==
  ASSUME Placement, cur.op = "run", Waits' = Waits, cur' = None,
         \A s \in Slots : slot'[s].task = slot[s].task
  PROVE  \A t \in Tasks : /\ t[1] = cur.task[1] => Somewhere(t) /\ ~ Somewhere(t)'
                          /\ t[1] # cur.task[1] => (Somewhere(t)' <=> Somewhere(t))
<1>1. Pending' = Pending \ {cur.task}
  BY TaskInHand, NoneWorks DEF Pending
<1>2. ASSUME NEW t \in Tasks, t[1] = cur.task[1] PROVE Somewhere(t) /\ ~ Somewhere(t)'
  <2>1. Root(t) = cur.task
    BY <1>2, TaskInHand DEF Root
  <2>2. \A s \in Slots : slot[s].task # t
    BY <1>2, TaskInHand, NoTaskAssumption
  <2>. QED BY <1>1, <2>1, <2>2, TaskInHand DEF Somewhere
<1>3. ASSUME NEW t \in Tasks, t[1] # cur.task[1] PROVE Somewhere(t)' <=> Somewhere(t)
  <2>1. Root(t) # cur.task
    BY <1>3, TaskInHand DEF Root
  <2>. QED BY <1>1, <2>1 DEF Somewhere, Root
<1>. QED BY <1>2, <1>3

(* The step sends a last result to u, which is where it was no more.       *)
AnswersOne(u, k) ==
  /\ results' = Sent({u}, k) /\ Somewhere(u) /\ ~ Somewhere(u)'
  /\ \A t \in Tasks : Somewhere(t)' => Somewhere(t)
  /\ \A t \in Tasks : t \in Ids(t[1]) /\ Somewhere(t) /\ ~ Somewhere(t)'
       => u \in Ids(t[1]) /\ (k = "error" \/ (k = "final" /\ u = t))

LEMMA AnswersOneKept ==
  ASSUME IInv, UNCHANGED Fixed, NEW u \in Tasks, NEW k \in Terminal, AnswersOne(u, k)
  PROVE  Registered' /\ Answers'
<1>1. results' = Sent({u}, k) /\ Somewhere(u) /\ ~ Somewhere(u)'
  BY DEF AnswersOne
<1>2. \A t \in Tasks : Somewhere(t)' => Somewhere(t)
  BY DEF AnswersOne
<1>3. \A t \in Tasks : t \in Ids(t[1]) /\ Somewhere(t) /\ ~ Somewhere(t)'
        => u \in Ids(t[1]) /\ (k = "error" \/ (k = "final" /\ u = t))
  BY DEF AnswersOne
<1>. QED BY <1>1, <1>2, <1>3, AnswersKept

(* Nothing changes for the answers.                                        *)
LEMMA NothingAnswered ==
  ASSUME IInv, UNCHANGED Fixed, UNCHANGED results,
         \A t \in Tasks : rd[t[1]] = "open" => (Somewhere(t)' => Somewhere(t)),
         \A t \in Tasks : rd[t[1]] = "open" /\ t \in Ids(t[1]) => (Somewhere(t) => Somewhere(t)')
  PROVE  Registered' /\ Answers'
<1>1. CASE Requests = {}
  BY <1>1 DEF Fixed, IInv, Registered, Answers, NoOrphanResult, Placement, Replies, Tasks, Ids
<1>2. CASE Requests # {}
  <2>1. PICK r \in Requests : TRUE
    BY <1>2
  <2>2. <<r, 0>> \in Tasks /\ "final" \in Terminal \cup {"partial"}
    BY DEF Tasks, Terminal
  <2>3. \A t \in Tasks : ~ (rd[t[1]] = "open" /\ t \in Ids(t[1]) /\ Somewhere(t) /\ ~ Somewhere(t)')
    OBVIOUS
  <2>. QED BY <2>2, <2>3, AnswersKept
<1>. QED BY <1>1, <1>2

LEMMA TaskStepAnswers ==
  ASSUME IInv, PopTask \/ SkipNextResponse \/ DeferTask PROVE Registered' /\ Answers'
<1>1. UNCHANGED Fixed /\ UNCHANGED <<results, slot>>
  BY DEF PopTask, SkipNextResponse, DeferTask, http, resp, Fixed
<1>2. Pending' = Pending
  <2>1. CASE SkipNextResponse
    BY <2>1, NoneWorks
       DEF SkipNextResponse, Handling, Handled, queues, Pending, Waits, InDeferred, RunOf
  <2>. QED BY <2>1, PopTaskPlaces, DeferTaskPlaces DEF IInv
<1>3. \A t : Somewhere(t)' <=> Somewhere(t)
  BY <1>1, <1>2 DEF Somewhere
<1>. QED BY <1>1, <1>3, NothingAnswered

LEMMA CancelTaskAnswers == ASSUME IInv, CancelTask PROVE Registered' /\ Answers'
<1>1. /\ cur.op = "cancel" /\ cur' = None /\ UNCHANGED Fixed /\ UNCHANGED <<rd, shape, results>>
      /\ cur.task \in Tasks /\ rd[cur.task[1]] = "done" /\ RunOf(cur) = {}
  BY DEF CancelTask, Handling, Handled, http, resp, Fixed, IInv, Placement, Posted, Cancels, CancelOf, RunOf
<1>2. Waits' = Waits /\ \A s \in Slots : slot'[s] = slot[s] \/ (slot[s].task = cur.task /\ slot'[s].task = NoTask)
  <2>1. CASE UNCHANGED <<queues, slot>>
    BY <2>1 DEF queues, Waits, InDeferred
  <2>2. ASSUME NEW s \in Processing, slot[s].task = cur.task, Release(s)
        PROVE  Waits' = Waits /\ \A o \in Slots : slot'[o] = slot[o] \/ (slot[o].task = cur.task /\ slot'[o].task = NoTask)
    BY <1>1, <2>2, ReleaseMoves, NoneWorks DEF Processing, Idle, IInv
  <2>. QED BY <2>1, <2>2 DEF CancelTask
<1>3. Pending' = Pending
  BY <1>1, <1>2, NoneWorks DEF Pending
<1>4. ASSUME NEW t \in Tasks, rd[t[1]] = "open" PROVE Somewhere(t)' <=> Somewhere(t)
  <2>1. t # cur.task /\ t # NoTask
    BY <1>1, <1>4, NoTaskAssumption
  <2>. QED BY <1>2, <1>3, <2>1 DEF Somewhere, Root
<1>. QED BY <1>1, <1>4, NothingAnswered

LEMMA LaunchTaskAnswers == ASSUME IInv, LaunchTask PROVE Registered' /\ Answers'
<1> DEFINE t == cur.task
<1>1. cur.op = "run" /\ cur' = None /\ UNCHANGED Fixed /\ UNCHANGED <<shape, results>> /\ Waits' = Waits
  BY DEF LaunchTask, Handling, Handled, http, resp, Fixed, queues, Waits, InDeferred
<1>2. PICK p \in Placed(t) :
           slot' = [s \in Slots |-> IF s = p[1] THEN Launched(t)
                                    ELSE IF s = p[2] THEN Launched(<<t[1], 1>>) ELSE slot[s]]
  BY DEF LaunchTask
<1>3. /\ t \in Tasks /\ t = <<t[1], 0>> /\ t[1] \in Requests /\ Root(t) = t /\ t \in Pending /\ t \notin Waits
      /\ \A s \in Slots : slot[s].task # NoTask => slot[s].task[1] # t[1]
  BY <1>1, TaskInHand DEF IInv
<1>4. /\ p[1] \in Slots /\ p[2] \in Slots /\ (p[1] = p[2]) = (Kind(t) # "pair")
      /\ slot[p[1]].task = NoTask /\ slot[p[2]].task = NoTask
  BY DEF Placed, Available, Free, Processing, IInv, Placement, InSlots
<1> HIDE DEF t
<1>5. Launched(t).task = t /\ Launched(<<t[1], 1>>).task = <<t[1], 1>>
  BY DEF Launched
<1>6. Pending' = Waits /\ Pending = Waits \cup {t}
  BY <1>1, NoneWorks, TaskInHand DEF Pending, IInv, t
<1>7. ASSUME NEW u \in Tasks, Somewhere(u)' PROVE Somewhere(u)
  <2>1. CASE Root(u) \in Pending'
    BY <1>6, <2>1 DEF Somewhere
  <2>2. ASSUME NEW s \in Slots, slot'[s].task = u PROVE Somewhere(u)
    <3>1. \/ u = t \/ u = <<t[1], 1>> \/ slot[s].task = u
      BY <1>2, <1>5, <2>2
    <3>2. u = t \/ u = <<t[1], 1>> => Root(u) \in Pending
      BY <1>3 DEF Root
    <3>. QED BY <3>1, <3>2 DEF Somewhere
  <2>. QED BY <1>7, <2>1, <2>2 DEF Somewhere, Root
<1>8. ASSUME NEW u \in Tasks, u \in Ids(u[1]), Somewhere(u) PROVE Somewhere(u)'
  <2>1. CASE Root(u) \in Waits
    BY <1>6, <2>1 DEF Somewhere, Root
  <2>2. CASE Root(u) = t
    <3>1. u[1] = t[1] /\ (u = t \/ u = <<t[1], 1>>)
      BY <1>3, <2>2 DEF Root, Tasks
    <3>2. u # t => p[1] # p[2]
      BY <1>3, <1>4, <1>8, <3>1 DEF Ids, Kind
    <3>3. slot'[p[1]].task = u \/ slot'[p[2]].task = u
      BY <1>2, <1>4, <1>5, <3>1, <3>2
    <3>. QED BY <1>4, <3>3 DEF Somewhere
  <2>3. ASSUME NEW s \in Slots, slot[s].task = u PROVE Somewhere(u)'
    <3>1. s # p[1] /\ s # p[2]
      BY <1>4, <2>3, NoTaskAssumption
    <3>2. slot'[s] = slot[s]
      BY <1>2, <3>1
    <3>. QED BY <2>3, <3>2 DEF Somewhere
  <2>. QED BY <1>6, <1>8, <2>1, <2>2, <2>3 DEF Somewhere
<1>. QED BY <1>1, <1>7, <1>8, NothingAnswered

LEMMA RefuseAnswers == ASSUME IInv, RefuseTask \/ RefuseParent PROVE Registered' /\ Answers'
<1> DEFINE t == cur.task
<1>1. cur.op = "run" /\ cur' = None /\ UNCHANGED Fixed /\ UNCHANGED <<rd, shape>>
  BY DEF RefuseTask, RefuseParent, Handling, Handled, http, Fixed
<1>2. t \in Tasks /\ t = <<t[1], 0>> /\ t[1] \in Requests
  BY <1>1, TaskInHand DEF IInv
<1>3. PICK u \in Ids(t[1]) : results' = Sent({u}, "error")
  BY <1>2 DEF RefuseTask, RefuseParent, Ids, Kind
<1>4. u \in Tasks /\ u[1] = t[1]
  BY <1>2, IdsAreTasks DEF Ids
<1>5. Waits' = Waits /\ \A s \in Slots : slot'[s].task = slot[s].task
  <2>1. CASE RefuseTask
    BY <2>1 DEF RefuseTask, queues, Waits, InDeferred
  <2>2. CASE RefuseParent
    <3>1. PICK s \in Free : Release(s)
      BY <2>2 DEF RefuseParent, Placed
    <3>2. s \in Slots /\ slot[s].task = NoTask
      BY DEF Free, Processing, IInv, Placement, InSlots
    <3>. QED BY <1>1, <3>1, <3>2, ReleaseMoves, NoneWorks DEF Idle, IInv
  <2>. QED BY <2>1, <2>2
<1>6. \A x \in Tasks : /\ x[1] = t[1] => (Somewhere(x) /\ ~ Somewhere(x)')
                       /\ x[1] # t[1] => (Somewhere(x)' <=> Somewhere(x))
  BY <1>1, <1>5, HandDone DEF IInv
<1> HIDE DEF t
<1>7. Somewhere(u) /\ ~ Somewhere(u)'
  BY <1>4, <1>6 DEF Somewhere, Root
<1>8. ASSUME NEW x \in Tasks PROVE Somewhere(x)' => Somewhere(x)
  BY <1>6 DEF Somewhere, Root
<1>9. ASSUME NEW x \in Tasks, Somewhere(x), ~ Somewhere(x)' PROVE u \in Ids(x[1])
  <2>1. x[1] = t[1]
    BY <1>6, <1>9
  <2>. QED BY <2>1
<1>10. AnswersOne(u, "error")
  BY <1>3, <1>7, <1>8, <1>9 DEF AnswersOne
<1>11. "error" \in Terminal
  BY DEF Terminal
<1>. QED BY <1>1, <1>4, <1>10, <1>11, AnswersOneKept

LEMMA AnswerTaskAnswers == ASSUME IInv, AnswerTask PROVE Registered' /\ Answers'
<1>0. PICK t : t = cur.task
  OBVIOUS
<1>1. cur.op = "run" /\ cur' = None /\ UNCHANGED Fixed /\ Waits' = Waits /\ slot' = slot
  BY DEF AnswerTask, Handling, Handled, http, Fixed, queues, Waits, InDeferred
<1>2. t \in Tasks /\ t = <<t[1], 0>> /\ t[1] \in Requests
  BY <1>0, <1>1, TaskInHand DEF IInv
<1>3. Ids(t[1]) = {t}
  BY <1>0, <1>2 DEF AnswerTask, Ids, Kind
<1>4. PICK k \in Terminal : results' = Sent({t}, k)
  BY <1>0 DEF AnswerTask, Terminal
<1>5. \A x \in Tasks : /\ x[1] = t[1] => (Somewhere(x) /\ ~ Somewhere(x)')
                       /\ x[1] # t[1] => (Somewhere(x)' <=> Somewhere(x))
  BY <1>0, <1>1, HandDone DEF IInv
<1>6. Somewhere(t) /\ ~ Somewhere(t)'
  BY <1>2, <1>5 DEF Somewhere, Root
<1>7. ASSUME NEW x \in Tasks PROVE Somewhere(x)' => Somewhere(x)
  BY <1>5 DEF Somewhere, Root
<1>8. ASSUME NEW x \in Tasks, x \in Ids(x[1]), Somewhere(x), ~ Somewhere(x)'
      PROVE  t \in Ids(x[1]) /\ t = x
  <2>1. x[1] = t[1]
    BY <1>5, <1>8
  <2>2. x \in Ids(t[1])
    BY <1>8, <2>1
  <2>. QED BY <1>3, <2>1, <2>2
<1>9. k = "final" \/ k = "error"
  BY <1>4 DEF Terminal
<1>10. AnswersOne(t, k)
  BY <1>4, <1>6, <1>7, <1>8, <1>9 DEF AnswersOne
<1>. QED BY <1>1, <1>2, <1>4, <1>10, AnswersOneKept

LEMMA FinishAnswers ==
  ASSUME IInv, NEW s \in Slots, slot[s].task # NoTask, NEW k \in Terminal, Finish(s, k),
         UNCHANGED http, UNCHANGED cur
  PROVE  Registered' /\ Answers'
<1>0. PICK u : u = slot[s].task
  OBVIOUS
<1>1. UNCHANGED Fixed /\ UNCHANGED <<rd, shape>> /\ results' = Sent({u}, k) /\ Release(s)
  BY <1>0 DEF Finish, http, Fixed
<1>2. u \in Tasks /\ u \in Ids(u[1])
  BY <1>0, IdsAreTasks DEF IInv, Placement, InSlots
<1>3. Waits' = Waits /\ slot'[s] = Idle /\ \A o \in Slots \ {s} : slot'[o] = slot[o]
  BY <1>1, ReleaseMoves DEF IInv
<1>4. Pending' = Pending /\ Root(u) \notin Pending
  BY <1>0, <1>3 DEF Pending, IInv, Placement, Unique
<1>5. Somewhere(u) /\ ~ Somewhere(u)'
  <2>1. \A o \in Slots \ {s} : slot[o].task # u
    BY <1>0, <1>2, NoTaskAssumption DEF IInv, Placement, Unique
  <2>2. ASSUME NEW o \in Slots PROVE slot'[o].task # u
    <3>1. CASE o = s
      BY <1>2, <1>3, <3>1, NoTaskAssumption DEF Idle
    <3>2. CASE o # s
      BY <1>3, <2>1, <3>2
    <3>. QED BY <3>1, <3>2
  <2>3. Somewhere(u)
    BY <1>0 DEF Somewhere
  <2>4. ~ Somewhere(u)'
    BY <1>4, <2>2 DEF Somewhere, Root
  <2>. QED BY <2>3, <2>4
<1>6. ASSUME NEW t \in Tasks, t # u PROVE Somewhere(t)' <=> Somewhere(t)
  BY <1>0, <1>3, <1>4, <1>6, NoTaskAssumption DEF Somewhere, Idle, Root
<1>7. AnswersOne(u, k)
  BY <1>1, <1>2, <1>5, <1>6 DEF AnswersOne, Terminal
<1>. QED BY <1>1, <1>2, <1>7, AnswersOneKept

LEMMA RoundAnswers ==
  ASSUME IInv,
         BeginUpdate \/ WakeUp \/ PreDecode \/ Decode \/ NothingToDecode \/ AbortAllSlots \/ AbortSlot \/ PostDecode
  PROVE  Registered' /\ Answers'
<1>1. UNCHANGED http /\ UNCHANGED Fixed /\ UNCHANGED cur /\ at \in Slots
  BY DEF BeginUpdate, WakeUp, PreDecode, Decode, NothingToDecode, AbortAllSlots, AbortSlot, PostDecode,
         http, resp, Fixed, Finish, Move, IInv, Placement, Worker
<1>2. ASSUME slot[at].task # NoTask, Finish(at, "error") \/ Finish(at, "final") PROVE Registered' /\ Answers'
  BY <1>1, <1>2, FinishAnswers DEF Terminal
<1>3. ASSUME UNCHANGED results, Waits' = Waits, \A s \in Slots : slot'[s].task = slot[s].task
      PROVE  Registered' /\ Answers'
  <2>1. \A t : Somewhere(t)' <=> Somewhere(t)
    BY <1>1, <1>3 DEF Somewhere, Pending
  <2>. QED BY <1>1, <1>3, <2>1, NothingAnswered
<1>4. ASSUME UNCHANGED queues PROVE Waits' = Waits
  BY <1>4 DEF queues, Waits, InDeferred
<1>5. CASE BeginUpdate \/ WakeUp \/ NothingToDecode \/ AbortAllSlots
  <2>1. UNCHANGED results /\ slot' = slot
    BY <1>5 DEF BeginUpdate, WakeUp, NothingToDecode, AbortAllSlots, resp
  <2>2. Waits' = Waits
    <3>1. CASE queue' = <<NextResponse>> /\ queue = <<>> /\ deferred' = deferred
      BY <3>1 DEF NextResponse, Entry, Waits, ToRun, InDeferred
    <3>. QED BY <1>4, <1>5, <3>1 DEF BeginUpdate, WakeUp, NothingToDecode, AbortAllSlots, queues
  <2>. QED BY <1>3, <2>1, <2>2
<1>6. CASE PreDecode
  <2>1. CASE UNCHANGED <<resp, queues, slot>>
    BY <1>3, <1>4, <2>1 DEF resp
  <2>2. CASE Move(at, "PROCESSING_PROMPT") \/ Move(at, "DONE_PROMPT")
    <3>1. UNCHANGED results /\ Waits' = Waits
      BY <1>4, <2>2 DEF Move, resp
    <3>2. \A s \in Slots : slot'[s].task = slot[s].task
      BY <2>2 DEF Move, IInv, Placement, InSlots
    <3>. QED BY <1>3, <3>1, <3>2
  <2>3. CASE (Finish(at, "error") \/ Finish(at, "final")) /\ slot[at].state # "IDLE"
    <3>1. slot[at].task # NoTask
      BY <1>1, <2>3 DEF IInv, Placement, InSlots
    <3>. QED BY <1>2, <2>3, <3>1
  <2>. QED BY <1>6, <2>1, <2>2, <2>3 DEF PreDecode
<1>7. CASE Decode
  <2>1. \A s \in Slots : slot'[s].task = slot[s].task
    BY <1>7 DEF Decode, IInv, Placement, InSlots
  <2>. QED BY <1>3, <1>4, <1>7, <2>1 DEF Decode, resp
<1>8. CASE AbortSlot
  <2>1. CASE UNCHANGED <<resp, queues, slot>>
    BY <1>3, <1>4, <2>1 DEF resp
  <2>2. CASE Finish(at, "error") /\ at \in Processing
    <3>1. slot[at].task # NoTask
      BY <1>1, <2>2 DEF IInv, Placement, InSlots, Processing
    <3>. QED BY <1>2, <2>2, <3>1
  <2>. QED BY <1>8, <2>1, <2>2 DEF AbortSlot
<1>9. CASE PostDecode
  <2>1. CASE UNCHANGED <<resp, queues, slot>>
    BY <1>3, <1>4, <2>1 DEF resp
  <2>2. CASE slot[at].state \in {"DONE_PROMPT", "GENERATING"}
    <3>1. slot[at].task # NoTask
      BY <1>1, <2>2 DEF IInv, Placement, InSlots
    <3>2. CASE Finish(at, "error") \/ Finish(at, "final")
      BY <1>2, <3>1, <3>2
    <3>3. CASE /\ slot' = [slot EXCEPT ![at].state = "GENERATING", ![at].n = @ + 1]
               /\ results' = Sent({slot[at].task}, "partial") /\ UNCHANGED queues
      <4>1. \A s \in Slots : slot'[s].task = slot[s].task
        BY <3>3 DEF IInv, Placement, InSlots
      <4>2. \A t : Somewhere(t)' <=> Somewhere(t)
        BY <1>1, <1>4, <3>3, <4>1 DEF Somewhere, Pending
      <4>3. PICK u \in Tasks : u = slot[at].task /\ Somewhere(u)
        BY <1>1, <3>1 DEF IInv, Placement, InSlots, Somewhere
      <4>. QED BY <1>1, <3>3, <4>2, <4>3, AnswersKept DEF Terminal
    <3>. QED BY <1>9, <2>1, <3>2, <3>3 DEF PostDecode
  <2>. QED BY <1>9, <2>1, <2>2 DEF PostDecode
<1>. QED BY <1>5, <1>6, <1>7, <1>8, <1>9

LEMMA InitInv == Init => IInv
<1> SUFFICES ASSUME Init PROVE IInv
  OBVIOUS
<1>1. Registered /\ Answers
  BY DEF Init, Registered, Answers, NoOrphanResult, Tasks
<1>. QED BY <1>1, InitPlaces DEF IInv

LEMMA NextInv == IInv /\ [Next]_vars => IInv'
<1> SUFFICES ASSUME IInv, [Next]_vars PROVE IInv'
  OBVIOUS
<1>1. Placement'
  BY NextPlaces DEF IInv
<1>2. ASSUME NEW r \in Requests, PostTasks(r) \/ Reader(r) \/ Disconnect(r) PROVE Registered' /\ Answers'
  BY <1>2, PostTasksAnswers, ReaderAnswers, PostCancelsAnswers DEF Reader
<1>3. ASSUME \/ PopTask \/ SkipNextResponse \/ CancelTask \/ DeferTask \/ LaunchTask
             \/ RefuseTask \/ RefuseParent \/ AnswerTask
      PROVE  Registered' /\ Answers'
  BY <1>3, TaskStepAnswers, CancelTaskAnswers, LaunchTaskAnswers, RefuseAnswers, AnswerTaskAnswers
<1>4. ASSUME \/ BeginUpdate \/ WakeUp \/ PreDecode \/ Decode \/ NothingToDecode \/ AbortAllSlots
             \/ AbortSlot \/ PostDecode
      PROVE  Registered' /\ Answers'
  BY <1>4, RoundAnswers
<1>5. ASSUME UNCHANGED vars PROVE Registered' /\ Answers'
  <2>1. UNCHANGED Fixed /\ UNCHANGED <<results, queue, deferred, cur, slot>>
    BY <1>5 DEF vars, http, resp, queues, main, Fixed
  <2>2. \A t : Somewhere(t)' <=> Somewhere(t)
    BY <2>1 DEF Somewhere, Pending, Waits, InDeferred
  <2>. QED BY <2>1, <2>2, NothingAnswered
<1>. QED BY <1>1, <1>2, <1>3, <1>4, <1>5 DEF IInv, Next, MainLoop

LEMMA InvHolds == Spec => []IInv
  BY InitInv, NextInv, PTL DEF Spec

-----------------------------------------------------------------------------
(* What the invariant says of the places of a task.                        *)

(* A task that waits, or is in hand, is its own root or inside it.         *)
LEMMA CarriesRoot ==
  ASSUME Placement, NEW p \in Pending, NEW t \in Tasks
  PROVE  Carries(p, t) <=> p = Root(t)
<1>1. p # NoTask /\ p = <<p[1], 0>> /\ p[1] \in Requests
  BY NoTaskAssumption DEF Placement, Unique, Roots, Tasks
<1>2. t = <<t[1], t[2]>> /\ t[2] \in {0, 1}
  BY DEF Tasks
<1>. QED BY <1>1, <1>2 DEF Carries, Root

LEMMA PlaceSomewhere ==
  ASSUME Placement, NEW t \in Tasks PROVE Places(t) # {} <=> Somewhere(t)
<1>1. Root(t) \in ToRun(queue) <=> \E j \in DOMAIN queue : queue[j].op = "run" /\ Carries(queue[j].task, t)
  <2>1. \A j \in DOMAIN queue : queue[j].op = "run" => queue[j].task \in Pending
    BY DEF Pending, Waits, ToRun
  <2>. QED BY <2>1, CarriesRoot DEF ToRun
<1>2. Root(t) \in InDeferred <=> \E j \in DOMAIN deferred : Carries(deferred[j], t)
  <2>1. \A j \in DOMAIN deferred : deferred[j] \in Pending
    BY DEF Pending, Waits, InDeferred
  <2>. QED BY <2>1, CarriesRoot DEF InDeferred
<1>3. Root(t) \in RunOf(cur) <=> cur.op = "run" /\ Carries(cur.task, t)
  BY CarriesRoot DEF Pending, RunOf
<1>. QED BY <1>1, <1>2, <1>3 DEF Places, Somewhere, Pending, Waits

LEMMA OnePlaceOnly ==
  ASSUME Placement, NEW t \in Tasks, NEW x \in Places(t), NEW y \in Places(t) PROVE x = y
<1> DEFINE u == Root(t)
           InQueue(z) == \E i \in DOMAIN queue : z = <<"queue", i>> /\ queue[i].op = "run" /\ queue[i].task = u
           Set(z) == \E i \in DOMAIN deferred : z = <<"deferred", i>> /\ deferred[i] = u
           Run(z) == \E s \in Slots : z = <<"slot", s>> /\ slot[s].task = t
           Hand(z) == z = <<"loop", 0>> /\ cur.op = "run" /\ cur.task = u
<1>1. \A z \in Places(t) : InQueue(z) \/ Set(z) \/ Run(z) \/ Hand(z)
  <2>1. \A j \in DOMAIN queue : queue[j].op = "run" => queue[j].task \in Pending
    BY DEF Pending, Waits, ToRun
  <2>2. \A j \in DOMAIN deferred : deferred[j] \in Pending
    BY DEF Pending, Waits, InDeferred
  <2>3. cur.op = "run" => cur.task \in Pending
    BY DEF Pending, RunOf
  <2>. QED BY <2>1, <2>2, <2>3, CarriesRoot DEF Places
<1>2. \A z : InQueue(z) => u \in ToRun(queue)
  BY DEF ToRun
<1>3. \A z : Set(z) => u \in InDeferred
  BY DEF InDeferred
<1>4. \A z : Hand(z) => u \in RunOf(cur)
  BY DEF RunOf
<1>5. \A z : Run(z) => u \notin Pending
  BY NoTaskAssumption DEF Placement, Unique
<1>6. ToRun(queue) \cap InDeferred = {} /\ Waits \cap RunOf(cur) = {}
  BY DEF Placement, InQueues, Unique
<1>7. InQueue(x) /\ InQueue(y) => x = y
  BY DEF Placement, InQueues, OnceInQueue
<1>8. Set(x) /\ Set(y) => x = y
  BY DEF Placement, InQueues
<1>9. Run(x) /\ Run(y) => x = y
  BY NoTaskAssumption DEF Placement, Unique
<1>10. Hand(x) /\ Hand(y) => x = y
  OBVIOUS
<1> HIDE DEF InQueue, Set, Run, Hand, u
<1>. QED BY <1>1, <1>2, <1>3, <1>4, <1>5, <1>6, <1>7, <1>8, <1>9, <1>10 DEF Pending, Waits

LEMMA PlacementOne == Placement => TypeOK /\ AtMostOne
<1> SUFFICES ASSUME Placement PROVE TypeOK /\ AtMostOne
  OBVIOUS
<1>1. TypeOK
  BY DEF Placement, Readers, Replies, Worker, InSlots, InQueues, Entries, TypeOK
<1>2. ASSUME NEW t \in Tasks PROVE Cardinality(Places(t)) <= 1
  <2>1. CASE Places(t) = {}
    BY <2>1, FS_EmptySet
  <2>2. CASE Places(t) # {}
    <3>1. PICK x \in Places(t) : TRUE
      BY <2>2
    <3>2. Places(t) = {x}
      <4>1. ASSUME NEW y \in Places(t) PROVE y = x
        BY <3>1, <4>1, OnePlaceOnly
      <4>. QED BY <3>1, <4>1
    <3>3. Cardinality(Places(t)) = Cardinality({x}) /\ Cardinality({x}) = 1
      BY <3>2, FS_Singleton
    <3>. QED BY <3>3
  <2>. QED BY <2>1, <2>2
<1>. QED BY <1>1, <1>2 DEF AtMostOne

LEMMA AnswersPlaced == IInv => AtLeastOne /\ AnsweredOnce /\ NoOrphanResult
<1> SUFFICES ASSUME IInv PROVE AtLeastOne /\ AnsweredOnce /\ NoOrphanResult
  OBVIOUS
<1>1. NoOrphanResult
  BY DEF IInv, Answers
<1>2. ASSUME NEW r \in Requests, rd[r] = "open", NEW t \in Ids(r)
      PROVE  /\ t \in got[r] => results[t] = <<>>
             /\ \A i \in DOMAIN results[t] : results[t][i] \in Terminal => i = Len(results[t])
             /\ Answered(t) => Places(t) = {}
             /\ Places(t) # {} \/ Answered(t) \/ Failing(r)
  <2>1. Places(t) # {} <=> Somewhere(t)
    BY IdsAreTasks, PlaceSomewhere DEF IInv
  <2>. QED BY <1>2, <2>1 DEF IInv, Answers
<1>. QED BY <1>1, <1>2 DEF AtLeastOne, AnsweredOnce

(* A result is kept only while a reader is there to take it.               *)
THEOREM NoResultIsOrphaned == Spec => []NoOrphanResult
  BY InvHolds, AnswersPlaced, PTL

(* A task is answered once, last and for good.                             *)
THEOREM EveryAnswerIsLast == Spec => []AnsweredOnce
  BY InvHolds, AnswersPlaced, PTL

(* A task is never in two places, and is in one, or answered, or failed,   *)
(* while its client is there: whatever the requests ask for.               *)
THEOREM NoTaskIsLost == Spec => [](TypeOK /\ AtMostOne /\ AtLeastOne)
<1>1. IInv => TypeOK /\ AtMostOne /\ AtLeastOne
  BY PlacementOne, AnswersPlaced DEF IInv
<1>. QED BY <1>1, InvHolds, PTL
-----------------------------------------------------------------------------
(* Children that wait for the prompt of their parent.                      *)

LEMMA ReleaseSlot ==
  ASSUME Placement, NEW s \in Slots, Release(s)
  PROVE  slot'[s] = Idle /\ \A o \in Slots \ {s} : slot'[o] = slot[o]
  BY DEF Release, Placement, InSlots

LEMMA AdvanceMoves ==
  ASSUME Placement, NEW next, Advance(next)
  PROVE  \/ loop' = loop /\ at' = at + 1
         \/ loop' = next /\ at' = 1 /\ \A s \in Slots : s <= at
  BY BoundsAssumption DEF Advance, Slots, Placement, Worker

LEMMA InitPrompts == Init => PromptsDone
  BY DEF Init, PromptsDone, Idle

LEMMA NextPrompts == ASSUME Placement, PromptsDone, [Next]_vars PROVE PromptsDone'
<1>1. \A s \in Slots : s \in Nat /\ s >= 1
  BY BoundsAssumption DEF Slots
<1>2. ASSUME UNCHANGED <<slot, batched, at, loop>> PROVE PromptsDone'
  BY <1>2 DEF PromptsDone
<1>3. CASE UNCHANGED vars \/ \E r \in Requests : PostTasks(r) \/ Reader(r) \/ Disconnect(r)
  BY <1>2, <1>3 DEF vars, main, PostTasks, Reader, Receive, PostCancels, Close, Disconnect
<1>4. CASE PopTask \/ SkipNextResponse \/ DeferTask \/ RefuseTask \/ AnswerTask
  BY <1>2, <1>4 DEF PopTask, SkipNextResponse, DeferTask, RefuseTask, AnswerTask, Handled
<1>5. CASE CancelTask \/ RefuseParent
  <2>1. loop = "tasks" /\ UNCHANGED <<loop, at, batched>>
    BY <1>5 DEF CancelTask, RefuseParent, Handling, Handled
  <2>2. \A s \in Slots : slot'[s] = slot[s] \/ slot'[s] = Idle
    BY <1>5, ReleaseSlot DEF CancelTask, RefuseParent, Processing, Placed, Free
  <2>. QED BY <2>1, <2>2 DEF PromptsDone, Idle
<1>6. CASE LaunchTask
  <2>1. loop = "tasks" /\ UNCHANGED <<loop, at, batched>>
    BY <1>6 DEF LaunchTask, Handling, Handled
  <2>2. \A s \in Slots : slot'[s] = slot[s] \/ slot'[s].state # "DONE_PROMPT"
    BY <1>6 DEF LaunchTask, Launched
  <2>. QED BY <2>1, <2>2 DEF PromptsDone
<1>7. CASE BeginUpdate \/ WakeUp
  <2>1. loop \in {"tasks", "wait"} /\ slot' = slot /\ loop' \in {"pre", "wait", "tasks"}
    BY <1>7 DEF BeginUpdate, WakeUp
  <2>. QED BY <2>1 DEF PromptsDone
<1>8. CASE PreDecode
  <2>1. loop = "pre" /\ at \in Slots
    BY <1>8 DEF PreDecode, Placement, Worker
  <2>2. \A s \in Slots : slot'[s].state = "DONE_PROMPT" =>
           s \in batched' /\ (s = at \/ s < at)
    <3>1. CASE UNCHANGED slot /\ batched \subseteq batched'
      BY <2>1, <3>1 DEF PromptsDone
    <3>2. CASE (\E state \in States : Move(at, state)) /\ batched' = batched \cup {at}
      BY <2>1, <3>2 DEF Move, PromptsDone, Placement, InSlots
    <3>3. CASE (Finish(at, "error") \/ Finish(at, "final")) /\ batched' = batched
      <4>1. Release(at)
        BY <3>3 DEF Finish
      <4>. QED BY <2>1, <3>3, <4>1, ReleaseSlot DEF PromptsDone, Idle
    <3>. QED BY <1>8, <3>1, <3>2, <3>3 DEF PreDecode, States
  <2>3. \/ loop' = "pre" /\ at' = at + 1
        \/ loop' = "decode" /\ at' = 1
    BY <1>8, <2>1, AdvanceMoves DEF PreDecode
  <2>. QED BY <1>1, <2>1, <2>2, <2>3 DEF PromptsDone
<1>9. CASE Decode
  <2>1. at = 1 /\ at' = 1 /\ loop' = "post" /\ batched' = batched \cup Children
    BY <1>9 DEF Decode, PromptsDone
  <2>2. \A s \in Slots : slot'[s].state = "DONE_PROMPT" => s \in batched'
    BY <1>9, <2>1 DEF Decode, PromptsDone
  <2>. QED BY <1>1, <2>1, <2>2 DEF PromptsDone
<1>10. CASE NothingToDecode
  BY <1>10 DEF NothingToDecode, PromptsDone
<1>11. CASE AbortAllSlots
  BY <1>1, <1>11 DEF AbortAllSlots, PromptsDone
<1>12. CASE AbortSlot
  <2>1. loop = "abort" /\ at \in Slots /\ batched' = batched
    BY <1>12 DEF AbortSlot, Placement, Worker
  <2>2. /\ slot'[at].state # "DONE_PROMPT"
        /\ \A s \in Slots \ {at} : slot'[s] = slot[s]
    <3>1. CASE at \in Processing
      BY <1>12, <2>1, <3>1, ReleaseSlot DEF AbortSlot, Finish, Idle
    <3>2. CASE at \notin Processing
      BY <1>12, <2>1, <3>2 DEF AbortSlot, Processing
    <3>. QED BY <3>1, <3>2
  <2>3. \/ loop' = "abort" /\ at' = at + 1
        \/ loop' = "wait" /\ \A s \in Slots : s <= at
    BY <1>12, <2>1, AdvanceMoves DEF AbortSlot
  <2>4. \A s \in Slots : slot'[s].state = "DONE_PROMPT" => s \in batched /\ s >= at + 1
    BY <1>1, <2>1, <2>2 DEF PromptsDone
  <2>. QED BY <1>1, <2>1, <2>3, <2>4 DEF PromptsDone
<1>13. CASE PostDecode
  <2>1. loop = "post" /\ at \in Slots /\ batched' = batched
    BY <1>13 DEF PostDecode, Placement, Worker
  <2>2. /\ slot'[at].state # "DONE_PROMPT"
        /\ \A s \in Slots \ {at} : slot'[s] = slot[s]
    <3>1. CASE UNCHANGED slot /\ slot[at].state # "DONE_PROMPT"
      BY <3>1
    <3>2. CASE Finish(at, "error") \/ Finish(at, "final")
      BY <2>1, <3>2, ReleaseSlot DEF Finish, Idle
    <3>3. CASE slot' = [slot EXCEPT ![at].state = "GENERATING", ![at].n = @ + 1]
      BY <2>1, <3>3 DEF Placement, InSlots
    <3>4. slot[at].state = "DONE_PROMPT" => at \in batched
      BY <2>1 DEF PromptsDone
    <3>. QED BY <1>13, <3>1, <3>2, <3>3, <3>4 DEF PostDecode
  <2>3. \/ loop' = "post" /\ at' = at + 1
        \/ loop' = "wait" /\ \A s \in Slots : s <= at
    BY <1>13, <2>1, AdvanceMoves DEF PostDecode
  <2>4. \A s \in Slots : slot'[s].state = "DONE_PROMPT" => s \in batched /\ s >= at + 1
    BY <1>1, <2>1, <2>2 DEF PromptsDone
  <2>. QED BY <1>1, <2>1, <2>3, <2>4 DEF PromptsDone
<1>. QED BY <1>3, <1>4, <1>5, <1>6, <1>7, <1>8, <1>9, <1>10, <1>11, <1>12, <1>13 DEF Next, MainLoop
(* Why a child may wait: nobody asks for it any more, its request has      *)
(* failed, or its parent still has the prompt to process.                  *)
Excused(r) == rd[r] # "open" \/ Failing(r)
ParentWorks(r) ==
  \E p \in Slots :
    /\ slot[p].task = <<r, 0>>
    /\ \/ slot[p].state \in {"STARTED", "PROCESSING_PROMPT"}
       \/ slot[p].state = "DONE_PROMPT" /\ loop \in {"pre", "decode", "abort"}

LEMMA WaitingMeans ==
  WaitingChildHasParent <=>
    \A s \in Slots : slot[s].state = "WAIT_OTHER" => Excused(slot[s].task[1]) \/ ParentWorks(slot[s].task[1])
  BY DEF WaitingChildHasParent, Excused, ParentWorks

LEMMA WaitingLater ==
  ASSUME \A s \in Slots : slot'[s].state = "WAIT_OTHER" =>
           \E r : r = slot'[s].task[1] /\ (Excused(r)' \/ ParentWorks(r)')
  PROVE  WaitingChildHasParent'
  BY DEF WaitingChildHasParent, Excused, ParentWorks

(* A request that has failed stays so while its results are not taken.     *)
LEMMA FailingKept ==
  ASSUME Placement, UNCHANGED Fixed, results' = results \/ \E T, k : results' = Sent(T, k)
  PROVE  \A r \in Requests : Excused(r) => Excused(r)'
<1>1. rd' = rd /\ \A r : Ids(r)' = Ids(r)
  BY DEF Fixed, Ids
<1>2. ASSUME NEW r \in Requests, NEW t \in Ids(r), Queued(t, {"error"}) PROVE Queued(t, {"error"})'
  <2>1. t \in Tasks
    BY IdsAreTasks
  <2>2. CASE results'[t] = results[t]
    BY <1>2, <2>2 DEF Queued
  <2>3. ASSUME NEW k, results'[t] = Append(results[t], k) PROVE Queued(t, {"error"})'
    <3>1. PICK i \in DOMAIN results[t] : results[t][i] = "error"
      BY <1>2 DEF Queued
    <3>2. results[t] \in Seq(Terminal \cup {"partial"})
      BY <2>1 DEF Placement, Replies
    <3>3. i \in DOMAIN Append(results[t], k) /\ Append(results[t], k)[i] = "error"
      BY <3>1, <3>2
    <3>. QED BY <2>3, <3>3 DEF Queued
  <2>4. results'[t] = results[t] \/ \E k : results'[t] = Append(results[t], k)
    BY <2>1 DEF Sent
  <2>. QED BY <2>2, <2>3, <2>4
<1>. QED BY <1>1, <1>2 DEF Excused, Failing

(* The task of a slot in use belongs to a request that has been posted.    *)
LEMMA SlotTask ==
  ASSUME Placement, NEW s \in Slots, slot[s].state # "IDLE"
  PROVE  /\ slot[s].task \in Tasks /\ slot[s].task \in Ids(slot[s].task[1]) /\ slot[s].task # NoTask
         /\ slot[s].task[1] \in Requests /\ rd[slot[s].task[1]] # "new"
<1>1. slot[s].task # NoTask /\ slot[s].task \in Tasks
  BY DEF Placement, InSlots
<1>. QED BY <1>1 DEF Placement, InSlots, Posted, Tasks

(* An error excuses the tasks of its request.                              *)
LEMMA ErrorSent ==
  ASSUME IInv, NEW t \in Tasks, t \in Ids(t[1]), t[1] \in Requests, results' = Sent({t}, "error"), UNCHANGED Fixed
  PROVE  Excused(t[1])'
<1>1. rd' = rd /\ \A r : Ids(r)' = Ids(r)
  BY DEF Fixed, Ids
<1>2. CASE rd[t[1]] = "open"
  <2>1. t \in waiting
    BY <1>2 DEF IInv, Registered
  <2>2. results'[t] = Append(results[t], "error") /\ results[t] \in Seq(Terminal \cup {"partial"})
    BY <2>1 DEF Sent, IInv, Placement, Replies
  <2>3. Len(results[t]) + 1 \in DOMAIN results'[t] /\ results'[t][Len(results[t]) + 1] = "error"
    BY <2>2
  <2>4. Queued(t, {"error"})'
    BY <2>3 DEF Queued
  <2>. QED BY <1>1, <2>4 DEF Excused, Failing
<1>. QED BY <1>1, <1>2 DEF Excused

(* One slot is released, answering its task, which is either no parent of  *)
(* a waiting child or ends with an error.                                  *)
LEMMA FinishWaits ==
  ASSUME IInv, WaitingChildHasParent, NEW u \in Slots, slot[u].state # "IDLE", NEW k, Finish(u, k), UNCHANGED http,
         \/ k = "error"
         \/ \A s \in Slots : slot[s].state = "WAIT_OTHER" => slot[u].task # <<slot[s].task[1], 0>>,
         \A p \in Slots : slot'[p].state = "DONE_PROMPT" /\ loop \in {"pre", "decode", "abort"}
                        => loop' \in {"pre", "decode", "abort"}
  PROVE  WaitingChildHasParent'
<1>1. UNCHANGED Fixed /\ results' = Sent({slot[u].task}, k) /\ Release(u)
  BY DEF Finish, http, Fixed
<1>2. slot'[u] = Idle /\ \A s \in Slots \ {u} : slot'[s] = slot[s]
  BY <1>1, ReleaseSlot DEF IInv
<1>3. SUFFICES ASSUME NEW s \in Slots, slot'[s].state = "WAIT_OTHER",
                      NEW r \in Requests, slot'[s].task[1] = r, slot'[s] = slot[s]
               PROVE  Excused(r)' \/ ParentWorks(r)'
  <2>1. ASSUME NEW s \in Slots, slot'[s].state = "WAIT_OTHER"
        PROVE  slot'[s] = slot[s] /\ slot[s].task[1] \in Requests
    <3>1. slot'[s] = slot[s]
      BY <1>2, <2>1 DEF Idle
    <3>. QED BY <2>1, <3>1, SlotTask DEF IInv
  <2>. QED BY <2>1, WaitingLater
<1>4. s # u
  BY <1>2, <1>3 DEF Idle
<1>5. r = slot[s].task[1]
  BY <1>3
<1>6. CASE Excused(r)
  BY <1>1, <1>4, <1>5, <1>6, FailingKept DEF IInv
<1>7. CASE ParentWorks(r)
  <2>1. PICK p \in Slots :
           /\ slot[p].task = <<r, 0>>
           /\ \/ slot[p].state \in {"STARTED", "PROCESSING_PROMPT"}
              \/ slot[p].state = "DONE_PROMPT" /\ loop \in {"pre", "decode", "abort"}
    BY <1>7 DEF ParentWorks
  <2>2. CASE p # u
    BY <1>2, <1>4, <1>5, <2>1, <2>2 DEF ParentWorks
  <2>3. CASE p = u
    <3>1. k = "error"
      BY <1>3, <1>4, <1>5, <2>1, <2>3
    <3>2. PICK t \in Tasks : t = <<r, 0>> /\ t \in Ids(r)
      BY DEF Tasks, Ids
    <3>3. Excused(t[1])'
      BY <1>1, <2>1, <2>3, <3>1, <3>2, ErrorSent
    <3>. QED BY <1>4, <1>5, <3>2, <3>3
  <2>. QED BY <2>2, <2>3
<1>. QED BY <1>3, <1>4, <1>5, <1>6, <1>7, WaitingMeans
(* The children that wait have waited before, and nothing they wait for    *)
(* has gone.                                                               *)
LEMMA SlotsKeepWaiting ==
  ASSUME Placement, WaitingChildHasParent,
         \A s \in Slots : slot'[s].state = "WAIT_OTHER" => slot'[s] = slot[s],
         \A r \in Requests : rd[r] # "new" /\ Excused(r) => Excused(r)',
         \A s \in Slots : \A r \in Requests :
           slot'[s].state = "WAIT_OTHER" /\ slot[s].task[1] = r /\ ParentWorks(r)
             => Excused(r)' \/ ParentWorks(r)'
  PROVE  WaitingChildHasParent'
<1>1. ASSUME NEW s \in Slots, slot'[s].state = "WAIT_OTHER"
      PROVE  \E r : r = slot'[s].task[1] /\ (Excused(r)' \/ ParentWorks(r)')
  <2>1. slot'[s] = slot[s]
    BY <1>1
  <2>2. PICK r \in Requests : r = slot[s].task[1] /\ rd[r] # "new"
    BY <1>1, <2>1, SlotTask
  <2>3. Excused(r) \/ ParentWorks(r)
    BY <1>1, <2>1, <2>2, WaitingMeans
  <2>. QED BY <1>1, <2>1, <2>2, <2>3
<1>. QED BY <1>1, WaitingLater

(* Steps that leave the slots alone.                                       *)
LEMMA SameSlotsWait ==
  ASSUME Placement, WaitingChildHasParent, slot' = slot,
         loop \in {"pre", "decode", "abort"} =>
           \/ loop' \in {"pre", "decode", "abort"}
           \/ \A p \in Slots : slot[p].state # "DONE_PROMPT",
         \A r \in Requests : rd[r] # "new" /\ Excused(r) => Excused(r)'
  PROVE  WaitingChildHasParent'
<1>1. ASSUME NEW r \in Requests, ParentWorks(r) PROVE ParentWorks(r)'
  BY <1>1 DEF ParentWorks
<1>. QED BY <1>1, SlotsKeepWaiting

LEMMA ThreadsWait ==
  ASSUME IInv, WaitingChildHasParent, NEW r \in Requests, PostTasks(r) \/ Reader(r) \/ Disconnect(r)
  PROVE  WaitingChildHasParent'
<1>1. UNCHANGED <<slot, loop, shape>> /\ \A q : Ids(q)' = Ids(q)
  BY DEF PostTasks, Reader, Receive, PostCancels, Close, Disconnect, Forget, main, Ids
<1>2. \/ rd' = [rd EXCEPT ![r] = "open"] /\ rd[r] = "new" /\ UNCHANGED results
      \/ \E v \in {"cancelling", "done"} : rd' = [rd EXCEPT ![r] = v]
      \/ rd' = rd /\ \E t \in Ids(r) : /\ Head(results[t]) # "error" /\ results[t] # <<>>
                                       /\ results' = [results EXCEPT ![t] = Tail(@)]
  BY DEF PostTasks, Reader, Receive, PostCancels, Close, Disconnect, Forget
<1>3. \A t \in Tasks : t[1] # r => results'[t] = results[t]
  <2>1. \A t \in Ids(r) : t[1] = r
    BY DEF Ids
  <2>2. CASE UNCHANGED results
    BY <2>2
  <2>3. CASE \E t \in Ids(r) : results' = [results EXCEPT ![t] = Tail(@)]
    BY <2>1, <2>3 DEF IInv, Placement, Replies
  <2>4. CASE results' = [t \in Tasks |-> IF t \in Ids(r) THEN <<>> ELSE results[t]]
    BY <2>1, <2>4
  <2>. QED BY <2>2, <2>3, <2>4
       DEF PostTasks, Reader, Receive, PostCancels, Close, Disconnect, Forget, resp
<1>4. ASSUME NEW q \in Requests, rd[q] # "new", Excused(q) PROVE Excused(q)'
  <2>1. CASE q # r
    <3>1. rd'[q] = rd[q]
      BY <1>2, <2>1 DEF IInv, Placement, Readers
    <3>2. \A t \in Ids(q) : t \in Tasks /\ t[1] = q
      BY IdsAreTasks DEF Ids
    <3>3. Failing(q) => Failing(q)'
      BY <1>1, <1>3, <2>1, <3>2 DEF Failing, Queued
    <3>. QED BY <1>4, <3>1, <3>3 DEF Excused
  <2>2. CASE q = r
    <3>1. CASE rd' # rd
      BY <1>2, <1>4, <2>2, <3>1 DEF IInv, Placement, Readers, Excused
    <3>2. CASE rd' = rd /\ rd[r] # "open"
      BY <2>2, <3>2 DEF Excused
    <3>3. CASE rd' = rd /\ rd[r] = "open"
      <4>1. PICK t \in Ids(r) : /\ Head(results[t]) # "error" /\ results[t] # <<>>
                                /\ results' = [results EXCEPT ![t] = Tail(@)]
        BY <1>2, <3>3 DEF IInv, Placement, Readers
      <4>2. PICK u \in Ids(r) : \E j \in DOMAIN results[u] : results[u][j] = "error"
        BY <1>4, <2>2, <3>3 DEF Excused, Failing, Queued
      <4>3. u \in Tasks /\ t \in Tasks /\ results[u] \in Seq(Terminal \cup {"partial"})
        BY IdsAreTasks DEF IInv, Placement, Replies
      <4>4. CASE u # t
        BY <1>1, <2>2, <4>1, <4>2, <4>3, <4>4 DEF IInv, Placement, Replies, Excused, Failing, Queued
      <4>5. CASE u = t
        <5>0. PICK i \in DOMAIN results[t] : results[t][i] = "error"
          BY <4>2, <4>5
        <5>1. i # 1 /\ i - 1 \in DOMAIN Tail(results[t]) /\ Tail(results[t])[i - 1] = "error"
          <6>1. i \in 1 .. Len(results[t]) /\ Len(results[t]) \in Nat /\ i # 1
            BY <4>1, <4>3, <4>5, <5>0
          <6>2. i - 1 \in 1 .. Len(results[t]) - 1 /\ (i - 1) + 1 = i
            BY <6>1
          <6>3. /\ DOMAIN Tail(results[t]) = 1 .. Len(results[t]) - 1
                /\ \A j \in 1 .. Len(results[t]) - 1 : Tail(results[t])[j] = results[t][j + 1]
            BY <4>1, <4>3, <4>5
          <6>. QED BY <5>0, <6>1, <6>2, <6>3
        <5>2. results'[t] = Tail(results[t])
          BY <4>1, <4>3 DEF IInv, Placement, Replies
        <5>3. Queued(t, {"error"})'
          BY <5>1, <5>2 DEF Queued
        <5>. QED BY <1>1, <2>2, <5>3 DEF Excused, Failing
      <4>. QED BY <4>4, <4>5
    <3>. QED BY <3>1, <3>2, <3>3
  <2>. QED BY <2>1, <2>2
<1>. QED BY <1>1, <1>4, SameSlotsWait DEF IInv
LEMMA TaskStepsWait ==
  ASSUME IInv, PromptsDone, WaitingChildHasParent,
         \/ PopTask \/ SkipNextResponse \/ CancelTask \/ DeferTask \/ LaunchTask
         \/ RefuseTask \/ RefuseParent \/ AnswerTask
  PROVE  WaitingChildHasParent'
<1>1. loop = "tasks" /\ UNCHANGED loop /\ UNCHANGED Fixed
  BY DEF PopTask, SkipNextResponse, CancelTask, DeferTask, LaunchTask, RefuseTask, RefuseParent, AnswerTask,
         Handling, Handled, http, resp, Fixed
<1>2. \A r \in Requests : Excused(r) => Excused(r)'
  <2>1. results' = results \/ \E T, k : results' = Sent(T, k)
    BY DEF PopTask, SkipNextResponse, CancelTask, DeferTask, LaunchTask, RefuseTask, RefuseParent, AnswerTask, resp
  <2>. QED BY <1>1, <2>1, FailingKept DEF IInv
<1>3. CASE slot' = slot
  BY <1>1, <1>2, <1>3, SameSlotsWait DEF IInv
<1>4. CASE (CancelTask \/ RefuseParent) /\ slot' # slot
  <2>1. PICK u \in Slots : /\ Release(u)
                           /\ slot[u].state # "IDLE" => CancelTask /\ slot[u].task = cur.task
    <3>1. CASE CancelTask
      <4>1. PICK u \in Processing : slot[u].task = cur.task /\ Release(u)
        BY <1>4, <3>1 DEF CancelTask
      <4>. QED BY <3>1, <4>1 DEF Processing
    <3>2. CASE RefuseParent
      <4>1. PICK u \in Free : Release(u)
        BY <3>2 DEF RefuseParent, Placed
      <4>. QED BY <4>1 DEF Free, Processing
    <3>. QED BY <1>4, <3>1, <3>2
  <2>2. slot'[u] = Idle /\ \A s \in Slots \ {u} : slot'[s] = slot[s]
    BY <2>1, ReleaseSlot DEF IInv
  <2>3. ASSUME NEW r \in Requests, ParentWorks(r) PROVE ParentWorks(r)' \/ Excused(r)'
    <3>1. PICK p \in Slots : slot[p].task = <<r, 0>> /\ slot[p].state \in {"STARTED", "PROCESSING_PROMPT"}
      BY <1>1, <2>3 DEF ParentWorks
    <3>2. CASE p # u
      BY <2>2, <3>1, <3>2 DEF ParentWorks
    <3>3. CASE p = u
      <4>1. CancelTask /\ cur.op = "cancel" /\ cur.task = <<r, 0>>
        BY <2>1, <3>1, <3>3 DEF CancelTask, Handling
      <4>2. rd[r] = "done"
        BY <4>1 DEF IInv, Placement, Posted, Cancels, CancelOf
      <4>. QED BY <1>2, <4>2 DEF Excused
    <3>. QED BY <3>2, <3>3
  <2>. QED BY <1>2, <2>2, <2>3, SlotsKeepWaiting DEF IInv, Idle
<1>5. CASE LaunchTask
  <2>1. PICK p \in Placed(cur.task) :
           slot' = [s \in Slots |-> IF s = p[1] THEN Launched(cur.task)
                                    ELSE IF s = p[2] THEN Launched(<<cur.task[1], 1>>) ELSE slot[s]]
    BY <1>5 DEF LaunchTask
  <2>2. PICK r \in Requests : r = cur.task[1] /\ cur.task = <<r, 0>>
    BY <1>5, TaskInHand DEF LaunchTask, Handling, IInv
  <2>3. p[1] \in Free /\ p[2] \in Free
    BY DEF Placed, Available
  <2>4. /\ slot'[p[1]].state = "STARTED" /\ slot'[p[1]].task = <<r, 0>>
        /\ p[2] # p[1] => slot'[p[2]].task = <<r, 1>>
        /\ \A s \in Slots : s # p[1] /\ s # p[2] => slot'[s] = slot[s]
    BY <2>1, <2>2, <2>3 DEF Launched, Free
  <2>5. ASSUME NEW q \in Requests, ParentWorks(q) PROVE ParentWorks(q)'
    <3>1. PICK o \in Slots : slot[o].task = <<q, 0>> /\ slot[o].state \in {"STARTED", "PROCESSING_PROMPT"}
      BY <1>1, <2>5 DEF ParentWorks
    <3>2. slot'[o] = slot[o]
      BY <2>3, <2>4, <3>1 DEF Free, Processing
    <3>. QED BY <3>1, <3>2 DEF ParentWorks
  <2>6. ParentWorks(r)'
    BY <2>3, <2>4 DEF ParentWorks, Free
  <2>7. ASSUME NEW s \in Slots, slot'[s].state = "WAIT_OTHER"
        PROVE  \E q : q = slot'[s].task[1] /\ (Excused(q)' \/ ParentWorks(q)')
    <3>1. CASE s = p[1] \/ s = p[2]
      BY <2>4, <2>6, <3>1
    <3>2. CASE s # p[1] /\ s # p[2]
      <4>1. slot'[s] = slot[s]
        BY <2>4, <3>2
      <4>2. PICK q \in Requests : q = slot[s].task[1]
        BY <2>7, <4>1, SlotTask DEF IInv
      <4>3. Excused(q) \/ ParentWorks(q)
        BY <2>7, <4>1, <4>2, WaitingMeans
      <4>. QED BY <1>2, <2>5, <4>1, <4>2, <4>3
    <3>. QED BY <3>1, <3>2
  <2>. QED BY <2>7, WaitingLater
<1>. QED BY <1>3, <1>4, <1>5
     DEF PopTask, SkipNextResponse, DeferTask, RefuseTask, AnswerTask

LEMMA RoundWaits ==
  ASSUME IInv, PromptsDone, PromptsDone', WaitingChildHasParent, NoEmptyPair,
         \/ BeginUpdate \/ WakeUp \/ PreDecode \/ Decode \/ NothingToDecode
         \/ AbortAllSlots \/ AbortSlot \/ PostDecode
  PROVE  WaitingChildHasParent'
<1>1. UNCHANGED http /\ UNCHANGED Fixed /\ at \in Slots
  BY DEF BeginUpdate, WakeUp, PreDecode, Decode, NothingToDecode, AbortAllSlots, AbortSlot, PostDecode,
         http, resp, Fixed, Finish, Move, IInv, Placement, Worker
<1>2. \A r \in Requests : Excused(r) => Excused(r)'
  <2>1. results' = results \/ \E T, k : results' = Sent(T, k)
    BY DEF BeginUpdate, WakeUp, PreDecode, Decode, NothingToDecode, AbortAllSlots, AbortSlot, PostDecode,
           resp, Finish, Move
  <2>. QED BY <1>1, <2>1, FailingKept DEF IInv
<1>3. CASE BeginUpdate \/ WakeUp \/ NothingToDecode \/ AbortAllSlots
  <2>1. slot' = slot
    BY <1>3 DEF BeginUpdate, WakeUp, NothingToDecode, AbortAllSlots
  <2>2. CASE NothingToDecode
    <3>1. \A p \in Slots : slot[p].state # "DONE_PROMPT"
      BY <2>2 DEF NothingToDecode, PromptsDone
    <3>. QED BY <1>2, <2>1, <3>1, SameSlotsWait DEF IInv
  <2>3. CASE BeginUpdate \/ WakeUp \/ AbortAllSlots
    BY <1>2, <2>1, <2>3, SameSlotsWait DEF BeginUpdate, WakeUp, AbortAllSlots, IInv
  <2>. QED BY <1>3, <2>2, <2>3
<1>4. CASE PreDecode
  <2>1. loop = "pre" /\ loop' \in {"pre", "decode"}
    BY <1>4, AdvanceMoves DEF PreDecode, IInv
  <2>2. CASE UNCHANGED slot
    BY <1>2, <2>1, <2>2, SameSlotsWait DEF IInv
  <2>3. ASSUME NEW state \in {"PROCESSING_PROMPT", "DONE_PROMPT"}, Move(at, state)
        PROVE  WaitingChildHasParent'
    <3>1. /\ slot'[at].state = state /\ slot'[at].task = slot[at].task
          /\ \A s \in Slots \ {at} : slot'[s] = slot[s]
      BY <1>1, <2>3 DEF Move, IInv, Placement, InSlots
    <3>2. ASSUME NEW r \in Requests, ParentWorks(r) PROVE ParentWorks(r)'
      BY <2>1, <3>1, <3>2 DEF ParentWorks
    <3>3. \A s \in Slots : slot'[s].state = "WAIT_OTHER" => slot'[s] = slot[s]
      BY <2>3, <3>1
    <3>. QED BY <1>2, <3>2, <3>3, SlotsKeepWaiting DEF IInv
  <2>4. CASE Finish(at, "error") /\ slot[at].state # "IDLE"
    BY <1>1, <2>1, <2>4, FinishWaits
  <2>5. CASE Finish(at, "final") /\ slot[at].state = "STARTED" /\ shape[slot[at].task[1]].empty
    <3>1. ASSUME NEW s \in Slots, slot[s].state = "WAIT_OTHER", slot[at].task = <<slot[s].task[1], 0>>
          PROVE  FALSE
      <4>1. slot[s].task \in Ids(slot[s].task[1]) /\ slot[s].task[1] \in Requests /\ slot[s].task # NoTask
        BY <3>1, SlotTask DEF IInv
      <4>2. slot[s].task # slot[at].task
        BY <1>1, <2>5, <3>1, <4>1 DEF IInv, Placement, Unique
      <4>3. shape[slot[s].task[1]].kind = "pair"
        BY <3>1, <4>1, <4>2 DEF Ids
      <4>. QED BY <2>5, <3>1, <4>1, <4>3 DEF NoEmptyPair, IInv, Placement, Readers
    <3>. QED BY <1>1, <2>1, <2>5, <3>1, FinishWaits
  <2>. QED BY <1>4, <2>2, <2>3, <2>4, <2>5 DEF PreDecode
<1>5. CASE Decode
  <2>1. /\ loop = "decode"
        /\ slot' = [s \in Slots |-> IF s \in Children THEN [slot[s] EXCEPT !.state = "DONE_PROMPT"] ELSE slot[s]]
    BY <1>5 DEF Decode
  <2>2. \A s \in Slots : slot'[s].state = "WAIT_OTHER" => slot'[s] = slot[s] /\ s \notin Children
    BY <2>1 DEF Children, IInv, Placement, InSlots
  <2>3. ASSUME NEW s \in Slots, NEW r \in Requests, slot'[s].state = "WAIT_OTHER", slot[s].task[1] = r,
               ParentWorks(r)
        PROVE  ParentWorks(r)'
    <3>1. PICK p \in Slots :
             slot[p].task = <<r, 0>> /\ slot[p].state \in {"STARTED", "PROCESSING_PROMPT", "DONE_PROMPT"}
      BY <2>3 DEF ParentWorks
    <3>2. slot[p].state # "DONE_PROMPT"
      BY <2>2, <2>3, <3>1 DEF Children
    <3>3. slot'[p] = slot[p]
      BY <2>1, <3>1 DEF Children
    <3>. QED BY <3>1, <3>2, <3>3 DEF ParentWorks
  <2>. QED BY <1>2, <2>2, <2>3, SlotsKeepWaiting DEF IInv
<1>6. CASE AbortSlot
  <2>1. loop = "abort" /\ loop' \in {"abort", "wait"}
    BY <1>6, AdvanceMoves DEF AbortSlot, IInv
  <2>2. \A p \in Slots : slot'[p].state = "DONE_PROMPT" => loop' \in {"pre", "decode", "abort"}
    BY <2>1 DEF PromptsDone
  <2>3. CASE at \in Processing
    BY <1>1, <1>6, <2>2, <2>3, FinishWaits DEF AbortSlot, Processing
  <2>4. CASE at \notin Processing
    <3>1. slot' = slot
      BY <1>6, <2>4 DEF AbortSlot
    <3>. QED BY <1>2, <2>2, <3>1, SameSlotsWait DEF IInv
  <2>. QED BY <2>3, <2>4
<1>7. CASE PostDecode
  <2>1. loop = "post"
    BY <1>7 DEF PostDecode
  <2>2. CASE slot' = slot
    BY <1>2, <2>1, <2>2, SameSlotsWait DEF IInv
  <2>3. CASE slot[at].state \in {"DONE_PROMPT", "GENERATING"} /\ \A s \in Slots \ {at} : slot'[s] = slot[s]
    <3>1. CASE slot'[at].state # "WAIT_OTHER"
      <4>1. ASSUME NEW r \in Requests, ParentWorks(r) PROVE ParentWorks(r)'
        BY <2>1, <2>3, <4>1 DEF ParentWorks
      <4>2. \A s \in Slots : slot'[s].state = "WAIT_OTHER" => slot'[s] = slot[s]
        BY <2>3, <3>1
      <4>. QED BY <1>2, <4>1, <4>2, SlotsKeepWaiting DEF IInv
    <3>2. slot'[at].state \in {"IDLE", "GENERATING"} \/ slot' = slot
      <4>1. CASE Finish(at, "error") \/ Finish(at, "final")
        BY <1>1, <4>1, ReleaseSlot DEF Finish, Idle, IInv
      <4>2. CASE slot' = [slot EXCEPT ![at].state = "GENERATING", ![at].n = @ + 1]
        BY <1>1, <4>2 DEF IInv, Placement, InSlots
      <4>. QED BY <1>7, <4>1, <4>2 DEF PostDecode
    <3>. QED BY <2>2, <3>1, <3>2
  <2>4. \A s \in Slots \ {at} : slot'[s] = slot[s]
    <3>1. CASE Finish(at, "error") \/ Finish(at, "final")
      BY <1>1, <3>1, ReleaseSlot DEF Finish, IInv
    <3>. QED BY <1>1, <1>7, <3>1 DEF PostDecode, IInv, Placement, InSlots
  <2>. QED BY <1>7, <2>2, <2>3, <2>4 DEF PostDecode
<1>. QED BY <1>3, <1>4, <1>5, <1>6, <1>7

LEMMA NextWaits ==
  ASSUME IInv, PromptsDone, PromptsDone', WaitingChildHasParent, NoEmptyPair, [Next]_vars
  PROVE  WaitingChildHasParent'
<1>1. CASE UNCHANGED vars
  <2>1. slot' = slot /\ loop' = loop /\ UNCHANGED Fixed /\ results' = results
    BY <1>1 DEF vars, main, http, resp, Fixed
  <2>2. \A r \in Requests : Excused(r) => Excused(r)'
    BY <2>1, FailingKept DEF IInv
  <2>. QED BY <2>1, <2>2, SameSlotsWait DEF IInv
<1>. QED BY <1>1, ThreadsWait, TaskStepsWait, RoundWaits DEF Next, MainLoop

(* The child of a completion waits only while its parent has its prompt to *)
(* process, and so every task is in one place: as long as nobody asks for  *)
(* two completions of an empty prompt.                                     *)
THEOREM EveryTaskHasItsPlace ==
  ASSUME NoEmptyPair PROVE Spec => []OnePlace
<1> DEFINE I == IInv /\ PromptsDone /\ WaitingChildHasParent
<1>1. Init => I
  BY InitInv, InitPrompts DEF Init, WaitingChildHasParent, Idle
<1>2. I /\ [Next]_vars => I'
  BY NextInv, NextPrompts, NextWaits DEF IInv
<1>3. I => OnePlace
  BY PlacementOne, AnswersPlaced DEF IInv, OnePlace
<1>. QED BY <1>1, <1>2, <1>3, PTL DEF Spec
=============================================================================
