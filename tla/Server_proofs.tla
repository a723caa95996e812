----------------------------- MODULE Server_proofs -----------------------------
(***************************************************************************)
(* Theorems about two parts of llama-server, the queue and the batch.      *)
(*                                                                         *)
(* About ServerQueue, for any set of requests: the types of the control    *)
(* state, that only one thread is ever at the slots, and that the order of *)
(* the tasks is kept.                                                      *)
(*                                                                         *)
(* About SlotBatch, for any sizes, prompts and ways to fail: every result  *)
(* is sampled before a round ends, what a slot evaluates is its request,   *)
(* and prompt.tokens is what the memory holds, after every shift, reuse,   *)
(* retry and cancellation.                                                 *)
(***************************************************************************)
EXTENDS ServerQueue, SlotBatch, WellFoundedInduction, TLAPS

-----------------------------------------------------------------------------
(* ServerQueue: the queue and its threads.                                 *)

(* What makes OneHandler inductive: the worker works only while busy is    *)
(* set, busy is set only during a yield, and stop only after the loop.     *)
Handshake ==
  /\ yielding => main = "work"
  /\ busy => main \in {"work", "yielded"}
  /\ worker \in Working => busy
  /\ stop => main \in {"join", "done"}

IInv == ControlOK /\ Handshake

LEMMA WokenIsSubset == \A S \in Woken : S \subseteq asleep
  BY DEF Woken

LEMMA InitIInv == Init => IInv
  BY ThreadsAssumption DEF Init, IInv, ControlOK, Handshake, Working

(* A step of an HTTP thread touches neither the loop nor the worker.       *)
LEMMA ClientIInv ==
  ASSUME IInv, NEW r \in Requests, CheckSleep(r) \/ StopWaiting(r) \/ Post(r) \/ PostCancel(r)
  PROVE  IInv'
<1>1. UNCHANGED <<running, sleeping, shake, main, worker>> /\ stopSleep' \in BOOLEAN
  BY DEF IInv, ControlOK, CheckSleep, StopWaiting, Post, PostCancel, threads, sleepers
<1>2. Handshake'
  BY <1>1 DEF IInv, Handshake, shake
<1>3. http' \in [Requests -> {"new", "waking", "ready", "posted", "cancelled"}]
  BY DEF IInv, ControlOK, CheckSleep, StopWaiting, Post, PostCancel
<1>4. asleep' \subseteq asleep \cup {r}
  BY WokenIsSubset DEF CheckSleep, StopWaiting, Post, PostCancel
<1>5. \A q \in Requests : q \in asleep' => http'[q] = "waking"
  <2>1. CASE CheckSleep(r)
    BY <2>1, WokenIsSubset DEF IInv, ControlOK, CheckSleep
  <2>2. CASE StopWaiting(r)
    BY <2>2 DEF IInv, ControlOK, StopWaiting
  <2>3. CASE Post(r)
    BY <2>3, WokenIsSubset DEF IInv, ControlOK, Post
  <2>4. CASE PostCancel(r)
    BY <2>4, WokenIsSubset DEF IInv, ControlOK, PostCancel
  <2>. QED BY <2>1, <2>2, <2>3, <2>4
<1>6. ControlOK'
  BY <1>1, <1>3, <1>4, <1>5, ThreadsAssumption DEF IInv, ControlOK, shake
<1>. QED BY <1>2, <1>6 DEF IInv

LEMMA TerminateIInv == ASSUME IInv, Terminate PROVE IInv'
  BY DEF IInv, ControlOK, Handshake, Terminate, sleepers, shake, threads

(* The main loop leaves the worker where it is; busy is taken back only by *)
(* the worker, so the loop leaves a yield only when the worker is through. *)
LEMMA MainIInv == ASSUME IInv, MainLoop PROVE IInv'
<1>1. CASE MainPop
  BY <1>1 DEF IInv, ControlOK, Handshake, MainPop, sleepers, shake, Working
<1>2. CASE MainHandle
  BY <1>2 DEF IInv, ControlOK, Handshake, MainHandle, sleepers, shake, Working
<1>3. CASE UpdateDone
  BY <1>3 DEF IInv, ControlOK, Handshake, UpdateDone, sleepers, shake, Working
<1>4. CASE Yield
  BY <1>4 DEF IInv, ControlOK, Handshake, Yield, sleepers, shake, Working
<1>5. CASE WorkDone
  BY <1>5 DEF IInv, ControlOK, Handshake, WorkDone, sleepers, shake, Working
<1>6. CASE Collect
  <2>1. CASE busy
    BY <1>6, <2>1, ThreadsAssumption
    DEF IInv, ControlOK, Handshake, Collect, sleepers, shake, Working
  <2>2. CASE ~ busy
    BY <1>6, <2>2 DEF IInv, ControlOK, Handshake, Collect, sleepers, shake, Working
  <2>. QED BY <2>1, <2>2
<1>7. CASE MainWait
  BY <1>7, ThreadsAssumption DEF IInv, ControlOK, Handshake, MainWait, sleepers, shake, Working
<1>8. CASE MainWaited
  BY <1>8 DEF IInv, ControlOK, Handshake, MainWaited, sleepers, shake, Working
<1>9. CASE MainAsleep
  BY <1>9, ThreadsAssumption DEF IInv, ControlOK, Handshake, MainAsleep, sleepers, shake, Working
<1>10. CASE StopWorker
  BY <1>10 DEF IInv, ControlOK, Handshake, StopWorker, sleepers, shake, Working
<1>11. CASE Join
  BY <1>11 DEF IInv, ControlOK, Handshake, Join, sleepers, shake, Working
<1>. QED
  BY <1>1, <1>2, <1>3, <1>4, <1>5, <1>6, <1>7, <1>8, <1>9, <1>10, <1>11 DEF MainLoop

LEMMA WorkerIInv == ASSUME IInv, WorkerLoop PROVE IInv'
<1>1. CASE WorkerStart
  BY <1>1 DEF IInv, ControlOK, Handshake, WorkerStart, sleepers, shake, Working
<1>2. CASE WorkerPop
  BY <1>2 DEF IInv, ControlOK, Handshake, WorkerPop, sleepers, shake, Working
<1>3. CASE WorkerHandle
  BY <1>3 DEF IInv, ControlOK, Handshake, WorkerHandle, sleepers, shake, Working
<1>4. CASE WorkerDecline
  BY <1>4 DEF IInv, ControlOK, Handshake, WorkerDecline, sleepers, shake, Working
<1>5. CASE WorkerCheck
  BY <1>5, ThreadsAssumption DEF IInv, ControlOK, Handshake, WorkerCheck, sleepers, shake, Working
<1>6. CASE WorkerWait
  BY <1>6, ThreadsAssumption DEF IInv, ControlOK, Handshake, WorkerWait, sleepers, shake, Working
<1>7. CASE WorkerClear
  BY <1>7 DEF IInv, ControlOK, Handshake, WorkerClear, sleepers, shake, Working
<1>. QED
  BY <1>1, <1>2, <1>3, <1>4, <1>5, <1>6, <1>7 DEF WorkerLoop

LEMMA StepIInv == IInv /\ [Next]_vars => IInv'
<1>. SUFFICES ASSUME IInv, [Next]_vars PROVE IInv'
  OBVIOUS
<1>1. CASE MainLoop
  BY <1>1, MainIInv
<1>2. CASE WorkerLoop
  BY <1>2, WorkerIInv
<1>3. CASE Terminate
  BY <1>3, TerminateIInv
<1>4. CASE \E r \in Requests : Client(r) \/ PostCancel(r)
  BY <1>4, ClientIInv DEF Client
<1>5. CASE UNCHANGED vars
  BY <1>5 DEF IInv, ControlOK, Handshake, vars, sleepers, shake, threads
<1>. QED
  BY <1>1, <1>2, <1>3, <1>4, <1>5 DEF Next

THEOREM Invariance == Spec => []IInv
  BY InitIInv, StepIInv, PTL DEF Spec

(* The control state of the queue and its threads keeps its types, and     *)
(* only threads that wait are on the list of condition_tasks.              *)
THEOREM ControlCorrect == Spec => []ControlOK
<1>1. IInv => ControlOK
  BY DEF IInv
<1>. QED
  BY <1>1, Invariance, PTL

(* However many requests there are, the worker has a task in its hands     *)
(* only while the main thread is inside yield_to_queue.                    *)
THEOREM Exclusion == Spec => []OneHandler
<1>1. IInv => OneHandler
  BY DEF IInv, Handshake, OneHandler
<1>. QED
  BY <1>1, Invariance, PTL

-----------------------------------------------------------------------------
(* Sequences: what is in a concatenation, and what precedes what in it.    *)
LEMMA ConcatIn ==
  ASSUME NEW S, NEW a \in Seq(S), NEW b \in Seq(S), NEW e
  PROVE  In(a \o b, e) <=> In(a, e) \/ In(b, e)
<1>1. ASSUME In(a, e) PROVE In(a \o b, e)
  <2>1. PICK i \in DOMAIN a : a[i] = e
    BY <1>1 DEF In
  <2>2. i \in DOMAIN (a \o b) /\ (a \o b)[i] = e
    BY <2>1
  <2>. QED BY <2>2 DEF In
<1>2. ASSUME In(b, e) PROVE In(a \o b, e)
  <2>1. PICK i \in DOMAIN b : b[i] = e
    BY <1>2 DEF In
  <2>2. i + Len(a) \in DOMAIN (a \o b) /\ (a \o b)[i + Len(a)] = e
    BY <2>1
  <2>. QED BY <2>2 DEF In
<1>3. ASSUME In(a \o b, e) PROVE In(a, e) \/ In(b, e)
  <2>1. PICK i \in DOMAIN (a \o b) : (a \o b)[i] = e
    BY <1>3 DEF In
  <2>2. CASE i <= Len(a)
    <3>1. i \in DOMAIN a /\ a[i] = e
      BY <2>1, <2>2
    <3>. QED BY <3>1 DEF In
  <2>3. CASE i > Len(a)
    <3>1. i - Len(a) \in DOMAIN b /\ b[i - Len(a)] = e
      BY <2>1, <2>3
    <3>. QED BY <3>1 DEF In
  <2>. QED BY <2>1, <2>2, <2>3
<1>. QED BY <1>1, <1>2, <1>3

LEMMA ConcatPrecedes ==
  ASSUME NEW S, NEW a \in Seq(S), NEW b \in Seq(S), NEW e, NEW f
  PROVE  Precedes(a \o b, e, f) <=>
         Precedes(a, e, f) \/ Precedes(b, e, f) \/ (In(a, e) /\ In(b, f))
<1>1. ASSUME Precedes(a, e, f) PROVE Precedes(a \o b, e, f)
  <2>1. PICK i \in DOMAIN a, j \in DOMAIN a : i < j /\ a[i] = e /\ a[j] = f
    BY <1>1 DEF Precedes
  <2>2. i \in DOMAIN (a \o b) /\ (a \o b)[i] = e /\ j \in DOMAIN (a \o b) /\ (a \o b)[j] = f
    BY <2>1
  <2>. QED BY <2>1, <2>2 DEF Precedes
<1>2. ASSUME Precedes(b, e, f) PROVE Precedes(a \o b, e, f)
  <2>1. PICK i \in DOMAIN b, j \in DOMAIN b : i < j /\ b[i] = e /\ b[j] = f
    BY <1>2 DEF Precedes
  <2>2. /\ i + Len(a) \in DOMAIN (a \o b) /\ (a \o b)[i + Len(a)] = e
        /\ j + Len(a) \in DOMAIN (a \o b) /\ (a \o b)[j + Len(a)] = f
        /\ i + Len(a) < j + Len(a)
    BY <2>1
  <2>. QED BY <2>2 DEF Precedes
<1>3. ASSUME In(a, e), In(b, f) PROVE Precedes(a \o b, e, f)
  <2>1. PICK i \in DOMAIN a, j \in DOMAIN b : a[i] = e /\ b[j] = f
    BY <1>3 DEF In
  <2>2. /\ i \in DOMAIN (a \o b) /\ (a \o b)[i] = e
        /\ j + Len(a) \in DOMAIN (a \o b) /\ (a \o b)[j + Len(a)] = f
        /\ i < j + Len(a)
    BY <2>1
  <2>. QED BY <2>2 DEF Precedes
<1>4. ASSUME Precedes(a \o b, e, f)
      PROVE  Precedes(a, e, f) \/ Precedes(b, e, f) \/ (In(a, e) /\ In(b, f))
  <2>1. PICK i \in DOMAIN (a \o b), j \in DOMAIN (a \o b) :
          i < j /\ (a \o b)[i] = e /\ (a \o b)[j] = f
    BY <1>4 DEF Precedes
  <2>2. CASE j <= Len(a)
    <3>1. i \in DOMAIN a /\ a[i] = e /\ j \in DOMAIN a /\ a[j] = f
      BY <2>1, <2>2
    <3>2. Precedes(a, e, f)
      BY <2>1, <3>1 DEF Precedes
    <3>. QED BY <3>2
  <2>3. CASE i > Len(a)
    <3>1. /\ i - Len(a) \in DOMAIN b /\ b[i - Len(a)] = e
          /\ j - Len(a) \in DOMAIN b /\ b[j - Len(a)] = f
          /\ i - Len(a) < j - Len(a)
      BY <2>1, <2>3
    <3>2. Precedes(b, e, f)
      BY <3>1 DEF Precedes
    <3>. QED BY <3>2
  <2>4. CASE i <= Len(a) /\ j > Len(a)
    <3>1. i \in DOMAIN a /\ a[i] = e /\ j - Len(a) \in DOMAIN b /\ b[j - Len(a)] = f
      BY <2>1, <2>4
    <3>2. In(a, e) /\ In(b, f)
      BY <3>1 DEF In
    <3>. QED BY <3>2
  <2>. QED BY <2>1, <2>2, <2>3, <2>4
<1>. QED BY <1>1, <1>2, <1>3, <1>4

LEMMA OncePrecedes ==
  ASSUME NEW S, NEW s \in Seq(S)
  PROVE  Once(s) <=> \A e : ~ Precedes(s, e, e)
<1>1. ASSUME Once(s), NEW e, Precedes(s, e, e) PROVE FALSE
  BY <1>1 DEF Once, Precedes
<1>2. ASSUME \A e : ~ Precedes(s, e, e) PROVE Once(s)
  <2>. SUFFICES ASSUME NEW i \in DOMAIN s, NEW j \in DOMAIN s, s[i] = s[j], i # j PROVE FALSE
    BY DEF Once
  <2>1. i \in Nat /\ j \in Nat
    OBVIOUS
  <2>2. Precedes(s, s[i], s[i])
    BY <2>1 DEF Precedes
  <2>. QED BY <1>2, <2>2
<1>. QED BY <1>1, <1>2

LEMMA OneEntry ==
  ASSUME NEW x, NEW e, NEW f
  PROVE  (In(<<x>>, e) <=> x = e) /\ ~ Precedes(<<x>>, e, f)
  BY DEF In, Precedes

LEMMA NoEntries ==
  ASSUME NEW e, NEW f
  PROVE  ~ In(<<>>, e) /\ ~ Precedes(<<>>, e, f)
  BY DEF In, Precedes

(* What cleanup_pending_task leaves of a queue that holds a task once.     *)
LEMMA Removed ==
  ASSUME NEW S, NEW s \in Seq(S), Once(s), NEW r
  PROVE  /\ Without(s, r) \in Seq(S)
         /\ \A e : In(Without(s, r), e) <=> In(s, e) /\ e # Run(r)
         /\ \A e, f : Precedes(Without(s, r), e, f) => Precedes(s, e, f)
<1>1. CASE ~ In(s, Run(r))
  BY <1>1 DEF Without
<1>2. CASE In(s, Run(r))
  <2>. DEFINE k == CHOOSE i \in DOMAIN s : s[i] = Run(r)
              a == SubSeq(s, 1, k - 1)
              b == SubSeq(s, k + 1, Len(s))
  <2>1. k \in DOMAIN s /\ s[k] = Run(r)
    BY <1>2 DEF In
  <2>2. Without(s, r) = a \o b
    BY <1>2 DEF Without
  <2>. HIDE DEF k
  <2>3. k \in 1 .. Len(s) /\ Len(s) \in Nat
    BY <2>1
  <2>4. /\ a \in Seq(S) /\ b \in Seq(S)
        /\ Len(a) = k - 1 /\ Len(b) = Len(s) - k
        /\ \A i \in 1 .. k - 1 : a[i] = s[i]
        /\ \A i \in 1 .. Len(s) - k : b[i] = s[i + k]
    BY <2>3
  <2>. HIDE DEF a, b
  <2>5. ASSUME NEW e PROVE In(a \o b, e) <=> In(s, e) /\ e # Run(r)
    <3>1. ASSUME In(a, e) PROVE In(s, e) /\ e # Run(r)
      <4>1. PICK i \in 1 .. k - 1 : s[i] = e
        BY <3>1, <2>4 DEF In
      <4>. QED BY <4>1, <2>1, <2>3 DEF In, Once
    <3>2. ASSUME In(b, e) PROVE In(s, e) /\ e # Run(r)
      <4>1. PICK i \in 1 .. Len(s) - k : s[i + k] = e
        BY <3>2, <2>4 DEF In
      <4>2. i + k \in DOMAIN s /\ i + k # k
        BY <4>1, <2>3
      <4>. QED BY <4>1, <4>2, <2>1 DEF In, Once
    <3>3. ASSUME In(s, e), e # Run(r) PROVE In(a, e) \/ In(b, e)
      <4>1. PICK i \in DOMAIN s : s[i] = e
        BY <3>3 DEF In
      <4>2. i # k /\ i \in 1 .. Len(s)
        BY <4>1, <3>3, <2>1
      <4>3. CASE i < k
        <5>1. i \in DOMAIN a /\ a[i] = e
          BY <4>1, <4>2, <4>3, <2>3, <2>4
        <5>. QED BY <5>1 DEF In
      <4>4. CASE i > k
        <5>1. i - k \in DOMAIN b /\ b[i - k] = e
          BY <4>1, <4>2, <4>4, <2>3, <2>4
        <5>. QED BY <5>1 DEF In
      <4>. QED BY <4>2, <4>3, <4>4, <2>3
    <3>. QED BY <3>1, <3>2, <3>3, <2>4, ConcatIn
  <2>6. ASSUME NEW e, NEW f, Precedes(a \o b, e, f) PROVE Precedes(s, e, f)
    <3>1. CASE Precedes(a, e, f)
      <4>1. PICK i \in 1 .. k - 1, j \in 1 .. k - 1 : i < j /\ s[i] = e /\ s[j] = f
        BY <3>1, <2>4 DEF Precedes
      <4>. QED BY <4>1, <2>3 DEF Precedes
    <3>2. CASE Precedes(b, e, f)
      <4>1. PICK i \in 1 .. Len(s) - k, j \in 1 .. Len(s) - k :
              i < j /\ s[i + k] = e /\ s[j + k] = f
        BY <3>2, <2>4 DEF Precedes
      <4>2. i + k \in DOMAIN s /\ j + k \in DOMAIN s /\ i + k < j + k
        BY <4>1, <2>3
      <4>. QED BY <4>1, <4>2 DEF Precedes
    <3>3. CASE In(a, e) /\ In(b, f)
      <4>1. PICK i \in 1 .. k - 1, j \in 1 .. Len(s) - k : s[i] = e /\ s[j + k] = f
        BY <3>3, <2>4 DEF In
      <4>2. i \in DOMAIN s /\ j + k \in DOMAIN s /\ i < j + k
        BY <4>1, <2>3
      <4>. QED BY <4>1, <4>2 DEF Precedes
    <3>. QED BY <2>6, <3>1, <3>2, <3>3, <2>4, ConcatPrecedes
  <2>7. a \o b \in Seq(S)
    BY <2>4
  <2>. QED BY <2>2, <2>5, <2>6, <2>7
<1>. QED BY <1>1, <1>2

(* The five pieces of a trail.                                             *)
Line(a, b, c, d, t) == a \o b \o c \o d \o t

LEMMA LineSeq ==
  ASSUME NEW a \in Seq(Entries), NEW b \in Seq(Entries), NEW c \in Seq(Entries),
         NEW d \in Seq(Entries), NEW t \in Seq(Entries)
  PROVE  Line(a, b, c, d, t) \in Seq(Entries)
  BY DEF Line

LEMMA LineIn ==
  ASSUME NEW a \in Seq(Entries), NEW b \in Seq(Entries), NEW c \in Seq(Entries),
         NEW d \in Seq(Entries), NEW t \in Seq(Entries),
         NEW e
  PROVE  In(Line(a, b, c, d, t), e) <=>
           In(a, e) \/ In(b, e) \/ In(c, e) \/ In(d, e) \/ In(t, e)
<1>. DEFINE ab == a \o b
            abc == ab \o c
            abcd == abc \o d
<1>1. Line(a, b, c, d, t) = abcd \o t
  BY DEF Line
<1>2. ab \in Seq(Entries) /\ abc \in Seq(Entries) /\ abcd \in Seq(Entries)
  OBVIOUS
<1>3. In(ab, e) <=> In(a, e) \/ In(b, e)
  BY ConcatIn
<1>. HIDE DEF ab
<1>4. In(abc, e) <=> In(ab, e) \/ In(c, e)
  BY <1>2, ConcatIn
<1>. HIDE DEF abc
<1>5. In(abcd, e) <=> In(abc, e) \/ In(d, e)
  BY <1>2, ConcatIn
<1>. HIDE DEF abcd
<1>6. In(Line(a, b, c, d, t), e) <=> In(abcd, e) \/ In(t, e)
  BY <1>1, <1>2, ConcatIn
<1>. QED BY <1>3, <1>4, <1>5, <1>6

LEMMA LinePrecedes ==
  ASSUME NEW a \in Seq(Entries), NEW b \in Seq(Entries), NEW c \in Seq(Entries),
         NEW d \in Seq(Entries), NEW t \in Seq(Entries),
         NEW e, NEW f
  PROVE  Precedes(Line(a, b, c, d, t), e, f) <=>
           \/ Precedes(a, e, f) \/ Precedes(b, e, f) \/ Precedes(c, e, f)
           \/ Precedes(d, e, f) \/ Precedes(t, e, f)
           \/ In(a, e) /\ (In(b, f) \/ In(c, f) \/ In(d, f) \/ In(t, f))
           \/ In(b, e) /\ (In(c, f) \/ In(d, f) \/ In(t, f))
           \/ In(c, e) /\ (In(d, f) \/ In(t, f))
           \/ In(d, e) /\ In(t, f)
<1>. DEFINE ab == a \o b
            abc == ab \o c
            abcd == abc \o d
<1>1. Line(a, b, c, d, t) = abcd \o t
  BY DEF Line
<1>2. ab \in Seq(Entries) /\ abc \in Seq(Entries) /\ abcd \in Seq(Entries)
  OBVIOUS
<1>3. Precedes(ab, e, f) <=> Precedes(a, e, f) \/ Precedes(b, e, f) \/ (In(a, e) /\ In(b, f))
  BY ConcatPrecedes
<1>4. In(ab, e) <=> In(a, e) \/ In(b, e)
  BY ConcatIn
<1>. HIDE DEF ab
<1>5. Precedes(abc, e, f) <=>
        Precedes(ab, e, f) \/ Precedes(c, e, f) \/ (In(ab, e) /\ In(c, f))
  BY <1>2, ConcatPrecedes
<1>6. In(abc, e) <=> In(ab, e) \/ In(c, e)
  BY <1>2, ConcatIn
<1>. HIDE DEF abc
<1>7. Precedes(abcd, e, f) <=>
        Precedes(abc, e, f) \/ Precedes(d, e, f) \/ (In(abc, e) /\ In(d, f))
  BY <1>2, ConcatPrecedes
<1>8. In(abcd, e) <=> In(abc, e) \/ In(d, e)
  BY <1>2, ConcatIn
<1>. HIDE DEF abcd
<1>9. Precedes(Line(a, b, c, d, t), e, f) <=>
        Precedes(abcd, e, f) \/ Precedes(t, e, f) \/ (In(abcd, e) /\ In(t, f))
  BY <1>1, <1>2, ConcatPrecedes
<1>. QED BY <1>3, <1>4, <1>5, <1>6, <1>7, <1>8, <1>9

-----------------------------------------------------------------------------
(* Where a task is: in somebody's hand exactly while that one handles it,  *)
(* set aside only during a yield.                                          *)
Places ==
  /\ handled \in Seq(Entries) /\ unhandled \in Seq(Entries) /\ tasks \in Seq(Entries)
  /\ main = "handle" => mainTask \in Entries
  /\ main # "handle" => mainTask = NoEntry
  /\ worker = "handle" => workerTask \in Entries
  /\ worker # "handle" => workerTask = NoEntry
  /\ main \notin {"work", "yielded"} => unhandled = <<>>

(* What the state of a request says of the history and of the trail.       *)
Ledger ==
  /\ posted \in Seq(Requests) /\ dropped \subseteq Requests
  /\ \A r \in Requests : In(posted, r) <=> http[r] \in {"posted", "cancelled"}
  /\ \A r \in dropped : In(posted, r)
  /\ \A r \in Requests : In(Trail, Cancel(r)) => http[r] = "cancelled"

Queued == Places /\ Ledger /\ OrderIsKept

LEMMA EntryShapes ==
  /\ \A r \in Requests : Run(r) \in Entries /\ Cancel(r) \in Entries
  /\ \A r, q \in Requests : (Run(r) = Run(q) <=> r = q) /\ (Cancel(r) = Cancel(q) <=> r = q)
  /\ \A r, q \in Requests : Run(r) # Cancel(q)
  /\ \A e \in Entries : OnlyReads(e) => e.req \in Metrics /\ e = Run(e.req)
<1>1. \A r, q : (Run(r) = Run(q) => r = q) /\ (Cancel(r) = Cancel(q) => r = q)
  BY DEF Run, Cancel
<1>2. \A r, q : Run(r) # Cancel(q)
  BY DEF Run, Cancel
<1>3. ASSUME NEW e \in Entries, OnlyReads(e) PROVE e.req \in Metrics /\ e = Run(e.req)
  BY <1>3 DEF Entries, OnlyReads, Run, Cancel
<1>. QED BY <1>1, <1>2, <1>3 DEF Entries

LEMMA HandShapes ==
  /\ Hand(NoEntry) = <<>> /\ Hand(NoEntry) \in Seq(Entries)
  /\ \A e \in Entries : Hand(e) = <<e>> /\ Hand(e) \in Seq(Entries)
  BY NoEntryAssumption DEF Hand

LEMMA TrailIsLine ==
  Trail = Line(handled, Hand(mainTask), unhandled, Hand(workerTask), tasks)
  BY DEF Trail, Line

LEMMA HandsAreSequences ==
  ASSUME Places
  PROVE  Hand(mainTask) \in Seq(Entries) /\ Hand(workerTask) \in Seq(Entries)
  BY HandShapes DEF Places

LEMMA SameTrail ==
  ASSUME Ledger, OrderIsKept, Trail' = Trail, posted' = posted, dropped' = dropped,
         \A r \in Requests : /\ http'[r] \in {"posted", "cancelled"} <=>
                                 http[r] \in {"posted", "cancelled"}
                             /\ http'[r] = "cancelled" <=> http[r] = "cancelled"
  PROVE  Ledger' /\ OrderIsKept'
<1>1. OrderIsKept'
  BY DEF OrderIsKept, InOrder, CancelIsLast
<1>2. Ledger'
  BY DEF Ledger
<1>. QED BY <1>1, <1>2

(* The parts of the trail that a step leaves alone.                        *)
LEMMA SameParts ==
  ASSUME handled' = handled, mainTask' = mainTask, unhandled' = unhandled,
         workerTask' = workerTask, tasks' = tasks
  PROVE  Trail' = Trail
  BY DEF Trail, Hand

(* In nobody's queue: the tasks of a loop that only waits or wakes.        *)
LEMMA IdleStep ==
  ASSUME IInv, Queued, UNCHANGED <<queues, mainTask, workerTask, history>>,
         \A r \in Requests : /\ http'[r] \in {"posted", "cancelled"} <=>
                                 http[r] \in {"posted", "cancelled"}
                             /\ http'[r] = "cancelled" <=> http[r] = "cancelled",
         main' = "handle" <=> main = "handle", worker' = "handle" <=> worker = "handle",
         main \in {"work", "yielded"} => main' \in {"work", "yielded"}
  PROVE  Queued'
<1>1. Trail' = Trail
  BY SameParts DEF queues, history
<1>2. Ledger' /\ OrderIsKept'
  BY <1>1, SameTrail DEF Queued, history
<1>3. Places'
  BY DEF Queued, Places, queues, history
<1>. QED BY <1>2, <1>3 DEF Queued

LEMMA ClientQueued ==
  ASSUME IInv, Queued, NEW r \in Requests, CheckSleep(r) \/ StopWaiting(r)
  PROVE  Queued'
<1>1. \A q \in Requests : /\ http'[q] \in {"posted", "cancelled"} <=>
                               http[q] \in {"posted", "cancelled"}
                          /\ http'[q] = "cancelled" <=> http[q] = "cancelled"
  BY DEF IInv, ControlOK, CheckSleep, StopWaiting
<1>2. UNCHANGED <<queues, mainTask, workerTask, history, main, worker>>
  BY DEF CheckSleep, StopWaiting, threads
<1>. QED BY <1>1, <1>2, IdleStep

LEMMA QuietQueued ==
  ASSUME IInv, Queued,
         \/ Terminate \/ UpdateDone \/ Yield \/ WorkDone \/ MainWait \/ MainWaited
         \/ MainAsleep \/ StopWorker \/ Join \/ WorkerStart \/ WorkerCheck \/ WorkerWait
         \/ WorkerClear
  PROVE  Queued'
<1>1. UNCHANGED <<http, queues, mainTask, workerTask, history>>
  BY DEF Terminate, UpdateDone, Yield, WorkDone, MainWait, MainWaited, MainAsleep, StopWorker,
         Join, WorkerStart, WorkerCheck, WorkerWait, WorkerClear, threads
<1>2. /\ main' = "handle" <=> main = "handle"
      /\ worker' = "handle" <=> worker = "handle"
      /\ main \in {"work", "yielded"} => main' \in {"work", "yielded"}
  BY DEF Terminate, UpdateDone, Yield, WorkDone, MainWait, MainWaited, MainAsleep, StopWorker,
         Join, WorkerStart, WorkerCheck, WorkerWait, WorkerClear, threads
<1>. QED BY <1>1, <1>2, IdleStep

-----------------------------------------------------------------------------
(* The loop and the worker take the first task; what they hold stands      *)
(* where it stood.                                                         *)
LEMMA HeadFirst ==
  ASSUME NEW s \in Seq(Entries), s # <<>>
  PROVE  /\ Head(s) \in Entries /\ Tail(s) \in Seq(Entries)
         /\ <<Head(s)>> \o Tail(s) = s
  OBVIOUS

LEMMA MainPopQueued == ASSUME IInv, Queued, MainPop PROVE Queued'
<1>1. CASE UNCHANGED <<tasks, mainTask>> /\ main' \in {"stop", "update"}
  <2>1. UNCHANGED <<http, queues, mainTask, workerTask, history>> /\ worker' = worker
    BY <1>1 DEF MainPop, queues
  <2>. QED BY <1>1, <2>1, IdleStep DEF MainPop
<1>2. CASE tasks # <<>> /\ mainTask' = Head(tasks) /\ tasks' = Tail(tasks) /\ main' = "handle"
  <2>1. /\ main = "pop" /\ mainTask = NoEntry /\ unhandled = <<>> /\ worker # "handle"
        /\ workerTask = NoEntry /\ handled \in Seq(Entries) /\ tasks \in Seq(Entries)
    BY DEF MainPop, Queued, Places, IInv, Handshake, Working
  <2>2. UNCHANGED <<http, unhandled, worker, workerTask, history>>
    BY DEF MainPop
  <2>3. /\ Head(tasks) \in Entries /\ Tail(tasks) \in Seq(Entries)
        /\ <<Head(tasks)>> \o Tail(tasks) = tasks
    BY <1>2, <2>1, HeadFirst
  <2>4. Trail = handled \o tasks
    BY <2>1, HandShapes DEF Trail
  <2>5. Trail' = handled \o <<Head(tasks)>> \o Tail(tasks)
    <3>1. Hand(mainTask') = <<Head(tasks)>> /\ Hand(workerTask') = <<>> /\ unhandled' = <<>>
      BY <1>2, <2>1, <2>2, <2>3, HandShapes
    <3>2. Trail' = handled \o Hand(mainTask') \o unhandled' \o Hand(workerTask') \o tasks'
      BY <2>2 DEF Trail, history, Hand
    <3>. QED BY <1>2, <2>1, <2>3, <3>1, <3>2
  <2>6. Trail' = Trail
    BY <2>1, <2>3, <2>4, <2>5
  <2>7. Ledger' /\ OrderIsKept'
    BY <2>2, <2>6, SameTrail DEF Queued, history
  <2>8. Places'
    BY <1>2, <2>1, <2>2, <2>3 DEF Places, Queued, history
  <2>. QED BY <2>7, <2>8 DEF Queued
<1>. QED BY <1>1, <1>2 DEF MainPop

LEMMA MainHandleQueued == ASSUME IInv, Queued, MainHandle PROVE Queued'
<1>1. /\ main = "handle" /\ mainTask \in Entries /\ handled \in Seq(Entries)
      /\ handled' = Append(handled, mainTask) /\ mainTask' = NoEntry /\ main' = "pop"
      /\ UNCHANGED <<http, queues, worker, workerTask, posted, dropped>>
      /\ unhandled = <<>>
  BY DEF MainHandle, Queued, Places
<1>2. handled' = handled \o Hand(mainTask) /\ handled' \in Seq(Entries)
  <2>1. Hand(mainTask) = <<mainTask>>
    BY <1>1, HandShapes
  <2>2. handled' = handled \o <<mainTask>> /\ handled' \in Seq(Entries)
    BY <1>1
  <2>. QED BY <2>1, <2>2
<1>3. handled' \o Hand(mainTask') = handled \o Hand(mainTask)
  BY <1>1, <1>2, HandShapes
<1>4. Trail' = Trail
  BY <1>1, <1>3 DEF Trail, queues, Hand
<1>5. Ledger' /\ OrderIsKept'
  BY <1>1, <1>4, SameTrail DEF Queued
<1>6. Places'
  BY <1>1, <1>2 DEF Places, Queued, queues
<1>. QED BY <1>5, <1>6 DEF Queued

LEMMA CollectQueued == ASSUME IInv, Queued, Collect PROVE Queued'
<1>1. CASE busy
  <2>1. UNCHANGED <<http, queues, main, worker, mainTask, workerTask, history>>
    BY <1>1 DEF Collect
  <2>. QED BY <2>1, IdleStep
<1>2. CASE ~ busy
  <2>1. /\ mainTask = NoEntry /\ workerTask = NoEntry /\ worker # "handle"
        /\ handled \in Seq(Entries) /\ tasks \in Seq(Entries) /\ unhandled \in Seq(Entries)
    BY <1>2 DEF Collect, Queued, Places, IInv, Handshake, Working
  <2>2. /\ UNCHANGED <<http, mainTask, worker, workerTask, history>>
        /\ tasks' = unhandled \o tasks /\ unhandled' = <<>> /\ main' \in {"wait", "update"}
    BY <1>2 DEF Collect
  <2>3. Trail = handled \o unhandled \o tasks
    BY <2>1, HandShapes DEF Trail
  <2>4. Trail' = handled \o (unhandled \o tasks)
    BY <2>1, <2>2, HandShapes DEF Trail, history
  <2>5. Trail' = Trail
    BY <2>1, <2>3, <2>4
  <2>6. Ledger' /\ OrderIsKept'
    BY <2>2, <2>5, SameTrail DEF Queued, history
  <2>7. Places'
    BY <2>1, <2>2 DEF Places, Queued, history
  <2>. QED BY <2>6, <2>7 DEF Queued
<1>. QED BY <1>1, <1>2

LEMMA WorkerPopQueued == ASSUME IInv, Queued, WorkerPop PROVE Queued'
<1>1. CASE UNCHANGED <<tasks, workerTask>> /\ worker' \in {"clear", "check"}
  <2>1. UNCHANGED <<http, queues, mainTask, workerTask, history>> /\ main' = main
    BY <1>1 DEF WorkerPop, queues
  <2>. QED BY <1>1, <2>1, IdleStep DEF WorkerPop
<1>2. CASE tasks # <<>> /\ workerTask' = Head(tasks) /\ tasks' = Tail(tasks) /\ worker' = "handle"
  <2>1. /\ workerTask = NoEntry /\ mainTask = NoEntry /\ main # "handle"
        /\ handled \in Seq(Entries) /\ tasks \in Seq(Entries) /\ unhandled \in Seq(Entries)
    BY DEF WorkerPop, Queued, Places, IInv, Handshake, Working
  <2>2. UNCHANGED <<http, unhandled, main, mainTask, history>>
    BY DEF WorkerPop
  <2>3. /\ Head(tasks) \in Entries /\ Tail(tasks) \in Seq(Entries)
        /\ <<Head(tasks)>> \o Tail(tasks) = tasks
    BY <1>2, <2>1, HeadFirst
  <2>. DEFINE front == handled \o unhandled
  <2>4. Trail = front \o tasks
    BY <2>1, HandShapes DEF Trail
  <2>5. Trail' = front \o <<Head(tasks)>> \o Tail(tasks)
    <3>1. Hand(workerTask') = <<Head(tasks)>> /\ Hand(mainTask') = <<>>
      BY <1>2, <2>1, <2>2, <2>3, HandShapes
    <3>2. Trail' = handled \o Hand(mainTask') \o unhandled \o Hand(workerTask') \o tasks'
      BY <2>2 DEF Trail, history, Hand
    <3>. QED BY <1>2, <2>1, <2>3, <3>1, <3>2
  <2>6. front \in Seq(Entries)
    BY <2>1
  <2>. HIDE DEF front
  <2>7. Trail' = Trail
    BY <2>1, <2>3, <2>4, <2>5, <2>6
  <2>8. Ledger' /\ OrderIsKept'
    BY <2>2, <2>7, SameTrail DEF Queued, history
  <2>9. Places'
    BY <1>2, <2>1, <2>2, <2>3 DEF Places, Queued, history
  <2>. QED BY <2>8, <2>9 DEF Queued
<1>. QED BY <1>1, <1>2 DEF WorkerPop

LEMMA WorkerDeclineQueued == ASSUME IInv, Queued, WorkerDecline PROVE Queued'
<1>1. /\ worker = "handle" /\ workerTask \in Entries /\ main \in {"work", "yielded"}
      /\ mainTask = NoEntry /\ handled \in Seq(Entries) /\ tasks \in Seq(Entries)
      /\ unhandled \in Seq(Entries)
  BY DEF WorkerDecline, Queued, Places, IInv, Handshake, Working
<1>2. /\ unhandled' = Append(unhandled, workerTask) /\ workerTask' = NoEntry /\ worker' = "pop"
      /\ UNCHANGED <<http, tasks, main, mainTask, history>>
  BY DEF WorkerDecline
<1>3. unhandled' = unhandled \o <<workerTask>> /\ unhandled' \in Seq(Entries)
  BY <1>1, <1>2
<1>4. Trail = handled \o unhandled \o <<workerTask>> \o tasks
  <2>1. Hand(workerTask) = <<workerTask>> /\ Hand(mainTask) = <<>>
    BY <1>1, HandShapes
  <2>. QED BY <1>1, <2>1 DEF Trail
<1>5. Trail' = handled \o unhandled' \o tasks
  BY <1>1, <1>2, <1>3, HandShapes DEF Trail, history
<1>6. handled \o unhandled' = handled \o unhandled \o <<workerTask>>
  BY <1>1, <1>3
<1>7. Ledger' /\ OrderIsKept'
  BY <1>2, <1>4, <1>5, <1>6, SameTrail DEF Queued, history
<1>8. Places'
  BY <1>1, <1>2, <1>3 DEF Places, Queued, history
<1>. QED BY <1>7, <1>8 DEF Queued

-----------------------------------------------------------------------------
(* The steps that change the trail.                                        *)
LEMMA PrecedesIn ==
  ASSUME NEW s, NEW e, NEW f, Precedes(s, e, f) PROVE In(s, e) /\ In(s, f)
  BY DEF Precedes, In

LEMMA AppendIn ==
  ASSUME NEW S, NEW s \in Seq(S), NEW x \in S, NEW e
  PROVE  In(Append(s, x), e) <=> In(s, e) \/ e = x
<1>1. Append(s, x) = s \o <<x>> /\ <<x>> \in Seq(S)
  OBVIOUS
<1>2. In(s \o <<x>>, e) <=> In(s, e) \/ In(<<x>>, e)
  BY <1>1, ConcatIn
<1>3. In(<<x>>, e) <=> x = e
  BY OneEntry
<1>. QED BY <1>1, <1>2, <1>3

LEMMA AppendPrecedes ==
  ASSUME NEW S, NEW s \in Seq(S), NEW x \in S, NEW e, NEW f
  PROVE  Precedes(Append(s, x), e, f) <=> Precedes(s, e, f) \/ (In(s, e) /\ f = x)
<1>1. Append(s, x) = s \o <<x>> /\ <<x>> \in Seq(S)
  OBVIOUS
<1>2. Precedes(s \o <<x>>, e, f) <=>
        Precedes(s, e, f) \/ Precedes(<<x>>, e, f) \/ (In(s, e) /\ In(<<x>>, f))
  BY <1>1, ConcatPrecedes
<1>3. (In(<<x>>, f) <=> x = f) /\ ~ Precedes(<<x>>, e, f)
  BY OneEntry
<1>. QED BY <1>1, <1>2, <1>3

LEMMA PostQueued ==
  ASSUME IInv, Queued, NEW r \in Requests, Post(r)
  PROVE  Queued'
<1>1. /\ http[r] = "ready" /\ http' = [http EXCEPT ![r] = "posted"]
      /\ tasks' = Append(tasks, Run(r)) /\ posted' = Append(posted, r)
      /\ UNCHANGED <<unhandled, threads, handled, dropped>>
  BY DEF Post
<1>2. /\ http \in [Requests -> {"new", "waking", "ready", "posted", "cancelled"}]
      /\ handled \in Seq(Entries) /\ tasks \in Seq(Entries) /\ unhandled \in Seq(Entries)
      /\ posted \in Seq(Requests) /\ Run(r) \in Entries /\ ~ In(posted, r)
  BY <1>1, EntryShapes DEF IInv, ControlOK, Queued, Places, Ledger
<1>3. Trail \in Seq(Entries) /\ Trail' = Append(Trail, Run(r))
  <2>. DEFINE front == handled \o Hand(mainTask) \o unhandled \o Hand(workerTask)
  <2>1. Hand(mainTask) \in Seq(Entries) /\ Hand(workerTask) \in Seq(Entries)
    BY HandsAreSequences DEF Queued
  <2>2. front \in Seq(Entries)
    BY <1>2, <2>1
  <2>3. Trail = front \o tasks
    BY DEF Trail
  <2>4. Trail' = front \o tasks'
    BY <1>1 DEF Trail, threads, Hand
  <2>. HIDE DEF front
  <2>. QED BY <1>1, <1>2, <2>2, <2>3, <2>4
<1>. DEFINE N == Run(r)
<1>4. ASSUME NEW e PROVE In(Trail', e) <=> In(Trail, e) \/ e = N
  BY <1>2, <1>3, AppendIn
<1>5. ASSUME NEW e, NEW f
      PROVE  Precedes(Trail', e, f) <=> Precedes(Trail, e, f) \/ (In(Trail, e) /\ f = N)
  BY <1>2, <1>3, AppendPrecedes
<1>6. ASSUME NEW q PROVE In(posted', q) <=> In(posted, q) \/ q = r
  BY <1>1, <1>2, AppendIn
<1>7. ASSUME NEW p, NEW q
      PROVE  Precedes(posted', p, q) <=> Precedes(posted, p, q) \/ (In(posted, p) /\ q = r)
  BY <1>1, <1>2, AppendPrecedes
<1>8. /\ \A e : ~ Precedes(Trail, e, e)
      /\ \A q \in Requests : In(Trail, Run(q)) <=> In(posted, q) /\ q \notin dropped
      /\ \A p, q \in Requests \ Metrics :
           Precedes(posted, p, q) => ~ Precedes(Trail, Run(q), Run(p))
      /\ \A q \in Requests : ~ Precedes(Trail, Cancel(q), Run(q))
      /\ \A q \in Requests : In(Trail, Cancel(q)) => http[q] = "cancelled"
  BY <1>3, OncePrecedes DEF Queued, OrderIsKept, InOrder, CancelIsLast, Ledger
<1>9. ~ In(Trail, N) /\ r \notin dropped
  BY <1>2, <1>8 DEF Queued, Ledger
<1>10. \A e : ~ Precedes(Trail', e, e)
  BY <1>5, <1>8, <1>9
<1>11. Trail' \in Seq(Entries) /\ Once(Trail')
  <2>1. Trail' \in Seq(Entries)
    BY <1>2, <1>3
  <2>. QED BY <1>10, <2>1, OncePrecedes
<1>12. \A q \in Requests : In(Trail', Run(q)) <=> In(posted', q) /\ q \notin dropped
  BY <1>4, <1>6, <1>8, <1>9, EntryShapes
<1>13. ASSUME NEW p \in Requests \ Metrics, NEW q \in Requests \ Metrics, Precedes(posted', p, q),
              Precedes(Trail', Run(q), Run(p))
       PROVE  FALSE
  <2>1. In(Trail, Run(q))
    BY <1>5, <1>13, PrecedesIn
  <2>2. q # r
    BY <1>9, <2>1
  <2>3. Precedes(posted, p, q)
    BY <1>7, <1>13, <2>2
  <2>4. p # r
    BY <1>2, <2>3, PrecedesIn
  <2>5. Precedes(Trail, Run(q), Run(p))
    BY <1>5, <1>13, <2>4, EntryShapes
  <2>. QED BY <1>8, <2>3, <2>5
<1>14. \A q \in Requests : ~ Precedes(Trail', Cancel(q), Run(q))
  BY <1>1, <1>5, <1>8, EntryShapes
<1>15. OrderIsKept'
  BY <1>1, <1>11, <1>12, <1>13, <1>14 DEF OrderIsKept, InOrder, CancelIsLast
<1>16. Ledger'
  <2>1. posted' \in Seq(Requests)
    BY <1>1, <1>2
  <2>2. \A q \in Requests : In(posted', q) <=> http'[q] \in {"posted", "cancelled"}
    BY <1>1, <1>2, <1>6 DEF Queued, Ledger
  <2>3. \A q \in Requests : In(Trail', Cancel(q)) => http'[q] = "cancelled"
    BY <1>1, <1>2, <1>4, <1>8, EntryShapes
  <2>. QED BY <1>1, <1>6, <2>1, <2>2, <2>3 DEF Queued, Ledger
<1>17. Places'
  BY <1>1, <1>2 DEF Queued, Places, threads
<1>. QED BY <1>15, <1>16, <1>17 DEF Queued

LEMMA PostCancelQueued ==
  ASSUME IInv, Queued, NEW r \in Requests, PostCancel(r)
  PROVE  Queued'
<1>. DEFINE N == Cancel(r)
            R == Run(r)
            m == Hand(mainTask)
            w == Hand(workerTask)
            left == Without(tasks, r)
            aside == Without(unhandled, r)
<1>1. /\ http[r] = "posted" /\ http' = [http EXCEPT ![r] = "cancelled"]
      /\ tasks' = <<N>> \o left /\ unhandled' = aside
      /\ UNCHANGED <<threads, posted, handled>>
      /\ In(tasks, R) \/ In(unhandled, R) => dropped' = dropped \cup {r}
      /\ ~ (In(tasks, R) \/ In(unhandled, R)) => dropped' = dropped
  BY DEF PostCancel
<1>2. /\ http \in [Requests -> {"new", "waking", "ready", "posted", "cancelled"}]
      /\ handled \in Seq(Entries) /\ tasks \in Seq(Entries) /\ unhandled \in Seq(Entries)
      /\ N \in Entries /\ R \in Entries /\ N # R
      /\ m \in Seq(Entries) /\ w \in Seq(Entries)
  BY EntryShapes, HandsAreSequences DEF IInv, ControlOK, Queued, Places
<1>3. Trail = Line(handled, m, unhandled, w, tasks)
  BY TrailIsLine
<1>4. Trail \in Seq(Entries)
  BY <1>2, <1>3, LineSeq
<1>5. /\ \A e : ~ Precedes(Trail, e, e)
      /\ \A q \in Requests : In(Trail, Run(q)) <=> In(posted, q) /\ q \notin dropped
      /\ \A p, q \in Requests \ Metrics :
           Precedes(posted, p, q) => ~ Precedes(Trail, Run(q), Run(p))
      /\ \A q \in Requests : ~ Precedes(Trail, Cancel(q), Run(q))
      /\ \A q \in Requests : In(Trail, Cancel(q)) => http[q] = "cancelled"
  BY <1>4, OncePrecedes DEF Queued, OrderIsKept, InOrder, CancelIsLast, Ledger
<1>6. Trail' = Line(handled, m, aside, w, <<N>> \o left)
  BY <1>1 DEF Trail, Line, threads, Hand
<1>. HIDE DEF N, R, m, w
<1>7. Once(tasks) /\ Once(unhandled)
  <2>1. \A e : ~ Precedes(tasks, e, e) /\ ~ Precedes(unhandled, e, e)
    BY <1>2, <1>3, <1>5, LinePrecedes
  <2>. QED BY <1>2, <2>1, OncePrecedes
<1>8. /\ left \in Seq(Entries)
      /\ \A e : In(left, e) <=> In(tasks, e) /\ e # R
      /\ \A e, f : Precedes(left, e, f) => Precedes(tasks, e, f)
  BY <1>2, <1>7, Removed DEF R
<1>9. /\ aside \in Seq(Entries)
      /\ \A e : In(aside, e) <=> In(unhandled, e) /\ e # R
      /\ \A e, f : Precedes(aside, e, f) => Precedes(unhandled, e, f)
  BY <1>2, <1>7, Removed DEF R
<1>. HIDE DEF left, aside
<1>. DEFINE queue == <<N>> \o left
<1>10. /\ queue \in Seq(Entries)
       /\ \A e : In(queue, e) <=> e = N \/ In(left, e)
       /\ \A e, f : Precedes(queue, e, f) => Precedes(left, e, f) \/ (e = N /\ In(left, f))
  <2>1. <<N>> \in Seq(Entries)
    BY <1>2
  <2>2. ASSUME NEW e PROVE In(queue, e) <=> e = N \/ In(left, e)
    <3>1. In(queue, e) <=> In(<<N>>, e) \/ In(left, e)
      BY <1>8, <2>1, ConcatIn
    <3>. QED BY <3>1, OneEntry
  <2>3. ASSUME NEW e, NEW f, Precedes(queue, e, f)
        PROVE  Precedes(left, e, f) \/ (e = N /\ In(left, f))
    <3>1. Precedes(<<N>>, e, f) \/ Precedes(left, e, f) \/ (In(<<N>>, e) /\ In(left, f))
      BY <1>8, <2>1, <2>3, ConcatPrecedes
    <3>. QED BY <3>1, OneEntry
  <2>. QED BY <1>8, <2>1, <2>2, <2>3
<1>11. Trail' = Line(handled, m, aside, w, queue)
  BY <1>6
<1>. HIDE DEF queue
<1>12. ASSUME NEW e
       PROVE  In(Trail, e) <=>
                In(handled, e) \/ In(m, e) \/ In(unhandled, e) \/ In(w, e) \/ In(tasks, e)
  BY <1>2, <1>3, LineIn
<1>13. ASSUME NEW e
       PROVE  In(Trail', e) <=>
                In(handled, e) \/ In(m, e) \/ In(aside, e) \/ In(w, e) \/ In(queue, e)
  BY <1>2, <1>9, <1>10, <1>11, LineIn
<1>14. ASSUME NEW e, NEW f, Precedes(Trail', e, f)
       PROVE  Precedes(Trail, e, f) \/ (e = N /\ In(left, f)) \/ f = N
  <2>1. \/ Precedes(handled, e, f) \/ Precedes(m, e, f) \/ Precedes(aside, e, f)
        \/ Precedes(w, e, f) \/ Precedes(queue, e, f)
        \/ In(handled, e) /\ (In(m, f) \/ In(aside, f) \/ In(w, f) \/ In(queue, f))
        \/ In(m, e) /\ (In(aside, f) \/ In(w, f) \/ In(queue, f))
        \/ In(aside, e) /\ (In(w, f) \/ In(queue, f))
        \/ In(w, e) /\ In(queue, f)
    <3>1. Precedes(Line(handled, m, aside, w, queue), e, f)
      BY <1>11, <1>14
    <3>2. /\ handled \in Seq(Entries) /\ m \in Seq(Entries) /\ aside \in Seq(Entries)
          /\ w \in Seq(Entries) /\ queue \in Seq(Entries)
      BY <1>2, <1>9, <1>10
    <3>. QED BY <3>1, <3>2, LinePrecedes
  <2>2. Precedes(Trail, e, f) <=>
          \/ Precedes(handled, e, f) \/ Precedes(m, e, f) \/ Precedes(unhandled, e, f)
          \/ Precedes(w, e, f) \/ Precedes(tasks, e, f)
          \/ In(handled, e) /\ (In(m, f) \/ In(unhandled, f) \/ In(w, f) \/ In(tasks, f))
          \/ In(m, e) /\ (In(unhandled, f) \/ In(w, f) \/ In(tasks, f))
          \/ In(unhandled, e) /\ (In(w, f) \/ In(tasks, f))
          \/ In(w, e) /\ In(tasks, f)
    BY <1>2, <1>3, LinePrecedes
  <2>. QED BY <1>8, <1>9, <1>10, <2>1, <2>2
<1>15. ~ In(Trail, N)
  BY <1>1, <1>5 DEF N
<1>16. \A e : In(Trail', e) => In(Trail, e) \/ e = N
  BY <1>8, <1>9, <1>10, <1>12, <1>13
<1>17. \A e : In(Trail, e) /\ e # R => In(Trail', e)
  BY <1>8, <1>9, <1>10, <1>12, <1>13
<1>18. In(Trail', R) <=> In(Trail, R) /\ ~ (In(tasks, R) \/ In(unhandled, R))
  <2>1. ASSUME In(tasks, R) \/ In(unhandled, R)
        PROVE  ~ In(handled, R) /\ ~ In(m, R) /\ ~ In(w, R)
    <3>1. ~ Precedes(Trail, R, R)
      BY <1>5
    <3>2. Precedes(Trail, R, R) <=>
            \/ Precedes(handled, R, R) \/ Precedes(m, R, R) \/ Precedes(unhandled, R, R)
            \/ Precedes(w, R, R) \/ Precedes(tasks, R, R)
            \/ In(handled, R) /\ (In(m, R) \/ In(unhandled, R) \/ In(w, R) \/ In(tasks, R))
            \/ In(m, R) /\ (In(unhandled, R) \/ In(w, R) \/ In(tasks, R))
            \/ In(unhandled, R) /\ (In(w, R) \/ In(tasks, R))
            \/ In(w, R) /\ In(tasks, R)
      BY <1>2, <1>3, LinePrecedes
    <3>. QED BY <2>1, <3>1, <3>2
  <2>. QED BY <2>1, <1>2, <1>8, <1>9, <1>10, <1>12, <1>13
<1>19. Trail' \in Seq(Entries) /\ Once(Trail')
  <2>1. Trail' \in Seq(Entries)
    BY <1>2, <1>9, <1>10, <1>11, LineSeq
  <2>2. ASSUME NEW e, Precedes(Trail', e, e) PROVE FALSE
    <3>1. e = N
      BY <1>5, <1>14, <2>2
    <3>2. ~ In(handled, e) /\ ~ In(m, e) /\ ~ In(aside, e) /\ ~ In(w, e) /\ ~ In(left, e)
      BY <1>8, <1>9, <1>12, <1>15, <3>1
    <3>3. ~ Precedes(queue, e, e)
      BY <1>10, <3>2, PrecedesIn
    <3>4. ~ Precedes(handled, e, e) /\ ~ Precedes(m, e, e) /\ ~ Precedes(aside, e, e)
          /\ ~ Precedes(w, e, e)
      BY <3>2, PrecedesIn
    <3>. QED BY <1>2, <1>9, <1>10, <1>11, <2>2, <3>2, <3>3, <3>4, LinePrecedes
  <2>. QED BY <2>1, <2>2, OncePrecedes
<1>20. \A q \in Requests : (Run(q) = R <=> q = r) /\ Run(q) # N /\ (Cancel(q) = N <=> q = r)
  BY EntryShapes DEF N, R
<1>21. \A q \in Requests : In(Trail', Run(q)) <=> In(posted', q) /\ q \notin dropped'
  <2>1. ASSUME NEW q \in Requests, q # r
        PROVE  In(Trail', Run(q)) <=> In(posted', q) /\ q \notin dropped'
    BY <1>1, <1>5, <1>16, <1>17, <1>20, <2>1
  <2>2. In(Trail', R) <=> In(posted', r) /\ r \notin dropped'
    BY <1>1, <1>5, <1>18 DEF R
  <2>. QED BY <2>1, <2>2 DEF R
<1>22. \A p, q \in Requests \ Metrics :
         Precedes(posted', p, q) => ~ Precedes(Trail', Run(q), Run(p))
  BY <1>1, <1>5, <1>14, <1>20
<1>23. \A q \in Requests : ~ Precedes(Trail', Cancel(q), Run(q))
  BY <1>5, <1>8, <1>14, <1>20
<1>24. OrderIsKept'
  BY <1>19, <1>21, <1>22, <1>23 DEF OrderIsKept, InOrder, CancelIsLast
<1>25. Ledger'
  <2>1. posted' \in Seq(Requests) /\ dropped' \subseteq Requests
    BY <1>1 DEF Queued, Ledger
  <2>2. \A q \in Requests : In(posted', q) <=> http'[q] \in {"posted", "cancelled"}
    BY <1>1, <1>2 DEF Queued, Ledger
  <2>3. \A q \in dropped' : In(posted', q)
    BY <1>1, <1>2 DEF Queued, Ledger
  <2>4. \A q \in Requests : In(Trail', Cancel(q)) => http'[q] = "cancelled"
    BY <1>1, <1>2, <1>5, <1>16, <1>20
  <2>. QED BY <2>1, <2>2, <2>3, <2>4 DEF Ledger
<1>26. Places'
  <2>1. tasks' \in Seq(Entries) /\ unhandled' \in Seq(Entries)
    BY <1>1, <1>9, <1>10 DEF queue
  <2>2. unhandled = <<>> => unhandled' = <<>>
    <3>1. ASSUME unhandled = <<>> PROVE aside = unhandled
      BY <3>1, NoEntries DEF aside, Without
    <3>. QED BY <1>1, <3>1
  <2>. QED BY <1>1, <2>1, <2>2 DEF Queued, Places, threads
<1>. QED BY <1>24, <1>25, <1>26 DEF Queued

(* A task that only reads is processed ahead of those that were set aside, *)
(* or lost to an exception.                                                *)
LEMMA WorkerHandleQueued == ASSUME IInv, Queued, WorkerHandle PROVE Queued'
<1>. DEFINE W == workerTask
            x == W.req
            none == <<>>
            one == <<W>>
<1>1. /\ handled \in Seq(Entries) /\ tasks \in Seq(Entries) /\ unhandled \in Seq(Entries)
      /\ W \in Entries /\ mainTask = NoEntry /\ main # "handle" /\ workerTask' = NoEntry
      /\ UNCHANGED <<http, queues, main, mainTask, posted>> /\ worker' # "handle"
      /\ none \in Seq(Entries) /\ one \in Seq(Entries)
  BY DEF WorkerHandle, Queued, Places, IInv, Handshake, Working
<1>2. x \in Requests /\ x \in Metrics /\ W = Run(x)
  BY <1>1, EntryShapes, ThreadsAssumption DEF WorkerHandle
<1>3. /\ \A q \in Requests : (Run(q) = W <=> q = x) /\ Cancel(q) # W
      /\ \A q \in Requests : Run(q) \in Entries /\ Cancel(q) \in Entries
  BY <1>2, EntryShapes
<1>4. Trail = Line(handled, none, unhandled, one, tasks)
  <2>1. Hand(mainTask) = <<>> /\ Hand(workerTask) = <<W>>
    BY <1>1, HandShapes
  <2>. QED BY <2>1, TrailIsLine
<1>5. Trail \in Seq(Entries)
  BY <1>1, <1>4, LineSeq
<1>6. /\ \A e : ~ Precedes(Trail, e, e)
      /\ \A q \in Requests : In(Trail, Run(q)) <=> In(posted, q) /\ q \notin dropped
      /\ \A p, q \in Requests \ Metrics :
           Precedes(posted, p, q) => ~ Precedes(Trail, Run(q), Run(p))
      /\ \A q \in Requests : ~ Precedes(Trail, Cancel(q), Run(q))
      /\ \A q \in Requests : In(Trail, Cancel(q)) => http[q] = "cancelled"
  BY <1>5, OncePrecedes DEF Queued, OrderIsKept, InOrder, CancelIsLast, Ledger
<1>7. Hand(mainTask') = none /\ Hand(workerTask') = none
  BY <1>1, HandShapes
<1>8. /\ \A e : ~ In(none, e) /\ (In(one, e) <=> e = W)
      /\ \A e, f : ~ Precedes(none, e, f) /\ ~ Precedes(one, e, f)
      /\ handled \o one = Append(handled, W) /\ handled \o one \o none = handled \o one
  <2>1. \A e : ~ In(none, e) /\ (In(one, e) <=> e = W)
    BY NoEntries, OneEntry
  <2>2. \A e, f : ~ Precedes(none, e, f) /\ ~ Precedes(one, e, f)
    BY NoEntries, OneEntry
  <2>3. handled \o one = Append(handled, W) /\ handled \o one \o none = handled \o one
    BY <1>1
  <2>. QED BY <2>1, <2>2, <2>3
<1>9. Places'
  BY <1>1 DEF Queued, Places, queues, WorkerHandle
<1>. HIDE DEF W, x, none, one
<1>10. ASSUME NEW e
      PROVE  In(Trail, e) <=> In(handled, e) \/ In(unhandled, e) \/ e = W \/ In(tasks, e)
  <2>1. In(Trail, e) <=>
          In(handled, e) \/ In(none, e) \/ In(unhandled, e) \/ In(one, e) \/ In(tasks, e)
    BY <1>1, <1>4, LineIn
  <2>. QED BY <2>1, <1>8
<1>11. ASSUME NEW e, NEW f
      PROVE  Precedes(Trail, e, f) <=>
               \/ Precedes(handled, e, f) \/ Precedes(unhandled, e, f) \/ Precedes(tasks, e, f)
               \/ In(handled, e) /\ (In(unhandled, f) \/ f = W \/ In(tasks, f))
               \/ In(unhandled, e) /\ (f = W \/ In(tasks, f))
               \/ e = W /\ In(tasks, f)
  <2>1. Precedes(Trail, e, f) <=>
          \/ Precedes(handled, e, f) \/ Precedes(none, e, f) \/ Precedes(unhandled, e, f)
          \/ Precedes(one, e, f) \/ Precedes(tasks, e, f)
          \/ In(handled, e) /\ (In(none, f) \/ In(unhandled, f) \/ In(one, f) \/ In(tasks, f))
          \/ In(none, e) /\ (In(unhandled, f) \/ In(one, f) \/ In(tasks, f))
          \/ In(unhandled, e) /\ (In(one, f) \/ In(tasks, f))
          \/ In(one, e) /\ In(tasks, f)
    BY <1>1, <1>4, LinePrecedes
  <2>2. ~ In(none, e) /\ ~ In(none, f) /\ ~ Precedes(none, e, f) /\ ~ Precedes(one, e, f)
    BY <1>8
  <2>3. (In(one, e) <=> e = W) /\ (In(one, f) <=> f = W)
    BY <1>8
  <2>. QED BY <2>1, <2>2, <2>3
<1>12. CASE handled' = Append(handled, W) /\ UNCHANGED dropped
  <2>1. Trail' = Line(handled, one, unhandled, none, tasks)
    <3>1. handled' = handled \o one
      BY <1>12, <1>8
    <3>2. Trail' = handled' \o Hand(mainTask') \o unhandled \o Hand(workerTask') \o tasks
      BY <1>1 DEF Trail, Hand, queues
    <3>. QED BY <1>7, <1>8, <3>1, <3>2 DEF Line
  <2>2. Trail' \in Seq(Entries)
    BY <1>1, <2>1, LineSeq
  <2>3. ASSUME NEW e PROVE In(Trail', e) <=> In(Trail, e)
    <3>1. In(Trail', e) <=>
            In(handled, e) \/ In(one, e) \/ In(unhandled, e) \/ In(none, e) \/ In(tasks, e)
      BY <1>1, <2>1, LineIn
    <3>2. ~ In(none, e) /\ (In(one, e) <=> e = W)
      BY <1>8
    <3>. QED BY <1>10, <3>1, <3>2
  <2>4. ASSUME NEW e, NEW f, Precedes(Trail', e, f)
        PROVE  Precedes(Trail, e, f) \/ (e = W /\ In(unhandled, f))
    <3>1. Precedes(Line(handled, one, unhandled, none, tasks), e, f)
      BY <2>1, <2>4
    <3>2. \/ Precedes(handled, e, f) \/ Precedes(one, e, f) \/ Precedes(unhandled, e, f)
          \/ Precedes(none, e, f) \/ Precedes(tasks, e, f)
          \/ In(handled, e) /\ (In(one, f) \/ In(unhandled, f) \/ In(none, f) \/ In(tasks, f))
          \/ In(one, e) /\ (In(unhandled, f) \/ In(none, f) \/ In(tasks, f))
          \/ In(unhandled, e) /\ (In(none, f) \/ In(tasks, f))
          \/ In(none, e) /\ In(tasks, f)
      BY <1>1, <3>1, LinePrecedes
    <3>3. ~ In(none, e) /\ ~ In(none, f) /\ ~ Precedes(none, e, f) /\ ~ Precedes(one, e, f)
      BY <1>8
    <3>4. (In(one, e) <=> e = W) /\ (In(one, f) <=> f = W)
      BY <1>8
    <3>. QED BY <1>11, <3>2, <3>3, <3>4
  <2>5. ~ In(unhandled, W)
    BY <1>6, <1>11
  <2>6. Once(Trail')
    BY <1>6, <2>2, <2>4, <2>5, OncePrecedes
  <2>7. OrderIsKept'
    BY <1>1, <1>2, <1>3, <1>6, <1>12, <2>3, <2>4, <2>6 DEF OrderIsKept, InOrder, CancelIsLast
  <2>8. Ledger'
    BY <1>1, <1>3, <1>12, <2>3 DEF Queued, Ledger
  <2>. QED BY <1>9, <2>7, <2>8 DEF Queued
<1>13. CASE handled' = handled /\ dropped' = dropped \cup {x}
  <2>1. Trail' = Line(handled, none, unhandled, none, tasks)
    BY <1>1, <1>7, <1>13 DEF Trail, Hand, queues, Line
  <2>2. Trail' \in Seq(Entries)
    BY <1>1, <2>1, LineSeq
  <2>3. ASSUME NEW e PROVE In(Trail', e) <=> In(handled, e) \/ In(unhandled, e) \/ In(tasks, e)
    <3>1. In(Trail', e) <=>
            In(handled, e) \/ In(none, e) \/ In(unhandled, e) \/ In(none, e) \/ In(tasks, e)
      BY <1>1, <2>1, LineIn
    <3>. QED BY <3>1, <1>8
  <2>4. ASSUME NEW e, NEW f, Precedes(Trail', e, f) PROVE Precedes(Trail, e, f)
    <3>1. Precedes(Line(handled, none, unhandled, none, tasks), e, f)
      BY <2>1, <2>4
    <3>2. \/ Precedes(handled, e, f) \/ Precedes(none, e, f) \/ Precedes(unhandled, e, f)
          \/ Precedes(none, e, f) \/ Precedes(tasks, e, f)
          \/ In(handled, e) /\ (In(none, f) \/ In(unhandled, f) \/ In(none, f) \/ In(tasks, f))
          \/ In(none, e) /\ (In(unhandled, f) \/ In(none, f) \/ In(tasks, f))
          \/ In(unhandled, e) /\ (In(none, f) \/ In(tasks, f))
          \/ In(none, e) /\ In(tasks, f)
      BY <1>1, <3>1, LinePrecedes
    <3>3. ~ In(none, e) /\ ~ In(none, f) /\ ~ Precedes(none, e, f)
      BY <1>8
    <3>. QED BY <1>11, <3>2, <3>3
  <2>5. ~ In(handled, W) /\ ~ In(unhandled, W) /\ ~ In(tasks, W)
    BY <1>6, <1>11
  <2>6. ASSUME NEW e PROVE In(Trail', e) <=> In(Trail, e) /\ e # W
    BY <1>10, <2>3, <2>5
  <2>7. Once(Trail')
    BY <1>6, <2>2, <2>4, OncePrecedes
  <2>8. \A q \in Requests : In(Trail', Run(q)) <=> In(posted', q) /\ q \notin dropped'
    BY <1>1, <1>3, <1>6, <1>13, <2>6
  <2>9. OrderIsKept'
    BY <1>1, <1>6, <2>4, <2>7, <2>8 DEF OrderIsKept, InOrder, CancelIsLast
  <2>10. In(posted, x)
    BY <1>2, <1>6, <1>10
  <2>11. Ledger'
    BY <1>1, <1>2, <1>13, <2>6, <2>10 DEF Queued, Ledger
  <2>. QED BY <1>9, <2>9, <2>11 DEF Queued
<1>. QED BY <1>12, <1>13 DEF WorkerHandle, W, x

LEMMA InitQueued == Init => Queued
<1>. SUFFICES ASSUME Init PROVE Queued
  OBVIOUS
<1>1. Places
  BY DEF Init, Places
<1>2. Trail = <<>>
  BY HandShapes DEF Init, Trail
<1>3. \A e, f : ~ In(Trail, e) /\ ~ Precedes(Trail, e, f) /\ ~ In(posted, e)
  BY <1>2, NoEntries DEF Init
<1>4. Once(Trail)
  BY <1>2 DEF Once
<1>5. OrderIsKept
  BY <1>3, <1>4 DEF OrderIsKept, InOrder, CancelIsLast
<1>6. Ledger
  BY <1>3 DEF Init, Ledger
<1>. QED BY <1>1, <1>5, <1>6 DEF Queued

LEMMA StepQueued == IInv /\ Queued /\ [Next]_vars => Queued'
<1>. SUFFICES ASSUME IInv, Queued, [Next]_vars PROVE Queued'
  OBVIOUS
<1>1. CASE MainLoop
  BY <1>1, MainPopQueued, MainHandleQueued, CollectQueued, QuietQueued DEF MainLoop
<1>2. CASE WorkerLoop
  BY <1>2, WorkerPopQueued, WorkerHandleQueued, WorkerDeclineQueued, QuietQueued DEF WorkerLoop
<1>3. CASE Terminate
  BY <1>3, QuietQueued
<1>4. CASE \E r \in Requests : Client(r) \/ PostCancel(r)
  BY <1>4, ClientQueued, PostQueued, PostCancelQueued DEF Client
<1>5. CASE UNCHANGED vars
  <2>1. UNCHANGED <<http, queues, mainTask, workerTask, history, main, worker>>
    BY <1>5 DEF vars, threads
  <2>. QED BY <2>1, IdleStep
<1>. QED BY <1>1, <1>2, <1>3, <1>4, <1>5 DEF Next

(* However tasks are posted, cancelled, declined and put back, every       *)
(* posted task is in one place unless it was dropped, those that change    *)
(* slots are processed in the order of their posts, and a cancellation     *)
(* comes behind the task it is for.                                        *)
THEOREM OrderKept == Spec => []OrderIsKept
<1>1. Init => Queued
  BY InitQueued
<1>2. IInv /\ Queued /\ [Next]_vars => Queued'
  BY StepQueued
<1>3. Queued => OrderIsKept
  BY DEF Queued
<1>. QED BY <1>1, <1>2, <1>3, Invariance, PTL DEF Spec

-----------------------------------------------------------------------------
(* SlotBatch: the batch and the memory behind it.  What makes AllSampled   *)
(* and KvIsPrompt inductive comes first: the shape of the state, where the *)
(* last row of each slot is, what a reuse has moved so far (BInv), whose   *)
(* rows are left to decode, and what they and the memory hold (KInv).      *)

States == {"IDLE", "WAIT_OTHER", "STARTED", "PROCESSING_PROMPT", "DONE_PROMPT", "GENERATING"}
Task == [id : Nat, kind : {"single", "parent", "child"}, tokens : Prompts]
Rows == [slot : Slots, pos : 0 .. NCtx, tok : Tokens]
Slot == [state : States, task : Task \cup {NoTask}, prompt : Seq(Tokens), sampled : Tokens,
         gen : 0 .. MaxGen, ibatch : -1 .. NBatch - 1]

Typed ==
  /\ scenario \in Scenarios /\ launched \in 0 .. MaxTasks
  /\ phase \in {"tasks", "shift", "sampled", "prompts", "reuse", "decode", "post"} /\ at \in Slots
  /\ heads \in [c : 0 .. NCtx, h : 0 .. NCtx]
  /\ slot \in [Slots -> Slot]
  /\ kv \in [Slots -> SUBSET ((0 .. NCtx) \X Tokens)]
  /\ batch \in Seq(Rows) /\ Len(batch) <= NBatch
  /\ off \in 0 .. NBatch /\ n \in 1 .. NBatch

(* The slots: a task for each one in use, and room in each context.        *)
Shortened(s) == (phase = "shift" /\ s < at) \/ (phase = "sampled" /\ at <= s)
Fits == \A s \in Slots :
  /\ Len(slot[s].prompt) < NCtx
  /\ slot[s].state = "GENERATING" /\ Shortened(s) => Len(slot[s].prompt) + 1 < NCtx
  /\ slot[s].state = "PROCESSING_PROMPT" =>
       Len(slot[s].prompt) < Len(slot[s].task.tokens) /\ Len(slot[s].task.tokens) < NCtx

Tasked ==
  /\ \A s \in Slots : ~ Idle(s) => slot[s].task \in Task /\ slot[s].task.id < launched
  /\ \A s, t \in Slots : ~ Idle(s) /\ ~ Idle(t) /\ slot[s].task.id = slot[t].task.id =>
       slot[s].task.tokens = slot[t].task.tokens

(* The batch by phases: built, and then decoded from off on.               *)
Decoding == phase \in {"decode", "post"}
Batched ==
  /\ phase \in {"tasks", "shift"} => batch = <<>>
  /\ ~ Decoding => off = 0 /\ n = NBatch
  /\ Decoding /\ batch # <<>> => off < Len(batch)
  /\ Decoding /\ batch = <<>> => off = 0 /\ phase = "decode"
  /\ phase = "sampled" => Len(batch) < at
  /\ phase = "reuse" => Room

(* A slot that waits for a result has its last row still to be looked at.  *)
Lo(s) == IF phase = "post" /\ s < at THEN off + Size ELSE off
Ahead(s) == Lo(s) <= slot[s].ibatch /\ slot[s].ibatch < Len(batch)
Awaits == \A s \in Slots :
  /\ slot[s].state = "DONE_PROMPT" =>
       /\ Decoding \/ (phase \in {"prompts", "reuse"} /\ s < at)
       /\ Ahead(s)
  /\ slot[s].state = "GENERATING" => slot[s].ibatch = -1 \/ Ahead(s)

(* The heads of a reuse.                                                   *)
Reusing == phase = "reuse" =>
  /\ slot[at].state = "STARTED" /\ Len(slot[at].task.tokens) < NCtx
  /\ heads.h <= heads.c /\ heads.c <= Len(slot[at].prompt) /\ heads.h <= Len(slot[at].task.tokens)
  /\ \A i \in 1 .. heads.h : slot[at].prompt[i] = slot[at].task.tokens[i]

BInv == Typed /\ Fits /\ Tasked /\ Batched /\ Awaits /\ Reusing /\ PromptIsRequest

-----------------------------------------------------------------------------
(* Rows not decoded yet, and whose they are.                               *)
Undecoded == IF phase = "post" THEN off + Size ELSE off
RowOf(i) == slot[batch[i].slot]

Owned ==
  /\ \A i \in DOMAIN batch, j \in DOMAIN batch :
       batch[i].slot = batch[j].slot /\ batch[i].pos = batch[j].pos => i = j
  /\ \A i \in Undecoded + 1 .. Len(batch) :
       /\ RowOf(i).state \in {"PROCESSING_PROMPT", "DONE_PROMPT", "GENERATING"}
       /\ RowOf(i).state # "PROCESSING_PROMPT" => i - 1 <= RowOf(i).ibatch
  /\ phase = "sampled" => \A i \in DOMAIN batch : batch[i].slot < at /\ RowOf(i).state = "GENERATING"
  /\ phase \in {"prompts", "reuse"} =>
       \A i \in DOMAIN batch : batch[i].slot < at \/ RowOf(i).state = "GENERATING"

Apart ==
  /\ "full" \notin scenario.faults => n = NBatch /\ off = 0
  /\ \A s \in Slots : ~ Idle(s) /\ slot[s].task.kind # "single" => "parent" \in scenario.kinds

(* The memory and the rows to come hold token t at position p just when    *)
(* prompt.tokens does.                                                     *)
Agrees(s) == \A p \in 0 .. NCtx, t \in Tokens :
  /\ ~ (<<p, t>> \in kv[s] /\ <<p, t>> \in Pending(s))
  /\ ~ Unsettled(s, p) => ( <<p, t>> \in kv[s] \/ <<p, t>> \in Pending(s) <=>
                            p < Len(slot[s].prompt) /\ slot[s].prompt[p + 1] = t )

Settled == \A s \in Slots : Agrees(s)

KInv == BInv /\ Owned /\ Apart /\ Settled

-----------------------------------------------------------------------------
(* The operators.                                                          *)

LEMMA LeastOfNat ==
  ASSUME NEW T, T \subseteq Nat, T # {}
  PROVE  \E x \in T : \A y \in T : x <= y
<1>1. PICK x \in T : \A y \in T : ~ (<<y, x>> \in OpToRel(<, Nat))
  BY NatLessThanWellFounded, WFMin
<1>2. \A y \in T : ~ (y < x)
  BY <1>1 DEF OpToRel
<1> QED BY <1>2

LEMMA MinIsLeast ==
  ASSUME NEW T, T \subseteq Nat, T # {}
  PROVE  Min(T) \in T
<1>1. \E x \in T : \A y \in T : x <= y
  BY LeastOfNat
<1> QED BY <1>1 DEF Min

LEMMA MinOfTwo ==
  ASSUME NEW i \in Int, NEW j \in Int
  PROVE  Min({i, j}) = IF i <= j THEN i ELSE j
BY DEF Min

(* The greatest element of a set of numbers up to k is found from above.   *)
LEMMA MaxIsIn ==
  ASSUME NEW k \in Nat, NEW T, T \subseteq 0 .. k, T # {}
  PROVE  Max(T) \in T
<1> DEFINE U == {k - x : x \in T}
<1>0. U \subseteq Nat /\ U # {}
  <2>1. \A x \in T : x \in 0 .. k
    OBVIOUS
  <2>2. \A x \in T : k - x \in Nat
    BY <2>1
  <2>3. PICK x \in T : TRUE
    OBVIOUS
  <2>4. k - x \in U
    OBVIOUS
  <2> QED BY <2>2, <2>4
<1>1. PICK y \in U : \A z \in U : y <= z
  <2> HIDE DEF U
  <2> QED BY <1>0, LeastOfNat
<1>2. PICK x \in T : y = k - x
  BY <1>1
<1>3. ASSUME NEW z \in T PROVE x >= z
  <2>1. k - z \in U
    OBVIOUS
  <2>2. k - x <= k - z
    BY <1>1, <1>2, <2>1
  <2> QED BY <2>2
<1> QED BY <1>3 DEF Max

LEMMA CommonPrefixIs ==
  ASSUME NEW p \in Seq(Tokens), NEW q \in Seq(Tokens)
  PROVE  /\ CommonPrefix(p, q) \in Nat
         /\ CommonPrefix(p, q) <= Len(p) /\ CommonPrefix(p, q) <= Len(q)
         /\ \A i \in 1 .. CommonPrefix(p, q) : p[i] = q[i]
<1> DEFINE most == Min({Len(p), Len(q)})
           T == {k \in 0 .. most : SubSeq(p, 1, k) = SubSeq(q, 1, k)}
<1>1. most \in Nat /\ most <= Len(p) /\ most <= Len(q)
  BY MinOfTwo
<1>2. 0 \in T
  <2>1. SubSeq(p, 1, 0) = <<>> /\ SubSeq(q, 1, 0) = <<>>
    OBVIOUS
  <2> QED BY <1>1, <2>1
<1>3. Max(T) \in T
  <2> HIDE DEF most
  <2> QED BY <1>1, <1>2, MaxIsIn
<1>4. CommonPrefix(p, q) = Max(T)
  BY DEF CommonPrefix
<1> DEFINE m == Max(T)
<1>5. m \in 0 .. most /\ SubSeq(p, 1, m) = SubSeq(q, 1, m)
  BY <1>3
<1>6. ASSUME NEW i \in 1 .. m PROVE p[i] = q[i]
  <2> HIDE DEF m, most
  <2>1. SubSeq(p, 1, m)[i] = p[i] /\ SubSeq(q, 1, m)[i] = q[i]
    BY <1>1, <1>5
  <2> QED BY <1>5, <2>1
<1> HIDE DEF most, T
<1> QED BY <1>1, <1>4, <1>5, <1>6

LEMMA MatchIs ==
  ASSUME NEW p \in Seq(Tokens), NEW q \in Seq(Tokens), NEW c \in 0 .. Len(p), NEW h \in 0 .. Len(q)
  PROVE  /\ Match(p, q, c, h) \in Nat
         /\ c + Match(p, q, c, h) <= Len(p) /\ h + Match(p, q, c, h) <= Len(q)
         /\ \A i \in 1 .. Match(p, q, c, h) : p[c + i] = q[h + i]
<1> DEFINE u == SubSeq(p, c + 1, Len(p))
           v == SubSeq(q, h + 1, Len(q))
<1>1. /\ u \in Seq(Tokens) /\ Len(u) = Len(p) - c
      /\ v \in Seq(Tokens) /\ Len(v) = Len(q) - h
  OBVIOUS
<1>2. /\ \A i \in 1 .. Len(u) : u[i] = p[c + i]
      /\ \A i \in 1 .. Len(v) : v[i] = q[h + i]
  OBVIOUS
<1>3. Match(p, q, c, h) = CommonPrefix(u, v)
  BY DEF Match
<1> HIDE DEF u, v
<1> DEFINE m == CommonPrefix(u, v)
<1>4. m \in Nat /\ m <= Len(u) /\ m <= Len(v) /\ \A i \in 1 .. m : u[i] = v[i]
  BY <1>1, CommonPrefixIs
<1> HIDE DEF m
<1>5. ASSUME NEW i \in 1 .. m PROVE p[c + i] = q[h + i]
  <2>1. i \in 1 .. Len(u) /\ i \in 1 .. Len(v)
    BY <1>1, <1>4
  <2> QED BY <1>2, <1>4, <2>1
<1> QED BY <1>1, <1>3, <1>4, <1>5 DEF m

(* What a part of the memory holds after a removal and after a move.       *)
LEMMA SeqRmHas ==
  ASSUME NEW cells, NEW p0, NEW p1, NEW p, NEW t
  PROVE  <<p, t>> \in SeqRm(cells, p0, p1) <=> <<p, t>> \in cells /\ ~ (p0 <= p /\ p < p1)
BY DEF SeqRm

LEMMA SeqAddHas ==
  ASSUME NEW cells, cells \subseteq Int \X Tokens, NEW p0 \in Int, NEW p1 \in Int, NEW d \in Int,
         NEW p \in Int, NEW t
  PROVE  <<p, t>> \in SeqAdd(cells, p0, p1, d) <=>
           \/ <<p, t>> \in cells /\ ~ (p0 <= p /\ p < p1)
           \/ <<p + d, t>> \in cells /\ p0 <= p + d /\ p + d < p1
<1>1. ASSUME <<p, t>> \in SeqAdd(cells, p0, p1, d)
      PROVE  \/ <<p, t>> \in cells /\ ~ (p0 <= p /\ p < p1)
             \/ <<p + d, t>> \in cells /\ p0 <= p + d /\ p + d < p1
  <2>1. PICK x \in cells : <<p, t>> = IF p0 <= x[1] /\ x[1] < p1 THEN <<x[1] - d, x[2]>> ELSE x
    BY <1>1 DEF SeqAdd
  <2>2. x = <<x[1], x[2]>> /\ x[1] \in Int
    OBVIOUS
  <2> QED BY <2>1, <2>2
<1>2. ASSUME <<p, t>> \in cells, ~ (p0 <= p /\ p < p1)
      PROVE  <<p, t>> \in SeqAdd(cells, p0, p1, d)
  BY <1>2 DEF SeqAdd
<1>3. ASSUME <<p + d, t>> \in cells, p0 <= p + d, p + d < p1
      PROVE  <<p, t>> \in SeqAdd(cells, p0, p1, d)
  <2>1. <<p, t>> = <<(p + d) - d, t>>
    OBVIOUS
  <2> QED BY <1>3, <2>1 DEF SeqAdd
<1> QED BY <1>1, <1>2, <1>3

-----------------------------------------------------------------------------
(* Slots and their tasks.                                                  *)

LEMMA SlotIs ==
  ASSUME Typed, NEW s \in Slots
  PROVE  /\ slot[s] \in Slot
         /\ slot[s].state \in States /\ slot[s].task \in Task \cup {NoTask}
         /\ slot[s].prompt \in Seq(Tokens) /\ Len(slot[s].prompt) \in Nat
         /\ slot[s].sampled \in Tokens /\ slot[s].gen \in 0 .. MaxGen
         /\ slot[s].ibatch \in Int /\ slot[s].ibatch \in -1 .. NBatch - 1
<1>1. slot[s] \in Slot
  BY DEF Typed
<1> QED BY <1>1, SizesAssumption DEF Slot

LEMMA TokensAre ==
  ASSUME NEW q \in Prompts
  PROVE  q \in Seq(Tokens) /\ Len(q) \in Nat \ {0}
<1>1. q \in Seq(Tokens) /\ q # <<>>
  BY SizesAssumption
<1> QED BY <1>1

LEMMA TaskIs ==
  ASSUME Tasked, NEW s \in Slots, ~ Idle(s)
  PROVE  /\ slot[s].task \in Task /\ slot[s].task.kind \in {"single", "parent", "child"}
         /\ slot[s].task.id \in Nat /\ slot[s].task.id < launched
         /\ slot[s].task.tokens \in Prompts /\ slot[s].task.tokens \in Seq(Tokens)
         /\ Len(slot[s].task.tokens) \in Nat \ {0}
<1>1. slot[s].task \in Task /\ slot[s].task.id < launched
  BY DEF Tasked
<1> QED BY <1>1, TokensAre DEF Task

LEMMA FreedIs ==
  ASSUME Typed, NEW s \in Slots
  PROVE  /\ Freed(s) \in Slot /\ Freed(s).state = "IDLE" /\ Freed(s).ibatch = slot[s].ibatch
         /\ Freed(s).prompt = (IF slot[s].task.kind = "child" THEN <<>> ELSE slot[s].prompt)
<1>1. slot[s] \in Slot
  BY SlotIs
<1>2. <<>> \in Seq(Tokens)
  OBVIOUS
<1> QED BY <1>1, <1>2 DEF Freed, Slot, States

(* Steps that give no slot a task and complete no prompt keep what is said *)
(* of both.                                                                *)
Calm(s) ==
  \/ slot'[s] = slot[s]
  \/ /\ slot'[s].state \in {"IDLE", "STARTED", "GENERATING"} /\ Len(slot'[s].prompt) < NCtx
     /\ slot'[s].state # "IDLE" => ~ Idle(s) /\ slot'[s].task = slot[s].task

LEMMA CalmKeeps ==
  ASSUME BInv, UNCHANGED launched, \A s \in Slots : Calm(s),
         \A s \in Slots : slot'[s].state = "GENERATING" /\ Shortened(s)' => Len(slot'[s].prompt) + 1 < NCtx
  PROVE  Tasked' /\ PromptIsRequest' /\ Fits'
<1>1. Tasked'
  BY DEF BInv, Tasked, Calm, Idle
<1>2. PromptIsRequest'
  BY DEF BInv, PromptIsRequest, Calm
<1>3. Fits'
  BY DEF BInv, Fits, Calm
<1> QED BY <1>1, <1>2, <1>3

LEMMA SlotSet ==
  ASSUME slot \in [Slots -> Slot], NEW s \in Slots, NEW r \in Slot, slot' = [slot EXCEPT ![s] = r]
  PROVE  /\ slot' \in [Slots -> Slot] /\ slot'[s] = r
         /\ \A t \in Slots : t # s => slot'[t] = slot[t]
OBVIOUS

LEMMA ReleaseIs ==
  ASSUME Typed, Fits, NEW s \in Slots, Release(s)
  PROVE  /\ slot' \in [Slots -> Slot] /\ kv' \in [Slots -> SUBSET ((0 .. NCtx) \X Tokens)]
         /\ \A t \in Slots : Calm(t) /\ slot'[t].ibatch = slot[t].ibatch
         /\ slot'[s] = Freed(s) /\ slot'[s].state = "IDLE"
         /\ \A t \in Slots : t # s => slot'[t] = slot[t] /\ kv'[t] = kv[t]
<1>1. Freed(s) \in Slot
  BY FreedIs
<1>2. slot \in [Slots -> Slot] /\ slot' = [slot EXCEPT ![s] = Freed(s)]
  BY DEF Typed, Release
<1>3. slot' \in [Slots -> Slot] /\ slot'[s] = Freed(s) /\ \A t \in Slots : t # s => slot'[t] = slot[t]
  BY <1>1, <1>2, SlotSet
<1>4. kv' \in [Slots -> SUBSET ((0 .. NCtx) \X Tokens)] /\ \A t \in Slots : t # s => kv'[t] = kv[t]
  BY DEF Typed, Release, FreedKv
<1>5. Len(slot'[s].prompt) < NCtx
  BY <1>3, FreedIs, SizesAssumption DEF Fits
<1>6. slot'[s].state = "IDLE" /\ slot'[s].ibatch = slot[s].ibatch
  BY <1>3, FreedIs
<1>7. \A t \in Slots : Calm(t) /\ slot'[t].ibatch = slot[t].ibatch
  BY <1>3, <1>5, <1>6 DEF Calm
<1> QED BY <1>3, <1>4, <1>6, <1>7

-----------------------------------------------------------------------------
(* Between two rounds.                                                     *)

LEMMA LaunchIs ==
  ASSUME Typed, NEW s \in Slots, NEW kind \in {"single", "parent", "child"}, NEW p \in Prompts
  PROVE  /\ Launch(s, kind, p) \in Slot
         /\ Launch(s, kind, p).state \in {"WAIT_OTHER", "STARTED"}
         /\ Launch(s, kind, p).task = [id |-> launched, kind |-> kind, tokens |-> p]
         /\ Launch(s, kind, p).task \in Task
         /\ Launch(s, kind, p).prompt = slot[s].prompt
<1>1. slot[s] \in Slot /\ launched \in Nat /\ MaxGen \in Nat
  BY SlotIs, SizesAssumption DEF Typed
<1> DEFINE task == [id |-> launched, kind |-> kind, tokens |-> p]
           state == IF kind = "child" THEN "WAIT_OTHER" ELSE "STARTED"
<1>2. task \in Task
  BY <1>1 DEF Task
<1>3. Launch(s, kind, p) = [slot[s] EXCEPT !.state = state, !.task = task, !.gen = 0]
  BY DEF Launch
<1>4. state \in {"WAIT_OTHER", "STARTED"} /\ 0 \in 0 .. MaxGen
  BY <1>1
<1> HIDE DEF task, state
<1>5. [slot[s] EXCEPT !.state = state, !.task = task, !.gen = 0] \in Slot
  BY <1>1, <1>2, <1>4 DEF Slot, States
<1>6. LET r == [slot[s] EXCEPT !.state = state, !.task = task, !.gen = 0]
      IN r.state = state /\ r.task = task /\ r.prompt = slot[s].prompt
  BY <1>1 DEF Slot
<1> QED BY <1>2, <1>3, <1>4, <1>5, <1>6 DEF task

LEMMA LaunchBInv == ASSUME BInv, LaunchTask PROVE BInv'
<1> PICK s \in Slots, p \in Prompts, kind \in scenario.kinds :
      /\ phase = "tasks" /\ launched < MaxTasks /\ Idle(s)
      /\ launched' = launched + 1
      /\ \/ kind = "single" /\ slot' = [slot EXCEPT ![s] = Launch(s, kind, p)]
         \/ /\ kind = "parent"
            /\ \E c \in Slots \ {s} :
                 /\ Idle(c)
                 /\ slot' = [slot EXCEPT ![s] = Launch(s, kind, p), ![c] = Launch(c, "child", p)]
      /\ UNCHANGED <<scenario, phase, at, heads, kv, batch, off, n>>
  BY DEF LaunchTask
<1> DEFINE Launched(t) == \E k \in {"single", "parent", "child"} : slot'[t] = Launch(t, k, p)
<1>1. slot \in [Slots -> Slot] /\ launched \in Nat /\ launched' \in 0 .. MaxTasks /\ kind \in {"single", "parent"}
  BY SizesAssumption DEF BInv, Typed
<1>2. \E c \in Slots :
        /\ Idle(s) /\ Idle(c) /\ slot' \in [Slots -> Slot] /\ Launched(s) /\ Launched(c)
        /\ \A t \in Slots : t \notin {s, c} => slot'[t] = slot[t]
  <2>1. CASE kind = "single"
    <3>1. slot' = [slot EXCEPT ![s] = Launch(s, kind, p)] /\ Launch(s, kind, p) \in Slot
      BY <1>1, <2>1, LaunchIs DEF BInv
    <3>2. slot' \in [Slots -> Slot] /\ slot'[s] = Launch(s, kind, p)
          /\ \A t \in Slots : t # s => slot'[t] = slot[t]
      BY <1>1, <3>1, SlotSet
    <3> QED BY <2>1, <3>2
  <2>2. CASE kind = "parent"
    <3>1. PICK c \in Slots \ {s} :
            /\ Idle(c)
            /\ slot' = [slot EXCEPT ![s] = Launch(s, kind, p), ![c] = Launch(c, "child", p)]
      BY <2>2
    <3>2. Launch(s, kind, p) \in Slot /\ Launch(c, "child", p) \in Slot
      BY <1>1, LaunchIs DEF BInv
    <3>3. /\ slot' \in [Slots -> Slot]
          /\ slot'[s] = Launch(s, kind, p) /\ slot'[c] = Launch(c, "child", p)
          /\ \A t \in Slots : t \notin {s, c} => slot'[t] = slot[t]
      <4> HIDE DEF Launched
      <4> QED BY <1>1, <3>1, <3>2
    <3> QED BY <2>2, <3>1, <3>3
  <2> QED BY <1>1, <2>1, <2>2
<1> PICK c \in Slots :
      /\ Idle(s) /\ Idle(c) /\ slot' \in [Slots -> Slot] /\ Launched(s) /\ Launched(c)
      /\ \A t \in Slots : t \notin {s, c} => slot'[t] = slot[t]
  BY <1>2
<1>3. \A t \in {s, c} : /\ slot'[t].state \in {"WAIT_OTHER", "STARTED"} /\ slot'[t].prompt = slot[t].prompt
                        /\ slot'[t].task \in Task /\ slot'[t].task.id = launched /\ slot'[t].task.tokens = p
  <2>1. ASSUME NEW t \in {s, c}
        PROVE  /\ slot'[t].state \in {"WAIT_OTHER", "STARTED"} /\ slot'[t].prompt = slot[t].prompt
               /\ slot'[t].task \in Task /\ slot'[t].task.id = launched /\ slot'[t].task.tokens = p
    <3>1. PICK k \in {"single", "parent", "child"} : slot'[t] = Launch(t, k, p)
      OBVIOUS
    <3>2. /\ Launch(t, k, p).state \in {"WAIT_OTHER", "STARTED"}
          /\ Launch(t, k, p).task = [id |-> launched, kind |-> k, tokens |-> p]
          /\ Launch(t, k, p).task \in Task /\ Launch(t, k, p).prompt = slot[t].prompt
      BY LaunchIs DEF BInv
    <3> QED BY <3>1, <3>2
  <2> QED BY <2>1
<1> HIDE DEF Launched
<1>4. \A t \in Slots \ {s, c} : slot'[t] = slot[t]
  OBVIOUS
<1>5. Typed'
  BY <1>1 DEF BInv, Typed
<1>6. Tasked'
  <2>1. ASSUME NEW t \in Slots, ~ Idle(t)' PROVE slot'[t].task \in Task /\ slot'[t].task.id < launched'
    BY <1>1, <1>3, <1>4, <2>1 DEF BInv, Tasked, Task, Idle
  <2>2. ASSUME NEW t \in Slots, NEW u \in Slots, ~ Idle(t)', ~ Idle(u)', slot'[t].task.id = slot'[u].task.id
        PROVE  slot'[t].task.tokens = slot'[u].task.tokens
    <3>1. CASE t \in {s, c} /\ u \in {s, c}
      BY <1>3, <3>1
    <3>2. CASE t \notin {s, c} /\ u \notin {s, c}
      BY <1>4, <2>2, <3>2 DEF BInv, Tasked, Idle
    <3>3. CASE t \in {s, c} /\ u \notin {s, c}
      <4>1. slot'[t].task.id = launched /\ slot'[u].task.id \in Nat /\ slot'[u].task.id < launched
        BY <1>3, <1>4, <2>2, <3>3, TaskIs DEF BInv, Idle
      <4> QED BY <1>1, <2>2, <4>1
    <3>4. CASE t \notin {s, c} /\ u \in {s, c}
      <4>1. slot'[u].task.id = launched /\ slot'[t].task.id \in Nat /\ slot'[t].task.id < launched
        BY <1>3, <1>4, <2>2, <3>4, TaskIs DEF BInv, Idle
      <4> QED BY <1>1, <2>2, <4>1
    <3> QED BY <3>1, <3>2, <3>3, <3>4
  <2> QED BY <2>1, <2>2 DEF Tasked
<1>7. Fits'
  <2>1. ASSUME NEW t \in Slots
        PROVE  /\ Len(slot'[t].prompt) < NCtx /\ ~ Shortened(t)'
               /\ slot'[t].state = "PROCESSING_PROMPT" =>
                    /\ Len(slot'[t].prompt) < Len(slot'[t].task.tokens)
                    /\ Len(slot'[t].task.tokens) < NCtx
    BY <1>3, <1>4 DEF BInv, Fits, Shortened
  <2> QED BY <2>1 DEF Fits
<1>8. PromptIsRequest'
  BY <1>3, <1>4 DEF BInv, PromptIsRequest
<1>9. Awaits'
  BY <1>3, <1>4 DEF BInv, Awaits, Ahead, Lo, Decoding
<1>10. Batched' /\ Reusing'
  BY DEF BInv, Batched, Reusing, Decoding, Room
<1> QED BY <1>5, <1>6, <1>7, <1>8, <1>9, <1>10 DEF BInv

LEMMA CancelBInv == ASSUME BInv, CancelSlot PROVE BInv'
<1> PICK s \in Slots : /\ phase = "tasks" /\ ~ Idle(s) /\ Release(s)
                       /\ UNCHANGED <<scenario, launched, phase, at, heads, batch, off, n>>
  BY DEF CancelSlot
<1>1. /\ slot' \in [Slots -> Slot] /\ kv' \in [Slots -> SUBSET ((0 .. NCtx) \X Tokens)]
      /\ \A t \in Slots : Calm(t) /\ slot'[t].ibatch = slot[t].ibatch
      /\ slot'[s].state = "IDLE" /\ \A t \in Slots : t # s => slot'[t] = slot[t]
  BY ReleaseIs DEF BInv
<1>2. Typed'
  BY <1>1 DEF BInv, Typed
<1>3. Tasked' /\ PromptIsRequest' /\ Fits'
  BY <1>1, CalmKeeps DEF Shortened
<1>4. Awaits'
  BY <1>1 DEF BInv, Awaits, Ahead, Lo, Decoding
<1>5. Batched' /\ Reusing'
  BY DEF BInv, Batched, Reusing, Decoding, Room
<1> QED BY <1>2, <1>3, <1>4, <1>5 DEF BInv

LEMMA EraseBInv == ASSUME BInv, EraseSlot PROVE BInv'
<1> PICK s \in Slots :
      /\ phase = "tasks" /\ Idle(s) /\ slot' = [slot EXCEPT ![s].prompt = <<>>]
      /\ kv' = [kv EXCEPT ![s] = {}]
      /\ UNCHANGED <<scenario, launched, phase, at, heads, batch, off, n>>
  BY DEF EraseSlot
<1>1. /\ slot' \in [Slots -> Slot] /\ slot'[s].state = "IDLE" /\ Len(slot'[s].prompt) < NCtx
      /\ \A t \in Slots : t # s => slot'[t] = slot[t]
  <2>1. slot[s] \in Slot /\ slot \in [Slots -> Slot] /\ <<>> \in Seq(Tokens)
    BY SlotIs DEF BInv, Typed
  <2>2. [slot[s] EXCEPT !.prompt = <<>>] \in Slot
    BY <2>1 DEF Slot
  <2>3. slot' = [slot EXCEPT ![s] = [slot[s] EXCEPT !.prompt = <<>>]]
    BY <2>1
  <2>4. slot'[s] = [slot[s] EXCEPT !.prompt = <<>>]
    BY <2>1, <2>3
  <2> QED BY <2>1, <2>2, <2>3, <2>4, SizesAssumption DEF Idle, Slot
<1>2. kv' \in [Slots -> SUBSET ((0 .. NCtx) \X Tokens)]
  BY DEF BInv, Typed
<1>3. \A t \in Slots : Calm(t)
  BY <1>1 DEF Calm
<1>4. Typed'
  BY <1>1, <1>2 DEF BInv, Typed
<1>5. Tasked' /\ PromptIsRequest' /\ Fits'
  BY <1>3, CalmKeeps DEF Shortened
<1>6. Awaits'
  BY <1>1 DEF BInv, Awaits, Ahead, Lo, Decoding
<1>7. Batched' /\ Reusing'
  BY DEF BInv, Batched, Reusing, Decoding, Room
<1> QED BY <1>4, <1>5, <1>6, <1>7 DEF BInv

LEMMA BeginBInv == ASSUME BInv, BeginRound PROVE BInv'
<1> USE DEF BeginRound
<1>1. batch = <<>> /\ at' \in Slots
  BY SizesAssumption DEF BInv, Batched, Slots
<1>2. Typed'
  BY <1>1 DEF BInv, Typed
<1>3. Tasked' /\ PromptIsRequest' /\ Fits'
  BY CalmKeeps DEF Calm, Shortened, Slots
<1>4. Awaits'
  BY <1>1 DEF BInv, Awaits, Ahead, Lo, Decoding
<1>5. Batched' /\ Reusing'
  BY DEF BInv, Batched, Reusing, Decoding
<1> QED BY <1>2, <1>3, <1>4, <1>5 DEF BInv

-----------------------------------------------------------------------------
(* The context shift and the sampled tokens.                               *)

LEMMA AdvanceIs ==
  ASSUME at \in Slots, NEW this, NEW next, Advance(this, next)
  PROVE  /\ at' \in Slots /\ at \in 1 .. NSlots
         /\ \/ phase' = this /\ at' = at + 1
            \/ phase' = next /\ at' = 1 /\ at = NSlots
         /\ \A s \in Slots : s \in Nat /\ 1 <= s /\ s <= NSlots
BY SizesAssumption DEF Advance, Slots

ShiftKeep == Min({NCtx - 4, NKeep})
ShiftDiscard(s) == (Len(slot[s].prompt) - ShiftKeep) \div 2
ShiftedPrompt(s) ==
  SubSeq(slot[s].prompt, 1, ShiftKeep)
    \o SubSeq(slot[s].prompt, ShiftKeep + ShiftDiscard(s) + 1, Len(slot[s].prompt))

(* A context that is full loses at least one token, and never all that     *)
(* come after the ones to keep.                                            *)
LEMMA ShiftIs ==
  ASSUME Typed, NEW s \in Slots, Len(slot[s].prompt) + 1 >= NCtx
  PROVE  /\ ShiftKeep \in Nat /\ ShiftDiscard(s) \in Nat \ {0}
         /\ ShiftKeep + ShiftDiscard(s) < Len(slot[s].prompt)
         /\ ShiftedPrompt(s) \in Seq(Tokens)
         /\ Len(ShiftedPrompt(s)) = Len(slot[s].prompt) - ShiftDiscard(s)
         /\ \A i \in 1 .. Len(ShiftedPrompt(s)) : ShiftedPrompt(s)[i] =
              IF i <= ShiftKeep THEN slot[s].prompt[i] ELSE slot[s].prompt[i + ShiftDiscard(s)]
<1> DEFINE p == slot[s].prompt
           k == ShiftKeep
           d == ShiftDiscard(s)
<1>1. p \in Seq(Tokens) /\ Len(p) \in Nat /\ Len(p) + 1 >= NCtx
  BY SlotIs
<1>2. k \in Nat /\ k <= NCtx - 4
  BY MinOfTwo, SizesAssumption DEF ShiftKeep
<1>3. d = (Len(p) - k) \div 2
  BY DEF ShiftDiscard
<1> HIDE DEF k, d, p
<1>4. d \in Nat \ {0} /\ k + d < Len(p)
  BY <1>1, <1>2, <1>3, SizesAssumption
<1> DEFINE u == SubSeq(p, 1, k)
           v == SubSeq(p, k + d + 1, Len(p))
<1>5. /\ u \in Seq(Tokens) /\ Len(u) = k /\ \A i \in 1 .. k : u[i] = p[i]
      /\ v \in Seq(Tokens) /\ Len(v) = Len(p) - (k + d)
      /\ \A i \in 1 .. Len(p) - (k + d) : v[i] = p[i + (k + d)]
  <2>1. u \in Seq(Tokens) /\ Len(u) = k /\ \A i \in 1 .. k : u[i] = p[i]
    BY <1>1, <1>2, <1>4
  <2>2. v \in Seq(Tokens) /\ Len(v) = Len(p) - (k + d)
    BY <1>1, <1>2, <1>4
  <2>3. ASSUME NEW i \in 1 .. Len(p) - (k + d) PROVE v[i] = p[i + (k + d)]
    BY <1>1, <1>2, <1>4
  <2> QED BY <2>1, <2>2, <2>3
<1> HIDE DEF u, v
<1>6. /\ u \o v \in Seq(Tokens) /\ Len(u \o v) = Len(p) - d
      /\ \A i \in 1 .. Len(p) - d : (u \o v)[i] = IF i <= k THEN p[i] ELSE p[i + d]
  <2>1. u \o v \in Seq(Tokens) /\ Len(u \o v) = Len(p) - d
    <3>1. u \o v \in Seq(Tokens) /\ Len(u \o v) = Len(u) + Len(v)
      BY <1>5
    <3> QED BY <1>1, <1>2, <1>4, <1>5, <3>1
  <2>2. ASSUME NEW i \in 1 .. Len(p) - d, i <= k PROVE (u \o v)[i] = p[i]
    BY <1>1, <1>2, <1>4, <1>5, <2>2
  <2>3. ASSUME NEW i \in 1 .. Len(p) - d, ~ (i <= k) PROVE (u \o v)[i] = p[i + d]
    <3>1. (u \o v)[i] = v[i - k]
      BY <1>1, <1>2, <1>4, <1>5, <2>3
    <3>2. i - k \in 1 .. Len(p) - (k + d) /\ (i - k) + (k + d) = i + d
      BY <1>1, <1>2, <1>4, <2>3
    <3> QED BY <1>5, <3>1, <3>2
  <2> QED BY <2>1, <2>2, <2>3
<1>7. ShiftedPrompt(s) = u \o v
  BY DEF ShiftedPrompt, u, v, p, k, d
<1> QED BY <1>2, <1>4, <1>6, <1>7 DEF p, k, d

LEMMA ShiftedSlots ==
  ASSUME Typed, Fits, NEW s \in Slots, Len(slot[s].prompt) + 1 >= NCtx, Shifted(s)
  PROVE  /\ slot' \in [Slots -> Slot] /\ slot'[s] = [slot[s] EXCEPT !.prompt = ShiftedPrompt(s)]
         /\ slot'[s].prompt = ShiftedPrompt(s) /\ Len(slot'[s].prompt) + 1 < NCtx
         /\ slot'[s].state = slot[s].state /\ slot'[s].task = slot[s].task
         /\ slot'[s].ibatch = slot[s].ibatch
         /\ \A t \in Slots : t # s => slot'[t] = slot[t]
         /\ kv' = [kv EXCEPT ![s] = SeqAdd(SeqRm(kv[s], ShiftKeep, ShiftKeep + ShiftDiscard(s)),
                                           ShiftKeep + ShiftDiscard(s), Len(slot[s].prompt), ShiftDiscard(s))]
<1>1. slot[s] \in Slot /\ slot \in [Slots -> Slot] /\ kv \in [Slots -> SUBSET ((0 .. NCtx) \X Tokens)]
  BY SlotIs DEF Typed
<1>2. ShiftedPrompt(s) \in Seq(Tokens) /\ Len(ShiftedPrompt(s)) + 1 < NCtx
  BY ShiftIs, SlotIs, SizesAssumption DEF Fits
<1>3. /\ slot' = [slot EXCEPT ![s].prompt = ShiftedPrompt(s)]
      /\ kv' = [kv EXCEPT ![s] = SeqAdd(SeqRm(@, ShiftKeep, ShiftKeep + ShiftDiscard(s)),
                                        ShiftKeep + ShiftDiscard(s), Len(slot[s].prompt), ShiftDiscard(s))]
  BY DEF Shifted, ShiftedPrompt, ShiftKeep, ShiftDiscard
<1> DEFINE r == [slot[s] EXCEPT !.prompt = ShiftedPrompt(s)]
<1>4. /\ r \in Slot /\ r.prompt = ShiftedPrompt(s) /\ r.state = slot[s].state
      /\ r.task = slot[s].task /\ r.ibatch = slot[s].ibatch
  BY <1>1, <1>2 DEF Slot
<1>5. slot' = [slot EXCEPT ![s] = r]
  BY <1>1, <1>3
<1> HIDE DEF r
<1>6. slot' \in [Slots -> Slot] /\ slot'[s] = r /\ \A t \in Slots : t # s => slot'[t] = slot[t]
  BY <1>1, <1>4, <1>5, SlotSet
<1>7. kv' = [kv EXCEPT ![s] = SeqAdd(SeqRm(kv[s], ShiftKeep, ShiftKeep + ShiftDiscard(s)),
                                     ShiftKeep + ShiftDiscard(s), Len(slot[s].prompt), ShiftDiscard(s))]
  BY <1>1, <1>3
<1> QED BY <1>2, <1>4, <1>6, <1>7 DEF r

LEMMA ShiftedMemory ==
  ASSUME Typed, NEW cells, cells \subseteq (0 .. NCtx) \X Tokens, NEW s \in Slots,
         Len(slot[s].prompt) + 1 >= NCtx
  PROVE  SeqAdd(SeqRm(cells, ShiftKeep, ShiftKeep + ShiftDiscard(s)),
                ShiftKeep + ShiftDiscard(s), Len(slot[s].prompt), ShiftDiscard(s)) \subseteq (0 .. NCtx) \X Tokens
<1>1. ShiftKeep \in Nat /\ ShiftDiscard(s) \in Nat
  BY ShiftIs
<1>2. \A c \in cells : c = <<c[1], c[2]>> /\ c[1] \in 0 .. NCtx /\ c[2] \in Tokens
  OBVIOUS
<1> QED BY <1>1, <1>2, SizesAssumption DEF SeqAdd, SeqRm

LEMMA ShiftBInv == ASSUME BInv, ShiftContext PROVE BInv'
<1> USE DEF ShiftContext
<1> DEFINE full == slot[at].state = "GENERATING" /\ Len(slot[at].prompt) + 1 >= NCtx
<1>0. at \in Slots /\ Typed /\ Fits /\ batch = <<>>
  BY DEF BInv, Typed, Batched
<1>1. /\ at' \in Slots
      /\ \/ phase' = "shift" /\ at' = at + 1
         \/ phase' = "sampled" /\ at' = 1 /\ at = NSlots
      /\ \A s \in Slots : s \in Nat /\ 1 <= s /\ s <= NSlots
  BY <1>0, AdvanceIs
<1>2. /\ slot' \in [Slots -> Slot] /\ kv' \in [Slots -> SUBSET ((0 .. NCtx) \X Tokens)]
      /\ \A s \in Slots : Calm(s) /\ slot'[s].ibatch = slot[s].ibatch
      /\ \A s \in Slots : slot'[s].state = "GENERATING" => slot[s].state = "GENERATING"
      /\ \A s \in Slots : slot'[s].state = "DONE_PROMPT" => slot[s].state = "DONE_PROMPT"
      /\ \A s \in Slots : s # at => slot'[s] = slot[s]
      /\ slot'[at].state = "GENERATING" => Len(slot'[at].prompt) + 1 < NCtx
  <2>1. CASE full /\ slot[at].task.kind = "single"
    <3>1. Shifted(at)
      BY <2>1
    <3>2. kv' \in [Slots -> SUBSET ((0 .. NCtx) \X Tokens)]
      <4>1. kv \in [Slots -> SUBSET ((0 .. NCtx) \X Tokens)]
        BY <1>0 DEF Typed
      <4> DEFINE cells == SeqAdd(SeqRm(kv[at], ShiftKeep, ShiftKeep + ShiftDiscard(at)),
                                 ShiftKeep + ShiftDiscard(at), Len(slot[at].prompt), ShiftDiscard(at))
      <4>2. kv' = [kv EXCEPT ![at] = cells] /\ cells \subseteq (0 .. NCtx) \X Tokens
        BY <1>0, <2>1, <3>1, <4>1, ShiftedSlots, ShiftedMemory
      <4> HIDE DEF cells
      <4> QED BY <4>1, <4>2
    <3>3. /\ slot' \in [Slots -> Slot] /\ Len(slot'[at].prompt) + 1 < NCtx
          /\ slot'[at].state = slot[at].state /\ slot'[at].task = slot[at].task
          /\ slot'[at].ibatch = slot[at].ibatch
          /\ \A t \in Slots : t # at => slot'[t] = slot[t]
      BY <1>0, <2>1, <3>1, ShiftedSlots
    <3>4. Len(slot'[at].prompt) < NCtx
      <4>1. slot'[at].prompt \in Seq(Tokens)
        BY <1>0, <3>3 DEF Slot
      <4> QED BY <3>3, <4>1, SizesAssumption
    <3>5. \A s \in Slots : Calm(s)
      BY <1>0, <2>1, <3>3, <3>4 DEF Calm, Idle
    <3> QED BY <1>0, <2>1, <3>2, <3>3, <3>5
  <2>2. CASE full /\ slot[at].task.kind # "single"
    <3>1. Release(at)
      BY <2>2
    <3> QED BY <1>0, <3>1, ReleaseIs
  <2>3. CASE ~ full
    <3>1. slot' = slot /\ kv' = kv
      BY <2>3
    <3>2. slot[at].state = "GENERATING" => Len(slot[at].prompt) + 1 < NCtx
      BY <1>0, <2>3, SlotIs, SizesAssumption
    <3> QED BY <1>0, <3>1, <3>2 DEF Calm, Typed
  <2> QED BY <2>1, <2>2, <2>3
<1>3. Typed'
  BY <1>0, <1>1, <1>2 DEF Typed
<1>4. ASSUME NEW s \in Slots, slot'[s].state = "GENERATING", Shortened(s)'
      PROVE  Len(slot'[s].prompt) + 1 < NCtx
  <2>1. CASE s = at
    BY <1>2, <1>4, <2>1
  <2>2. CASE s # at
    <3>1. Shortened(s)
      BY <1>0, <1>1, <1>4, <2>2 DEF Shortened, Slots
    <3> QED BY <1>0, <1>2, <1>4, <2>2, <3>1 DEF Fits
  <2> QED BY <2>1, <2>2
<1>5. Tasked' /\ PromptIsRequest' /\ Fits'
  BY <1>2, <1>4, CalmKeeps
<1>6. Awaits'
  BY <1>0, <1>1, <1>2 DEF BInv, Awaits, Ahead, Lo, Decoding
<1>7. Batched' /\ Reusing'
  BY <1>0, <1>1 DEF BInv, Batched, Reusing, Decoding, Slots
<1> QED BY <1>3, <1>5, <1>6, <1>7 DEF BInv

LEMMA RowIs ==
  ASSUME NEW s \in Slots, NEW p \in 0 .. NCtx, NEW t \in Tokens
  PROVE  Row(s, p, t) \in Rows /\ Row(s, p, t).slot = s /\ Row(s, p, t).pos = p /\ Row(s, p, t).tok = t
BY DEF Row, Rows

LEMMA SampledIs ==
  ASSUME BInv, AddSampled, slot[at].state = "GENERATING"
  PROVE  /\ slot' \in [Slots -> Slot] /\ \A t \in Slots : t # at => slot'[t] = slot[t]
         /\ slot'[at].state = "GENERATING" /\ slot'[at].task = slot[at].task
         /\ slot'[at].prompt = Append(slot[at].prompt, slot[at].sampled)
         /\ slot'[at].ibatch = Len(batch)
         /\ batch' = Append(batch, Row(at, Len(slot[at].prompt), slot[at].sampled))
         /\ batch' \in Seq(Rows) /\ Len(batch') = Len(batch) + 1 /\ Len(batch') <= at
         /\ Len(slot[at].prompt) + 1 < NCtx
<1>1. /\ at \in Slots /\ slot[at] \in Slot /\ slot \in [Slots -> Slot] /\ batch \in Seq(Rows)
      /\ slot[at].prompt \in Seq(Tokens) /\ slot[at].sampled \in Tokens /\ Len(slot[at].prompt) \in Nat
      /\ Len(batch) < at /\ at \in Nat /\ at <= NBatch /\ phase = "sampled"
  <2>1. at \in Slots /\ slot \in [Slots -> Slot] /\ batch \in Seq(Rows) /\ phase = "sampled"
    BY DEF BInv, Typed, AddSampled
  <2>2. at \in Nat /\ at <= NBatch
    BY <2>1, SizesAssumption DEF Slots
  <2>3. Len(batch) < at
    BY <2>1 DEF BInv, Batched
  <2> QED BY <2>1, <2>2, <2>3, SlotIs DEF BInv
<1>2. Len(slot[at].prompt) + 1 < NCtx
  BY <1>1 DEF BInv, Fits, Shortened, AddSampled
<1> DEFINE r == [slot[at] EXCEPT !.prompt = Append(slot[at].prompt, slot[at].sampled), !.ibatch = Len(batch)]
<1>3. Append(slot[at].prompt, slot[at].sampled) \in Seq(Tokens) /\ Len(batch) \in -1 .. NBatch - 1
  BY <1>1, SizesAssumption
<1>4. /\ r \in Slot /\ r.state = slot[at].state /\ r.task = slot[at].task /\ r.ibatch = Len(batch)
      /\ r.prompt = Append(slot[at].prompt, slot[at].sampled)
  BY <1>1, <1>3 DEF Slot
<1>5. slot' = [slot EXCEPT ![at] = r] /\ batch' = Append(batch, Row(at, Len(slot[at].prompt), slot[at].sampled))
  BY <1>1 DEF AddSampled
<1> HIDE DEF r
<1>6. slot' \in [Slots -> Slot] /\ slot'[at] = r /\ \A t \in Slots : t # at => slot'[t] = slot[t]
  BY <1>1, <1>4, <1>5, SlotSet
<1>7. Row(at, Len(slot[at].prompt), slot[at].sampled) \in Rows
  BY <1>1, <1>2, RowIs, SizesAssumption
<1>8. batch' \in Seq(Rows) /\ Len(batch') = Len(batch) + 1 /\ Len(batch') <= at
  BY <1>1, <1>5, <1>7
<1> QED BY <1>2, <1>4, <1>5, <1>6, <1>8

LEMMA SampledBInv == ASSUME BInv, AddSampled PROVE BInv'
<1>0. /\ at \in Slots /\ Typed /\ Fits /\ phase = "sampled" /\ off = 0 /\ Len(batch) \in Nat /\ Len(batch) < at
      /\ UNCHANGED <<scenario, launched, heads, kv, off, n>> /\ Advance("sampled", "prompts")
  BY DEF BInv, Typed, Batched, Decoding, AddSampled
<1>1. /\ at' \in Slots /\ at \in 1 .. NSlots
      /\ \/ phase' = "sampled" /\ at' = at + 1
         \/ phase' = "prompts" /\ at' = 1 /\ at = NSlots
      /\ \A s \in Slots : s \in Nat /\ 1 <= s /\ s <= NSlots
  BY <1>0, AdvanceIs
<1>2. /\ slot' \in [Slots -> Slot] /\ batch' \in Seq(Rows)
      /\ Len(batch') \in Nat /\ Len(batch) <= Len(batch') /\ Len(batch') <= at
      /\ \A s \in Slots : s # at => slot'[s] = slot[s]
      /\ \/ slot'[at] = slot[at]
         \/ /\ slot'[at].state = "GENERATING" /\ slot[at].state = "GENERATING" /\ slot'[at].task = slot[at].task
            /\ Len(slot'[at].prompt) < NCtx /\ slot'[at].ibatch = Len(batch) /\ Len(batch) < Len(batch')
  <2>1. CASE slot[at].state = "GENERATING"
    <3>1. Len(slot'[at].prompt) < NCtx
      BY <1>0, <2>1, SampledIs, SlotIs, SizesAssumption
    <3> QED BY <1>0, <1>1, <2>1, <3>1, SampledIs
  <2>2. CASE slot[at].state # "GENERATING"
    BY <1>0, <1>1, <2>2 DEF Typed, AddSampled
  <2> QED BY <2>1, <2>2
<1>3. Typed'
  BY <1>0, <1>1, <1>2, SizesAssumption DEF Typed, Slots
<1>4. \A s \in Slots : Calm(s)
  BY <1>0, <1>2 DEF Calm, Idle
<1>5. ASSUME NEW s \in Slots, slot'[s].state = "GENERATING", Shortened(s)'
      PROVE  Len(slot'[s].prompt) + 1 < NCtx
  <2>1. s # at /\ Shortened(s)
    BY <1>0, <1>1, <1>5 DEF Shortened, Slots
  <2> QED BY <1>0, <1>2, <1>5, <2>1 DEF Fits
<1>6. Tasked' /\ PromptIsRequest' /\ Fits'
  BY <1>0, <1>4, <1>5, CalmKeeps
<1>7. Awaits'
  <2>1. ASSUME NEW s \in Slots
        PROVE  /\ slot'[s].state # "DONE_PROMPT"
               /\ slot'[s].state = "GENERATING" => slot'[s].ibatch = -1 \/ Ahead(s)'
    <3>1. slot[s].state # "DONE_PROMPT" /\ slot[s].ibatch \in Int
          /\ (slot[s].state = "GENERATING" => slot[s].ibatch = -1 \/ (0 <= slot[s].ibatch /\ slot[s].ibatch < Len(batch)))
      BY <1>0, SlotIs DEF BInv, Awaits, Ahead, Lo, Decoding
    <3> QED BY <1>0, <1>1, <1>2, <3>1 DEF Ahead, Lo
  <2> QED BY <2>1 DEF Awaits
<1>8. Batched' /\ Reusing'
  BY <1>0, <1>1, <1>2 DEF BInv, Batched, Reusing, Decoding
<1> QED BY <1>3, <1>6, <1>7, <1>8 DEF BInv

-----------------------------------------------------------------------------
(* The prompts.                                                            *)

LEMMA SkipBInv == ASSUME BInv, SkipPrompt PROVE BInv'
<1>0. /\ at \in Slots /\ Typed /\ Fits /\ phase = "prompts" /\ off = 0 /\ n = NBatch /\ Len(batch) \in Nat
      /\ batch = <<>> \/ 0 < Len(batch)
      /\ UNCHANGED <<scenario, launched, heads, batch, off, n>> /\ Advance("prompts", "decode")
  BY DEF BInv, Typed, Batched, Decoding, SkipPrompt
<1>1. /\ at' \in Slots /\ at \in 1 .. NSlots
      /\ \/ phase' = "prompts" /\ at' = at + 1
         \/ phase' = "decode" /\ at' = 1 /\ at = NSlots
      /\ \A s \in Slots : s \in Nat /\ 1 <= s /\ s <= NSlots
  BY <1>0, AdvanceIs
<1>2. /\ slot' \in [Slots -> Slot] /\ kv' \in [Slots -> SUBSET ((0 .. NCtx) \X Tokens)]
      /\ \A s \in Slots : Calm(s) /\ (slot'[s] = slot[s] \/ slot'[s].state = "IDLE")
  <2>1. CASE UNCHANGED <<slot, kv>>
    BY <1>0, <2>1 DEF Calm, Typed
  <2>2. CASE Release(at)
    BY <1>0, <2>2, ReleaseIs
  <2> QED BY <2>1, <2>2 DEF SkipPrompt
<1>3. Typed'
  BY <1>0, <1>1, <1>2 DEF Typed
<1>4. Tasked' /\ PromptIsRequest' /\ Fits'
  BY <1>0, <1>1, <1>2, CalmKeeps DEF Shortened
<1>5. Awaits'
  <2>1. ASSUME NEW s \in Slots, slot'[s].state # "IDLE"
        PROVE  /\ slot'[s].state = "DONE_PROMPT" =>
                    (Decoding \/ (phase \in {"prompts", "reuse"} /\ s < at))' /\ Ahead(s)'
               /\ slot'[s].state = "GENERATING" => slot'[s].ibatch = -1 \/ Ahead(s)'
    <3>1. slot'[s] = slot[s]
      BY <1>2, <2>1
    <3>2. Ahead(s) => Ahead(s)'
      BY <1>0, <1>1, <3>1 DEF Ahead, Lo
    <3>3. slot[s].state = "DONE_PROMPT" => s < at
      BY <1>0 DEF BInv, Awaits, Decoding
    <3> QED BY <1>0, <1>1, <3>1, <3>2, <3>3 DEF BInv, Awaits, Decoding
  <2> QED BY <2>1 DEF Awaits
<1>6. Batched' /\ Reusing'
  BY <1>0, <1>1 DEF BInv, Batched, Reusing, Decoding
<1> QED BY <1>3, <1>4, <1>5, <1>6 DEF BInv

(* What the heads point to when a reuse begins.                            *)
LEMMA StartBInv == ASSUME BInv, StartPrompt PROVE BInv'
<1> DEFINE p == slot[at].prompt
           q == slot[at].task.tokens
           k == CommonPrefix(p, q)
<1>0. /\ at \in Slots /\ Typed /\ Fits /\ phase = "prompts" /\ phase' = "reuse" /\ Room
      /\ slot[at].state = "STARTED" /\ Len(q) < NCtx
      /\ UNCHANGED <<scenario, launched, at, slot, kv, batch, off, n>>
      /\ \E cached \in BOOLEAN :
           heads' = IF cached THEN [c |-> IF NReuse = 0 THEN Len(p) ELSE k, h |-> k]
                    ELSE [c |-> Len(p), h |-> 0]
  BY DEF BInv, Typed, StartPrompt
<1>1. p \in Seq(Tokens) /\ Len(p) \in Nat /\ Len(p) < NCtx /\ q \in Seq(Tokens) /\ Len(q) \in Nat
  BY <1>0, SlotIs, TaskIs DEF BInv, Fits, Idle
<1> HIDE DEF p, q
<1>2. k \in Nat /\ k <= Len(p) /\ k <= Len(q) /\ \A i \in 1 .. k : p[i] = q[i]
  BY <1>1, CommonPrefixIs
<1> HIDE DEF k
<1>3. /\ heads' \in [c : 0 .. NCtx, h : 0 .. NCtx]
      /\ heads'.h <= heads'.c /\ heads'.c <= Len(p) /\ heads'.h <= Len(q)
      /\ \A i \in 1 .. heads'.h : p[i] = q[i]
  <2>1. PICK cached \in BOOLEAN :
          heads' = IF cached THEN [c |-> IF NReuse = 0 THEN Len(p) ELSE k, h |-> k]
                   ELSE [c |-> Len(p), h |-> 0]
    BY <1>0
  <2>2. CASE cached
    BY <1>1, <1>2, <2>1, <2>2, SizesAssumption
  <2>3. CASE ~ cached
    BY <1>1, <2>1, <2>3, SizesAssumption
  <2> QED BY <2>2, <2>3
<1>4. Typed'
  BY <1>0, <1>3 DEF Typed
<1>5. Tasked' /\ PromptIsRequest' /\ Fits'
  BY <1>0, CalmKeeps DEF Calm, Shortened
<1>6. Awaits'
  BY <1>0 DEF BInv, Awaits, Ahead, Lo, Decoding
<1>7. Batched'
  BY <1>0 DEF BInv, Batched, Decoding, Room
<1>8. Reusing'
  BY <1>0, <1>3 DEF Reusing, p, q
<1> QED BY <1>4, <1>5, <1>6, <1>7, <1>8 DEF BInv

(* A chunk that is moved: m tokens from behind head c to behind head h.    *)
MovedPrompt(p, c, h, m) == [i \in DOMAIN p |-> IF h < i /\ i <= h + m THEN p[i - h + c] ELSE p[i]]

LEMMA MovedIs ==
  ASSUME NEW p \in Seq(Tokens), NEW h \in Nat, NEW c \in Nat, NEW m \in Nat, h <= c, c + m <= Len(p)
  PROVE  /\ MovedPrompt(p, c, h, m) \in Seq(Tokens) /\ Len(MovedPrompt(p, c, h, m)) = Len(p)
         /\ \A i \in 1 .. Len(p) : MovedPrompt(p, c, h, m)[i] =
              IF h < i /\ i <= h + m THEN p[i - h + c] ELSE p[i]
<1>1. DOMAIN p = 1 .. Len(p) /\ Len(p) \in Nat
  OBVIOUS
<1>2. \A i \in 1 .. Len(p) : p[i] \in Tokens /\ (h < i /\ i <= h + m => p[i - h + c] \in Tokens)
  OBVIOUS
<1> QED BY <1>1, <1>2 DEF MovedPrompt

LEMMA ChunkIs ==
  ASSUME BInv, ReuseChunk
  PROVE  LET p == slot[at].prompt
             q == slot[at].task.tokens
             c == heads.c
             h == heads.h
             m == Match(p, q, c, h)
         IN /\ p \in Seq(Tokens) /\ Len(p) \in Nat /\ Len(p) < NCtx /\ q \in Seq(Tokens) /\ Len(q) \in Nat
            /\ c \in Nat /\ h \in Nat /\ h <= c /\ c < Len(p) /\ h < Len(q)
            /\ m \in Nat /\ c + m <= Len(p) /\ h + m <= Len(q) /\ \A i \in 1 .. m : p[c + i] = q[h + i]
            /\ \A i \in 1 .. h : p[i] = q[i]
            /\ IF m < NReuse THEN heads' = [c |-> c + 1, h |-> h] /\ UNCHANGED <<slot, kv>>
               ELSE /\ heads' = [c |-> c + m, h |-> h + m]
                    /\ slot' \in [Slots -> Slot] /\ \A t \in Slots : t # at => slot'[t] = slot[t]
                    /\ slot'[at] = [slot[at] EXCEPT !.prompt = MovedPrompt(p, c, h, m)]
                    /\ slot'[at].prompt = MovedPrompt(p, c, h, m)
                    /\ slot'[at].state = "STARTED" /\ slot'[at].task = slot[at].task
                    /\ slot'[at].ibatch = slot[at].ibatch
                    /\ kv' = [kv EXCEPT ![at] = SeqAdd(SeqRm(kv[at], h, c), c, c + m, c - h)]
<1> DEFINE p == slot[at].prompt
           q == slot[at].task.tokens
           c == heads.c
           h == heads.h
           m == Match(p, q, c, h)
<1>1. /\ phase = "reuse" /\ at \in Slots /\ slot[at] \in Slot /\ slot \in [Slots -> Slot]
      /\ kv \in [Slots -> SUBSET ((0 .. NCtx) \X Tokens)]
      /\ slot[at].state = "STARTED" /\ heads \in [c : 0 .. NCtx, h : 0 .. NCtx]
      /\ h <= c /\ c < Len(p) /\ h < Len(q)
  <2>1. at \in Slots /\ slot \in [Slots -> Slot] /\ kv \in [Slots -> SUBSET ((0 .. NCtx) \X Tokens)]
        /\ heads \in [c : 0 .. NCtx, h : 0 .. NCtx] /\ phase = "reuse"
    BY DEF BInv, Typed, ReuseChunk
  <2>2. slot[at].state = "STARTED" /\ h <= c /\ c < Len(p) /\ h < Len(q)
    BY <2>1 DEF BInv, Reusing, ReuseChunk, MoreChunks
  <2> QED BY <2>1, <2>2
<1>2. p \in Seq(Tokens) /\ Len(p) \in Nat /\ q \in Seq(Tokens) /\ Len(q) \in Nat
  BY <1>1, SlotIs, TaskIs DEF BInv, Idle
<1>3. c \in Nat /\ h \in Nat /\ c \in 0 .. Len(p) /\ h \in 0 .. Len(q)
  BY <1>1, <1>2
<1>4. (\A i \in 1 .. h : p[i] = q[i]) /\ Len(p) < NCtx
  BY <1>1 DEF BInv, Reusing, Fits
<1>5. m \in Nat /\ c + m <= Len(p) /\ h + m <= Len(q) /\ \A i \in 1 .. m : p[c + i] = q[h + i]
  BY <1>2, <1>3, MatchIs
<1>6. IF m < NReuse THEN heads' = [heads EXCEPT !.c = c + 1] /\ UNCHANGED <<slot, kv>>
      ELSE /\ heads' = [c |-> c + m, h |-> h + m]
           /\ slot' = [slot EXCEPT ![at].prompt = MovedPrompt(p, c, h, m)]
           /\ kv' = [kv EXCEPT ![at] = SeqAdd(SeqRm(@, h, c), c, c + m, c - h)]
  BY DEF ReuseChunk, MovedPrompt
<1>7. CASE m < NReuse
  <2>1. heads' = [c |-> c + 1, h |-> h]
    BY <1>1, <1>6, <1>7
  <2> QED BY <1>1, <1>2, <1>3, <1>4, <1>5, <1>6, <1>7, <2>1
<1>8. CASE ~ (m < NReuse)
  <2> DEFINE x == MovedPrompt(p, c, h, m)
             r == [slot[at] EXCEPT !.prompt = x]
  <2>1. x \in Seq(Tokens)
    BY <1>1, <1>2, <1>3, <1>5, MovedIs
  <2>2. slot' = [slot EXCEPT ![at].prompt = x] /\ kv' = [kv EXCEPT ![at] = SeqAdd(SeqRm(@, h, c), c, c + m, c - h)]
    BY <1>6, <1>8
  <2> HIDE DEF x, m, p, q
  <2>3. r \in Slot /\ r.prompt = x /\ r.state = "STARTED" /\ r.task = slot[at].task /\ r.ibatch = slot[at].ibatch
    BY <1>1, <2>1 DEF Slot
  <2>4. slot' = [slot EXCEPT ![at] = r]
    BY <1>1, <2>2
  <2>5. kv' = [kv EXCEPT ![at] = SeqAdd(SeqRm(kv[at], h, c), c, c + m, c - h)]
    BY <1>1, <2>2
  <2> HIDE DEF r
  <2>6. slot' \in [Slots -> Slot] /\ slot'[at] = r /\ \A t \in Slots : t # at => slot'[t] = slot[t]
    BY <1>1, <2>3, <2>4, SlotSet
  <2>7. slot'[at] = [slot[at] EXCEPT !.prompt = x]
    BY <2>6 DEF r
  <2> QED BY <1>1, <1>2, <1>3, <1>4, <1>5, <1>6, <1>8, <2>3, <2>5, <2>6, <2>7 DEF x, m, p, q
<1> QED BY <1>7, <1>8

LEMMA ReuseBInv == ASSUME BInv, ReuseChunk PROVE BInv'
<1> DEFINE p == slot[at].prompt
           q == slot[at].task.tokens
           c == heads.c
           h == heads.h
           m == Match(p, q, c, h)
<1>0. /\ at \in Slots /\ Typed /\ Fits /\ phase = "reuse" /\ slot[at].state = "STARTED" /\ Len(q) < NCtx
      /\ UNCHANGED <<scenario, launched, phase, at, batch, off, n>>
  BY DEF BInv, Typed, Reusing, ReuseChunk
<1>1. /\ p \in Seq(Tokens) /\ Len(p) \in Nat /\ Len(p) < NCtx /\ q \in Seq(Tokens) /\ Len(q) \in Nat
      /\ c \in Nat /\ h \in Nat /\ h <= c /\ c < Len(p) /\ h < Len(q)
      /\ m \in Nat /\ c + m <= Len(p) /\ h + m <= Len(q) /\ \A i \in 1 .. m : p[c + i] = q[h + i]
      /\ \A i \in 1 .. h : p[i] = q[i]
      /\ IF m < NReuse THEN heads' = [c |-> c + 1, h |-> h] /\ UNCHANGED <<slot, kv>>
         ELSE /\ heads' = [c |-> c + m, h |-> h + m]
              /\ slot' \in [Slots -> Slot] /\ \A t \in Slots : t # at => slot'[t] = slot[t]
              /\ slot'[at] = [slot[at] EXCEPT !.prompt = MovedPrompt(p, c, h, m)]
              /\ slot'[at].prompt = MovedPrompt(p, c, h, m)
              /\ slot'[at].state = "STARTED" /\ slot'[at].task = slot[at].task
              /\ slot'[at].ibatch = slot[at].ibatch
              /\ kv' = [kv EXCEPT ![at] = SeqAdd(SeqRm(kv[at], h, c), c, c + m, c - h)]
  BY ChunkIs
<1> HIDE DEF p, q, c, h, m
<1>2. /\ slot' \in [Slots -> Slot] /\ kv' \in [Slots -> SUBSET ((0 .. NCtx) \X Tokens)]
      /\ heads' \in [c : 0 .. NCtx, h : 0 .. NCtx]
      /\ \A s \in Slots : s # at => slot'[s] = slot[s]
      /\ slot'[at].state = "STARTED" /\ slot'[at].task = slot[at].task
      /\ Len(slot'[at].prompt) = Len(p)
      /\ heads'.h <= heads'.c /\ heads'.c <= Len(p) /\ heads'.h <= Len(q)
      /\ \A i \in 1 .. heads'.h : slot'[at].prompt[i] = q[i]
  <2>1. CASE m < NReuse
    <3>1. heads' = [c |-> c + 1, h |-> h] /\ UNCHANGED <<slot, kv>>
      BY <1>1, <2>1
    <3>2. slot \in [Slots -> Slot] /\ kv \in [Slots -> SUBSET ((0 .. NCtx) \X Tokens)]
      BY <1>0 DEF Typed
    <3>3. heads' \in [c : 0 .. NCtx, h : 0 .. NCtx] /\ heads'.c = c + 1 /\ heads'.h = h
      BY <1>1, <3>1, SizesAssumption
    <3> QED BY <1>0, <1>1, <3>1, <3>2, <3>3 DEF p
  <2>2. CASE ~ (m < NReuse)
    <3> DEFINE x == MovedPrompt(p, c, h, m)
               cells == SeqAdd(SeqRm(kv[at], h, c), c, c + m, c - h)
    <3>1. /\ heads' = [c |-> c + m, h |-> h + m]
          /\ slot' \in [Slots -> Slot] /\ \A t \in Slots : t # at => slot'[t] = slot[t]
          /\ slot'[at].prompt = x /\ slot'[at].state = "STARTED" /\ slot'[at].task = slot[at].task
          /\ kv' = [kv EXCEPT ![at] = cells]
      BY <1>1, <2>2
    <3>2. Len(x) = Len(p) /\ \A i \in 1 .. Len(p) : x[i] = IF h < i /\ i <= h + m THEN p[i - h + c] ELSE p[i]
      BY <1>1, MovedIs
    <3> HIDE DEF x
    <3>3. kv \in [Slots -> SUBSET ((0 .. NCtx) \X Tokens)]
      BY <1>0 DEF Typed
    <3>4. cells \subseteq (0 .. NCtx) \X Tokens
      <4>1. \A y \in kv[at] : y = <<y[1], y[2]>> /\ y[1] \in 0 .. NCtx /\ y[2] \in Tokens
        BY <1>0, <3>3
      <4>2. ASSUME NEW y \in kv[at], c <= y[1] PROVE y[1] - (c - h) \in 0 .. NCtx
        <5>1. c \in Nat /\ h \in Nat /\ h <= c
          BY <1>1
        <5> QED BY <4>1, <4>2, <5>1, SizesAssumption
      <4> QED BY <4>1, <4>2 DEF SeqAdd, SeqRm
    <3> HIDE DEF cells
    <3>5. kv' \in [Slots -> SUBSET ((0 .. NCtx) \X Tokens)]
      BY <3>1, <3>3, <3>4
    <3>6. heads' \in [c : 0 .. NCtx, h : 0 .. NCtx] /\ heads'.c = c + m /\ heads'.h = h + m
      BY <1>1, <3>1, SizesAssumption
    <3>7. ASSUME NEW i \in 1 .. h + m PROVE x[i] = q[i]
      <4>1. CASE i <= h
        BY <1>1, <3>2, <4>1
      <4>2. CASE h < i
        <5>1. i \in 1 .. Len(p) /\ i - h \in 1 .. m /\ x[i] = p[i - h + c]
          BY <1>1, <3>2, <4>2
        <5>2. p[c + (i - h)] = q[h + (i - h)]
          BY <1>1, <5>1
        <5>3. c + (i - h) = i - h + c /\ h + (i - h) = i
          BY <1>1
        <5> QED BY <5>1, <5>2, <5>3
      <4>3. h \in Nat /\ m \in Nat
        BY <1>1
      <4> QED BY <4>1, <4>2, <4>3
    <3>8. heads'.h <= heads'.c /\ heads'.c <= Len(p) /\ heads'.h <= Len(q)
      BY <1>1, <3>6
    <3>9. \A i \in 1 .. heads'.h : slot'[at].prompt[i] = q[i]
      BY <3>1, <3>6, <3>7
    <3> QED BY <3>1, <3>2, <3>5, <3>6, <3>8, <3>9
  <2> QED BY <2>1, <2>2
<1>3. Typed'
  BY <1>0, <1>2 DEF Typed
<1>4. \A s \in Slots : Calm(s)
  BY <1>0, <1>1, <1>2 DEF Calm, Idle
<1>5. Tasked' /\ PromptIsRequest' /\ Fits'
  BY <1>0, <1>4, CalmKeeps DEF Shortened
<1>6. Awaits'
  BY <1>0, <1>2 DEF BInv, Awaits, Ahead, Lo, Decoding
<1>7. Batched'
  BY <1>0 DEF BInv, Batched, Decoding, Room
<1>8. Reusing'
  <2>1. slot'[at].task.tokens = q /\ Len(slot'[at].prompt) = Len(p)
    BY <1>2 DEF q
  <2> QED BY <1>0, <1>2, <2>1 DEF Reusing
<1> QED BY <1>3, <1>5, <1>6, <1>7, <1>8 DEF BInv

(* What is evaluated of a prompt next: add tokens, behind the have that    *)
(* the memory holds.                                                       *)
Filled(have, add) ==
  LET q == slot[at].task.tokens IN
  /\ have \in Nat /\ add \in Nat \ {0} /\ have + add <= Len(q)
  /\ have <= Len(slot[at].prompt) /\ \A i \in 1 .. have : slot[at].prompt[i] = q[i]
  /\ phase = "prompts" => have = Len(slot[at].prompt)
  /\ phase = "reuse" => have <= heads.h
  /\ kv' = [kv EXCEPT ![at] = SeqRm(kv[at], have, Inf)]
  /\ batch' \in Seq(Rows) /\ Len(batch') = Len(batch) + add /\ Len(batch') <= NBatch
  /\ \A i \in 1 .. Len(batch) : batch'[i] = batch[i]
  /\ \A i \in 1 .. add : batch'[Len(batch) + i] = Row(at, have + i - 1, q[have + i])
  /\ slot' \in [Slots -> Slot] /\ \A t \in Slots : t # at => slot'[t] = slot[t]
  /\ slot'[at].task = slot[at].task /\ slot'[at].prompt = SubSeq(q, 1, have + add)
  /\ \/ have + add = Len(q) /\ slot'[at].state = "DONE_PROMPT" /\ slot'[at].ibatch = Len(batch) + add - 1
     \/ have + add < Len(q) /\ slot'[at].state = "PROCESSING_PROMPT"

LEMMA SeqSame ==
  ASSUME NEW S, NEW u \in Seq(S), NEW v \in Seq(S), Len(u) = Len(v),
         \A i \in 1 .. Len(u) : u[i] = v[i]
  PROVE  u = v
<1>1. DOMAIN u = 1 .. Len(u) /\ DOMAIN v = 1 .. Len(u)
  OBVIOUS
<1>2. u = [i \in DOMAIN u |-> u[i]] /\ v = [i \in DOMAIN v |-> v[i]]
  OBVIOUS
<1> QED BY <1>1, <1>2

LEMMA SliceIs ==
  ASSUME NEW S, NEW q \in Seq(S), NEW k \in Nat, NEW m \in Nat, k + m <= Len(q)
  PROVE  /\ SubSeq(q, k + 1, k + m) \in Seq(S) /\ Len(SubSeq(q, k + 1, k + m)) = m
         /\ \A i \in 1 .. m : SubSeq(q, k + 1, k + m)[i] = q[k + i]
OBVIOUS

LEMMA JoinIs ==
  ASSUME NEW S, NEW u \in Seq(S), NEW v \in Seq(S)
  PROVE  /\ u \o v \in Seq(S) /\ Len(u \o v) = Len(u) + Len(v)
         /\ \A i \in 1 .. Len(u) : (u \o v)[i] = u[i]
         /\ \A i \in 1 .. Len(v) : (u \o v)[Len(u) + i] = v[i]
OBVIOUS

LEMMA FillIs ==
  ASSUME Typed, at \in Slots, Room, ~ Idle(at), slot[at].task.tokens \in Prompts,
         Len(slot[at].task.tokens) < NCtx,
         NEW have \in Nat, have < Len(slot[at].task.tokens), have <= Len(slot[at].prompt),
         phase = "prompts" => have = Len(slot[at].prompt), phase = "reuse" => have <= heads.h,
         \A i \in 1 .. have : slot[at].prompt[i] = slot[at].task.tokens[i],
         NEW p, p \in Seq(Tokens), Len(p) = have, \A i \in 1 .. have : p[i] = slot[at].prompt[i],
         Fill(p)
  PROVE  \E add \in Nat \ {0} : Filled(have, add)
<1> DEFINE q == slot[at].task.tokens
           add == Min({Len(q) - have, NBatch - Len(batch)})
           more == [i \in 1 .. add |-> Row(at, have + i - 1, q[have + i])]
           done == have + add = Len(q)
           x == p \o SubSeq(q, have + 1, have + add)
           state == IF done THEN "DONE_PROMPT" ELSE "PROCESSING_PROMPT"
           last == IF done THEN Len(batch) + add - 1 ELSE slot[at].ibatch
           r == [slot[at] EXCEPT !.prompt = x, !.state = state, !.ibatch = last]
<1>1. /\ q \in Seq(Tokens) /\ Len(q) \in Nat /\ Len(q) < NCtx /\ have < Len(q) /\ NBatch \in Nat /\ NCtx \in Nat
      /\ batch \in Seq(Rows) /\ Len(batch) \in Nat /\ Len(batch) < NBatch
      /\ slot[at] \in Slot /\ slot \in [Slots -> Slot] /\ slot[at].ibatch \in -1 .. NBatch - 1
      /\ slot[at].task \in Task \cup {NoTask}
  BY SlotIs, TokensAre, SizesAssumption DEF Typed, Room
<1>2. /\ kv' = [kv EXCEPT ![at] = SeqRm(kv[at], have, Inf)]
      /\ batch' = batch \o more
      /\ slot' = [slot EXCEPT ![at] = r]
  <2> DEFINE ib == IF done THEN Len(batch) + add - 1 ELSE slot[at].ibatch
  <2>1. kv' = [kv EXCEPT ![at] = SeqRm(@, have, Inf)] /\ batch' = batch \o more
        /\ slot' = [slot EXCEPT ![at].prompt = x, ![at].state = state,
                                ![at].ibatch = IF done THEN Len(batch) + add - 1 ELSE @]
    BY DEF Fill
  <2> HIDE DEF x, more, state, done, add, q
  <2>2. kv \in [Slots -> SUBSET ((0 .. NCtx) \X Tokens)]
    BY DEF Typed
  <2> QED BY <1>1, <2>1, <2>2
<1>3. add \in Nat \ {0} /\ have + add <= Len(q) /\ Len(batch) + add <= NBatch
  <2> HIDE DEF q
  <2> DEFINE left == Len(q) - have
             room == NBatch - Len(batch)
  <2>1. left \in Int /\ left > 0 /\ room \in Int /\ room > 0
    BY <1>1
  <2>2. have + left = Len(q) /\ Len(batch) + room = NBatch
    BY <1>1
  <2>3. add = Min({left, room})
    OBVIOUS
  <2> HIDE DEF add, left, room
  <2>4. add = IF left <= room THEN left ELSE room
    BY <2>1, <2>3, MinOfTwo
  <2> QED BY <1>1, <2>1, <2>2, <2>4
<1> HIDE DEF add
<1>4. more \in Seq(Rows) /\ Len(more) = add /\ \A i \in 1 .. add : more[i] = Row(at, have + i - 1, q[have + i])
  <2>1. ASSUME NEW i \in 1 .. add PROVE Row(at, have + i - 1, q[have + i]) \in Rows
    <3> HIDE DEF q
    <3>1. have + i - 1 \in 0 .. NCtx /\ q[have + i] \in Tokens
      BY <1>1, <1>3
    <3> QED BY <3>1, RowIs
  <2> HIDE DEF q
  <2> QED BY <1>3, <2>1
<1>5. x \in Seq(Tokens) /\ x = SubSeq(q, 1, have + add)
  <2> DEFINE y == SubSeq(q, have + 1, have + add)
             z == SubSeq(q, 1, have + add)
  <2> HIDE DEF q
  <2>1. y \in Seq(Tokens) /\ Len(y) = add /\ \A i \in 1 .. add : y[i] = q[have + i]
    BY <1>1, <1>3, SliceIs
  <2>2. z \in Seq(Tokens) /\ Len(z) = have + add /\ \A i \in 1 .. have + add : z[i] = q[i]
    BY <1>1, <1>3
  <2>3. \A i \in 1 .. have : p[i] = q[i]
    BY DEF q
  <2> HIDE DEF y, z
  <2>4. p \o y \in Seq(Tokens) /\ Len(p \o y) = have + add
    BY <1>3, <2>1, JoinIs
  <2>5. ASSUME NEW i \in 1 .. have + add PROVE (p \o y)[i] = q[i]
    <3>1. CASE i <= have
      <4>1. (p \o y)[i] = p[i]
        BY <2>1, <3>1, JoinIs
      <4> QED BY <2>3, <3>1, <4>1
    <3>2. CASE have < i
      <4>1. i - have \in 1 .. add /\ have + (i - have) = i
        BY <1>3, <3>2
      <4>2. \A j \in 1 .. Len(y) : (p \o y)[Len(p) + j] = y[j]
        BY <2>1, JoinIs
      <4> DEFINE j == i - have
      <4>3. (p \o y)[Len(p) + j] = y[j] /\ y[j] = q[have + j] /\ Len(p) = have
        BY <2>1, <4>1, <4>2
      <4>4. Len(p) + j = i /\ have + j = i
        BY <4>1, <4>3
      <4> HIDE DEF j
      <4> QED BY <4>3, <4>4
    <3>3. i <= have \/ have < i
      BY <1>3
    <3> QED BY <3>1, <3>2, <3>3
  <2>6. p \o y = z
    <3>1. Len(p \o y) = Len(z) /\ \A i \in 1 .. Len(p \o y) : (p \o y)[i] = z[i]
      BY <2>2, <2>4, <2>5
    <3> QED BY <2>2, <2>4, <3>1, SeqSame
  <2> QED BY <2>4, <2>6 DEF y, z
<1> HIDE DEF x, more
<1>6. /\ state \in States /\ last \in -1 .. NBatch - 1
      /\ \/ done /\ state = "DONE_PROMPT" /\ last = Len(batch) + add - 1
         \/ have + add < Len(q) /\ state = "PROCESSING_PROMPT"
  <2> HIDE DEF q
  <2> QED BY <1>1, <1>3 DEF States
<1> HIDE DEF state, last
<1>7. r \in Slot /\ r.prompt = x /\ r.state = state /\ r.ibatch = last /\ r.task = slot[at].task
  BY <1>1, <1>5, <1>6 DEF Slot
<1> HIDE DEF r
<1>8. slot' \in [Slots -> Slot] /\ slot'[at] = r /\ \A t \in Slots : t # at => slot'[t] = slot[t]
  BY <1>1, <1>2, <1>7, SlotSet
<1>9. /\ batch' \in Seq(Rows) /\ Len(batch') = Len(batch) + add
      /\ \A i \in 1 .. Len(batch) : batch'[i] = batch[i]
      /\ \A i \in 1 .. add : batch'[Len(batch) + i] = more[i]
  <2>1. batch \o more \in Seq(Rows) /\ Len(batch \o more) = Len(batch) + Len(more)
    BY <1>1, <1>4, JoinIs
  <2>2. \A i \in 1 .. Len(batch) : (batch \o more)[i] = batch[i]
    BY <1>1, <1>4, JoinIs
  <2>3. \A i \in 1 .. Len(more) : (batch \o more)[Len(batch) + i] = more[i]
    BY <1>1, <1>4, JoinIs
  <2> QED BY <1>2, <1>4, <2>1, <2>2, <2>3
<1>10. Filled(have, add)
  BY <1>2, <1>3, <1>4, <1>5, <1>6, <1>7, <1>8, <1>9 DEF Filled
<1> QED BY <1>3, <1>10

LEMMA AddIs ==
  ASSUME BInv, AddPrompt
  PROVE  /\ at \in Slots /\ phase \in {"prompts", "reuse"} /\ Room /\ Len(slot[at].task.tokens) < NCtx
         /\ slot[at].state \in {"STARTED", "PROCESSING_PROMPT"}
         /\ \E have \in Nat, add \in Nat \ {0} : Filled(have, add)
<1> DEFINE p == slot[at].prompt
           q == slot[at].task.tokens
<1>1. /\ at \in Slots /\ Typed /\ Tasked /\ Room
      /\ slot[at].state \in {"STARTED", "PROCESSING_PROMPT"} /\ Len(q) < NCtx
  BY DEF BInv, Typed, AddPrompt, Batched, Fits, Reusing
<1>2. p \in Seq(Tokens) /\ Len(p) \in Nat /\ ~ Idle(at) /\ q \in Prompts /\ Len(q) \in Nat \ {0}
  <2>1. ~ Idle(at)
    BY <1>1 DEF Idle
  <2> QED BY <1>1, <2>1, SlotIs, TaskIs
<1>3. CASE phase = "reuse" /\ Fill(SubSeq(p, 1, Past))
  <2>1. /\ Past \in Nat /\ Past < Len(q) /\ Past <= heads.h /\ Past <= Len(p)
        /\ \A i \in 1 .. Past : p[i] = q[i]
    <3>1. /\ heads.h \in Nat /\ heads.c \in Nat /\ heads.h <= heads.c /\ heads.c <= Len(p) /\ heads.h <= Len(q)
          /\ \A i \in 1 .. heads.h : p[i] = q[i]
      BY <1>3, SizesAssumption DEF BInv, Typed, Reusing
    <3>2. Past = IF heads.h = Len(q) THEN heads.h - 1 ELSE heads.h
      BY DEF Past
    <3> HIDE DEF p, q
    <3> QED BY <1>2, <3>1, <3>2
  <2>2. /\ SubSeq(p, 1, Past) \in Seq(Tokens) /\ Len(SubSeq(p, 1, Past)) = Past
        /\ \A i \in 1 .. Past : SubSeq(p, 1, Past)[i] = p[i]
    <3> HIDE DEF p
    <3> QED BY <1>2, <2>1
  <2>3. \E add \in Nat \ {0} : Filled(Past, add)
    <3> DEFINE u == SubSeq(p, 1, Past)
    <3> HIDE DEF u
    <3>1. u \in Seq(Tokens) /\ Len(u) = Past /\ (\A i \in 1 .. Past : u[i] = slot[at].prompt[i]) /\ Fill(u)
      BY <1>3, <2>2 DEF u
    <3> QED BY <1>1, <1>2, <1>3, <2>1, <3>1, FillIs
  <2> QED BY <1>1, <1>3, <2>1, <2>3
<1>4. CASE phase = "prompts" /\ slot[at].state = "PROCESSING_PROMPT" /\ Fill(p)
  <2>1. Len(p) < Len(q) /\ p = SubSeq(q, 1, Len(p)) /\ \A i \in 1 .. Len(p) : p[i] = q[i]
    <3>1. Len(p) < Len(q) /\ p = SubSeq(q, 1, Len(p))
      BY <1>1, <1>4 DEF BInv, Fits, PromptIsRequest
    <3>2. q \in Seq(Tokens)
      BY <1>2, TokensAre
    <3>3. \A i \in 1 .. Len(p) : SubSeq(q, 1, Len(p))[i] = q[i]
      <4> HIDE DEF p, q
      <4> QED BY <1>2, <3>1, <3>2
    <3> QED BY <3>1, <3>3
  <2>2. \E add \in Nat \ {0} : Filled(Len(p), add)
    BY <1>1, <1>2, <1>4, <2>1, FillIs
  <2> QED BY <1>1, <1>2, <1>4, <2>2
<1> QED BY <1>1, <1>3, <1>4 DEF AddPrompt

LEMMA AddBInv == ASSUME BInv, AddPrompt PROVE BInv'
<1> PICK have \in Nat, add \in Nat \ {0} : Filled(have, add)
  BY AddIs
<1> DEFINE q == slot[at].task.tokens
<1>0. /\ at \in Slots /\ Typed /\ phase \in {"prompts", "reuse"} /\ off = 0 /\ n = NBatch
      /\ Len(batch) \in Nat /\ ~ Idle(at) /\ Len(q) < NCtx
      /\ UNCHANGED <<scenario, launched, off, n>> /\ Advance("prompts", "decode") /\ heads' = [c |-> 0, h |-> 0]
  BY AddIs DEF BInv, Typed, Batched, Decoding, AddPrompt, Idle
<1>1. /\ at' \in Slots /\ at \in 1 .. NSlots
      /\ \/ phase' = "prompts" /\ at' = at + 1
         \/ phase' = "decode" /\ at' = 1 /\ at = NSlots
      /\ \A s \in Slots : s \in Nat /\ 1 <= s /\ s <= NSlots
  BY <1>0, AdvanceIs
<1>2. q \in Seq(Tokens) /\ Len(q) \in Nat /\ NCtx \in Nat
  BY <1>0, TaskIs, SizesAssumption DEF BInv
<1> HIDE DEF q
<1>3. /\ batch' \in Seq(Rows) /\ Len(batch') = Len(batch) + add /\ Len(batch') <= NBatch
      /\ slot' \in [Slots -> Slot] /\ \A t \in Slots : t # at => slot'[t] = slot[t]
      /\ slot'[at].task = slot[at].task /\ slot'[at].prompt = SubSeq(q, 1, have + add)
      /\ have + add <= Len(q) /\ kv' = [kv EXCEPT ![at] = SeqRm(kv[at], have, Inf)]
      /\ \/ have + add = Len(q) /\ slot'[at].state = "DONE_PROMPT" /\ slot'[at].ibatch = Len(batch) + add - 1
         \/ have + add < Len(q) /\ slot'[at].state = "PROCESSING_PROMPT"
  BY DEF Filled, q
<1>4. Len(slot'[at].prompt) = have + add /\ (have + add = Len(q) => slot'[at].prompt = q)
  <2>1. Len(SubSeq(q, 1, have + add)) = have + add
    BY <1>2, <1>3
  <2>2. SubSeq(q, 1, Len(q)) = q
    BY <1>2
  <2> QED BY <1>3, <2>1, <2>2
<1>5. Typed'
  <2>1. kv' \in [Slots -> SUBSET ((0 .. NCtx) \X Tokens)]
    BY <1>0, <1>3 DEF Typed, SeqRm
  <2>2. heads' \in [c : 0 .. NCtx, h : 0 .. NCtx]
    BY <1>0, <1>2
  <2> QED BY <1>0, <1>1, <1>3, <2>1, <2>2 DEF Typed
<1>6. Fits'
  <2>1. \A s \in Slots : ~ Shortened(s)'
    BY <1>1 DEF Shortened
  <2>2. slot'[at].task.tokens = q
    BY <1>3 DEF q
  <2>3. Len(slot'[at].prompt) < NCtx /\ Len(q) < NCtx
        /\ (slot'[at].state = "PROCESSING_PROMPT" => Len(slot'[at].prompt) < Len(q))
    BY <1>0, <1>2, <1>3, <1>4
  <2> QED BY <1>3, <2>1, <2>2, <2>3 DEF BInv, Fits
<1>7. Tasked'
  <2>1. /\ ~ Idle(at) /\ slot'[at].task = slot[at].task
        /\ \A t \in Slots : t # at => slot'[t] = slot[t]
        /\ launched' = launched /\ at \in Slots
    BY <1>0, <1>3
  <2> QED BY <2>1 DEF BInv, Tasked, Idle
<1>8. PromptIsRequest'
  BY <1>3, <1>4 DEF BInv, PromptIsRequest, q
<1>9. Awaits'
  <2>1. ASSUME NEW s \in Slots
        PROVE  /\ slot'[s].state = "DONE_PROMPT" =>
                    (Decoding \/ (phase \in {"prompts", "reuse"} /\ s < at))' /\ Ahead(s)'
               /\ slot'[s].state = "GENERATING" => slot'[s].ibatch = -1 \/ Ahead(s)'
    <3>1. CASE s = at
      BY <1>0, <1>1, <1>3, <3>1 DEF Ahead, Lo, Decoding
    <3>2. CASE s # at
      <4>1. slot'[s] = slot[s] /\ slot[s].ibatch \in Int
        BY <1>0, <1>3, <3>2, SlotIs
      <4>2. Ahead(s) => Ahead(s)'
        BY <1>0, <1>1, <1>3, <4>1 DEF Ahead, Lo
      <4>3. slot[s].state = "DONE_PROMPT" => s < at
        BY <1>0 DEF BInv, Awaits, Decoding
      <4> QED BY <1>0, <1>1, <4>1, <4>2, <4>3 DEF BInv, Awaits, Decoding
    <3> QED BY <3>1, <3>2
  <2> QED BY <2>1 DEF Awaits
<1>10. Batched' /\ Reusing'
  <2>1. batch' # <<>>
    BY <1>0, <1>3
  <2> QED BY <1>0, <1>1, <1>3, <2>1 DEF Batched, Reusing, Decoding
<1> QED BY <1>5, <1>6, <1>7, <1>8, <1>9, <1>10 DEF BInv

-----------------------------------------------------------------------------
(* Decoding.                                                               *)

LEMMA SizeIs ==
  ASSUME Typed, Batched, Decoding, batch # <<>>
  PROVE  /\ Size \in Nat \ {0} /\ Size <= n /\ off + Size <= Len(batch) /\ off + Size <= NBatch
         /\ off \in Nat /\ off < Len(batch) /\ Len(batch) \in Nat
         /\ Size = n \/ off + Size = Len(batch)
<1>1. off \in Nat /\ off < Len(batch) /\ Len(batch) \in Nat /\ Len(batch) <= NBatch /\ n \in Nat \ {0}
      /\ NBatch \in Nat
  BY SizesAssumption DEF Typed, Batched
<1> DEFINE left == Len(batch) - off
<1>2. left \in Int /\ left > 0 /\ off + left = Len(batch)
  BY <1>1
<1>3. Size = Min({n, left})
  BY DEF Size
<1> HIDE DEF left
<1>4. Size = IF n <= left THEN n ELSE left
  BY <1>1, <1>2, <1>3, MinOfTwo
<1> QED BY <1>1, <1>2, <1>4

LEMMA NothingBInv == ASSUME BInv, NothingToDecode PROVE BInv'
<1> USE DEF NothingToDecode, EndRound
<1>1. Typed'
  BY SizesAssumption DEF BInv, Typed
<1>2. Tasked' /\ PromptIsRequest' /\ Fits'
  BY CalmKeeps DEF Calm, Shortened
<1>3. \A s \in Slots : slot[s].state # "DONE_PROMPT" /\ (slot[s].state = "GENERATING" => slot[s].ibatch = -1)
  <2>1. ASSUME NEW s \in Slots PROVE ~ Ahead(s)
    BY SlotIs DEF BInv, Batched, Ahead, Lo, Decoding
  <2> QED BY <2>1 DEF BInv, Awaits
<1>4. Awaits'
  BY <1>3 DEF Awaits
<1>5. Batched' /\ Reusing'
  BY DEF BInv, Batched, Reusing, Decoding
<1> QED BY <1>1, <1>2, <1>4, <1>5 DEF BInv

(* The parent a child waits for is a slot that is done with its prompt.    *)
From(c) == CHOOSE p \in ParentOf(c) : TRUE

LEMMA FromIs ==
  ASSUME Typed, Tasked, NEW c \in Slots, ParentOf(c) # {}
  PROVE  /\ From(c) \in Slots /\ slot[c].state = "WAIT_OTHER" /\ slot[From(c)].state = "DONE_PROMPT"
         /\ slot[From(c)].task.kind = "parent" /\ slot[From(c)].task.tokens = slot[c].task.tokens
         /\ ParentOf(From(c)) = {} /\ ~ Idle(c) /\ From(c) # c
<1>1. From(c) \in ParentOf(c)
  BY DEF From
<1>2. /\ From(c) \in Slots /\ slot[c].state = "WAIT_OTHER" /\ slot[From(c)].state = "DONE_PROMPT"
      /\ slot[From(c)].task.kind = "parent" /\ slot[From(c)].task.id = slot[c].task.id
  BY <1>1 DEF ParentOf
<1>3. ParentOf(From(c)) = {}
  BY <1>2 DEF ParentOf
<1> QED BY <1>2, <1>3 DEF Tasked, Idle

DecodedKv(s) == kv[s] \cup {<<batch[i].pos, batch[i].tok>> : i \in {j \in View : batch[j].slot = s}}

LEMMA DecodeIs ==
  ASSUME BInv, DecodeOk
  PROVE  /\ slot' \in [Slots -> Slot] /\ kv' \in [Slots -> SUBSET ((0 .. NCtx) \X Tokens)]
         /\ \A s \in Slots :
              \/ ParentOf(s) = {} /\ slot'[s] = slot[s] /\ kv'[s] = DecodedKv(s)
              \/ /\ ParentOf(s) # {} /\ kv'[s] = DecodedKv(From(s))
                 /\ slot'[s].state = "DONE_PROMPT" /\ slot'[s].task = slot[s].task
                 /\ slot'[s].prompt = slot[From(s)].prompt /\ slot'[s].ibatch = slot[From(s)].ibatch
<1> DEFINE copy(s) == [slot[s] EXCEPT !.state = "DONE_PROMPT", !.prompt = slot[From(s)].prompt,
                                      !.ibatch = slot[From(s)].ibatch]
<1>1. /\ slot' = [s \in Slots |-> IF ParentOf(s) = {} THEN slot[s] ELSE copy(s)]
      /\ kv' = [s \in Slots |-> IF ParentOf(s) = {} THEN DecodedKv(s) ELSE DecodedKv(From(s))]
  BY DEF DecodeOk, DecodedKv, From, ParentOf
<1>2. ASSUME NEW s \in Slots
      PROVE  DecodedKv(s) \subseteq (0 .. NCtx) \X Tokens
  <2>1. kv[s] \subseteq (0 .. NCtx) \X Tokens
    BY DEF BInv, Typed
  <2>2. ASSUME NEW i \in View PROVE <<batch[i].pos, batch[i].tok>> \in (0 .. NCtx) \X Tokens
    <3>1. Size \in Nat /\ off + Size <= Len(batch) /\ off \in Nat /\ Len(batch) \in Nat
      BY SizeIs DEF BInv, DecodeOk, Decoding
    <3>2. i \in 1 .. Len(batch)
      BY <3>1 DEF View
    <3>3. batch[i] \in Rows
      BY <3>2 DEF BInv, Typed
    <3> QED BY <3>3 DEF Rows
  <2> QED BY <2>1, <2>2 DEF DecodedKv
<1>3. ASSUME NEW s \in Slots, ParentOf(s) # {}
      PROVE  /\ From(s) \in Slots /\ copy(s) \in Slot /\ copy(s).state = "DONE_PROMPT" /\ copy(s).task = slot[s].task
             /\ copy(s).prompt = slot[From(s)].prompt /\ copy(s).ibatch = slot[From(s)].ibatch
  <2>1. From(s) \in Slots
    BY <1>3, FromIs DEF BInv
  <2>2. slot[s] \in Slot /\ slot[From(s)] \in Slot
    BY <2>1, SlotIs DEF BInv
  <2> QED BY <2>1, <2>2 DEF Slot, States
<1> HIDE DEF copy
<1>4. slot' \in [Slots -> Slot]
  BY <1>1, <1>3 DEF BInv, Typed
<1>5. kv' \in [Slots -> SUBSET ((0 .. NCtx) \X Tokens)]
  BY <1>1, <1>2, <1>3
<1> QED BY <1>1, <1>3, <1>4, <1>5

LEMMA DecodeBInv == ASSUME BInv, DecodeOk PROVE BInv'
<1>0. /\ phase = "decode" /\ batch # <<>> /\ phase' = "post" /\ at' = 1
      /\ UNCHANGED <<scenario, launched, heads, batch, off, n>> /\ Typed /\ Fits /\ Tasked
  BY DEF DecodeOk, BInv
<1>1. /\ slot' \in [Slots -> Slot] /\ kv' \in [Slots -> SUBSET ((0 .. NCtx) \X Tokens)]
      /\ \A s \in Slots :
           \/ slot'[s] = slot[s]
           \/ /\ ParentOf(s) # {}
              /\ slot'[s].state = "DONE_PROMPT" /\ slot'[s].task = slot[s].task
              /\ slot'[s].prompt = slot[From(s)].prompt /\ slot'[s].ibatch = slot[From(s)].ibatch
  BY DecodeIs
<1>2. \A s \in Slots : ParentOf(s) # {} =>
         /\ From(s) \in Slots /\ slot[From(s)].state = "DONE_PROMPT" /\ ~ Idle(s)
         /\ slot[From(s)].task.tokens = slot[s].task.tokens
  BY <1>0, FromIs
<1>3. Typed'
  BY <1>0, <1>1, SizesAssumption DEF Typed, Slots
<1>4. Fits'
  BY <1>0, <1>1, <1>2 DEF Fits, Shortened
<1>5. Tasked'
  BY <1>0, <1>1, <1>2 DEF Tasked, Idle
<1>6. PromptIsRequest'
  BY <1>1, <1>2 DEF BInv, PromptIsRequest
<1>7. Awaits'
  <2>1. \A s \in Slots : Ahead(s)' <=> off <= slot'[s].ibatch /\ slot'[s].ibatch < Len(batch)
    BY <1>0 DEF Ahead, Lo, Slots
  <2>2. \A s \in Slots : Ahead(s) <=> off <= slot[s].ibatch /\ slot[s].ibatch < Len(batch)
    BY <1>0 DEF Ahead, Lo, Slots
  <2>3. \A s \in Slots : slot[s].state = "DONE_PROMPT" => Ahead(s)
    BY DEF BInv, Awaits
  <2> QED BY <1>0, <1>1, <1>2, <2>1, <2>2, <2>3 DEF BInv, Awaits, Decoding
<1>8. Batched' /\ Reusing'
  BY <1>0 DEF BInv, Batched, Reusing, Decoding
<1> QED BY <1>3, <1>4, <1>5, <1>6, <1>7, <1>8 DEF BInv

LEMMA PurgeableIs ==
  ASSUME Purgeable # {}
  PROVE  Min(Purgeable) \in Slots /\ Idle(Min(Purgeable))
<1>1. Purgeable \subseteq Nat
  BY SizesAssumption DEF Purgeable, Slots
<1>2. Min(Purgeable) \in Purgeable
  BY <1>1, MinIsLeast
<1> QED BY <1>2 DEF Purgeable

LEMMA PurgedIs ==
  ASSUME Typed, NEW s \in Slots, Idle(s),
         slot' = [slot EXCEPT ![s].prompt = <<>>], kv' = [kv EXCEPT ![s] = {}]
  PROVE  /\ slot' \in [Slots -> Slot] /\ kv' \in [Slots -> SUBSET ((0 .. NCtx) \X Tokens)]
         /\ slot'[s].state = "IDLE" /\ slot'[s].prompt = <<>> /\ kv'[s] = {}
         /\ \A t \in Slots : t # s => slot'[t] = slot[t] /\ kv'[t] = kv[t]
<1>1. slot[s] \in Slot /\ slot \in [Slots -> Slot] /\ kv \in [Slots -> SUBSET ((0 .. NCtx) \X Tokens)]
      /\ <<>> \in Seq(Tokens)
  BY SlotIs DEF Typed
<1> DEFINE r == [slot[s] EXCEPT !.prompt = <<>>]
<1>2. r \in Slot /\ r.prompt = <<>> /\ r.state = "IDLE"
  BY <1>1 DEF Slot, Idle
<1>3. slot' = [slot EXCEPT ![s] = r]
  BY <1>1
<1> HIDE DEF r
<1>4. slot' \in [Slots -> Slot] /\ slot'[s] = r /\ \A t \in Slots : t # s => slot'[t] = slot[t]
  BY <1>1, <1>2, <1>3, SlotSet
<1>5. kv' \in [Slots -> SUBSET ((0 .. NCtx) \X Tokens)] /\ kv'[s] = {} /\ \A t \in Slots : t # s => kv'[t] = kv[t]
  BY <1>1
<1> QED BY <1>2, <1>4, <1>5

LEMMA FullBInv == ASSUME BInv, DecodeFull PROVE BInv'
<1>0. /\ phase = "decode" /\ batch # <<>> /\ Typed /\ Fits /\ n > 1
      /\ UNCHANGED <<scenario, launched, phase, at, heads, batch, off>>
  BY DEF DecodeFull, BInv
<1>1. /\ slot' \in [Slots -> Slot] /\ kv' \in [Slots -> SUBSET ((0 .. NCtx) \X Tokens)]
      /\ n' \in 1 .. NBatch
      /\ \A s \in Slots : slot'[s] = slot[s] \/ (slot'[s].state = "IDLE" /\ slot'[s].prompt = <<>>)
  <2>1. CASE Purgeable # {}
    <3> DEFINE s == Min(Purgeable)
    <3>1. s \in Slots /\ Idle(s)
      BY <2>1, PurgeableIs
    <3>2. slot' = [slot EXCEPT ![s].prompt = <<>>] /\ kv' = [kv EXCEPT ![s] = {}] /\ n' = n
      BY <2>1 DEF DecodeFull
    <3> HIDE DEF s
    <3> QED BY <1>0, <3>1, <3>2, PurgedIs DEF Typed
  <2>2. CASE Purgeable = {}
    <3>1. n' = n \div 2 /\ UNCHANGED <<slot, kv>>
      BY <2>2 DEF DecodeFull
    <3>2. n \in 1 .. NBatch /\ NBatch \in Nat
      BY <1>0, SizesAssumption DEF Typed
    <3>3. n' \in 1 .. NBatch
      BY <1>0, <3>1, <3>2
    <3> QED BY <1>0, <3>1, <3>3 DEF Typed
  <2> QED BY <2>1, <2>2
<1>2. Typed'
  BY <1>0, <1>1 DEF Typed
<1>3. \A s \in Slots : Calm(s)
  BY <1>1, SizesAssumption DEF Calm
<1>4. Tasked' /\ PromptIsRequest' /\ Fits'
  BY <1>0, <1>3, CalmKeeps DEF Shortened
<1>5. Awaits'
  BY <1>0, <1>1 DEF BInv, Awaits, Ahead, Lo, Decoding
<1>6. Batched' /\ Reusing'
  BY <1>0 DEF BInv, Batched, Reusing, Decoding
<1> QED BY <1>2, <1>4, <1>5, <1>6 DEF BInv

(* A round that ends with every slot idle.                                 *)
LEMMA AllIdle ==
  ASSUME BInv, EndRound, at' = 1, UNCHANGED <<scenario, launched, heads>>,
         slot' \in [Slots -> Slot], kv' \in [Slots -> SUBSET ((0 .. NCtx) \X Tokens)],
         \A s \in Slots : slot'[s].state = "IDLE" /\ Len(slot'[s].prompt) < NCtx
  PROVE  BInv'
<1>1. Typed'
  BY SizesAssumption DEF BInv, Typed, EndRound, Slots
<1>2. \A s \in Slots : Calm(s)
  BY DEF Calm
<1>3. Tasked' /\ PromptIsRequest' /\ Fits'
  BY <1>2, CalmKeeps
<1>4. Awaits'
  BY DEF Awaits
<1>5. Batched' /\ Reusing'
  BY DEF Batched, Reusing, Decoding, EndRound
<1> QED BY <1>1, <1>3, <1>4, <1>5 DEF BInv

LEMMA FailsBInv == ASSUME BInv, DecodeFails PROVE BInv'
<1> DEFINE gone(s) == [Freed(s) EXCEPT !.prompt = <<>>]
<1>1. ASSUME NEW s \in Slots
      PROVE  /\ gone(s) \in Slot /\ gone(s).state = "IDLE" /\ gone(s).prompt = <<>>
             /\ slot[s] \in Slot /\ Len(slot[s].prompt) < NCtx
  <2>1. Freed(s) \in Slot /\ Freed(s).state = "IDLE" /\ slot[s] \in Slot /\ Len(slot[s].prompt) < NCtx
    BY FreedIs, SlotIs DEF BInv, Fits
  <2>2. <<>> \in Seq(Tokens)
    OBVIOUS
  <2> QED BY <2>1, <2>2 DEF Slot
<1>2. /\ slot' = [s \in Slots |-> IF Idle(s) THEN slot[s] ELSE gone(s)]
      /\ kv' = [s \in Slots |-> IF Idle(s) THEN kv[s] ELSE {}]
      /\ EndRound /\ at' = 1 /\ UNCHANGED <<scenario, launched, heads>>
  BY DEF DecodeFails
<1> HIDE DEF gone
<1>3. slot' \in [Slots -> Slot] /\ kv' \in [Slots -> SUBSET ((0 .. NCtx) \X Tokens)]
  BY <1>1, <1>2 DEF BInv, Typed
<1>4. \A s \in Slots : slot'[s].state = "IDLE" /\ Len(slot'[s].prompt) < NCtx
  BY <1>1, <1>2, SizesAssumption DEF Idle
<1> QED BY <1>2, <1>3, <1>4, AllIdle

LEMMA AbortBInv == ASSUME BInv, Abort PROVE BInv'
<1>1. ASSUME NEW s \in Slots
      PROVE  /\ Freed(s) \in Slot /\ Freed(s).state = "IDLE" /\ Len(Freed(s).prompt) < NCtx
             /\ slot[s] \in Slot /\ Len(slot[s].prompt) < NCtx
             /\ FreedKv(s) \subseteq (0 .. NCtx) \X Tokens
  <2>1. kv[s] \subseteq (0 .. NCtx) \X Tokens /\ Len(slot[s].prompt) < NCtx
    BY DEF BInv, Typed, Fits
  <2> QED BY <2>1, FreedIs, SlotIs, SizesAssumption DEF BInv, FreedKv
<1>2. /\ slot' = [s \in Slots |-> IF Idle(s) THEN slot[s] ELSE Freed(s)]
      /\ kv' = [s \in Slots |-> IF Idle(s) THEN kv[s] ELSE FreedKv(s)]
      /\ EndRound /\ at' = 1 /\ UNCHANGED <<scenario, launched, heads>>
  BY DEF Abort
<1>3. slot' \in [Slots -> Slot] /\ kv' \in [Slots -> SUBSET ((0 .. NCtx) \X Tokens)]
  BY <1>1, <1>2 DEF BInv, Typed
<1>4. \A s \in Slots : slot'[s].state = "IDLE" /\ Len(slot'[s].prompt) < NCtx
  BY <1>1, <1>2 DEF Idle
<1> QED BY <1>2, <1>3, <1>4, AllIdle

-----------------------------------------------------------------------------
(* What a part of the batch brings a slot.                                 *)

LEMMA NextPartIs ==
  ASSUME Typed, Batched, phase = "post", NextPart
  PROVE  /\ batch # <<>> /\ Size \in Nat \ {0} /\ off \in Nat /\ off + Size <= Len(batch)
         /\ at' \in Slots /\ Len(batch) \in Nat /\ \A s \in Slots : s \in Nat /\ 1 <= s /\ s <= NSlots
         /\ \/ at < NSlots /\ at' = at + 1 /\ UNCHANGED <<phase, off, n, batch>>
            \/ /\ at = NSlots /\ at' = 1 /\ off + Size < Len(batch)
               /\ phase' = "decode" /\ off' = off + Size /\ n' = NBatch /\ batch' = batch
            \/ at = NSlots /\ at' = 1 /\ off + Size = Len(batch) /\ EndRound
<1>1. batch # <<>> /\ Size \in Nat \ {0} /\ off \in Nat /\ off + Size <= Len(batch) /\ Len(batch) \in Nat
  BY SizeIs DEF Batched, Decoding
<1>2. /\ at \in Slots /\ NSlots \in Nat \ {0} /\ 1 \in Slots /\ at <= NSlots /\ (at < NSlots => at + 1 \in Slots)
      /\ \A s \in Slots : s \in Nat /\ 1 <= s /\ s <= NSlots
  BY SizesAssumption DEF Typed, Slots
<1>3. CASE at < NSlots
  BY <1>1, <1>2, <1>3 DEF NextPart
<1>4. CASE ~ (at < NSlots)
  BY <1>1, <1>2, <1>4 DEF NextPart
<1> QED BY <1>3, <1>4

LEMMA PostIs ==
  ASSUME BInv, PostDecode
  PROVE  LET sampled == Inside(slot[at].ibatch) /\ slot[at].state \in {"DONE_PROMPT", "GENERATING"} IN
         /\ at \in Slots
         /\ slot' \in [Slots -> Slot] /\ kv' \in [Slots -> SUBSET ((0 .. NCtx) \X Tokens)]
         /\ \A t \in Slots : t # at => slot'[t] = slot[t] /\ kv'[t] = kv[t]
         /\ Len(slot'[at].prompt) < NCtx
         /\ \/ ~ sampled /\ slot'[at] = slot[at] /\ kv'[at] = kv[at]
            \/ /\ sampled /\ slot'[at].state = "IDLE" /\ kv'[at] = FreedKv(at)
               /\ slot'[at].prompt = Freed(at).prompt
            \/ /\ sampled /\ slot'[at].state = "GENERATING" /\ slot'[at].ibatch = -1
               /\ slot'[at].task = slot[at].task /\ slot'[at].prompt = slot[at].prompt /\ kv'[at] = kv[at]
<1> DEFINE sampled == Inside(slot[at].ibatch) /\ slot[at].state \in {"DONE_PROMPT", "GENERATING"}
<1>1. /\ at \in Slots /\ Typed /\ slot[at] \in Slot /\ slot \in [Slots -> Slot]
      /\ kv \in [Slots -> SUBSET ((0 .. NCtx) \X Tokens)] /\ Len(slot[at].prompt) < NCtx
      /\ slot[at].gen \in Nat /\ MaxGen \in Nat /\ -1 \in -1 .. NBatch - 1 /\ FreedKv(at) \subseteq (0 .. NCtx) \X Tokens
  <2>1. at \in Slots /\ Typed /\ Fits
    BY DEF BInv, Typed
  <2>2. FreedKv(at) \subseteq (0 .. NCtx) \X Tokens
    BY <2>1 DEF Typed, FreedKv
  <2> QED BY <2>1, <2>2, SlotIs, SizesAssumption DEF Typed, Fits
<1> HIDE DEF sampled
<1>2. CASE ~ sampled /\ UNCHANGED <<slot, kv>>
  BY <1>1, <1>2 DEF sampled
<1>3. CASE /\ sampled
           /\ slot' = [slot EXCEPT ![at] = [Freed(at) EXCEPT !.ibatch = -1]]
           /\ kv' = [kv EXCEPT ![at] = FreedKv(at)]
  <2> DEFINE r == [Freed(at) EXCEPT !.ibatch = -1]
  <2>1. Freed(at) \in Slot /\ Freed(at).state = "IDLE" /\ Len(Freed(at).prompt) < NCtx
    BY <1>1, FreedIs, SizesAssumption
  <2>2. r \in Slot /\ r.state = "IDLE" /\ r.prompt = Freed(at).prompt
    BY <1>1, <2>1 DEF Slot
  <2>3. slot' = [slot EXCEPT ![at] = r]
    BY <1>3
  <2> HIDE DEF r
  <2>4. slot' \in [Slots -> Slot] /\ slot'[at] = r /\ \A t \in Slots : t # at => slot'[t] = slot[t]
    BY <1>1, <2>2, <2>3, SlotSet
  <2>5. kv' \in [Slots -> SUBSET ((0 .. NCtx) \X Tokens)] /\ kv'[at] = FreedKv(at)
        /\ \A t \in Slots : t # at => kv'[t] = kv[t]
    BY <1>1, <1>3
  <2> QED BY <1>1, <1>3, <2>1, <2>2, <2>4, <2>5 DEF sampled
<1>4. CASE \E tok \in Tokens :
             /\ sampled /\ slot[at].gen + 1 < MaxGen
             /\ slot' = [slot EXCEPT ![at].state = "GENERATING", ![at].sampled = tok,
                                     ![at].gen = @ + 1, ![at].ibatch = -1]
             /\ UNCHANGED kv
  <2>1. PICK tok \in Tokens :
             /\ sampled /\ slot[at].gen + 1 < MaxGen
             /\ slot' = [slot EXCEPT ![at].state = "GENERATING", ![at].sampled = tok,
                                     ![at].gen = @ + 1, ![at].ibatch = -1]
             /\ UNCHANGED kv
    BY <1>4
  <2> DEFINE r == [slot[at] EXCEPT !.state = "GENERATING", !.sampled = tok, !.gen = slot[at].gen + 1, !.ibatch = -1]
  <2>2. /\ r \in Slot /\ r.state = "GENERATING" /\ r.prompt = slot[at].prompt /\ r.ibatch = -1
        /\ r.task = slot[at].task
    <3>1. slot[at].gen + 1 \in 0 .. MaxGen
      BY <1>1, <2>1
    <3> QED BY <1>1, <3>1 DEF Slot, States
  <2>3. slot' = [slot EXCEPT ![at] = r]
    BY <1>1, <2>1
  <2> HIDE DEF r
  <2>4. slot' \in [Slots -> Slot] /\ slot'[at] = r /\ \A t \in Slots : t # at => slot'[t] = slot[t]
    BY <1>1, <2>2, <2>3, SlotSet
  <2> QED BY <1>1, <2>1, <2>2, <2>4 DEF sampled
<1> QED BY <1>2, <1>3, <1>4 DEF PostDecode, sampled

LEMMA PostBInv == ASSUME BInv, PostDecode PROVE BInv'
<1> DEFINE sampled == Inside(slot[at].ibatch) /\ slot[at].state \in {"DONE_PROMPT", "GENERATING"}
<1>0. /\ at \in Slots /\ Typed /\ Fits /\ phase = "post" /\ NextPart /\ UNCHANGED <<scenario, launched, heads>>
      /\ \A s \in Slots : slot[s].ibatch \in Int
  BY SlotIs DEF BInv, Typed, PostDecode
<1>1. /\ batch # <<>> /\ Size \in Nat \ {0} /\ off \in Nat /\ off + Size <= Len(batch)
      /\ at' \in Slots /\ Len(batch) \in Nat /\ \A s \in Slots : s \in Nat /\ 1 <= s /\ s <= NSlots
      /\ \/ at < NSlots /\ at' = at + 1 /\ UNCHANGED <<phase, off, n, batch>>
         \/ /\ at = NSlots /\ at' = 1 /\ off + Size < Len(batch)
            /\ phase' = "decode" /\ off' = off + Size /\ n' = NBatch /\ batch' = batch
         \/ at = NSlots /\ at' = 1 /\ off + Size = Len(batch) /\ EndRound
  BY <1>0, NextPartIs DEF BInv
<1>2. /\ slot' \in [Slots -> Slot] /\ kv' \in [Slots -> SUBSET ((0 .. NCtx) \X Tokens)]
      /\ \A t \in Slots : t # at => slot'[t] = slot[t]
      /\ Len(slot'[at].prompt) < NCtx
      /\ \/ ~ sampled /\ slot'[at] = slot[at]
         \/ sampled /\ slot'[at].state = "IDLE"
         \/ /\ sampled /\ slot'[at].state = "GENERATING" /\ slot'[at].ibatch = -1 /\ slot'[at].task = slot[at].task
            /\ slot'[at].prompt = slot[at].prompt
  BY PostIs
<1>3. Typed'
  <2>1. off' \in 0 .. NBatch /\ n' \in 1 .. NBatch /\ batch' \in Seq(Rows) /\ Len(batch') <= NBatch
        /\ phase' \in {"tasks", "decode", "post"}
    <3>1. /\ off \in 0 .. NBatch /\ n \in 1 .. NBatch /\ batch \in Seq(Rows) /\ Len(batch) <= NBatch
          /\ NBatch \in Nat \ {0} /\ <<>> \in Seq(Rows) /\ Len(<<>>) = 0
      BY <1>0, SizesAssumption DEF Typed
    <3>2. off + Size < Len(batch) => off + Size \in 0 .. NBatch
      BY <1>1, <3>1
    <3>3. CASE UNCHANGED <<phase, off, n, batch>>
      BY <1>0, <3>1, <3>3
    <3>4. CASE /\ off + Size < Len(batch)
               /\ phase' = "decode" /\ off' = off + Size /\ n' = NBatch /\ batch' = batch
      BY <3>1, <3>2, <3>4
    <3>5. CASE EndRound
      BY <3>1, <3>5 DEF EndRound
    <3> QED BY <1>1, <3>3, <3>4, <3>5
  <2> QED BY <1>0, <1>1, <1>2, <2>1 DEF Typed
<1>4. \A s \in Slots : Calm(s)
  BY <1>0, <1>2 DEF Calm, Idle
<1>5. \A s \in Slots : ~ Shortened(s)'
  BY <1>0, <1>1 DEF Shortened, EndRound
<1>6. Tasked' /\ PromptIsRequest' /\ Fits'
  BY <1>0, <1>4, <1>5, CalmKeeps
<1>7. ASSUME NEW s \in Slots, slot'[s].state \in {"DONE_PROMPT", "GENERATING"}, slot'[s].ibatch # -1 \/ slot'[s].state = "DONE_PROMPT"
      PROVE  Ahead(s)' /\ phase' # "tasks"
  <2>1. slot'[s] = slot[s] /\ (s = at => ~ sampled)
    BY <1>2, <1>7
  <2>2. Lo(s) <= slot[s].ibatch /\ slot[s].ibatch < Len(batch)
    BY <1>0, <1>7, <2>1 DEF BInv, Awaits, Ahead
  <2>3. s <= at => off + Size <= slot[s].ibatch
    <3>1. CASE s < at
      BY <1>0, <2>2, <3>1 DEF Lo
    <3>2. CASE s = at
      <4>1. ~ Inside(slot[s].ibatch) /\ off <= slot[s].ibatch
        BY <1>0, <1>1, <1>7, <2>1, <2>2, <3>2 DEF Lo, sampled
      <4> QED BY <1>0, <1>1, <4>1 DEF Inside
    <3> QED BY <1>0, <1>1, <3>1, <3>2
  <2>4. CASE at < NSlots /\ at' = at + 1 /\ UNCHANGED <<phase, off, n, batch>>
    <3>1. Lo(s)' = IF s <= at THEN off + Size ELSE off
      BY <1>0, <1>1, <2>4 DEF Lo, Size
    <3> QED BY <1>0, <1>1, <2>1, <2>2, <2>3, <2>4, <3>1 DEF Ahead, Lo
  <2>5. CASE /\ at = NSlots /\ at' = 1 /\ off + Size < Len(batch)
             /\ phase' = "decode" /\ off' = off + Size /\ n' = NBatch /\ batch' = batch
    BY <1>0, <1>1, <2>1, <2>2, <2>3, <2>5 DEF Ahead, Lo
  <2>6. CASE at = NSlots /\ at' = 1 /\ off + Size = Len(batch) /\ EndRound
    <3>1. s <= at
      BY <1>1, <2>6
    <3>2. off + Size <= slot[s].ibatch /\ slot[s].ibatch < off + Size
      BY <2>2, <2>3, <2>6, <3>1
    <3>3. off + Size \in Nat /\ slot[s].ibatch \in Int
      BY <1>0, <1>1
    <3> QED BY <3>2, <3>3
  <2> QED BY <1>1, <2>4, <2>5, <2>6
<1>8. Awaits'
  BY <1>0, <1>1, <1>7 DEF Awaits, Decoding, EndRound
<1>9. Batched' /\ Reusing'
  <2>1. Reusing'
    BY <1>0, <1>1 DEF Reusing, EndRound
  <2>2. Batched'
    BY <1>0, <1>1 DEF BInv, Batched, Decoding, EndRound
  <2> QED BY <2>1, <2>2
<1> QED BY <1>3, <1>6, <1>8, <1>9 DEF BInv

-----------------------------------------------------------------------------
LEMMA InitBInv == ASSUME BatchInit PROVE BInv
<1>1. \A s \in Slots : /\ slot[s] \in Slot /\ Idle(s) /\ slot[s].prompt = <<>> /\ kv[s] = {}
                       /\ slot[s].state # "PROCESSING_PROMPT"
  BY SizesAssumption DEF BatchInit, Slot, States, Idle
<1>2. Typed
  BY <1>1, SizesAssumption DEF BatchInit, Typed, Slots
<1>3. Fits /\ Tasked /\ Awaits /\ PromptIsRequest
  BY <1>1, SizesAssumption DEF Fits, Tasked, Awaits, PromptIsRequest, Idle
<1>4. Batched /\ Reusing
  BY DEF BatchInit, Batched, Reusing, Decoding
<1> QED BY <1>2, <1>3, <1>4 DEF BInv

LEMMA NextBInv == ASSUME BInv, [BatchNext]_batchVars PROVE BInv'
<1>1. CASE UNCHANGED batchVars
  <2> USE <1>1 DEF batchVars
  <2>1. Typed'
    BY DEF BInv, Typed
  <2>2. Fits' /\ PromptIsRequest'
    BY DEF BInv, Fits, PromptIsRequest, Shortened
  <2>3. Tasked'
    BY DEF BInv, Tasked, Idle
  <2>4. Batched' /\ Reusing'
    BY DEF BInv, Batched, Reusing, Decoding, Room
  <2>5. Awaits'
    BY DEF BInv, Awaits, Decoding, Ahead, Lo, Size
  <2> QED BY <2>1, <2>2, <2>3, <2>4, <2>5 DEF BInv
<1> QED BY <1>1, LaunchBInv, CancelBInv, EraseBInv, BeginBInv, ShiftBInv, SampledBInv, SkipBInv,
           StartBInv, ReuseBInv, AddBInv, NothingBInv, DecodeBInv, FullBInv, FailsBInv, AbortBInv, PostBInv
        DEF BatchNext, UpdateSlots

LEMMA BatchBInv == BatchSpec => []BInv
<1>1. BatchInit => BInv
  BY InitBInv
<1>2. BInv /\ [BatchNext]_batchVars => BInv'
  BY NextBInv
<1> QED BY <1>1, <1>2, PTL DEF BatchSpec

-----------------------------------------------------------------------------
(* The rows of the batch.                                                  *)

LEMMA UndecodedIs ==
  ASSUME Typed, Batched
  PROVE  /\ Undecoded \in Nat /\ Undecoded <= Len(batch) /\ Len(batch) \in Nat
         /\ ~ Decoding => Undecoded = 0
         /\ \A i \in DOMAIN batch : batch[i] \in Rows /\ batch[i].slot \in Slots /\ i \in 1 .. Len(batch)
<1>1. batch \in Seq(Rows) /\ Len(batch) \in Nat /\ off \in Nat
  BY DEF Typed
<1>2. \A i \in DOMAIN batch : batch[i] \in Rows /\ batch[i].slot \in Slots /\ i \in 1 .. Len(batch)
  <2>1. DOMAIN batch = 1 .. Len(batch) /\ \A i \in 1 .. Len(batch) : batch[i] \in Rows
    BY <1>1
  <2>2. \A r \in Rows : r.slot \in Slots
    BY DEF Rows
  <2> QED BY <2>1, <2>2
<1>3. CASE phase = "post"
  BY <1>1, <1>2, <1>3, SizeIs DEF Undecoded, Batched, Decoding
<1>4. CASE phase # "post"
  BY <1>1, <1>2, <1>4 DEF Undecoded, Batched, Decoding
<1> QED BY <1>3, <1>4

LEMMA OwnedEmpty == ASSUME BInv', batch' = <<>> PROVE Owned'
<1>1. phase' # "post" /\ off' \in Nat
  BY DEF BInv, Batched, Decoding, Typed
<1>2. Undecoded' = off' /\ Len(batch') = 0 /\ DOMAIN batch' = {}
  BY <1>1 DEF Undecoded
<1>3. off' + 1 .. 0 = {}
  <2>1. \A u \in Nat : u + 1 .. 0 = {}
    OBVIOUS
  <2> QED BY <1>1, <2>1
<1>4. Undecoded' + 1 .. Len(batch') = {}
  BY <1>2, <1>3
<1> QED BY <1>2, <1>4 DEF Owned

LEMMA OwnedKeeps ==
  ASSUME BInv, Owned, BInv', batch' = batch, Undecoded <= Undecoded', Undecoded' \in Nat,
         \A i \in Undecoded' + 1 .. Len(batch) :
           slot'[batch[i].slot].state = RowOf(i).state /\ slot'[batch[i].slot].ibatch = RowOf(i).ibatch,
         phase' # "sampled",
         phase' \in {"prompts", "reuse"} =>
           phase \in {"prompts", "reuse"} /\ at \in Nat /\ at' \in Nat /\ at <= at' /\ Undecoded' = 0
  PROVE  Owned'
<1>0. /\ Undecoded \in Nat /\ Len(batch) \in Nat
      /\ \A i \in DOMAIN batch : batch[i].slot \in Slots /\ i \in 1 .. Len(batch)
  BY UndecodedIs DEF BInv
<1>1. \A i \in Undecoded' + 1 .. Len(batch) : i \in Undecoded + 1 .. Len(batch)
  <2>1. \A u, v, m \in Nat : u <= v => \A i \in v + 1 .. m : i \in u + 1 .. m
    OBVIOUS
  <2> QED BY <1>0, <2>1
<1>2. \A i \in Undecoded' + 1 .. Len(batch') :
        /\ RowOf(i)'.state \in {"PROCESSING_PROMPT", "DONE_PROMPT", "GENERATING"}
        /\ RowOf(i)'.state # "PROCESSING_PROMPT" => i - 1 <= RowOf(i)'.ibatch
  BY <1>1 DEF Owned, RowOf
<1>3. phase' \in {"prompts", "reuse"} =>
        \A i \in DOMAIN batch' : batch'[i].slot < at' \/ RowOf(i)'.state = "GENERATING"
  <2>1. ASSUME phase' \in {"prompts", "reuse"}, NEW i \in DOMAIN batch
        PROVE  batch[i].slot < at' \/ slot'[batch[i].slot].state = "GENERATING"
    <3>1. batch[i].slot < at \/ RowOf(i).state = "GENERATING"
      BY <2>1 DEF Owned
    <3>2. batch[i].slot \in Nat
      BY <1>0, SizesAssumption DEF Slots
    <3>3. at \in Nat /\ at' \in Nat /\ at <= at' /\ Undecoded' = 0 /\ i \in 1 .. Len(batch)
      BY <1>0, <2>1
    <3>4. i \in Undecoded' + 1 .. Len(batch)
      BY <3>3
    <3>5. slot'[batch[i].slot].state = RowOf(i).state
      BY <3>4
    <3> QED BY <3>1, <3>2, <3>3, <3>5
  <2> QED BY <2>1 DEF RowOf
<1> QED BY <1>2, <1>3 DEF Owned

LEMMA NoRow ==
  ASSUME Owned, NEW s \in Slots,
         slot[s].state \notin {"PROCESSING_PROMPT", "DONE_PROMPT", "GENERATING"}
  PROVE  \A i \in Undecoded + 1 .. Len(batch) : batch[i].slot # s
BY DEF Owned, RowOf

LEMMA SampledOwned == ASSUME BInv, Owned, BInv', AddSampled PROVE Owned'
<1>0. /\ at \in Slots /\ phase = "sampled" /\ off = 0 /\ Undecoded = 0 /\ batch \in Seq(Rows) /\ Len(batch) \in Nat
      /\ off' = off /\ Advance("sampled", "prompts")
      /\ \A i \in DOMAIN batch : batch[i].slot \in Slots /\ i \in 1 .. Len(batch)
  BY UndecodedIs DEF BInv, Typed, Batched, Decoding, AddSampled
<1>1. /\ at \in Nat /\ at' \in Nat
      /\ \/ phase' = "sampled" /\ at' = at + 1
         \/ phase' = "prompts" /\ at' = 1 /\ at = NSlots
      /\ \A s \in Slots : s \in Nat /\ 1 <= s /\ s <= NSlots
  BY <1>0, AdvanceIs
<1>2. Undecoded' = 0
  BY <1>0, <1>1 DEF Undecoded
<1>3. \A i \in 1 .. Len(batch) : /\ batch[i].slot < at /\ RowOf(i).state = "GENERATING" /\ i - 1 <= RowOf(i).ibatch
                                 /\ batch[i].slot \in Slots
  BY <1>0 DEF Owned
<1>4. CASE slot[at].state # "GENERATING"
  <2>1. batch' = batch /\ slot' = slot
    BY <1>4 DEF AddSampled
  <2>2. \A i \in DOMAIN batch : batch[i].slot \in Nat /\ batch[i].slot <= NSlots
    BY <1>0, <1>1
  <2>3. phase' = "sampled" => \A i \in DOMAIN batch' : batch'[i].slot < at' /\ RowOf(i)'.state = "GENERATING"
    BY <1>0, <1>1, <1>3, <2>1, <2>2 DEF RowOf
  <2>4. \A i \in DOMAIN batch' : RowOf(i)'.state = "GENERATING"
    BY <1>0, <1>3, <2>1 DEF RowOf
  <2>5. \A i \in Undecoded' + 1 .. Len(batch') : RowOf(i)'.state = "GENERATING" /\ i - 1 <= RowOf(i)'.ibatch
    <3>1. Undecoded' + 1 .. Len(batch') = 1 .. Len(batch)
      BY <1>2, <2>1
    <3> QED BY <1>3, <2>1, <3>1 DEF RowOf
  <2> QED BY <2>1, <2>3, <2>4, <2>5 DEF Owned
<1>5. CASE slot[at].state = "GENERATING"
  <2> DEFINE r == Row(at, Len(slot[at].prompt), slot[at].sampled)
  <2>1. /\ batch' = Append(batch, r) /\ Len(batch') = Len(batch) + 1 /\ batch' \in Seq(Rows)
        /\ slot'[at].state = "GENERATING" /\ slot'[at].ibatch = Len(batch)
        /\ \A t \in Slots : t # at => slot'[t] = slot[t]
    BY <1>5, SampledIs
  <2>2. r.slot = at
    BY DEF Row
  <2> HIDE DEF r
  <2>3. /\ DOMAIN batch' = 1 .. Len(batch) + 1 /\ batch'[Len(batch) + 1] = r
        /\ \A i \in 1 .. Len(batch) : batch'[i] = batch[i]
    BY <1>0, <2>1
  <2>4. ASSUME NEW i \in 1 .. Len(batch)
        PROVE  /\ batch'[i] = batch[i] /\ RowOf(i)' = RowOf(i) /\ batch[i].slot \in Slots
               /\ batch[i].slot < at /\ batch[i].slot \in Nat
    <3>1. batch[i].slot < at /\ batch[i].slot \in Nat /\ batch[i].slot \in Slots /\ batch'[i] = batch[i]
      BY <1>1, <1>3, <2>3
    <3>2. batch[i].slot # at
      BY <1>1, <3>1
    <3> QED BY <2>1, <3>1, <3>2 DEF RowOf
  <2>5. batch'[Len(batch) + 1].slot = at
    BY <2>2, <2>3
  <2>6. ASSUME NEW i \in DOMAIN batch'
        PROVE  i \in 1 .. Len(batch) \/ i = Len(batch) + 1
    BY <1>0, <2>3
  <2>7. ASSUME NEW i \in DOMAIN batch', NEW j \in DOMAIN batch', batch'[i].slot = batch'[j].slot,
               batch'[i].pos = batch'[j].pos
        PROVE  i = j
    <3>1. CASE i \in 1 .. Len(batch) /\ j \in 1 .. Len(batch)
      <4>1. i \in DOMAIN batch /\ j \in DOMAIN batch
        BY <1>0, <3>1
      <4> QED BY <2>4, <2>7, <3>1, <4>1 DEF Owned
    <3>2. CASE i \in 1 .. Len(batch) /\ j = Len(batch) + 1
      BY <1>1, <2>4, <2>5, <2>7, <3>2
    <3>3. CASE i = Len(batch) + 1 /\ j \in 1 .. Len(batch)
      BY <1>1, <2>4, <2>5, <2>7, <3>3
    <3> QED BY <2>6, <3>1, <3>2, <3>3
  <2>8. ASSUME NEW i \in DOMAIN batch'
        PROVE  /\ RowOf(i)'.state = "GENERATING" /\ i - 1 <= RowOf(i)'.ibatch
               /\ phase' = "sampled" => batch'[i].slot < at'
    <3>1. CASE i \in 1 .. Len(batch)
      BY <1>1, <1>3, <2>4, <3>1
    <3>2. CASE i = Len(batch) + 1
      <4>1. RowOf(i)' = slot'[at] /\ batch'[i].slot = at
        BY <2>5, <3>2 DEF RowOf
      <4> QED BY <1>0, <1>1, <2>1, <3>2, <4>1
    <3> QED BY <2>6, <3>1, <3>2
  <2>9. Undecoded' + 1 .. Len(batch') = DOMAIN batch'
    BY <1>2, <2>1, <2>3
  <2> QED BY <1>1, <2>7, <2>8, <2>9 DEF Owned
<1> QED BY <1>4, <1>5

LEMMA SkipOwned == ASSUME BInv, Owned, BInv', SkipPrompt PROVE Owned'
<1>0. /\ at \in Slots /\ phase = "prompts" /\ Typed /\ Fits /\ Undecoded = 0 /\ batch' = batch /\ off' = off /\ off = 0
      /\ Advance("prompts", "decode") /\ \A i \in DOMAIN batch : batch[i].slot \in Slots
  BY UndecodedIs DEF BInv, Typed, Batched, Decoding, SkipPrompt
<1>1. /\ at \in Nat /\ at' \in Nat
      /\ \/ phase' = "prompts" /\ at' = at + 1
         \/ phase' = "decode"
  BY <1>0, AdvanceIs
<1>2. Undecoded' = 0
  BY <1>0, <1>1 DEF Undecoded
<1>3. \A i \in 1 .. Len(batch) : slot'[batch[i].slot] = slot[batch[i].slot]
  <2>1. CASE UNCHANGED slot
    BY <2>1
  <2>2. CASE slot[at].state = "STARTED" /\ Release(at)
    <3>1. \A i \in 1 .. Len(batch) : batch[i].slot # at /\ batch[i].slot \in Slots
      BY <1>0, <2>2, NoRow
    <3> QED BY <1>0, <2>2, <3>1, ReleaseIs
  <2> QED BY <2>1, <2>2 DEF SkipPrompt
<1> QED BY <1>0, <1>1, <1>2, <1>3, OwnedKeeps DEF RowOf

LEMMA StartOwned == ASSUME BInv, Owned, BInv', StartPrompt PROVE Owned'
<1>0. /\ at \in Nat /\ phase = "prompts" /\ phase' = "reuse" /\ Undecoded = 0 /\ Undecoded' = 0
      /\ UNCHANGED <<at, slot, batch>>
  BY SizesAssumption DEF BInv, Typed, Batched, Decoding, StartPrompt, Undecoded, Slots
<1> QED BY <1>0, OwnedKeeps DEF RowOf

LEMMA ReuseOwned == ASSUME BInv, Owned, BInv', ReuseChunk PROVE Owned'
<1>0. /\ at \in Slots /\ at \in Nat /\ phase = "reuse" /\ phase' = "reuse" /\ Undecoded = 0 /\ Undecoded' = 0
      /\ UNCHANGED <<at, batch>> /\ \A i \in DOMAIN batch : batch[i].slot \in Slots
  <2>1. at \in Slots /\ phase = "reuse" /\ UNCHANGED <<phase, at, batch, off>>
    BY DEF BInv, Typed, ReuseChunk
  <2>2. at \in Nat
    BY <2>1, SizesAssumption DEF Slots
  <2>3. Undecoded = 0 /\ Undecoded' = 0
    BY <2>1 DEF BInv, Batched, Decoding, Undecoded
  <2>4. \A i \in DOMAIN batch : batch[i].slot \in Slots
    BY UndecodedIs DEF BInv
  <2> QED BY <2>1, <2>2, <2>3, <2>4
<1>1. slot[at].state = "STARTED"
  BY <1>0 DEF BInv, Reusing
<1>2. \A t \in Slots : t # at => slot'[t] = slot[t]
  BY ChunkIs
<1>3. \A i \in 1 .. Len(batch) : batch[i].slot # at /\ batch[i].slot \in Slots
  BY <1>0, <1>1, NoRow
<1>4. \A i \in 1 .. Len(batch) : slot'[batch[i].slot] = RowOf(i)
  BY <1>2, <1>3 DEF RowOf
<1> QED BY <1>0, <1>4, OwnedKeeps

LEMMA AddOwned == ASSUME BInv, Owned, BInv', AddPrompt PROVE Owned'
<1> PICK have \in Nat, add \in Nat \ {0} : Filled(have, add)
  BY AddIs
<1>0. /\ at \in Slots /\ phase \in {"prompts", "reuse"} /\ Undecoded = 0 /\ Len(batch) \in Nat
      /\ slot[at].state \in {"STARTED", "PROCESSING_PROMPT"} /\ off = 0 /\ off' = off
      /\ Advance("prompts", "decode") /\ \A i \in DOMAIN batch : batch[i].slot \in Slots /\ i \in 1 .. Len(batch)
  BY AddIs, UndecodedIs DEF BInv, Typed, Batched, Decoding, AddPrompt
<1>1. /\ at \in Nat /\ at' \in Nat
      /\ \/ phase' = "prompts" /\ at' = at + 1
         \/ phase' = "decode"
      /\ \A s \in Slots : s \in Nat
  BY <1>0, AdvanceIs
<1>2. Undecoded' = 0
  BY <1>0, <1>1 DEF Undecoded
<1> DEFINE q == slot[at].task.tokens
<1>3. /\ batch' \in Seq(Rows) /\ Len(batch') = Len(batch) + add
      /\ \A i \in 1 .. Len(batch) : batch'[i] = batch[i]
      /\ \A i \in 1 .. add : batch'[Len(batch) + i] = Row(at, have + i - 1, q[have + i])
      /\ \A t \in Slots : t # at => slot'[t] = slot[t]
      /\ \/ slot'[at].state = "DONE_PROMPT" /\ slot'[at].ibatch = Len(batch) + add - 1
         \/ slot'[at].state = "PROCESSING_PROMPT"
  BY DEF Filled
<1>4. ASSUME NEW i \in 1 .. Len(batch)
      PROVE  /\ batch'[i] = batch[i] /\ batch[i].slot \in Slots /\ batch[i].slot # at /\ RowOf(i)' = RowOf(i)
             /\ batch[i].slot < at \/ RowOf(i).state = "GENERATING"
  <2>1. batch[i].slot < at \/ RowOf(i).state = "GENERATING"
    BY <1>0 DEF Owned
  <2>2. batch[i].slot # at /\ batch[i].slot \in Slots
    BY <1>0, <1>1, <2>1 DEF RowOf
  <2> QED BY <1>3, <2>1, <2>2 DEF RowOf
<1>5. ASSUME NEW i \in Len(batch) + 1 .. Len(batch) + add
      PROVE  batch'[i].slot = at /\ batch'[i].pos = have + (i - Len(batch)) - 1 /\ RowOf(i)' = slot'[at]
  <2> DEFINE j == i - Len(batch)
  <2>1. j \in 1 .. add /\ Len(batch) + j = i
    BY <1>0
  <2> HIDE DEF j
  <2>2. batch'[i] = Row(at, have + j - 1, q[have + j])
    BY <1>3, <2>1
  <2> QED BY <2>2 DEF RowOf, Row, j
<1>6. DOMAIN batch' = 1 .. Len(batch) + add /\ Undecoded' + 1 .. Len(batch') = 1 .. Len(batch) + add
  BY <1>2, <1>3
<1>7. ASSUME NEW i \in 1 .. Len(batch) + add, NEW j \in 1 .. Len(batch) + add, batch'[i].slot = batch'[j].slot,
             batch'[i].pos = batch'[j].pos
      PROVE  i = j
  <2>1. CASE i \in 1 .. Len(batch) /\ j \in 1 .. Len(batch)
    BY <1>0, <1>4, <1>7, <2>1 DEF Owned
  <2>2. CASE i \in Len(batch) + 1 .. Len(batch) + add /\ j \in Len(batch) + 1 .. Len(batch) + add
    BY <1>0, <1>5, <1>7, <2>2
  <2>3. CASE i \in 1 .. Len(batch) <=> j \in Len(batch) + 1 .. Len(batch) + add
    BY <1>0, <1>4, <1>5, <1>7, <2>3
  <2> QED BY <1>0, <2>1, <2>2, <2>3
<1>8. ASSUME NEW i \in 1 .. Len(batch) + add
      PROVE  /\ RowOf(i)'.state \in {"PROCESSING_PROMPT", "DONE_PROMPT", "GENERATING"}
             /\ RowOf(i)'.state # "PROCESSING_PROMPT" => i - 1 <= RowOf(i)'.ibatch
             /\ phase' = "prompts" => batch'[i].slot < at' \/ RowOf(i)'.state = "GENERATING"
  <2>1. CASE i \in 1 .. Len(batch)
    <3>1. /\ RowOf(i).state \in {"PROCESSING_PROMPT", "DONE_PROMPT", "GENERATING"}
          /\ RowOf(i).state # "PROCESSING_PROMPT" => i - 1 <= RowOf(i).ibatch
      BY <1>0, <2>1 DEF Owned
    <3> QED BY <1>1, <1>4, <2>1, <3>1
  <2>2. CASE i \in Len(batch) + 1 .. Len(batch) + add
    BY <1>0, <1>1, <1>3, <1>5, <2>2
  <2> QED BY <1>0, <2>1, <2>2
<1> QED BY <1>1, <1>6, <1>7, <1>8 DEF Owned

LEMMA DecodeOwned == ASSUME BInv, Owned, BInv', DecodeOk PROVE Owned'
<1>0. /\ phase = "decode" /\ batch # <<>> /\ phase' = "post" /\ UNCHANGED <<batch, off, n>>
      /\ Typed /\ Tasked /\ \A i \in DOMAIN batch : batch[i].slot \in Slots /\ i \in 1 .. Len(batch)
  BY UndecodedIs DEF DecodeOk, BInv
<1>1. Undecoded = off /\ Undecoded' = off + Size /\ Size \in Nat /\ off \in Nat /\ Len(batch) \in Nat
  BY <1>0, SizeIs DEF BInv, Decoding, Undecoded, Size
<1>2. ASSUME NEW i \in Undecoded' + 1 .. Len(batch) PROVE slot'[batch[i].slot] = RowOf(i)
  <2>1. i \in Undecoded + 1 .. Len(batch) /\ i \in 1 .. Len(batch)
    BY <1>1
  <2>2. batch[i].slot \in Slots
    BY <1>0, <1>1, <2>1, UndecodedIs DEF BInv, Typed
  <2>3. slot[batch[i].slot].state # "WAIT_OTHER"
    BY <2>1, <2>2, NoRow
  <2>4. ParentOf(batch[i].slot) = {}
    BY <2>3 DEF ParentOf
  <2> QED BY <2>2, <2>4, DecodeIs DEF RowOf
<1> QED BY <1>0, <1>1, <1>2, OwnedKeeps

LEMMA FullOwned == ASSUME BInv, Owned, BInv', DecodeFull PROVE Owned'
<1>0. phase = "decode" /\ UNCHANGED <<phase, batch, off>> /\ Typed /\ batch \in Seq(Rows) /\ Undecoded \in Nat
      /\ Undecoded = off /\ Undecoded' = off
  BY UndecodedIs DEF DecodeFull, BInv, Typed, Undecoded
<1>1. ASSUME NEW i \in Undecoded + 1 .. Len(batch) PROVE slot'[batch[i].slot] = RowOf(i)
  <2>1. CASE Purgeable # {}
    <3> DEFINE s == Min(Purgeable)
    <3>1. s \in Slots /\ Idle(s)
      BY <2>1, PurgeableIs
    <3>2. slot' = [slot EXCEPT ![s].prompt = <<>>] /\ kv' = [kv EXCEPT ![s] = {}]
      BY <2>1 DEF DecodeFull
    <3> HIDE DEF s
    <3>3. \A t \in Slots : t # s => slot'[t] = slot[t]
      BY <1>0, <3>1, <3>2, PurgedIs
    <3>4. batch[i].slot # s
      BY <3>1, NoRow DEF Idle
    <3>5. i \in 1 .. Len(batch)
      BY <1>0
    <3>6. batch[i].slot \in Slots
      <4>1. i \in DOMAIN batch
        BY <1>0, <3>5
      <4> QED BY <1>0, <4>1, UndecodedIs DEF BInv
    <3> QED BY <3>3, <3>4, <3>6 DEF RowOf
  <2>2. CASE Purgeable = {}
    BY <2>2 DEF DecodeFull, RowOf
  <2> QED BY <2>1, <2>2
<1> QED BY <1>0, <1>1, OwnedKeeps

(* The slot that samples has no row left to decode.                        *)
LEMMA SampledRow ==
  ASSUME BInv, Owned, phase = "post", at \in Slots, Inside(slot[at].ibatch),
         slot[at].state \in {"DONE_PROMPT", "GENERATING"}
  PROVE  \A i \in Undecoded + 1 .. Len(batch) : batch[i].slot # at
<1>1. Undecoded \in Nat /\ Undecoded = off + Size /\ slot[at].ibatch \in Int /\ Len(batch) \in Nat
  BY UndecodedIs, SlotIs DEF BInv, Undecoded
<1>2. slot[at].ibatch < Undecoded
  BY <1>1 DEF Inside
<1>3. ASSUME NEW i \in Undecoded + 1 .. Len(batch), batch[i].slot = at PROVE FALSE
  <2>1. i - 1 <= slot[at].ibatch
    BY <1>3 DEF Owned, RowOf
  <2> QED BY <1>1, <1>2, <1>3, <2>1
<1> QED BY <1>3

LEMMA PostUndecoded ==
  ASSUME BInv, PostDecode
  PROVE  \/ Undecoded' = Undecoded /\ batch' = batch /\ phase' \in {"post", "decode"}
         \/ Undecoded = Len(batch) /\ EndRound
<1>0. phase = "post" /\ NextPart
  BY DEF PostDecode
<1>1. \/ at < NSlots /\ at' = at + 1 /\ UNCHANGED <<phase, off, n, batch>>
      \/ /\ at = NSlots /\ at' = 1 /\ off + Size < Len(batch)
         /\ phase' = "decode" /\ off' = off + Size /\ n' = NBatch /\ batch' = batch
      \/ at = NSlots /\ at' = 1 /\ off + Size = Len(batch) /\ EndRound
  BY <1>0, NextPartIs DEF BInv
<1>2. CASE UNCHANGED <<phase, off, n, batch>>
  BY <1>0, <1>2 DEF Undecoded, Size
<1>3. CASE /\ off + Size < Len(batch)
           /\ phase' = "decode" /\ off' = off + Size /\ n' = NBatch /\ batch' = batch
  BY <1>0, <1>3 DEF Undecoded
<1>4. CASE off + Size = Len(batch) /\ EndRound
  BY <1>0, <1>4 DEF Undecoded
<1> QED BY <1>1, <1>2, <1>3, <1>4

LEMMA PostOwned == ASSUME BInv, Owned, BInv', PostDecode PROVE Owned'
<1>0. /\ phase = "post" /\ at \in Slots /\ Undecoded \in Nat /\ Typed
      /\ \A i \in DOMAIN batch : batch[i].slot \in Slots
      /\ batch \in Seq(Rows)
  BY UndecodedIs DEF PostDecode, BInv, Typed
<1>1. CASE EndRound
  BY <1>1, OwnedEmpty DEF EndRound
<1>2. CASE Undecoded' = Undecoded /\ batch' = batch /\ phase' \in {"post", "decode"}
  <2>1. ASSUME NEW i \in Undecoded + 1 .. Len(batch) PROVE slot'[batch[i].slot] = RowOf(i)
    <3>1. i \in DOMAIN batch
      BY <1>0
    <3>2. CASE batch[i].slot # at
      BY <1>0, <3>1, <3>2, PostIs DEF RowOf
    <3>3. CASE batch[i].slot = at
      <4>1. ~ (Inside(slot[at].ibatch) /\ slot[at].state \in {"DONE_PROMPT", "GENERATING"})
        BY <1>0, <3>3, SampledRow
      <4> QED BY <3>3, <4>1, PostIs DEF RowOf
    <3> QED BY <3>2, <3>3
  <2> QED BY <1>0, <1>2, <2>1, OwnedKeeps
<1> QED BY <1>1, <1>2, PostUndecoded

LEMMA InitOwned == ASSUME BatchInit PROVE Owned
<1>1. DOMAIN batch = {} /\ Undecoded + 1 .. Len(batch) = {}
  BY DEF BatchInit, Undecoded
<1> QED BY <1>1 DEF Owned

LEMMA NextOwned == ASSUME BInv, Owned, BInv', [BatchNext]_batchVars PROVE Owned'
<1>1. CASE UNCHANGED batchVars
  BY <1>1 DEF batchVars, Owned, Undecoded, RowOf, Size
<1>2. CASE LaunchTask \/ CancelSlot \/ EraseSlot \/ BeginRound \/ ShiftContext
  <2>1. batch' = <<>>
    BY <1>2 DEF BInv, Batched, LaunchTask, CancelSlot, EraseSlot, BeginRound, ShiftContext
  <2> QED BY <2>1, OwnedEmpty
<1>3. CASE NothingToDecode \/ DecodeFails \/ Abort
  BY <1>3, OwnedEmpty DEF NothingToDecode, DecodeFails, Abort, EndRound
<1> QED BY <1>1, <1>2, <1>3, SampledOwned, SkipOwned, StartOwned, ReuseOwned, AddOwned, DecodeOwned, FullOwned,
           PostOwned
        DEF BatchNext, UpdateSlots

-----------------------------------------------------------------------------
(* Batches are cut only when the memory may be full, and slots share a     *)
(* request only when there are requests for several completions.           *)

LEMMA WholeBatch ==
  ASSUME BInv, Apart, "full" \notin scenario.faults, Decoding, batch # <<>>
  PROVE  off = 0 /\ off + Size = Len(batch) /\ View = 1 .. Len(batch)
<1>1. n = NBatch /\ off = 0
  BY DEF Apart
<1>2. Size = n \/ off + Size = Len(batch)
  BY SizeIs DEF BInv
<1>3. Size \in Nat /\ off + Size <= Len(batch) /\ Len(batch) \in Nat /\ Len(batch) <= NBatch /\ NBatch \in Nat
  BY SizeIs, SizesAssumption DEF BInv, Typed
<1>4. off + Size = Len(batch)
  BY <1>1, <1>2, <1>3
<1> QED BY <1>1, <1>3, <1>4 DEF View

(* A slot in use keeps the task it has.                                    *)
Keeps(s) == slot'[s] = slot[s] \/ slot'[s].state = "IDLE" \/ (~ Idle(s) /\ slot'[s].task = slot[s].task)

LEMMA StepKeeps ==
  ASSUME BInv, [BatchNext]_batchVars, ~ LaunchTask, NEW s \in Slots
  PROVE  Keeps(s)
<1>0. Typed /\ Fits /\ Tasked /\ at \in Slots
  BY DEF BInv, Typed
<1>1. CASE UNCHANGED batchVars \/ BeginRound \/ StartPrompt \/ NothingToDecode
  BY <1>1 DEF batchVars, BeginRound, StartPrompt, NothingToDecode, Keeps
<1>2. CASE CancelSlot
  BY <1>0, <1>2, ReleaseIs DEF CancelSlot, Keeps
<1>3. CASE EraseSlot
  BY <1>0, <1>3, PurgedIs DEF EraseSlot, Keeps
<1>4. CASE ShiftContext
  <2>1. CASE slot[at].state = "GENERATING" /\ Len(slot[at].prompt) + 1 >= NCtx /\ Shifted(at)
    <3>1. slot'[at].task = slot[at].task /\ ~ Idle(at) /\ \A t \in Slots : t # at => slot'[t] = slot[t]
      BY <1>0, <2>1, ShiftedSlots DEF Idle
    <3> QED BY <3>1 DEF Keeps
  <2>2. CASE Release(at)
    BY <1>0, <2>2, ReleaseIs DEF Keeps
  <2>3. CASE UNCHANGED slot
    BY <2>3 DEF Keeps
  <2> QED BY <1>4, <2>1, <2>2, <2>3 DEF ShiftContext
<1>5. CASE AddSampled
  <2>1. CASE slot[at].state = "GENERATING"
    BY <1>5, <2>1, SampledIs DEF Keeps, Idle
  <2>2. CASE slot[at].state # "GENERATING"
    BY <1>5, <2>2 DEF AddSampled, Keeps
  <2> QED BY <2>1, <2>2
<1>6. CASE SkipPrompt
  BY <1>0, <1>6, ReleaseIs DEF SkipPrompt, Keeps
<1>7. CASE ReuseChunk
  <2>1. ~ Idle(at)
    BY <1>7 DEF BInv, Reusing, ReuseChunk, Idle
  <2>2. \/ UNCHANGED slot
        \/ slot'[at].task = slot[at].task /\ \A t \in Slots : t # at => slot'[t] = slot[t]
    BY <1>7, ChunkIs
  <2> QED BY <2>1, <2>2 DEF Keeps
<1>8. CASE AddPrompt
  <2>1. ~ Idle(at) /\ slot'[at].task = slot[at].task /\ \A t \in Slots : t # at => slot'[t] = slot[t]
    BY <1>8, AddIs DEF Filled, Idle
  <2> QED BY <2>1 DEF Keeps
<1>9. CASE DecodeOk
  BY <1>0, <1>9, DecodeIs, FromIs DEF Keeps
<1>10. CASE DecodeFull
  <2>1. CASE Purgeable # {}
    <3> DEFINE x == Min(Purgeable)
    <3>1. x \in Slots /\ Idle(x)
      BY <2>1, PurgeableIs
    <3>2. slot' = [slot EXCEPT ![x].prompt = <<>>] /\ kv' = [kv EXCEPT ![x] = {}]
      BY <1>10, <2>1 DEF DecodeFull
    <3> HIDE DEF x
    <3> QED BY <1>0, <3>1, <3>2, PurgedIs DEF Keeps
  <2>2. CASE Purgeable = {}
    BY <1>10, <2>2 DEF DecodeFull, Keeps
  <2> QED BY <2>1, <2>2
<1>11. CASE DecodeFails \/ Abort
  <2>1. slot'[s] = slot[s] \/ slot'[s] = Freed(s) \/ slot'[s] = [Freed(s) EXCEPT !.prompt = <<>>]
    BY <1>11 DEF DecodeFails, Abort
  <2>2. Freed(s) \in Slot /\ Freed(s).state = "IDLE"
    BY <1>0, FreedIs
  <2> QED BY <2>1, <2>2 DEF Keeps, Slot
<1>12. CASE PostDecode
  BY <1>12, PostIs DEF Keeps, Idle
<1> QED BY <1>1, <1>2, <1>3, <1>4, <1>5, <1>6, <1>7, <1>8, <1>9, <1>10, <1>11, <1>12 DEF BatchNext, UpdateSlots

LEMMA NextApart == ASSUME BInv, Apart, BInv', [BatchNext]_batchVars PROVE Apart'
<1>1. scenario' = scenario
  BY DEF batchVars, BatchNext, UpdateSlots, LaunchTask, CancelSlot, EraseSlot, BeginRound, ShiftContext, AddSampled,
         SkipPrompt, StartPrompt, ReuseChunk, AddPrompt, NothingToDecode, DecodeOk, DecodeFull, DecodeFails, Abort,
         PostDecode
<1>2. "full" \notin scenario.faults => n' = NBatch /\ off' = 0
  <2>1. CASE PostDecode /\ "full" \notin scenario.faults
    <3>1. phase = "post" /\ NextPart /\ n = NBatch /\ off = 0
      BY <2>1 DEF PostDecode, Apart
    <3>2. /\ batch # <<>>
          /\ \/ UNCHANGED <<phase, off, n, batch>>
             \/ off + Size < Len(batch)
             \/ EndRound
      BY <3>1, NextPartIs DEF BInv
    <3>3. off + Size = Len(batch) /\ Len(batch) \in Nat
      BY <2>1, <3>1, <3>2, WholeBatch, UndecodedIs DEF BInv, Decoding
    <3> QED BY <3>1, <3>2, <3>3 DEF EndRound
  <2>2. CASE DecodeFull
    BY <2>2 DEF DecodeFull
  <2>3. CASE ~ PostDecode /\ ~ DecodeFull
    <3>1. UNCHANGED <<off, n>> \/ EndRound
      BY <2>3
      DEF batchVars, BatchNext, UpdateSlots, LaunchTask, CancelSlot, EraseSlot, BeginRound, ShiftContext, AddSampled,
          SkipPrompt, StartPrompt, ReuseChunk, AddPrompt, NothingToDecode, DecodeOk, DecodeFails, Abort
    <3> QED BY <3>1 DEF Apart, EndRound
  <2> QED BY <2>1, <2>2, <2>3
<1>3. ASSUME NEW s \in Slots, ~ Idle(s)', slot'[s].task.kind # "single" PROVE "parent" \in scenario.kinds
  <2>1. CASE LaunchTask
    <3>1. PICK x \in Slots, p \in Prompts, kind \in scenario.kinds :
            \/ kind = "single" /\ slot' = [slot EXCEPT ![x] = Launch(x, kind, p)]
            \/ /\ kind = "parent"
               /\ \E c \in Slots \ {x} :
                    slot' = [slot EXCEPT ![x] = Launch(x, kind, p), ![c] = Launch(c, "child", p)]
      BY <2>1 DEF LaunchTask
    <3>2. CASE kind = "parent"
      BY <3>1, <3>2
    <3>3. CASE kind = "single" /\ slot' = [slot EXCEPT ![x] = Launch(x, kind, p)]
      <4>1. Launch(x, kind, p) \in Slot /\ Launch(x, kind, p).task.kind = "single" /\ slot \in [Slots -> Slot]
        <5>1. Typed /\ kind \in {"single", "parent", "child"} /\ slot \in [Slots -> Slot]
          BY <3>3 DEF BInv, Typed
        <5>2. /\ Launch(x, kind, p) \in Slot
              /\ Launch(x, kind, p).task = [id |-> launched, kind |-> kind, tokens |-> p]
          BY <5>1, LaunchIs
        <5> QED BY <3>3, <5>1, <5>2
      <4>2. slot'[x].task.kind = "single" /\ \A t \in Slots : t # x => slot'[t] = slot[t]
        BY <3>3, <4>1, SlotSet
      <4>3. slot'[s] = slot[s]
        BY <1>3, <4>2
      <4> QED BY <1>3, <4>3 DEF Apart, Idle
    <3> QED BY <3>1, <3>2, <3>3
  <2>2. CASE ~ LaunchTask
    <3>1. Keeps(s)
      BY <2>2, StepKeeps
    <3> QED BY <1>3, <3>1 DEF Keeps, Apart, Idle
  <2> QED BY <2>1, <2>2
<1> QED BY <1>1, <1>2, <1>3 DEF Apart

LEMMA InitApart == ASSUME BatchInit PROVE Apart
<1>1. \A s \in Slots : Idle(s)
  BY DEF BatchInit, Idle
<1> QED BY <1>1 DEF BatchInit, Apart

-----------------------------------------------------------------------------
(* The memory and the prompts.                                             *)

(* Rows from the k-th on that bring slot s token t at position p, and that *)
(* there are none of s at all.                                             *)
Brings(b, k, s, p, t) == \E i \in k + 1 .. Len(b) : b[i].slot = s /\ b[i].pos = p /\ b[i].tok = t
None(b, k, s) == \A i \in k + 1 .. Len(b) : b[i].slot # s
SameRows(s) == \A p \in 0 .. NCtx, t \in Tokens :
  Brings(batch', Undecoded', s, p, t) <=> Brings(batch, Undecoded, s, p, t)

LEMMA PendingIs ==
  ASSUME BInv, NEW s \in Slots, NEW p, NEW t
  PROVE  <<p, t>> \in Pending(s) <=> Brings(batch, Undecoded, s, p, t)
<1>1. Undecoded \in Nat /\ Undecoded <= Len(batch) /\ (phase = "tasks" => Len(batch) = 0)
  BY UndecodedIs DEF BInv, Batched
<1>2. Pending(s) = {<<batch[i].pos, batch[i].tok>> :
                      i \in {j \in Undecoded + 1 .. Len(batch) : phase # "tasks" /\ batch[j].slot = s}}
  BY DEF Pending, Undecoded
<1>3. CASE phase # "tasks"
  BY <1>2, <1>3 DEF Brings
<1>4. CASE phase = "tasks"
  <2>1. Undecoded + 1 .. Len(batch) = {}
    BY <1>1, <1>4
  <2> QED BY <1>2, <1>4, <2>1 DEF Brings
<1> QED BY <1>3, <1>4

LEMMA PendingNext ==
  ASSUME BInv', NEW s \in Slots, NEW p, NEW t
  PROVE  <<p, t>> \in Pending(s)' <=> Brings(batch', Undecoded', s, p, t)
<1>1. phase' = "tasks" => Undecoded' = 0 /\ Len(batch') = 0
  BY DEF BInv, Batched, Decoding, Undecoded
<1>2. Pending(s)' = {<<batch'[i].pos, batch'[i].tok>> :
                       i \in {j \in Undecoded' + 1 .. Len(batch') : phase' # "tasks" /\ batch'[j].slot = s}}
  BY DEF Pending, Undecoded
<1>3. CASE phase' # "tasks"
  BY <1>2, <1>3 DEF Brings
<1>4. CASE phase' = "tasks"
  <2>1. Undecoded' + 1 .. Len(batch') = {}
    BY <1>1, <1>4
  <2> QED BY <1>2, <1>4, <2>1 DEF Brings
<1> QED BY <1>3, <1>4

LEMMA NoneSame == ASSUME NEW s, None(batch, Undecoded, s), None(batch', Undecoded', s) PROVE SameRows(s)
BY DEF None, SameRows, Brings

LEMMA NoneEmpty == ASSUME BInv', batch' = <<>>, NEW s PROVE None(batch', Undecoded', s)
<1>1. Undecoded' \in Nat /\ Len(batch') = 0
  BY DEF BInv, Batched, Decoding, Undecoded, Typed
<1>2. \A u \in Nat : u + 1 .. 0 = {}
  OBVIOUS
<1> QED BY <1>1, <1>2 DEF None

LEMMA AgreesSame ==
  ASSUME BInv, BInv', NEW s \in Slots, Agrees(s), SameRows(s),
         slot'[s].prompt = slot[s].prompt, kv'[s] = kv[s],
         \A p \in 0 .. NCtx : Unsettled(s, p) => Unsettled(s, p)'
  PROVE  Agrees(s)'
<1>1. ASSUME NEW p \in 0 .. NCtx, NEW t \in Tokens
      PROVE  /\ <<p, t>> \in Pending(s)' <=> <<p, t>> \in Pending(s)
             /\ ~ (<<p, t>> \in kv[s] /\ <<p, t>> \in Pending(s))
             /\ ~ Unsettled(s, p) => ( <<p, t>> \in kv[s] \/ <<p, t>> \in Pending(s) <=>
                                       p < Len(slot[s].prompt) /\ slot[s].prompt[p + 1] = t )
  BY PendingIs, PendingNext DEF SameRows, Agrees
<1>2. ASSUME NEW p \in 0 .. NCtx, NEW t \in Tokens
      PROVE  /\ ~ (<<p, t>> \in kv'[s] /\ <<p, t>> \in Pending(s)')
             /\ ~ Unsettled(s, p)' => ( <<p, t>> \in kv'[s] \/ <<p, t>> \in Pending(s)' <=>
                                        p < Len(slot'[s].prompt) /\ slot'[s].prompt[p + 1] = t )
  BY <1>1
<1> QED BY <1>2 DEF Agrees

LEMMA AgreesEmpty ==
  ASSUME BInv', NEW s \in Slots, slot'[s].prompt = <<>>, kv'[s] = {}, None(batch', Undecoded', s)
  PROVE  Agrees(s)'
<1>1. ASSUME NEW p \in 0 .. NCtx, NEW t \in Tokens PROVE <<p, t>> \notin Pending(s)' /\ ~ (p < Len(slot'[s].prompt))
  BY PendingNext DEF None, Brings
<1> QED BY <1>1 DEF Agrees

LEMMA AgreesFreed ==
  ASSUME BInv, BInv', NEW s \in Slots, Agrees(s), phase # "reuse",
         None(batch, Undecoded, s), None(batch', Undecoded', s),
         slot'[s].prompt = Freed(s).prompt, kv'[s] = FreedKv(s)
  PROVE  Agrees(s)'
<1>1. Freed(s).prompt = IF slot[s].task.kind = "child" THEN <<>> ELSE slot[s].prompt
  BY FreedIs DEF BInv
<1>2. CASE slot[s].task.kind = "child"
  BY <1>1, <1>2, AgreesEmpty DEF FreedKv
<1>3. CASE slot[s].task.kind # "child"
  <2>1. \A p \in 0 .. NCtx : ~ Unsettled(s, p)
    BY DEF Unsettled
  <2> QED BY <1>1, <1>3, <2>1, NoneSame, AgreesSame DEF FreedKv
<1> QED BY <1>2, <1>3

(* Between two rounds, and while contexts are shifted, no row is left.     *)
LEMMA NoBatch ==
  ASSUME BInv, phase \in {"tasks", "shift"}
  PROVE  batch = <<>> /\ \A s \in Slots : None(batch, Undecoded, s) /\ \A p \in 0 .. NCtx : ~ Unsettled(s, p)
<1>1. batch = <<>> /\ Undecoded \in Nat
  BY UndecodedIs DEF BInv, Batched
<1>2. \A u \in Nat : u + 1 .. 0 = {}
  OBVIOUS
<1> QED BY <1>1, <1>2 DEF None, Unsettled

LEMMA LaunchSettled == ASSUME BInv, Settled, BInv', LaunchTask PROVE Settled'
<1>1. batch = <<>> /\ batch' = batch /\ phase = "tasks" /\ kv' = kv
  BY NoBatch DEF LaunchTask
<1>2. ASSUME NEW s \in Slots PROVE slot'[s].prompt = slot[s].prompt
  <2>1. PICK x \in Slots, p \in Prompts, kind \in scenario.kinds :
          \/ kind = "single" /\ slot' = [slot EXCEPT ![x] = Launch(x, kind, p)]
          \/ /\ kind = "parent"
             /\ \E c \in Slots \ {x} :
                  slot' = [slot EXCEPT ![x] = Launch(x, kind, p), ![c] = Launch(c, "child", p)]
    BY DEF LaunchTask
  <2>2. slot \in [Slots -> Slot] /\ Typed /\ kind \in {"single", "parent"}
    BY <2>1 DEF BInv, Typed
  <2>3. Launch(s, kind, p).prompt = slot[s].prompt /\ Launch(s, "child", p).prompt = slot[s].prompt
    <3>1. kind \in {"single", "parent", "child"} /\ "child" \in {"single", "parent", "child"} /\ Typed
      BY <2>2
    <3>2. ASSUME NEW k \in {"single", "parent", "child"} PROVE Launch(s, k, p).prompt = slot[s].prompt
      BY <3>1, LaunchIs
    <3> QED BY <3>1, <3>2
  <2>4. slot'[s] = slot[s] \/ slot'[s] = Launch(s, kind, p) \/ slot'[s] = Launch(s, "child", p)
    BY <2>1, <2>2
  <2> QED BY <2>3, <2>4
<1>3. ASSUME NEW s \in Slots PROVE Agrees(s)'
  <2>1. None(batch, Undecoded, s) /\ None(batch', Undecoded', s) /\ \A p \in 0 .. NCtx : ~ Unsettled(s, p)
    BY <1>1, NoBatch, NoneEmpty
  <2> QED BY <1>1, <1>2, <2>1, NoneSame, AgreesSame DEF Settled
<1> QED BY <1>3 DEF Settled

LEMMA CancelSettled == ASSUME BInv, Settled, BInv', CancelSlot PROVE Settled'
<1> PICK x \in Slots : phase = "tasks" /\ Release(x) /\ batch' = batch
  BY DEF CancelSlot
<1>1. /\ slot'[x] = Freed(x) /\ kv'[x] = FreedKv(x)
      /\ \A t \in Slots : t # x => slot'[t] = slot[t] /\ kv'[t] = kv[t]
  <2>1. kv' = [kv EXCEPT ![x] = FreedKv(x)] /\ kv \in [Slots -> SUBSET ((0 .. NCtx) \X Tokens)]
    BY DEF Release, BInv, Typed
  <2> QED BY <2>1, ReleaseIs DEF BInv
<1>2. ASSUME NEW s \in Slots PROVE Agrees(s)'
  <2>1. None(batch, Undecoded, s) /\ None(batch', Undecoded', s) /\ \A p \in 0 .. NCtx : ~ Unsettled(s, p)
    BY NoBatch, NoneEmpty
  <2>2. CASE s = x
    BY <1>1, <2>1, <2>2, AgreesFreed DEF Settled
  <2>3. CASE s # x
    BY <1>1, <2>1, <2>3, NoneSame, AgreesSame DEF Settled
  <2> QED BY <2>2, <2>3
<1> QED BY <1>2 DEF Settled

LEMMA EraseSettled == ASSUME BInv, Settled, BInv', EraseSlot PROVE Settled'
<1> PICK x \in Slots : /\ phase = "tasks" /\ Idle(x) /\ slot' = [slot EXCEPT ![x].prompt = <<>>]
                       /\ kv' = [kv EXCEPT ![x] = {}] /\ batch' = batch
  BY DEF EraseSlot
<1>1. /\ slot'[x].prompt = <<>> /\ kv'[x] = {}
      /\ \A t \in Slots : t # x => slot'[t] = slot[t] /\ kv'[t] = kv[t]
  BY PurgedIs DEF BInv
<1>2. ASSUME NEW s \in Slots PROVE Agrees(s)'
  <2>1. None(batch, Undecoded, s) /\ None(batch', Undecoded', s) /\ \A p \in 0 .. NCtx : ~ Unsettled(s, p)
    BY NoBatch, NoneEmpty
  <2>2. CASE s = x
    BY <1>1, <2>1, <2>2, AgreesEmpty
  <2>3. CASE s # x
    BY <1>1, <2>1, <2>3, NoneSame, AgreesSame DEF Settled
  <2> QED BY <2>2, <2>3
<1> QED BY <1>2 DEF Settled

LEMMA BeginSettled == ASSUME BInv, Settled, BInv', BeginRound PROVE Settled'
<1>1. ASSUME NEW s \in Slots PROVE Agrees(s)'
  <2>1. None(batch, Undecoded, s) /\ None(batch', Undecoded', s) /\ \A p \in 0 .. NCtx : ~ Unsettled(s, p)
    BY NoBatch, NoneEmpty DEF BeginRound
  <2> QED BY <2>1, NoneSame, AgreesSame DEF Settled, BeginRound
<1> QED BY <1>1 DEF Settled

(* The shift drops a piece of the context and moves what follows down to   *)
(* its place, in the memory as in prompt.tokens.                           *)
LEMMA ShiftedAgrees ==
  ASSUME BInv, BInv', phase = "shift", phase' \in {"shift", "sampled"}, batch' = batch,
         NEW s \in Slots, Agrees(s), Len(slot[s].prompt) + 1 >= NCtx, Shifted(s)
  PROVE  Agrees(s)'
<1> DEFINE p == slot[s].prompt
           k == ShiftKeep
           d == ShiftDiscard(s)
           x == ShiftedPrompt(s)
           cells == SeqAdd(SeqRm(kv[s], k, k + d), k + d, Len(p), d)
<1>1. /\ None(batch, Undecoded, s) /\ None(batch', Undecoded', s) /\ \A i \in 0 .. NCtx : ~ Unsettled(s, i)
  BY NoBatch, NoneEmpty
<1>2. /\ p \in Seq(Tokens) /\ Len(p) \in Nat /\ Len(p) < NCtx /\ NCtx \in Nat
      /\ kv[s] \subseteq Int \X Tokens /\ kv \in [Slots -> SUBSET ((0 .. NCtx) \X Tokens)]
  BY SlotIs, SizesAssumption DEF BInv, Typed, Fits
<1>3. /\ k \in Nat /\ d \in Nat \ {0} /\ k + d < Len(p) /\ x \in Seq(Tokens) /\ Len(x) = Len(p) - d
      /\ \A i \in 1 .. Len(x) : x[i] = IF i <= k THEN p[i] ELSE p[i + d]
  BY ShiftIs DEF BInv
<1>4. slot'[s].prompt = x /\ kv'[s] = cells
  <2>1. slot'[s].prompt = x /\ kv' = [kv EXCEPT ![s] = cells]
    BY ShiftedSlots DEF BInv
  <2> HIDE DEF cells
  <2> QED BY <1>2, <2>1
<1> HIDE DEF k, d, x
<1>5. ASSUME NEW i \in 0 .. NCtx, NEW t \in Tokens
      PROVE  <<i, t>> \in kv[s] <=> i < Len(p) /\ p[i + 1] = t
  BY <1>1, PendingIs DEF Agrees, None, Brings
<1> HIDE DEF p
<1>6. ASSUME NEW i \in 0 .. NCtx, NEW t \in Tokens
      PROVE  <<i, t>> \in cells <=> i < Len(x) /\ x[i + 1] = t
  <2> DEFINE rest == SeqRm(kv[s], k, k + d)
  <2>1. rest \subseteq Int \X Tokens /\ i \in Int /\ i >= 0
    BY <1>2 DEF SeqRm
  <2>2. <<i, t>> \in rest <=> <<i, t>> \in kv[s] /\ ~ (k <= i /\ i < k + d)
    BY SeqRmHas
  <2>3. <<i + d, t>> \in rest <=> <<i + d, t>> \in kv[s] /\ ~ (k <= i + d /\ i + d < k + d)
    BY SeqRmHas
  <2> HIDE DEF rest
  <2>4. <<i, t>> \in cells <=> \/ <<i, t>> \in rest /\ ~ (k + d <= i /\ i < Len(p))
                               \/ <<i + d, t>> \in rest /\ k + d <= i + d /\ i + d < Len(p)
    <3>1. cells = SeqAdd(rest, k + d, Len(p), d)
      BY DEF rest
    <3>2. k + d \in Int /\ Len(p) \in Int /\ d \in Int
      BY <1>2, <1>3
    <3> QED BY <2>1, <3>1, <3>2, SeqAddHas
  <2>5. CASE i < k
    <3>1. x[i + 1] = p[i + 1] /\ i < Len(x) /\ i < Len(p)
      BY <1>2, <1>3, <2>1, <2>5
    <3>2. <<i, t>> \in cells <=> <<i, t>> \in kv[s]
      BY <1>2, <1>3, <2>1, <2>2, <2>4, <2>5
    <3> QED BY <1>5, <3>1, <3>2
  <2>6. CASE k <= i /\ i + d < Len(p)
    <3>1. i + d \in 0 .. NCtx /\ i < Len(x) /\ x[i + 1] = p[(i + 1) + d] /\ (i + 1) + d = (i + d) + 1
      BY <1>2, <1>3, <2>1, <2>6
    <3>2. <<i + d, t>> \in kv[s] <=> p[(i + d) + 1] = t
      BY <1>5, <2>6, <3>1
    <3>3. <<i, t>> \in cells <=> <<i + d, t>> \in kv[s]
      BY <1>2, <1>3, <2>1, <2>2, <2>3, <2>4, <2>6
    <3> QED BY <3>1, <3>2, <3>3
  <2>7. CASE ~ (i + d < Len(p))
    <3>1. ~ (i < Len(x))
      BY <1>2, <1>3, <2>1, <2>7
    <3>2. <<i, t>> \in kv[s] => i < Len(p)
      BY <1>5
    <3> QED BY <1>2, <1>3, <2>1, <2>2, <2>4, <2>7, <3>1, <3>2
  <2> QED BY <1>2, <1>3, <2>1, <2>5, <2>6, <2>7
<1> HIDE DEF cells
<1>7. ASSUME NEW i \in 0 .. NCtx, NEW t \in Tokens PROVE <<i, t>> \notin Pending(s)'
  BY <1>1, PendingNext DEF None, Brings
<1> QED BY <1>4, <1>6, <1>7 DEF Agrees

LEMMA ShiftSettled == ASSUME BInv, Settled, BInv', ShiftContext PROVE Settled'
<1>0. at \in Slots /\ phase = "shift" /\ batch' = batch /\ phase' \in {"shift", "sampled"}
  BY AdvanceIs DEF BInv, Typed, ShiftContext
<1>1. /\ \A t \in Slots : t # at => slot'[t] = slot[t] /\ kv'[t] = kv[t]
      /\ \/ slot'[at] = slot[at] /\ kv'[at] = kv[at]
         \/ slot'[at] = Freed(at) /\ kv'[at] = FreedKv(at)
         \/ Len(slot[at].prompt) + 1 >= NCtx /\ Shifted(at)
  <2>1. kv \in [Slots -> SUBSET ((0 .. NCtx) \X Tokens)]
    BY DEF BInv, Typed
  <2>2. CASE Len(slot[at].prompt) + 1 >= NCtx /\ Shifted(at)
    <3> DEFINE cells == SeqAdd(SeqRm(kv[at], ShiftKeep, ShiftKeep + ShiftDiscard(at)),
                               ShiftKeep + ShiftDiscard(at), Len(slot[at].prompt), ShiftDiscard(at))
    <3>1. (\A t \in Slots : t # at => slot'[t] = slot[t]) /\ kv' = [kv EXCEPT ![at] = cells]
      BY <1>0, <2>2, ShiftedSlots DEF BInv
    <3> HIDE DEF cells
    <3> QED BY <2>1, <2>2, <3>1
  <2>3. CASE Release(at)
    <3>1. kv' = [kv EXCEPT ![at] = FreedKv(at)]
      BY <2>3 DEF Release
    <3> QED BY <1>0, <2>1, <2>3, <3>1, ReleaseIs DEF BInv
  <2>4. CASE UNCHANGED <<slot, kv>>
    BY <2>4
  <2> QED BY <2>2, <2>3, <2>4 DEF ShiftContext
<1>2. ASSUME NEW s \in Slots PROVE Agrees(s)'
  <2>1. None(batch, Undecoded, s) /\ None(batch', Undecoded', s) /\ \A p \in 0 .. NCtx : ~ Unsettled(s, p)
    BY <1>0, NoBatch, NoneEmpty
  <2>2. CASE slot'[s] = slot[s] /\ kv'[s] = kv[s]
    BY <2>1, <2>2, NoneSame, AgreesSame DEF Settled
  <2>3. CASE s = at /\ slot'[at] = Freed(at) /\ kv'[at] = FreedKv(at)
    BY <1>0, <2>1, <2>3, AgreesFreed DEF Settled
  <2>4. CASE s = at /\ Len(slot[at].prompt) + 1 >= NCtx /\ Shifted(at)
    <3>1. Len(slot[s].prompt) + 1 >= NCtx /\ Shifted(s) /\ Agrees(s)
      BY <2>4 DEF Settled
    <3> QED BY <1>0, <3>1, ShiftedAgrees
  <2> QED BY <1>1, <2>2, <2>3, <2>4
<1> QED BY <1>2 DEF Settled

(* The sampled token of a slot comes right behind its context.             *)
LEMMA SampledSettled == ASSUME BInv, Owned, Settled, BInv', AddSampled PROVE Settled'
<1>0. /\ at \in Slots /\ phase = "sampled" /\ off = 0 /\ Undecoded = 0 /\ batch \in Seq(Rows) /\ Len(batch) \in Nat
      /\ off' = off /\ kv' = kv /\ phase' \in {"sampled", "prompts"}
      /\ \A p \in 0 .. NCtx, s \in Slots : ~ Unsettled(s, p)
  BY UndecodedIs, AdvanceIs DEF BInv, Typed, Batched, Decoding, AddSampled, Unsettled
<1>1. Undecoded' = 0
  BY <1>0 DEF Undecoded
<1>2. CASE slot[at].state # "GENERATING"
  <2>1. UNCHANGED <<slot, batch>>
    BY <1>2 DEF AddSampled
  <2>2. \A s \in Slots : SameRows(s)
    BY <1>0, <1>1, <2>1 DEF SameRows
  <2> QED BY <1>0, <2>1, <2>2, AgreesSame DEF Settled
<1>3. CASE slot[at].state = "GENERATING"
  <2> DEFINE p == slot[at].prompt
             r == Row(at, Len(p), slot[at].sampled)
  <2>1. /\ batch' = Append(batch, r) /\ Len(batch') = Len(batch) + 1
        /\ slot'[at].prompt = Append(p, slot[at].sampled) /\ Len(p) + 1 < NCtx
        /\ \A t \in Slots : t # at => slot'[t] = slot[t]
    BY <1>3, SampledIs
  <2>2. p \in Seq(Tokens) /\ Len(p) \in Nat /\ slot[at].sampled \in Tokens
    BY <1>0, SlotIs DEF BInv
  <2>3. r.slot = at /\ r.pos = Len(p) /\ r.tok = slot[at].sampled
    BY DEF Row
  <2> HIDE DEF r, p
  <2>4. batch'[Len(batch) + 1] = r /\ \A i \in 1 .. Len(batch) : batch'[i] = batch[i]
    BY <1>0, <2>1
  <2>5. ASSUME NEW s \in Slots, NEW i \in 0 .. NCtx, NEW t \in Tokens
        PROVE  Brings(batch', Undecoded', s, i, t) <=>
                 Brings(batch, Undecoded, s, i, t) \/ (s = at /\ i = Len(p) /\ t = slot[at].sampled)
    <3>1. \A j \in 0 + 1 .. Len(batch) + 1 : j \in 0 + 1 .. Len(batch) \/ j = Len(batch) + 1
      BY <1>0
    <3>2. \A j \in 0 + 1 .. Len(batch) : j \in 0 + 1 .. Len(batch) + 1 /\ j \in 1 .. Len(batch)
      BY <1>0
    <3>3. Len(batch) + 1 \in 0 + 1 .. Len(batch) + 1
      BY <1>0
    <3> QED BY <1>0, <1>1, <2>1, <2>3, <2>4, <3>1, <3>2, <3>3 DEF Brings
  <2>6. ASSUME NEW s \in Slots, s # at PROVE Agrees(s)'
    <3>1. SameRows(s)
      BY <2>5, <2>6 DEF SameRows
    <3> QED BY <1>0, <2>1, <2>6, <3>1, AgreesSame DEF Settled
  <2>7. ASSUME NEW s \in Slots, s = at PROVE Agrees(s)'
    <3>1. ASSUME NEW i \in 0 .. NCtx, NEW t \in Tokens
          PROVE  /\ ~ (<<i, t>> \in kv[s] /\ <<i, t>> \in Pending(s))
                 /\ <<i, t>> \in kv[s] \/ <<i, t>> \in Pending(s) <=> i < Len(p) /\ p[i + 1] = t
      BY <1>0, <2>7 DEF Settled, Agrees, p
    <3>2. ASSUME NEW i \in 0 .. NCtx, NEW t \in Tokens
          PROVE  /\ ~ (<<i, t>> \in kv[s] /\ <<i, t>> \in Pending(s)')
                 /\ <<i, t>> \in kv[s] \/ <<i, t>> \in Pending(s)' <=>
                      i < Len(slot'[s].prompt) /\ slot'[s].prompt[i + 1] = t
      <4>1. <<i, t>> \in Pending(s)' <=> <<i, t>> \in Pending(s) \/ (i = Len(p) /\ t = slot[at].sampled)
        BY <2>5, <2>7, PendingIs, PendingNext
      <4>2. i < Len(slot'[s].prompt) /\ slot'[s].prompt[i + 1] = t <=>
              (i < Len(p) /\ p[i + 1] = t) \/ (i = Len(p) /\ t = slot[at].sampled)
        <5> DEFINE x == Append(p, slot[at].sampled)
        <5>1. /\ Len(x) = Len(p) + 1 /\ x[Len(p) + 1] = slot[at].sampled
              /\ \A j \in 1 .. Len(p) : x[j] = p[j]
          BY <2>2
        <5>2. slot'[s].prompt = x
          BY <2>1, <2>7
        <5> HIDE DEF x
        <5>3. CASE i < Len(p)
          BY <2>2, <5>1, <5>2, <5>3
        <5>4. CASE i = Len(p)
          BY <2>2, <5>1, <5>2, <5>4
        <5>5. CASE i > Len(p)
          BY <2>2, <5>1, <5>2, <5>5
        <5> QED BY <2>2, <5>3, <5>4, <5>5
      <4>3. i = Len(p) => ~ (i < Len(p)) /\ <<i, t>> \notin kv[s]
        BY <2>2, <3>1
      <4> HIDE DEF Pending
      <4> QED BY <3>1, <4>1, <4>2, <4>3
    <3> QED BY <1>0, <3>2 DEF Agrees
  <2> QED BY <2>6, <2>7 DEF Settled
<1> QED BY <1>2, <1>3

-----------------------------------------------------------------------------
(* The prompts.                                                            *)

LEMMA SameBatch == ASSUME batch' = batch, Undecoded' = Undecoded, NEW s PROVE SameRows(s)
BY DEF SameRows

LEMMA SkipSettled == ASSUME BInv, Owned, Settled, BInv', SkipPrompt PROVE Settled'
<1>0. /\ at \in Slots /\ phase = "prompts" /\ Undecoded = 0 /\ batch' = batch /\ off' = off /\ off = 0
      /\ phase' \in {"prompts", "decode"} /\ Typed /\ Fits /\ kv \in [Slots -> SUBSET ((0 .. NCtx) \X Tokens)]
  BY UndecodedIs, AdvanceIs DEF BInv, Typed, Batched, Decoding, SkipPrompt
<1>1. Undecoded' = Undecoded
  BY <1>0 DEF Undecoded
<1>2. ASSUME NEW s \in Slots PROVE Agrees(s)'
  <2>1. SameRows(s) /\ \A p \in 0 .. NCtx : ~ Unsettled(s, p)
    BY <1>0, <1>1, SameBatch DEF Unsettled
  <2>2. CASE slot'[s] = slot[s] /\ kv'[s] = kv[s]
    BY <2>1, <2>2, AgreesSame DEF Settled
  <2>3. CASE s = at /\ slot[at].state = "STARTED" /\ Release(at)
    <3>1. None(batch, Undecoded, s) /\ None(batch', Undecoded', s)
      BY <1>0, <1>1, <2>3, NoRow DEF None
    <3>2. slot'[s] = Freed(s)
      BY <1>0, <2>3, ReleaseIs
    <3>3. kv'[s] = FreedKv(s)
      BY <1>0, <2>3 DEF Release
    <3> QED BY <1>0, <3>1, <3>2, <3>3, AgreesFreed DEF Settled
  <2>4. CASE s # at /\ Release(at)
    BY <1>0, <2>2, <2>4, ReleaseIs
  <2> QED BY <2>2, <2>3, <2>4 DEF SkipPrompt
<1> QED BY <1>2 DEF Settled

LEMMA StartSettled == ASSUME BInv, Settled, BInv', StartPrompt PROVE Settled'
<1>1. ASSUME NEW s \in Slots PROVE Agrees(s)'
  <2>1. Undecoded' = Undecoded /\ phase = "prompts" /\ UNCHANGED <<slot, kv, batch>>
    BY DEF StartPrompt, Undecoded
  <2>2. SameRows(s) /\ \A p \in 0 .. NCtx : ~ Unsettled(s, p)
    BY <2>1, SameBatch DEF Unsettled
  <2> QED BY <2>1, <2>2, AgreesSame DEF Settled
<1> QED BY <1>1 DEF Settled

(* Behind the chunk that is moved everything stays; what is between its    *)
(* new place and its old one is not looked at.                             *)
LEMMA MovedAgrees ==
  ASSUME NEW p \in Seq(Tokens), NEW h \in Nat, NEW c \in Nat, NEW m \in Nat, h <= c, c + m <= Len(p),
         NEW cells, cells \subseteq (0 .. NCtx) \X Tokens, Len(p) < NCtx, NCtx \in Nat,
         \A i \in 0 .. NCtx, t \in Tokens : ~ (h <= i /\ i < c) => (<<i, t>> \in cells <=> i < Len(p) /\ p[i + 1] = t),
         NEW i \in 0 .. NCtx, NEW t \in Tokens, ~ (h + m <= i /\ i < c + m)
  PROVE  <<i, t>> \in SeqAdd(SeqRm(cells, h, c), c, c + m, c - h) <=>
           i < Len(p) /\ MovedPrompt(p, c, h, m)[i + 1] = t
<1> DEFINE rest == SeqRm(cells, h, c)
           d == c - h
           x == MovedPrompt(p, c, h, m)
<1>1. /\ Len(p) \in Nat /\ i \in Nat /\ d \in Nat /\ h + d = c
      /\ \A j \in 1 .. Len(p) : x[j] = IF h < j /\ j <= h + m THEN p[j - h + c] ELSE p[j]
  BY MovedIs
<1>2. rest \subseteq Int \X Tokens
  BY DEF SeqRm
<1>3. /\ <<i, t>> \in rest <=> <<i, t>> \in cells /\ ~ (h <= i /\ i < c)
      /\ <<i + d, t>> \in rest <=> <<i + d, t>> \in cells /\ ~ (h <= i + d /\ i + d < c)
  BY SeqRmHas
<1> HIDE DEF rest, d, x
<1>4. <<i, t>> \in SeqAdd(rest, c, c + m, d) <=>
        \/ <<i, t>> \in rest /\ ~ (c <= i /\ i < c + m)
        \/ <<i + d, t>> \in rest /\ c <= i + d /\ i + d < c + m
  <2>1. c \in Int /\ c + m \in Int /\ d \in Int /\ i \in Int
    BY <1>1
  <2> QED BY <1>2, <2>1, SeqAddHas
<1>5. CASE i < h
  <2>1. <<i, t>> \in SeqAdd(rest, c, c + m, d) <=> <<i, t>> \in cells
    BY <1>1, <1>3, <1>4, <1>5
  <2>2. <<i, t>> \in cells <=> i < Len(p) /\ p[i + 1] = t
    BY <1>5
  <2>3. i + 1 \in 1 .. Len(p) /\ x[i + 1] = p[i + 1]
    BY <1>1, <1>5
  <2> QED BY <2>1, <2>2, <2>3 DEF rest, d, x
<1>6. CASE h <= i /\ i < h + m
  <2>1. <<i, t>> \in SeqAdd(rest, c, c + m, d) <=> <<i + d, t>> \in cells
    BY <1>1, <1>3, <1>4, <1>6
  <2>2. i + d \in 0 .. NCtx /\ i + d < Len(p) /\ ~ (h <= i + d /\ i + d < c)
    BY <1>1, <1>6
  <2>3. <<i + d, t>> \in cells <=> p[(i + d) + 1] = t
    BY <2>2
  <2>4. i < Len(p) /\ i + 1 \in 1 .. Len(p) /\ h < i + 1 /\ i + 1 <= h + m /\ (i + 1) - h + c = (i + d) + 1
    BY <1>1, <1>6
  <2>5. x[i + 1] = p[(i + d) + 1]
    BY <1>1, <2>4
  <2> QED BY <2>1, <2>3, <2>4, <2>5 DEF rest, d, x
<1>7. CASE c + m <= i
  <2>1. <<i, t>> \in SeqAdd(rest, c, c + m, d) <=> <<i, t>> \in cells
    BY <1>1, <1>3, <1>4, <1>7
  <2>2. ~ (h <= i /\ i < c)
    BY <1>1, <1>7
  <2>3. <<i, t>> \in cells <=> i < Len(p) /\ p[i + 1] = t
    BY <2>2
  <2>4. i < Len(p) => i + 1 \in 1 .. Len(p) /\ x[i + 1] = p[i + 1]
    BY <1>1, <1>7
  <2> QED BY <2>1, <2>3, <2>4 DEF rest, d, x
<1> QED BY <1>1, <1>5, <1>6, <1>7

LEMMA ReuseSettled == ASSUME BInv, Owned, Settled, BInv', ReuseChunk PROVE Settled'
<1> DEFINE p == slot[at].prompt
           q == slot[at].task.tokens
           c == heads.c
           h == heads.h
           m == Match(p, q, c, h)
<1>0. /\ at \in Slots /\ phase = "reuse" /\ phase' = "reuse" /\ Undecoded' = Undecoded
      /\ kv \in [Slots -> SUBSET ((0 .. NCtx) \X Tokens)] /\ NCtx \in Nat
      /\ UNCHANGED <<at, batch>> /\ slot[at].state = "STARTED"
  BY SizesAssumption DEF BInv, Typed, Reusing, ReuseChunk, Undecoded
<1>1. /\ p \in Seq(Tokens) /\ Len(p) \in Nat /\ Len(p) < NCtx
      /\ c \in Nat /\ h \in Nat /\ h <= c /\ m \in Nat /\ c + m <= Len(p)
      /\ IF m < NReuse THEN heads' = [c |-> c + 1, h |-> h] /\ UNCHANGED <<slot, kv>>
         ELSE /\ heads' = [c |-> c + m, h |-> h + m]
              /\ \A t \in Slots : t # at => slot'[t] = slot[t]
              /\ slot'[at].prompt = MovedPrompt(p, c, h, m)
              /\ kv' = [kv EXCEPT ![at] = SeqAdd(SeqRm(kv[at], h, c), c, c + m, c - h)]
  BY ChunkIs
<1> HIDE DEF m, q
<1>2. CASE m < NReuse
  <2>1. heads' = [c |-> c + 1, h |-> h] /\ UNCHANGED <<slot, kv>>
    BY <1>1, <1>2
  <2>2. ASSUME NEW s \in Slots PROVE Agrees(s)'
    <3>1. heads'.c = c + 1 /\ heads'.h = h
      BY <2>1
    <3>2. \A i \in 0 .. NCtx : Unsettled(s, i) => Unsettled(s, i)'
      BY <1>0, <1>1, <3>1 DEF Unsettled
    <3> QED BY <1>0, <2>1, <3>2, SameBatch, AgreesSame DEF Settled
  <2> QED BY <2>2 DEF Settled
<1>3. CASE ~ (m < NReuse)
  <2> DEFINE cells == SeqAdd(SeqRm(kv[at], h, c), c, c + m, c - h)
             x == MovedPrompt(p, c, h, m)
  <2>1. /\ heads' = [c |-> c + m, h |-> h + m] /\ \A t \in Slots : t # at => slot'[t] = slot[t]
        /\ slot'[at].prompt = x /\ kv' = [kv EXCEPT ![at] = cells]
    BY <1>1, <1>3
  <2>2. ASSUME NEW s \in Slots, s # at PROVE Agrees(s)'
    <3>1. kv'[s] = kv[s]
      <4> HIDE DEF cells
      <4> QED BY <1>0, <2>1, <2>2
    <3>2. \A i \in 0 .. NCtx : ~ Unsettled(s, i)
      BY <2>2 DEF Unsettled
    <3> QED BY <1>0, <2>1, <2>2, <3>1, <3>2, SameBatch, AgreesSame DEF Settled
  <2>3. ASSUME NEW s \in Slots, s = at PROVE Agrees(s)'
    <3>1. /\ \A i \in 0 .. NCtx, t \in Tokens : <<i, t>> \notin Pending(s) /\ <<i, t>> \notin Pending(s)'
      <4>1. \A i \in Undecoded + 1 .. Len(batch) : batch[i].slot # s
        BY <1>0, <2>3, NoRow
      <4>2. \A i \in 0 .. NCtx, t \in Tokens :
              ~ Brings(batch, Undecoded, s, i, t) /\ ~ Brings(batch', Undecoded', s, i, t)
        BY <1>0, <4>1 DEF Brings
      <4> QED BY <4>2, PendingIs, PendingNext
    <3>2. \A i \in 0 .. NCtx, t \in Tokens :
            ~ (h <= i /\ i < c) => (<<i, t>> \in kv[at] <=> i < Len(p) /\ p[i + 1] = t)
      BY <1>0, <2>3, <3>1 DEF Settled, Agrees, Unsettled
    <3>3. kv[at] \subseteq (0 .. NCtx) \X Tokens /\ Len(slot'[s].prompt) = Len(p) /\ kv'[s] = cells
      <4>1. Len(x) = Len(p)
        BY <1>1, MovedIs
      <4> HIDE DEF cells, x
      <4> QED BY <1>0, <2>1, <2>3, <4>1
    <3>4. \A i \in 0 .. NCtx : Unsettled(s, i)' <=> h + m <= i /\ i < c + m
      <4>1. heads'.c = c + m /\ heads'.h = h + m
        BY <2>1
      <4> QED BY <1>0, <2>3, <4>1 DEF Unsettled
    <3>5. ASSUME NEW i \in 0 .. NCtx, NEW t \in Tokens, ~ Unsettled(s, i)'
          PROVE  <<i, t>> \in cells <=> i < Len(p) /\ x[i + 1] = t
      <4>1. ~ (h + m <= i /\ i < c + m)
        BY <3>4, <3>5
      <4> DEFINE before == kv[at]
      <4>2. /\ before \subseteq (0 .. NCtx) \X Tokens
            /\ \A j \in 0 .. NCtx, u \in Tokens :
                 ~ (h <= j /\ j < c) => (<<j, u>> \in before <=> j < Len(p) /\ p[j + 1] = u)
        BY <3>2, <3>3
      <4>3. cells = SeqAdd(SeqRm(before, h, c), c, c + m, c - h)
        OBVIOUS
      <4> HIDE DEF p, c, h, before, cells
      <4>4. p \in Seq(Tokens) /\ h \in Nat /\ c \in Nat /\ m \in Nat /\ h <= c /\ c + m <= Len(p) /\ Len(p) < NCtx
        BY <1>1
      <4> QED BY <1>0, <4>1, <4>2, <4>3, <4>4, MovedAgrees
    <3> HIDE DEF cells, x
    <3> QED BY <2>1, <2>3, <3>1, <3>3, <3>5 DEF Agrees
  <2> QED BY <2>2, <2>3 DEF Settled
<1> QED BY <1>2, <1>3

LEMMA AddSettled == ASSUME BInv, Owned, Settled, BInv', AddPrompt PROVE Settled'
<1> PICK have \in Nat, add \in Nat \ {0} : Filled(have, add)
  BY AddIs
<1> DEFINE p == slot[at].prompt
           q == slot[at].task.tokens
<1>0. /\ at \in Slots /\ phase \in {"prompts", "reuse"} /\ Undecoded = 0 /\ Len(batch) \in Nat /\ off = 0 /\ off' = off
      /\ phase' \in {"prompts", "decode"} /\ kv \in [Slots -> SUBSET ((0 .. NCtx) \X Tokens)] /\ NCtx \in Nat
      /\ slot[at].state \in {"STARTED", "PROCESSING_PROMPT"} /\ Len(q) < NCtx
      /\ \A i \in DOMAIN batch : batch[i].slot \in Slots /\ i \in 1 .. Len(batch) /\ batch \in Seq(Rows)
  BY AddIs, UndecodedIs, AdvanceIs, SizesAssumption DEF BInv, Typed, Batched, Decoding, AddPrompt
<1>1. Undecoded' = 0 /\ \A s \in Slots : s \in Nat
  BY <1>0, SizesAssumption DEF Undecoded, Slots
<1>2. /\ p \in Seq(Tokens) /\ Len(p) \in Nat /\ q \in Seq(Tokens) /\ Len(q) \in Nat /\ ~ Idle(at)
  <2>1. ~ Idle(at)
    BY <1>0 DEF Idle
  <2> QED BY <1>0, <2>1, SlotIs, TaskIs DEF BInv
<1>3. /\ have + add <= Len(q) /\ have <= Len(p) /\ \A i \in 1 .. have : p[i] = q[i]
      /\ phase = "prompts" => have = Len(p)
      /\ phase = "reuse" => have <= heads.h
      /\ kv' = [kv EXCEPT ![at] = SeqRm(kv[at], have, Inf)]
      /\ Len(batch') = Len(batch) + add /\ \A i \in 1 .. Len(batch) : batch'[i] = batch[i]
      /\ \A i \in 1 .. add : batch'[Len(batch) + i] = Row(at, have + i - 1, q[have + i])
      /\ \A t \in Slots : t # at => slot'[t] = slot[t]
      /\ slot'[at].prompt = SubSeq(q, 1, have + add)
  BY DEF Filled
<1> HIDE DEF p, q
<1>4. ASSUME NEW i \in Len(batch) + 1 .. Len(batch) + add
      PROVE  /\ batch'[i].slot = at /\ batch'[i].pos = have + (i - Len(batch)) - 1
             /\ batch'[i].tok = q[have + (i - Len(batch))]
  <2> DEFINE j == i - Len(batch)
  <2>1. j \in 1 .. add /\ Len(batch) + j = i
    BY <1>0
  <2> HIDE DEF j
  <2>2. batch'[i] = Row(at, have + j - 1, q[have + j])
    BY <1>3, <2>1
  <2> QED BY <2>2 DEF Row, j
<1>5. None(batch, 0, at)
  <2>1. ASSUME NEW i \in 0 + 1 .. Len(batch) PROVE batch[i].slot # at
    <3>1. i \in DOMAIN batch /\ i \in Undecoded + 1 .. Len(batch)
      BY <1>0
    <3>2. batch[i].slot < at \/ RowOf(i).state = "GENERATING"
      BY <1>0, <3>1 DEF Owned
    <3>3. batch[i].slot \in Nat /\ at \in Nat
      BY <1>0, <1>1, <3>1
    <3> QED BY <1>0, <3>2, <3>3 DEF RowOf
  <2> QED BY <2>1 DEF None
<1>6. \A i \in 1 .. Len(batch) + add : i \in 1 .. Len(batch) \/ i \in Len(batch) + 1 .. Len(batch) + add
  BY <1>0
<1>7. ASSUME NEW s \in Slots, s # at PROVE Agrees(s)'
  <2>1. SameRows(s)
    <3>1. ASSUME NEW i \in 0 .. NCtx, NEW t \in Tokens
          PROVE  Brings(batch', 0, s, i, t) <=> Brings(batch, 0, s, i, t)
      <4>1. \A j \in 1 .. Len(batch) : j \in 1 .. Len(batch) + add /\ batch'[j] = batch[j]
        BY <1>0, <1>3
      <4>2. \A j \in 1 .. Len(batch) + add : j \in 1 .. Len(batch) \/ batch'[j].slot # s
        BY <1>4, <1>6, <1>7
      <4>3. 0 + 1 = 1
        OBVIOUS
      <4> QED BY <1>3, <4>1, <4>2, <4>3 DEF Brings
    <3> QED BY <1>0, <1>1, <3>1 DEF SameRows
  <2>2. kv'[s] = kv[s]
    BY <1>0, <1>3, <1>7
  <2>3. \A i \in 0 .. NCtx : ~ Unsettled(s, i)
    BY <1>7 DEF Unsettled
  <2> QED BY <1>3, <1>7, <2>1, <2>2, <2>3, AgreesSame DEF Settled
<1>8. ASSUME NEW s \in Slots, s = at PROVE Agrees(s)'
  <2>1. ASSUME NEW i \in 0 .. NCtx, NEW t \in Tokens
        PROVE  <<i, t>> \in Pending(s)' <=> have <= i /\ i < have + add /\ q[i + 1] = t
    <3>1. <<i, t>> \in Pending(s)' <=>
            \E j \in 1 .. Len(batch) + add : batch'[j].slot = at /\ batch'[j].pos = i /\ batch'[j].tok = t
      <4>1. <<i, t>> \in Pending(s)' <=> Brings(batch', Undecoded', s, i, t)
        BY PendingNext
      <4>2. Undecoded' + 1 = 1
        BY <1>1
      <4> QED BY <1>3, <1>8, <4>1, <4>2 DEF Brings
    <3>2. ASSUME NEW j \in 1 .. Len(batch) + add, batch'[j].slot = at, batch'[j].pos = i, batch'[j].tok = t
          PROVE  have <= i /\ i < have + add /\ q[i + 1] = t
      <4>1. j \notin 1 .. Len(batch)
        <5>1. 0 + 1 = 1
          OBVIOUS
        <5> QED BY <1>3, <1>5, <3>2, <5>1 DEF None
      <4>2. j \in Len(batch) + 1 .. Len(batch) + add
        BY <1>6, <4>1
      <4>3. i = have + (j - Len(batch)) - 1 /\ t = q[have + (j - Len(batch))]
        BY <1>4, <3>2, <4>2
      <4>4. have + (j - Len(batch)) = i + 1 /\ have <= i /\ i < have + add
        BY <1>0, <4>2, <4>3
      <4> QED BY <4>3, <4>4
    <3>3. ASSUME have <= i, i < have + add, q[i + 1] = t
          PROVE  \E j \in 1 .. Len(batch) + add : batch'[j].slot = at /\ batch'[j].pos = i /\ batch'[j].tok = t
      <4> DEFINE j == Len(batch) + (i - have) + 1
      <4>1. /\ j \in Len(batch) + 1 .. Len(batch) + add /\ j \in 1 .. Len(batch) + add
            /\ have + (j - Len(batch)) = i + 1 /\ have + (j - Len(batch)) - 1 = i
        BY <1>0, <3>3
      <4> HIDE DEF j
      <4>2. batch'[j].slot = at /\ batch'[j].pos = i /\ batch'[j].tok = t
        BY <1>4, <3>3, <4>1
      <4> QED BY <4>1, <4>2
    <3> QED BY <3>1, <3>2, <3>3
  <2>2. ASSUME NEW i \in 0 .. NCtx, NEW t \in Tokens
        PROVE  <<i, t>> \in kv'[s] <=> i < have /\ q[i + 1] = t
    <3>1. kv'[s] = SeqRm(kv[s], have, Inf)
      BY <1>0, <1>3, <1>8
    <3>2. <<i, t>> \in kv'[s] <=> <<i, t>> \in kv[s] /\ ~ (have <= i /\ i < Inf)
      BY <3>1, SeqRmHas
    <3>3. <<i, t>> \in kv'[s] <=> <<i, t>> \in kv[s] /\ i < have
      BY <1>0, <3>2 DEF Inf
    <3>4. CASE i < have
      <4>1. ~ Unsettled(s, i)
        <5>1. phase = "reuse" => heads.h \in Nat
          BY DEF BInv, Typed
        <5> QED BY <1>3, <3>4, <5>1 DEF Unsettled
      <4>2. <<i, t>> \notin Pending(s)
        BY <1>0, <1>5, <1>8, PendingIs DEF None, Brings
      <4>3. <<i, t>> \in kv[s] <=> i < Len(p) /\ p[i + 1] = t
        BY <1>8, <4>1, <4>2 DEF Settled, Agrees, p
      <4>4. i < Len(p) /\ p[i + 1] = q[i + 1]
        BY <1>2, <1>3, <3>4
      <4> QED BY <3>3, <3>4, <4>3, <4>4
    <3>5. CASE ~ (i < have)
      BY <3>3, <3>5
    <3> QED BY <3>4, <3>5
  <2>3. ASSUME NEW i \in 0 .. NCtx, NEW t \in Tokens
        PROVE  i < Len(slot'[s].prompt) /\ slot'[s].prompt[i + 1] = t <=> i < have + add /\ q[i + 1] = t
    <3> DEFINE x == SubSeq(q, 1, have + add)
    <3>1. Len(x) = have + add /\ \A j \in 1 .. have + add : x[j] = q[j]
      BY <1>2, <1>3
    <3>2. slot'[s].prompt = x
      BY <1>3, <1>8
    <3> HIDE DEF x
    <3>3. i < have + add => i + 1 \in 1 .. have + add
      OBVIOUS
    <3> QED BY <3>1, <3>2, <3>3
  <2>4. ASSUME NEW i \in 0 .. NCtx
        PROVE  /\ ~ (i < have /\ have <= i)
               /\ i < have + add <=> i < have \/ (have <= i /\ i < have + add)
    OBVIOUS
  <2> QED BY <2>1, <2>2, <2>3, <2>4 DEF Agrees
<1> QED BY <1>7, <1>8 DEF Settled

-----------------------------------------------------------------------------
(* Decoding.                                                               *)

LEMMA NothingSettled == ASSUME BInv, Settled, BInv', NothingToDecode PROVE Settled'
<1>1. ASSUME NEW s \in Slots PROVE Agrees(s)'
  <2>1. UNCHANGED <<slot, kv>> /\ batch = <<>> /\ batch' = <<>> /\ phase = "decode"
    BY DEF NothingToDecode, EndRound
  <2>2. None(batch, Undecoded, s)
    <3>1. Undecoded \in Nat /\ Len(batch) = 0
      BY <2>1, UndecodedIs DEF BInv
    <3>2. \A u \in Nat : u + 1 .. 0 = {}
      OBVIOUS
    <3> QED BY <3>1, <3>2 DEF None
  <2>3. \A p \in 0 .. NCtx : ~ Unsettled(s, p)
    BY <2>1 DEF Unsettled
  <2> QED BY <2>1, <2>2, <2>3, NoneEmpty, NoneSame, AgreesSame DEF Settled
<1> QED BY <1>1 DEF Settled

(* What is decoded moves from the batch to the memory.                     *)
LEMMA DecodedIs ==
  ASSUME BInv, Owned, phase = "decode", batch # <<>>, NEW s \in Slots, NEW p, NEW t
  PROVE  /\ <<p, t>> \in DecodedKv(s) \/ Brings(batch, off + Size, s, p, t) <=>
              <<p, t>> \in kv[s] \/ <<p, t>> \in Pending(s)
         /\ ~ (<<p, t>> \in kv[s] /\ <<p, t>> \in Pending(s)) =>
              ~ (<<p, t>> \in DecodedKv(s) /\ Brings(batch, off + Size, s, p, t))
<1>1. /\ Undecoded = off /\ off \in Nat /\ Size \in Nat /\ off + Size <= Len(batch) /\ Len(batch) \in Nat
      /\ \A i \in 1 .. Len(batch) : i \in DOMAIN batch
  BY SizeIs DEF BInv, Typed, Decoding, Undecoded
<1> DEFINE Has(i) == batch[i].slot = s /\ batch[i].pos = p /\ batch[i].tok = t
<1>2. <<p, t>> \in DecodedKv(s) <=> <<p, t>> \in kv[s] \/ \E i \in off + 1 .. off + Size : Has(i)
  BY DEF DecodedKv, View
<1>3. <<p, t>> \in Pending(s) <=> \E i \in off + 1 .. Len(batch) : Has(i)
  BY <1>1, PendingIs DEF Brings
<1>4. Brings(batch, off + Size, s, p, t) <=> \E i \in off + Size + 1 .. Len(batch) : Has(i)
  BY DEF Brings
<1>5. \A i, j \in 1 .. Len(batch) : Has(i) /\ Has(j) => i = j
  BY <1>1 DEF Owned
<1> HIDE DEF Has
<1>6. /\ \A i \in off + 1 .. off + Size : i \in off + 1 .. Len(batch) /\ i \in 1 .. Len(batch)
                                          /\ i \notin off + Size + 1 .. Len(batch)
      /\ \A i \in off + Size + 1 .. Len(batch) : i \in off + 1 .. Len(batch) /\ i \in 1 .. Len(batch)
      /\ \A i \in off + 1 .. Len(batch) : i \in off + 1 .. off + Size \/ i \in off + Size + 1 .. Len(batch)
  BY <1>1
<1>7. ~ ((\E i \in off + 1 .. off + Size : Has(i)) /\ \E i \in off + Size + 1 .. Len(batch) : Has(i))
  BY <1>5, <1>6
<1>8. (\E i \in off + 1 .. Len(batch) : Has(i)) <=>
        (\E i \in off + 1 .. off + Size : Has(i)) \/ \E i \in off + Size + 1 .. Len(batch) : Has(i)
  BY <1>6
<1> QED BY <1>2, <1>3, <1>4, <1>7, <1>8

(* A memory that fills up comes neither with exceptions in post_decode nor *)
(* with requests for several completions.                                  *)
FullAlone == \A sc \in Scenarios : "full" \in sc.faults => "throw" \notin sc.faults /\ "parent" \notin sc.kinds

LEMMA DecodeSettled == ASSUME FullAlone, BInv, Owned, Apart, Settled, BInv', DecodeOk PROVE Settled'
<1>0. /\ phase = "decode" /\ batch # <<>> /\ phase' = "post" /\ UNCHANGED <<batch, off, n, scenario>> /\ Typed /\ Tasked
      /\ scenario \in Scenarios /\ Undecoded = off /\ Undecoded' = off + Size
      /\ \A p \in 0 .. NCtx, s \in Slots : ~ Unsettled(s, p)
  BY DEF DecodeOk, BInv, Typed, Undecoded, Unsettled, Size
<1>1. ASSUME NEW s \in Slots, NEW p \in 0 .. NCtx, NEW t \in Tokens
      PROVE  <<p, t>> \in Pending(s)' <=> Brings(batch, off + Size, s, p, t)
  BY <1>0, PendingNext
<1>2. ASSUME NEW s \in Slots, NEW p \in 0 .. NCtx, NEW t \in Tokens
      PROVE  /\ <<p, t>> \in DecodedKv(s) \/ Brings(batch, off + Size, s, p, t) <=>
                  p < Len(slot[s].prompt) /\ slot[s].prompt[p + 1] = t
             /\ ~ (<<p, t>> \in DecodedKv(s) /\ Brings(batch, off + Size, s, p, t))
  <2>1. /\ ~ (<<p, t>> \in kv[s] /\ <<p, t>> \in Pending(s))
        /\ <<p, t>> \in kv[s] \/ <<p, t>> \in Pending(s) <=> p < Len(slot[s].prompt) /\ slot[s].prompt[p + 1] = t
    BY <1>0 DEF Settled, Agrees
  <2> QED BY <1>0, <2>1, DecodedIs
<1>3. ASSUME NEW s \in Slots, ParentOf(s) = {} PROVE Agrees(s)'
  <2>1. slot'[s] = slot[s] /\ kv'[s] = DecodedKv(s)
    BY <1>3, DecodeIs
  <2>2. ASSUME NEW p \in 0 .. NCtx, NEW t \in Tokens
        PROVE  /\ ~ (<<p, t>> \in kv'[s] /\ <<p, t>> \in Pending(s)')
               /\ <<p, t>> \in kv'[s] \/ <<p, t>> \in Pending(s)' <=>
                    p < Len(slot'[s].prompt) /\ slot'[s].prompt[p + 1] = t
    BY <1>1, <1>2, <2>1
  <2> QED BY <2>2 DEF Agrees
<1>4. ASSUME NEW s \in Slots, ParentOf(s) # {} PROVE Agrees(s)'
  <2> DEFINE f == From(s)
  <2>1. f \in Slots /\ ~ Idle(f) /\ slot[f].task.kind = "parent"
    BY <1>0, <1>4, FromIs DEF Idle
  <2>2. kv'[s] = DecodedKv(f) /\ slot'[s].prompt = slot[f].prompt
    BY <1>4, DecodeIs
  <2> HIDE DEF f
  <2>3. "full" \notin scenario.faults
    <3>1. "parent" \in scenario.kinds
      BY <2>1 DEF Apart
    <3> QED BY <1>0, <3>1 DEF FullAlone
  <2>4. \A x, p, t : ~ Brings(batch, off + Size, x, p, t)
    <3>1. off + Size = Len(batch) /\ Len(batch) \in Nat
      BY <1>0, <2>3, WholeBatch, UndecodedIs DEF BInv, Decoding
    <3>2. \A u \in Nat : u + 1 .. u = {}
      OBVIOUS
    <3> QED BY <3>1, <3>2 DEF Brings
  <2>5. ASSUME NEW p \in 0 .. NCtx, NEW t \in Tokens
        PROVE  /\ <<p, t>> \notin Pending(s)'
               /\ <<p, t>> \in kv'[s] <=> p < Len(slot'[s].prompt) /\ slot'[s].prompt[p + 1] = t
    BY <1>1, <1>2, <2>1, <2>2, <2>4
  <2> QED BY <2>5 DEF Agrees
<1> QED BY <1>3, <1>4 DEF Settled

LEMMA FullSettled == ASSUME BInv, Owned, Settled, BInv', DecodeFull PROVE Settled'
<1>0. /\ phase = "decode" /\ UNCHANGED <<phase, batch, off>> /\ Typed /\ Undecoded' = Undecoded
      /\ \A p \in 0 .. NCtx, s \in Slots : ~ Unsettled(s, p)
  BY DEF DecodeFull, BInv, Undecoded, Unsettled
<1>1. ASSUME NEW s \in Slots PROVE Agrees(s)'
  <2>1. CASE slot'[s] = slot[s] /\ kv'[s] = kv[s]
    BY <1>0, <2>1, SameBatch, AgreesSame DEF Settled
  <2>2. CASE Purgeable # {} /\ s = Min(Purgeable)
    <3>1. Idle(s) /\ slot' = [slot EXCEPT ![s].prompt = <<>>] /\ kv' = [kv EXCEPT ![s] = {}]
      BY <2>2, PurgeableIs DEF DecodeFull
    <3>2. slot'[s].prompt = <<>> /\ kv'[s] = {}
      BY <1>0, <3>1, PurgedIs
    <3>3. None(batch', Undecoded', s)
      BY <1>0, <3>1, NoRow DEF None, Idle
    <3> QED BY <3>2, <3>3, AgreesEmpty
  <2>3. CASE Purgeable # {} /\ s # Min(Purgeable)
    <3> DEFINE x == Min(Purgeable)
    <3>1. x \in Slots /\ Idle(x) /\ slot' = [slot EXCEPT ![x].prompt = <<>>] /\ kv' = [kv EXCEPT ![x] = {}] /\ s # x
      BY <2>3, PurgeableIs DEF DecodeFull
    <3> HIDE DEF x
    <3>2. slot'[s] = slot[s] /\ kv'[s] = kv[s]
      BY <1>0, <3>1, PurgedIs
    <3> QED BY <2>1, <3>2
  <2> QED BY <2>1, <2>2, <2>3 DEF DecodeFull
<1> QED BY <1>1 DEF Settled

LEMMA FailsSettled == ASSUME BInv, Owned, Settled, BInv', DecodeFails PROVE Settled'
<1>1. ASSUME NEW s \in Slots PROVE Agrees(s)'
  <2>1. phase = "decode" /\ batch' = <<>> /\ None(batch', Undecoded', s) /\ \A p \in 0 .. NCtx : ~ Unsettled(s, p)
    BY NoneEmpty DEF DecodeFails, EndRound, Unsettled
  <2>2. CASE Idle(s)
    <3>1. slot'[s] = slot[s] /\ kv'[s] = kv[s]
      BY <2>2 DEF DecodeFails
    <3>2. None(batch, Undecoded, s)
      BY <2>2, NoRow DEF None, Idle
    <3> QED BY <2>1, <3>1, <3>2, NoneSame, AgreesSame DEF Settled
  <2>3. CASE ~ Idle(s)
    <3>1. slot'[s] = [Freed(s) EXCEPT !.prompt = <<>>] /\ kv'[s] = {}
      BY <2>3 DEF DecodeFails
    <3>2. slot'[s].prompt = <<>>
      BY <3>1, FreedIs DEF BInv, Slot
    <3> QED BY <2>1, <3>1, <3>2, AgreesEmpty
  <2> QED BY <2>2, <2>3
<1> QED BY <1>1 DEF Settled

LEMMA AbortSettled == ASSUME FullAlone, BInv, Owned, Apart, Settled, BInv', Abort PROVE Settled'
<1>0. phase = "post" /\ batch # <<>> /\ batch' = <<>> /\ "full" \notin scenario.faults
  BY DEF Abort, EndRound, BInv, Typed, Batched, Decoding, FullAlone
<1>1. ASSUME NEW s \in Slots PROVE Agrees(s)'
  <2>1. None(batch', Undecoded', s) /\ \A p \in 0 .. NCtx : ~ Unsettled(s, p)
    BY <1>0, NoneEmpty DEF Unsettled
  <2>2. None(batch, Undecoded, s)
    <3>1. off + Size = Len(batch) /\ Undecoded = off + Size /\ Len(batch) \in Nat
      BY <1>0, WholeBatch, UndecodedIs DEF BInv, Decoding, Undecoded
    <3>2. \A u \in Nat : u + 1 .. u = {}
      OBVIOUS
    <3> QED BY <3>1, <3>2 DEF None
  <2>3. CASE Idle(s)
    <3>1. slot'[s] = slot[s] /\ kv'[s] = kv[s]
      BY <2>3 DEF Abort
    <3> QED BY <2>1, <2>2, <3>1, NoneSame, AgreesSame DEF Settled
  <2>4. CASE ~ Idle(s)
    <3>1. slot'[s] = Freed(s) /\ kv'[s] = FreedKv(s)
      BY <2>4 DEF Abort
    <3> QED BY <1>0, <2>1, <2>2, <3>1, AgreesFreed DEF Settled
  <2> QED BY <2>3, <2>4
<1> QED BY <1>1 DEF Settled

LEMMA PostSettled == ASSUME BInv, Owned, Settled, BInv', PostDecode PROVE Settled'
<1>0. phase = "post" /\ at \in Slots /\ \A p \in 0 .. NCtx, s \in Slots : ~ Unsettled(s, p)
  BY DEF PostDecode, BInv, Typed, Unsettled
<1>1. ASSUME NEW s \in Slots
      PROVE  /\ SameRows(s)
             /\ None(batch, Undecoded, s) => None(batch', Undecoded', s)
  <2>1. CASE Undecoded' = Undecoded /\ batch' = batch
    BY <2>1, SameBatch
  <2>2. CASE Undecoded = Len(batch) /\ EndRound
    <3>1. None(batch', Undecoded', s)
      BY <2>2, NoneEmpty DEF EndRound
    <3>2. None(batch, Undecoded, s)
      <4>1. Len(batch) \in Nat /\ \A u \in Nat : u + 1 .. u = {}
        BY UndecodedIs DEF BInv
      <4> QED BY <2>2, <4>1 DEF None
    <3> QED BY <3>1, <3>2, NoneSame
  <2> QED BY <2>1, <2>2, PostUndecoded
<1>2. ASSUME NEW s \in Slots PROVE Agrees(s)'
  <2>1. CASE slot'[s].prompt = slot[s].prompt /\ kv'[s] = kv[s]
    BY <1>0, <1>1, <2>1, AgreesSame DEF Settled
  <2>2. CASE /\ s = at /\ Inside(slot[at].ibatch) /\ slot[at].state \in {"DONE_PROMPT", "GENERATING"}
             /\ slot'[s].prompt = Freed(s).prompt /\ kv'[s] = FreedKv(s)
    <3>1. None(batch, Undecoded, s)
      BY <1>0, <2>2, SampledRow DEF None
    <3> QED BY <1>0, <1>1, <2>2, <3>1, AgreesFreed DEF Settled
  <2> QED BY <2>1, <2>2, PostIs
<1> QED BY <1>2 DEF Settled

LEMMA InitSettled == ASSUME BatchInit PROVE Settled
<1>1. ASSUME NEW s \in Slots PROVE Agrees(s)
  <2>1. slot[s].prompt = <<>> /\ kv[s] = {} /\ Pending(s) = {}
    BY DEF BatchInit, Pending
  <2> QED BY <2>1 DEF Agrees
<1> QED BY <1>1 DEF Settled

LEMMA StillSettled == ASSUME BInv, Settled, BInv', UNCHANGED batchVars PROVE Settled'
<1>1. ASSUME NEW s \in Slots PROVE Agrees(s)'
  <2>1. UNCHANGED <<phase, at, heads, slot, kv, batch>> /\ Undecoded' = Undecoded
    BY DEF batchVars, Undecoded, Size
  <2>2. \A p \in 0 .. NCtx : Unsettled(s, p) => Unsettled(s, p)'
    BY <2>1 DEF Unsettled
  <2> QED BY <2>1, <2>2, SameBatch, AgreesSame DEF Settled
<1> QED BY <1>1 DEF Settled

LEMMA NextSettled ==
  ASSUME FullAlone, BInv, Owned, Apart, Settled, BInv', [BatchNext]_batchVars
  PROVE  Settled'
BY LaunchSettled, CancelSettled, EraseSettled, BeginSettled, ShiftSettled, SampledSettled, SkipSettled,
   StartSettled, ReuseSettled, AddSettled, NothingSettled, DecodeSettled, FullSettled, FailsSettled, AbortSettled,
   PostSettled, StillSettled
DEF BatchNext, UpdateSlots

-----------------------------------------------------------------------------
LEMMA KInvIs == ASSUME FullAlone PROVE BatchSpec => []KInv
<1>1. BatchInit => KInv
  BY InitBInv, InitOwned, InitApart, InitSettled DEF KInv
<1>2. KInv /\ [BatchNext]_batchVars => KInv'
  BY NextBInv, NextOwned, NextApart, NextSettled DEF KInv
<1> QED BY <1>1, <1>2, PTL DEF BatchSpec

LEMMA BInvTypes == BInv => TypeOK
<1> SUFFICES ASSUME BInv PROVE TypeOK
  OBVIOUS
<1>1. ASSUME NEW s \in Slots
      PROVE  /\ slot[s].state \in States
             /\ slot[s].task = NoTask \/ slot[s].task.tokens \in Prompts
             /\ slot[s].prompt \in Seq(Tokens) /\ Len(slot[s].prompt) < NCtx
             /\ slot[s].sampled \in Tokens /\ slot[s].gen \in 0 .. MaxGen
             /\ slot[s].ibatch \in -1 .. NBatch - 1
             /\ kv[s] \subseteq (0 .. NCtx) \X Tokens
  BY SlotIs DEF BInv, Typed, Fits, Task
<1> QED BY <1>1 DEF BInv, Typed, TypeOK, States

(* When a round of update_slots ends no slot waits to sample, however the  *)
(* batch was filled and cut into parts and whatever failed: for any number *)
(* of slots, sizes and prompts, and all combinations of failures.          *)
THEOREM ResultsAreSampled == BatchSpec => []AllSampled
<1>1. BInv => AllSampled
  <2> SUFFICES ASSUME BInv, phase = "tasks", NEW s \in Slots
               PROVE  slot[s].state # "DONE_PROMPT" /\ (slot[s].state = "GENERATING" => slot[s].ibatch = -1)
    BY DEF AllSampled
  <2>1. batch = <<>> /\ off = 0 /\ slot[s].ibatch \in Int
    BY SlotIs DEF BInv, Batched, Decoding
  <2>2. ~ Ahead(s)
    BY <2>1 DEF Ahead, Lo
  <2> QED BY <2>2 DEF BInv, Awaits, Decoding
<1> QED BY <1>1, BatchBInv, PTL

(* What prompt.tokens says of a slot is what the memory holds of it and    *)
(* the rest of the batch will write, and until it generates it is a        *)
(* beginning of the request: for any sizes, prompts and requests, after    *)
(* any history of shifts, reused chunks, copies to children, purges,       *)
(* retries, errors, exceptions and cancellations that FullAlone admits.    *)
THEOREM MemoryIsPrompt == ASSUME FullAlone PROVE BatchSpec => []KvIsPrompt
<1>1. ASSUME KInv, NEW s \in Slots
      PROVE  /\ kv[s] \cap Pending(s) = {}
             /\ {x \in kv[s] \cup Pending(s) : ~ Unsettled(s, x[1])} =
                  {x \in Cells(slot[s].prompt) : ~ Unsettled(s, x[1])}
  <2> DEFINE p == slot[s].prompt
             Spots == (0 .. NCtx) \X Tokens
  <2>1. p \in Seq(Tokens) /\ Len(p) \in Nat /\ Len(p) < NCtx /\ NCtx \in Nat
    BY <1>1, SlotIs, SizesAssumption DEF KInv, BInv, Fits
  <2>2. kv[s] \subseteq Spots
    BY <1>1 DEF KInv, BInv, Typed
  <2>3. Pending(s) \subseteq Spots
    <3>1. Undecoded \in Nat /\ \A i \in DOMAIN batch : batch[i] \in Rows
      BY <1>1, UndecodedIs DEF KInv, BInv
    <3>2. batch \in Seq(Rows)
      BY <1>1 DEF KInv, BInv, Typed
    <3>3. ASSUME NEW i \in Undecoded + 1 .. Len(batch) PROVE <<batch[i].pos, batch[i].tok>> \in Spots
      <4>1. i \in DOMAIN batch
        BY <3>1, <3>2
      <4> QED BY <3>1, <4>1 DEF Rows
    <3>4. \A x \in Pending(s) : \E i \in Undecoded + 1 .. Len(batch) : x = <<batch[i].pos, batch[i].tok>>
      BY DEF Pending, Undecoded
    <3> QED BY <3>3, <3>4
  <2>4. ASSUME NEW i \in 0 .. NCtx, NEW t \in Tokens
        PROVE  <<i, t>> \in Cells(p) <=> i < Len(p) /\ p[i + 1] = t
    <3>1. DOMAIN p = 1 .. Len(p)
      BY <2>1
    <3> HIDE DEF p
    <3>2. <<i, t>> \in Cells(p) <=> \E j \in 1 .. Len(p) : i = j - 1 /\ t = p[j]
      BY <3>1 DEF Cells
    <3>3. i < Len(p) => i + 1 \in 1 .. Len(p) /\ (i + 1) - 1 = i
      BY <2>1
    <3>4. \A j \in 1 .. Len(p) : i = j - 1 => j = i + 1 /\ i < Len(p)
      BY <2>1
    <3> QED BY <3>2, <3>3, <3>4
  <2>5. Cells(p) \subseteq Spots
    <3>1. \A j \in DOMAIN p : j - 1 \in 0 .. NCtx /\ p[j] \in Tokens
      BY <2>1
    <3> HIDE DEF p
    <3> QED BY <3>1 DEF Cells
  <2>6. ASSUME NEW i \in 0 .. NCtx, NEW t \in Tokens
        PROVE  /\ ~ (<<i, t>> \in kv[s] /\ <<i, t>> \in Pending(s))
               /\ ~ Unsettled(s, i) => (<<i, t>> \in kv[s] \/ <<i, t>> \in Pending(s) <=> <<i, t>> \in Cells(p))
    BY <1>1, <2>4 DEF KInv, Settled, Agrees
  <2>7. \A x \in Spots : x = <<x[1], x[2]>> /\ x[1] \in 0 .. NCtx /\ x[2] \in Tokens
    OBVIOUS
  <2> HIDE DEF Spots, p
  <2>8. \A x \in Spots : /\ ~ (x \in kv[s] /\ x \in Pending(s))
                         /\ ~ Unsettled(s, x[1]) => (x \in kv[s] \/ x \in Pending(s) <=> x \in Cells(p))
    BY <2>6, <2>7
  <2> QED BY <2>2, <2>3, <2>5, <2>8 DEF p
<1>2. KInv => KvIsPrompt
  BY <1>1, BInvTypes DEF KInv, KvIsPrompt, BInv
<1> QED BY <1>2, KInvIs, PTL
=============================================================================
