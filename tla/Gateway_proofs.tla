----------------------------- MODULE Gateway_proofs -----------------------------
(***************************************************************************)
(* Machine-checked theorems about Gateway, for every set of ports and      *)
(* connections, every number of permits and bytes:                         *)
(*                                                                         *)
(*   PermitsReturn  PermitsAdd is an invariant;                            *)
(*   PortIsServed   PortAgrees is an invariant;                            *)
(*   EndComesLast   every step is one of EndAfterData.                     *)
(*                                                                         *)
(* PortAgrees speaks of a gateway at rest and of its listener; Changing    *)
(* says which sockets are open and what the file may say at every stage of *)
(* a change, so that each way out of it leaves one listener.               *)
(***************************************************************************)
EXTENDS Gateway, FiniteSetTheorems, TLAPS

Count == [Conns -> [Ways -> Nat]]

Typed ==
  /\ TypeOK
  /\ sent \in Count /\ got \in Count /\ out \in Count

Permits == free + Cardinality({k \in Conns : conn[k] \in Holding}) = Capacity

(* One listener, and besides it the one that a change has to retire.       *)
Pending == other # listener /\ open = {listener, other}
Steady  == saved \in {None, listener}

Changing ==
  /\ change \in {"none", "bind"} => other = None /\ Steady
  /\ change = "none" => open = IF closed THEN {} ELSE {listener}
  /\ change = "bind" => open = {listener} /\ ~closed
  /\ change = "thread" =>
       ~closed /\ Steady /\ other # None /\ want \in {None, other} /\ Pending
  /\ change = "save" =>
       /\ ~closed /\ Steady
       /\ \/ other = None /\ want = listener /\ open = {listener}
          \/ other # None /\ want \in {None, other} /\ Pending
  /\ change = "swap" =>
       /\ ~closed
       /\ \/ other = None /\ Steady /\ open = {listener}
          \/ other # None /\ saved \in {None, other} /\ Pending
  /\ change = "end" =>
       /\ Steady
       /\ \/ other = None /\ open = IF closed THEN {} ELSE {listener}
          \/ other # None /\ ~closed /\ Pending

(* The relay has read what there was to read when it has seen the end.     *)
ReadToEnd == \A k \in Conns : \A w \in Ways : stage[k][w] \in {"read", "passed"} => got[k][w] = sent[k][w]

(* Only a connection that is not accepted yet is bound to a listener.      *)
CameBy == \A k \in Conns : via[k] # None => conn[k] = "backlog"

Inv == Typed /\ Permits /\ Changing /\ ReadToEnd /\ CameBy

Holders == {k \in Conns : conn[k] \in Holding}

LEMMA HoldersFinite == IsFiniteSet(Holders) /\ Cardinality(Holders) \in Nat
  BY PortAssumption, FS_Subset, FS_CardinalityType DEF Holders

LEMMA InitInv == Init => Inv
<1> SUFFICES ASSUME Init PROVE Inv
  OBVIOUS
<1>1. sent \in Count /\ got = sent /\ out = sent /\ \A k \in Conns : \A w \in Ways : sent[k][w] = 0
  BY DEF Init, Count, Nothing
<1>2. \A w \in Ways : 0 \in 0 .. MaxBytes[w]
  BY SizeAssumption
<1>3. Typed
  <2>1. \A f \in {sent, got, out} : \A k \in Conns : \A w \in Ways : f[k][w] \in 0 .. MaxBytes[w]
    BY <1>1, <1>2
  <2>2. stage \in [Conns -> [Ways -> {"open", "ended", "read", "passed"}]]
    BY DEF Init, AllOpen
  <2>3. /\ conn \in [Conns -> Waiting \cup Holding \cup Over]
        /\ via \in [Conns -> Ports \cup {None}] /\ free \in 0 .. Capacity
    BY SizeAssumption DEF Init, Waiting
  <2>. QED BY <1>1, <2>1, <2>2, <2>3 DEF Init, Typed, TypeOK
<1>4. Holders = {}
  BY DEF Init, Holders, Holding
<1>5. Permits
  BY <1>4, FS_EmptySet, SizeAssumption DEF Init, Permits, Holders
<1>6. Changing /\ ReadToEnd /\ CameBy
  BY DEF Init, Changing, Steady, ReadToEnd, AllOpen, CameBy
<1>. QED BY <1>3, <1>5, <1>6 DEF Inv

(* A connection takes a permit, gives one back, or keeps what it has.      *)
LEMMA SamePermits ==
  ASSUME Permits, free' = free, \A k \in Conns : conn'[k] \in Holding <=> conn[k] \in Holding
  PROVE  Permits'
<1>1. Holders' = Holders
  BY DEF Holders
<1>. QED BY <1>1 DEF Permits, Holders

LEMMA TakePermit ==
  ASSUME Typed, Permits, NEW k \in Conns, NEW place \in Holding,
         conn[k] \notin Holding, To(k, place), free' = free - 1
  PROVE  Permits'
<1>1. Holders' = Holders \cup {k} /\ k \notin Holders
  BY DEF Holders, To, Typed, TypeOK
<1>2. Cardinality(Holders') = Cardinality(Holders) + 1
  BY <1>1, HoldersFinite, FS_AddElement
<1>. QED BY <1>2, HoldersFinite, SizeAssumption DEF Permits, Holders, Typed, TypeOK

LEMMA ReturnPermit ==
  ASSUME Typed, Permits, NEW k \in Conns, NEW place,  place \notin Holding,
         conn[k] \in Holding, Leave(k, place)
  PROVE  Permits' /\ free' \in 0 .. Capacity
<1>1. Holders' = Holders \ {k} /\ k \in Holders
  BY DEF Holders, Leave, To, Typed, TypeOK
<1>2. Cardinality(Holders') = Cardinality(Holders) - 1
  BY <1>1, HoldersFinite, FS_RemoveElement
<1>3. Cardinality(Holders) > 0
  BY <1>1, HoldersFinite, FS_EmptySet
<1>. QED BY <1>2, <1>3, HoldersFinite, SizeAssumption DEF Permits, Holders, Leave, Typed, TypeOK

-----------------------------------------------------------------------------
(* change() and close().                                                   *)

LEMMA RetireKeeps ==
  ASSUME Inv, NEW p \in Ports, Retire(p)
  PROVE  /\ Permits' /\ ReadToEnd' /\ CameBy'
         /\ conn' \in [Conns -> Waiting \cup Holding \cup Over]
         /\ via' \in [Conns -> Ports \cup {None}]
         /\ open' \subseteq Ports
<1>1. \A k \in Conns : conn'[k] \in Holding <=> conn[k] \in Holding
  BY PortAssumption DEF Inv, Retire, Typed, TypeOK, CameBy, Holding
<1>2. free' = free /\ UNCHANGED bytes
  BY DEF Retire
<1>3. Permits'
  BY <1>1, <1>2, SamePermits DEF Inv
<1>4. ReadToEnd'
  BY <1>2 DEF Inv, ReadToEnd, bytes
<1>5. CameBy'
  BY PortAssumption DEF Inv, Retire, CameBy
<1>6. /\ conn' \in [Conns -> Waiting \cup Holding \cup Over]
      /\ via' \in [Conns -> Ports \cup {None}]
      /\ open' \subseteq Ports
  BY DEF Inv, Retire, Typed, TypeOK, Over
<1>. QED BY <1>3, <1>4, <1>5, <1>6

(* Steps of a change leave the connections alone until one is retired.     *)
LEMMA TrafficKeeps ==
  ASSUME Inv, UNCHANGED traffic
  PROVE  Permits' /\ ReadToEnd' /\ CameBy'
  BY SamePermits DEF Inv, traffic, bytes, ReadToEnd, CameBy

GateTyped ==
  /\ listener \in Ports /\ open \subseteq Ports /\ saved \in Ports \cup {None}
  /\ closed \in BOOLEAN /\ change \in {"none", "bind", "thread", "save", "swap", "end"}
  /\ want \in Ports \cup {None} /\ other \in Ports \cup {None}

LEMMA GateStep ==
  ASSUME Inv,
         \/ \E p \in Ports \cup {None} : ChangeBegin(p)
         \/ ChangeBind \/ ChangeSave \/ ChangeSwap
  PROVE  Inv'
<1>1. UNCHANGED traffic
  BY DEF ChangeBegin, ChangeBind, ChangeSave, ChangeSwap
<1>2. GateTyped /\ Changing
  BY DEF Inv, Typed, TypeOK, GateTyped
<1>3. GateTyped' /\ Changing'
  <2>1. CASE \E p \in Ports \cup {None} : ChangeBegin(p)
    BY <1>2, <2>1, PortAssumption DEF ChangeBegin, GateTyped, Changing, Steady, Pending
  <2>2. CASE ChangeBind
    BY <1>2, <2>2, PortAssumption DEF ChangeBind, GateTyped, Changing, Steady, Pending
  <2>3. CASE ChangeSave
    BY <1>2, <2>3, PortAssumption DEF ChangeSave, GateTyped, Changing, Steady, Pending
  <2>4. CASE ChangeSwap
    BY <1>2, <2>4, PortAssumption DEF ChangeSwap, GateTyped, Changing, Steady, Pending
  <2>. QED BY <2>1, <2>2, <2>3, <2>4
<1>4. Typed'
  BY <1>1, <1>3 DEF Inv, Typed, TypeOK, GateTyped, traffic, bytes
<1>. QED BY <1>1, <1>3, <1>4, TrafficKeeps DEF Inv

LEMMA RetireStep ==
  ASSUME Inv, ChangeThread \/ ChangeEnd \/ Close PROVE Inv'
<1>1. GateTyped /\ Changing
  BY DEF Inv, Typed, TypeOK, GateTyped
<1>2. Permits' /\ ReadToEnd' /\ CameBy' /\ open' \subseteq Ports
      /\ conn' \in [Conns -> Waiting \cup Holding \cup Over]
      /\ via' \in [Conns -> Ports \cup {None}]
  <2>1. CASE UNCHANGED <<open, traffic>>
    BY <2>1, TrafficKeeps DEF Inv, Typed, TypeOK, traffic
  <2>2. CASE \E p \in Ports : Retire(p)
    BY <2>2, RetireKeeps
  <2>3. ASSUME ChangeThread PROVE other \in Ports
    BY <1>1, <2>3 DEF ChangeThread, GateTyped, Changing
  <2>. QED BY <1>1, <2>1, <2>2, <2>3 DEF ChangeThread, ChangeEnd, Close, GateTyped
<1>3. GateTyped' /\ Changing'
  <2>1. CASE ChangeEnd /\ other = None
    BY <1>1, <2>1, PortAssumption DEF ChangeEnd, traffic, GateTyped, Changing, Steady, Pending
  <2>2. CASE ChangeEnd /\ other # None
    <3>1. open' = {listener, other} \ {other} /\ other # listener /\ ~closed /\ Steady
      BY <1>1, <2>2 DEF ChangeEnd, Retire, Changing, Pending
    <3>. QED BY <1>1, <2>2, <3>1, PortAssumption DEF ChangeEnd, GateTyped, Changing, Steady
  <2>3. CASE Close
    <3>1. open' = {listener} \ {listener} /\ other = None /\ Steady /\ change = "none"
      BY <1>1, <2>3 DEF Close, Retire, Changing
    <3>. QED BY <1>1, <2>3, <3>1, PortAssumption DEF Close, GateTyped, Changing, Steady
  <2>4. CASE ChangeThread /\ change' = "save"
    <3>1. UNCHANGED <<open, want, other, listener, saved, closed>>
      BY <2>4 DEF ChangeThread
    <3>. QED BY <1>1, <2>4, <3>1 DEF ChangeThread, GateTyped, Changing, Steady, Pending
  <2>5. CASE ChangeThread /\ change' = "end"
    <3>1. open' = {listener, other} \ {other} /\ other # listener /\ ~closed /\ Steady
      BY <1>1, <2>5 DEF ChangeThread, Retire, Changing, Pending
    <3>. QED BY <1>1, <2>5, <3>1, PortAssumption DEF ChangeThread, GateTyped, Changing, Steady
  <2>. QED BY <2>1, <2>2, <2>3, <2>4, <2>5 DEF ChangeThread
<1>4. UNCHANGED <<free, bytes>>
  BY DEF ChangeThread, ChangeEnd, Close, Retire, traffic
<1>5. Typed'
  BY <1>2, <1>3, <1>4 DEF Inv, Typed, TypeOK, GateTyped, bytes
<1>. QED BY <1>2, <1>3, <1>5 DEF Inv

-----------------------------------------------------------------------------
(* Connections.                                                            *)

LEMMA GateKeeps == ASSUME Inv, UNCHANGED gate PROVE GateTyped' /\ Changing'
  BY DEF Inv, Typed, TypeOK, GateTyped, gate, Changing, Steady, Pending

LEMMA AcceptStep ==
  ASSUME Inv, NEW k \in Conns, Connect(k) \/ Accept(k) \/ Serve(k) PROVE Inv'
<1>1. UNCHANGED gate /\ UNCHANGED bytes
  BY DEF Connect, Accept, Serve
<1>2. GateTyped' /\ Changing' /\ ReadToEnd'
  BY <1>1, GateKeeps DEF Inv, ReadToEnd, bytes
<1>3. via' \in [Conns -> Ports \cup {None}]
      /\ conn' \in [Conns -> Waiting \cup Holding \cup Over] /\ CameBy'
  BY PortAssumption DEF Inv, Typed, TypeOK, CameBy, Connect, Accept, Serve, To, Leave, Waiting,
                        Holding, Over
<1>4. Permits' /\ free' \in 0 .. Capacity
  <2>1. CASE Accept(k) /\ free > 0
    <3>1. conn[k] \notin Holding /\ To(k, "taken") /\ free' = free - 1 /\ "taken" \in Holding
      BY <2>1 DEF Accept, Holding
    <3>. QED BY <2>1, <3>1, TakePermit, SizeAssumption DEF Inv, Typed, TypeOK
  <2>2. CASE Serve(k) /\ free' # free
    <3>1. conn[k] \in Holding /\ (Leave(k, "refused") \/ Leave(k, "cut"))
      BY <2>2 DEF Serve, Holding
    <3>. QED BY <3>1, ReturnPermit DEF Inv, Holding
  <2>3. CASE free' = free
    <3>1. \A j \in Conns : conn'[j] \in Holding <=> conn[j] \in Holding
      BY <2>3, SizeAssumption
         DEF Inv, Typed, TypeOK, Connect, Accept, Serve, To, Leave, Holding
    <3>. QED BY <2>3, <3>1, SamePermits DEF Inv, Typed, TypeOK
  <2>. QED BY <2>1, <2>2, <2>3 DEF Connect, Accept, Serve
<1>5. Typed'
  BY <1>1, <1>2, <1>3, <1>4 DEF Inv, Typed, TypeOK, GateTyped, bytes
<1>. QED BY <1>2, <1>3, <1>4, <1>5 DEF Inv

BytesTyped ==
  /\ sent \in Count /\ got \in Count /\ out \in Count
  /\ \A f \in {sent, got, out} : \A k \in Conns : \A w \in Ways : f[k][w] \in 0 .. MaxBytes[w]
  /\ stage \in [Conns -> [Ways -> {"open", "ended", "read", "passed"}]]

LEMMA RelayStep ==
  ASSUME Inv, NEW k \in Conns, NEW w \in Ways,
         Send(k, w) \/ Finish(k, w) \/ Read(k, w) \/ Write(k, w) \/ PassEnd(k, w)
  PROVE  Inv'
<1>1. UNCHANGED <<gate, conn, via, free>>
  BY DEF Send, Finish, Read, Write, PassEnd
<1>2. BytesTyped
  BY DEF Inv, Typed, TypeOK, BytesTyped
<1>3. BytesTyped' /\ ReadToEnd'
  <2>1. CASE Send(k, w)
    BY <1>2, <2>1, SizeAssumption DEF Inv, Send, Bump, BytesTyped, Count, ReadToEnd
  <2>2. CASE Finish(k, w)
    BY <1>2, <2>2, SizeAssumption DEF Inv, Finish, Reach, BytesTyped, Count, ReadToEnd
  <2>3. CASE Read(k, w)
    <3>1. CASE got[k][w] < sent[k][w] /\ got' = Bump(got, k, w) /\ UNCHANGED <<stage, sent, out>>
      <4>1. stage[k][w] \in {"open", "ended"}
        BY <2>3 DEF Read, Reading
      <4>2. got[k][w] + 1 \in 0 .. MaxBytes[w] /\ got[k][w] + 1 \in Nat
        BY <1>2, <3>1, SizeAssumption DEF BytesTyped, Count
      <4>. QED BY <1>2, <3>1, <4>1, <4>2, SizeAssumption DEF Inv, Bump, BytesTyped, Count, ReadToEnd
    <3>2. CASE got[k][w] = sent[k][w] /\ Reach(k, w, "read") /\ UNCHANGED <<got, sent, out>>
      BY <1>2, <3>2 DEF Inv, Reach, BytesTyped, Count, ReadToEnd
    <3>. QED BY <2>3, <3>1, <3>2 DEF Read
  <2>4. CASE Write(k, w)
    BY <1>2, <2>4, SizeAssumption DEF Inv, Write, Bump, BytesTyped, Count, ReadToEnd
  <2>5. CASE PassEnd(k, w)
    BY <1>2, <2>5, SizeAssumption DEF Inv, PassEnd, Reach, BytesTyped, Count, ReadToEnd
  <2>. QED BY <2>1, <2>2, <2>3, <2>4, <2>5
<1>4. Permits' /\ CameBy' /\ GateTyped' /\ Changing'
  BY <1>1, SamePermits, GateKeeps DEF Inv, CameBy
<1>5. Typed'
  BY <1>1, <1>3, <1>4 DEF Inv, Typed, TypeOK, GateTyped, BytesTyped
<1>. QED BY <1>3, <1>4, <1>5 DEF Inv

LEMMA HangStep ==
  ASSUME Inv, NEW k \in Conns, NEW place \in {"done", "cut"}, Hang(k, place) PROVE Inv'
<1>1. UNCHANGED <<gate, via>> /\ Leave(k, place) /\ conn[k] \in Holding /\ place \notin Holding
  BY DEF Hang, Holding
<1>2. Permits' /\ free' \in 0 .. Capacity /\ GateTyped' /\ Changing'
  BY <1>1, ReturnPermit, GateKeeps DEF Inv
<1>3. conn' \in [Conns -> Waiting \cup Holding \cup Over] /\ CameBy'
  BY <1>1 DEF Inv, Typed, TypeOK, Leave, To, Over, CameBy, Hang, Holding
<1>4. BytesTyped' /\ ReadToEnd'
  BY SizeAssumption
     DEF Inv, Typed, TypeOK, Hang, Nothing, AllOpen, BytesTyped, Count, ReadToEnd
<1>5. Typed'
  BY <1>1, <1>2, <1>3, <1>4 DEF Inv, Typed, TypeOK, GateTyped, BytesTyped
<1>. QED BY <1>2, <1>3, <1>4, <1>5 DEF Inv

LEMMA NextInv == Inv /\ [Next]_vars => Inv'
<1> SUFFICES ASSUME Inv, [Next]_vars PROVE Inv'
  OBVIOUS
<1>1. CASE (\E p \in Ports \cup {None} : ChangeBegin(p)) \/ ChangeStep \/ Close
  BY <1>1, GateStep, RetireStep DEF ChangeStep
<1>2. ASSUME NEW k \in Conns, Connect(k) \/ Accept(k) \/ Serve(k) PROVE Inv'
  BY <1>2, AcceptStep
<1>3. ASSUME NEW k \in Conns, NEW w \in Ways,
             Send(k, w) \/ Finish(k, w) \/ Read(k, w) \/ Write(k, w) \/ PassEnd(k, w)
      PROVE  Inv'
  BY <1>3, RelayStep
<1>4. ASSUME NEW k \in Conns, RelayEnds(k) \/ Reset(k) PROVE Inv'
  BY <1>4, HangStep DEF RelayEnds, Reset
<1>5. CASE UNCHANGED vars
  <2>1. UNCHANGED gate /\ UNCHANGED traffic
    BY <1>5 DEF vars, traffic, bytes
  <2>2. Typed'
    BY <2>1, GateKeeps DEF Inv, Typed, TypeOK, GateTyped, traffic, bytes
  <2>. QED BY <2>1, <2>2, GateKeeps, TrafficKeeps DEF Inv
<1>. QED BY <1>1, <1>2, <1>3, <1>4, <1>5 DEF Next, Relaying

LEMMA InvHolds == Spec => []Inv
  BY InitInv, NextInv, PTL DEF Spec

(* No permit is lost or given back twice, however connections end.         *)
THEOREM PermitsReturn == Spec => []PermitsAdd
<1>1. Inv => PermitsAdd
  BY DEF Inv, Typed, Permits, PermitsAdd
<1>. QED BY <1>1, InvHolds, PTL

(* The API stays reachable at the gateway's port through every change, and *)
(* every way out of a change leaves one listener, which the file names.    *)
THEOREM PortIsServed == Spec => []PortAgrees
<1>1. Inv => PortAgrees
  BY DEF Inv, Typed, TypeOK, Changing, Steady, Pending, PortAgrees
<1>. QED BY <1>1, InvHolds, PTL

(* The relay passes the end of a direction on behind its last byte, and    *)
(* closes a connection when both directions are through.                   *)
THEOREM EndComesLast == Spec => EndAfterData
<1> DEFINE Step == \A k \in Conns : \A w \in Ways :
       (stage'[k][w] = "passed" /\ stage[k][w] # "passed") \/ (conn[k] = "relay" /\ conn'[k] = "done")
         => stage[k][w] # "open" /\ out[k][w] = sent[k][w]
<1>1. ASSUME Inv, Next PROVE Step
  <2> SUFFICES ASSUME NEW k \in Conns, NEW w \in Ways,
                      (stage'[k][w] = "passed" /\ stage[k][w] # "passed")
                        \/ (conn[k] = "relay" /\ conn'[k] = "done")
               PROVE  stage[k][w] # "open" /\ out[k][w] = sent[k][w]
    OBVIOUS
  <2>1. conn \in [Conns -> Waiting \cup Holding \cup Over]
        /\ stage \in [Conns -> [Ways -> {"open", "ended", "read", "passed"}]]
    BY <1>1 DEF Inv, Typed, TypeOK
  <2>2. CASE stage'[k][w] = "passed" /\ stage[k][w] # "passed"
    <3>1. PassEnd(k, w)
      BY <1>1, <2>1, <2>2
         DEF Next, ChangeStep, ChangeBegin, ChangeBind, ChangeThread, ChangeSave, ChangeSwap, ChangeEnd, Close,
             Retire, traffic, bytes, Connect, Accept, Serve, Relaying, GoesOn, RelayEnds, Reset, Hang,
             AllOpen, Send, Finish, Read, Write, PassEnd, Reach
    <3>. QED BY <1>1, <3>1 DEF PassEnd, Inv, ReadToEnd
  <2>3. CASE conn[k] = "relay" /\ conn'[k] = "done"
    <3>1. RelayEnds(k)
      BY <1>1, <2>1, <2>3
         DEF Next, ChangeStep, ChangeBegin, ChangeBind, ChangeThread, ChangeSave, ChangeSwap, ChangeEnd, Close,
             Retire, traffic, bytes, Connect, Accept, Serve, Relaying, GoesOn, RelayEnds, Reset, Hang,
             Leave, To, Send, Finish, Read, Write, PassEnd
    <3>2. stage[k][w] \in {"read", "passed"} /\ got[k][w] = out[k][w]
      BY <2>1, <3>1 DEF RelayEnds, GoesOn, Reading, Idle
    <3>. QED BY <1>1, <3>2 DEF Inv, ReadToEnd
  <2>. QED BY <2>2, <2>3
<1>2. Inv /\ [Next]_vars => [Step]_vars
  BY <1>1
<1>. QED BY <1>2, InvHolds, PTL DEF Spec, EndAfterData
=====
