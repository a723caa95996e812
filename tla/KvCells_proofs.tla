----------------------------- MODULE KvCells_proofs -----------------------------
(* Proofs about the attention memory, for any number of cells, sequences,   *)
(* windows and tokens in a part:                                            *)
(*   IndicesAgree      the indices of the cells agree with them (IInv)      *)
(*   KeysAreRotated    the keys follow the positions (Kept, Ordered, Keyed) *)
(*   RollBackRestores  the roll-back puts everything back (Recalled)        *)
(*   WindowIsSeen      a part sees what is in its windows (Spared)          *)
EXTENDS KvCells, FiniteSetTheorems, SequenceTheorems, WellFoundedInduction, TLAPS

LEMMA InPairs ==
  ASSUME NEW k, NEW s, NEW I, NEW x
  PROVE  x \in Pairs(k, s, I) <=> \E i \in I : s \in k.seq[i] /\ x = <<k.pos[i], i>>
BY DEF Pairs

(* Agreement, position by position.                                         *)
LEMMA AgreePoint ==
  ASSUME NEW k \in Memory
  PROVE  Agree(k) <=>
           \A i \in Cells :
             /\ i \in k.used <=> k.pos[i] # -1
             /\ k.pos[i] >= -1
             /\ k.pos[i] = -1 <=> k.seq[i] = {}
             /\ k.pos[i] = -1 \/ ~ k.hasShift => k.shift[i] = 0
             /\ \A s \in Seqs, p \in Int : <<p, i>> \in k.seqPos[s] <=> s \in k.seq[i] /\ p = k.pos[i]
<1> DEFINE Point ==
           \A i \in Cells :
             /\ i \in k.used <=> k.pos[i] # -1
             /\ k.pos[i] >= -1
             /\ k.pos[i] = -1 <=> k.seq[i] = {}
             /\ k.pos[i] = -1 \/ ~ k.hasShift => k.shift[i] = 0
             /\ \A s \in Seqs, p \in Int : <<p, i>> \in k.seqPos[s] <=> s \in k.seq[i] /\ p = k.pos[i]
<1>1. ASSUME Agree(k) PROVE Point
  <2>1. ASSUME NEW i \in Cells, NEW s \in Seqs, NEW p \in Int
        PROVE  <<p, i>> \in k.seqPos[s] <=> s \in k.seq[i] /\ p = k.pos[i]
    BY <1>1, <2>1 DEF Agree, Pairs
  <2> QED BY <1>1, <2>1 DEF Agree, Memory
<1>2. ASSUME Point PROVE Agree(k)
  <2>1. k.used = {i \in Cells : k.pos[i] # -1}
    BY <1>2 DEF Memory
  <2>2. ASSUME NEW s \in Seqs PROVE k.seqPos[s] = Pairs(k, s, Cells)
    <3>1. k.seqPos[s] \subseteq Int \X Cells
      BY <2>2 DEF Memory
    <3>2. Pairs(k, s, Cells) \subseteq Int \X Cells
      BY DEF Memory, Pairs
    <3>3. ASSUME NEW i \in Cells, NEW p \in Int
          PROVE  <<p, i>> \in k.seqPos[s] <=> <<p, i>> \in Pairs(k, s, Cells)
      BY <1>2, <2>2, <3>3 DEF Pairs
    <3>4. ASSUME NEW x \in Int \X Cells PROVE x \in k.seqPos[s] <=> x \in Pairs(k, s, Cells)
      <4>1. x = <<x[1], x[2]>> /\ x[1] \in Int /\ x[2] \in Cells
        OBVIOUS
      <4> QED BY <4>1, <3>3
    <3> QED BY <3>1, <3>2, <3>4
  <2> QED BY <1>2, <2>1, <2>2 DEF Agree
<1> QED BY <1>1, <1>2

LEMMA StripAgrees ==
  ASSUME NEW k, Agree(k), NEW gone \in [Cells -> SUBSET Seqs]
  PROVE  Agree(Strip(k, gone)) /\ Strip(k, gone).hasShift = k.hasShift
<1> DEFINE r == Strip(k, gone)
<1>1. k \in Memory
  BY DEF Agree
<1>2. r \in Memory
  BY <1>1 DEF Strip, Memory
<1>3. ASSUME NEW i \in Cells
      PROVE  /\ i \in r.used <=> r.pos[i] # -1
             /\ r.pos[i] >= -1
             /\ r.pos[i] = -1 <=> r.seq[i] = {}
             /\ r.pos[i] = -1 \/ ~ r.hasShift => r.shift[i] = 0
  BY <1>1, AgreePoint DEF Strip
<1>4. ASSUME NEW i \in Cells, NEW s \in Seqs, NEW p \in Int
      PROVE  <<p, i>> \in r.seqPos[s] <=> s \in r.seq[i] /\ p = r.pos[i]
  <2>1. <<p, i>> \in k.seqPos[s] <=> s \in k.seq[i] /\ p = k.pos[i]
    BY <1>1, AgreePoint
  <2>2. <<p, i>> \in r.seqPos[s] <=> s \in k.seq[i] /\ p = k.pos[i] /\ s \notin gone[i]
    BY <2>1, InPairs DEF Strip
  <2> QED BY <2>2 DEF Strip
<1> QED BY <1>2, <1>3, <1>4, AgreePoint DEF Strip

LEMMA ShareAgrees ==
  ASSUME NEW k, Agree(k), NEW I \in SUBSET {i \in Cells : k.pos[i] # -1}, NEW d \in Seqs
  PROVE  Agree(Share(k, I, d)) /\ Share(k, I, d).hasShift = k.hasShift
<1> DEFINE r == Share(k, I, d)
<1>1. k \in Memory
  BY DEF Agree
<1>2. r \in Memory
  BY <1>1 DEF Share, Memory
<1>3. ASSUME NEW i \in Cells
      PROVE  /\ i \in r.used <=> r.pos[i] # -1
             /\ r.pos[i] >= -1
             /\ r.pos[i] = -1 <=> r.seq[i] = {}
             /\ r.pos[i] = -1 \/ ~ r.hasShift => r.shift[i] = 0
  BY <1>1, AgreePoint DEF Share
<1>4. ASSUME NEW i \in Cells, NEW s \in Seqs, NEW p \in Int
      PROVE  <<p, i>> \in r.seqPos[s] <=> s \in r.seq[i] /\ p = r.pos[i]
  <2>1. <<p, i>> \in k.seqPos[s] <=> s \in k.seq[i] /\ p = k.pos[i]
    BY <1>1, AgreePoint
  <2>2. <<p, i>> \in r.seqPos[s] <=> p = k.pos[i] /\ (s \in k.seq[i] \/ (i \in I /\ s = d))
    <3>1. <<p, i>> \in {<<k.pos[j], j>> : j \in {j \in I : s = d}} <=> i \in I /\ s = d /\ p = k.pos[i]
      OBVIOUS
    <3>2. r.seqPos[s] = k.seqPos[s] \cup {<<k.pos[j], j>> : j \in {j \in I : s = d}}
      BY DEF Share
    <3> QED BY <2>1, <3>1, <3>2
  <2>3. r.pos[i] = k.pos[i] /\ r.seq[i] = IF i \in I THEN k.seq[i] \cup {d} ELSE k.seq[i]
    BY DEF Share
  <2> QED BY <2>2, <2>3
<1> QED BY <1>2, <1>3, <1>4, AgreePoint DEF Share

LEMMA PosAddAgrees ==
  ASSUME NEW k, Agree(k), NEW I \in SUBSET {i \in Cells : k.pos[i] # -1}, NEW d \in Int
  PROVE  Agree(PosAdd(k, I, d))
<1> DEFINE r == PosAdd(k, I, d)
<1>1. k \in Memory
  BY DEF Agree
<1>2. r \in Memory
  BY <1>1 DEF PosAdd, Memory
<1>3. ASSUME NEW i \in Cells
      PROVE  /\ i \in r.used <=> r.pos[i] # -1
             /\ r.pos[i] >= -1
             /\ r.pos[i] = -1 <=> r.seq[i] = {}
             /\ r.pos[i] = -1 \/ ~ r.hasShift => r.shift[i] = 0
  <2>1. /\ i \in k.used <=> k.pos[i] # -1
        /\ k.pos[i] >= -1
        /\ k.pos[i] = -1 <=> k.seq[i] = {}
        /\ k.pos[i] = -1 \/ ~ k.hasShift => k.shift[i] = 0
        /\ k.pos[i] \in Int
    BY <1>1, AgreePoint DEF Memory
  <2>2. CASE i \notin I
    BY <2>1, <2>2 DEF PosAdd
  <2>3. CASE i \in I /\ k.pos[i] + d < 0
    BY <2>1, <2>3 DEF PosAdd
  <2>4. CASE i \in I /\ k.pos[i] + d >= 0
    <3>a. ~ (k.pos[i] + d < 0)
      BY <2>1, <2>4
    <3>b. r.pos[i] = k.pos[i] + d
      BY <2>4, <3>a DEF PosAdd
    <3>c. r.seq[i] = k.seq[i]
      BY <2>4, <3>a DEF PosAdd
    <3>d. i \in r.used <=> i \in k.used
      BY <2>4, <3>a DEF PosAdd
    <3>e. r.hasShift = (k.hasShift \/ I # {})
      BY DEF PosAdd
    <3>1. r.hasShift
      BY <2>4, <3>e
    <3>2. k.pos[i] # -1 /\ k.pos[i] + d \in Int /\ k.pos[i] + d # -1
      BY <2>1, <2>4
    <3>3. r.pos[i] # -1 /\ r.pos[i] >= -1
      BY <2>1, <2>4, <3>b, <3>2
    <3> QED BY <2>1, <3>c, <3>d, <3>1, <3>2, <3>3
  <2> QED BY <2>1, <2>2, <2>3, <2>4
<1>4. ASSUME NEW i \in Cells, NEW s \in Seqs, NEW p \in Int
      PROVE  <<p, i>> \in r.seqPos[s] <=> s \in r.seq[i] /\ p = r.pos[i]
  <2>1. <<p, i>> \in k.seqPos[s] <=> s \in k.seq[i] /\ p = k.pos[i]
    BY <1>1, AgreePoint
  <2>2. k.pos[i] \in Int
    BY <1>1 DEF Memory
  <2>3. <<p, i>> \in r.seqPos[s] <=>
          s \in k.seq[i] /\ IF i \in I THEN p = k.pos[i] + d /\ p >= 0 ELSE p = k.pos[i]
    BY <2>1, <2>2, InPairs DEF PosAdd
  <2> QED BY <2>2, <2>3 DEF PosAdd
<1> QED BY <1>2, <1>3, <1>4, AgreePoint

LEMMA PosDivAgrees ==
  ASSUME NEW k, Agree(k), NEW I \in SUBSET {i \in Cells : k.pos[i] # -1}, NEW d \in Nat \ {0}
  PROVE  Agree(PosDiv(k, I, d))
<1> DEFINE r == PosDiv(k, I, d)
<1>1. k \in Memory
  BY DEF Agree
<1>a. ASSUME NEW i \in I PROVE i \in Cells /\ k.pos[i] \div d \in Int /\ k.pos[i] \div d >= 0
  <2>1. k.pos[i] \in Nat
    BY <1>1, AgreePoint DEF Memory
  <2> QED BY <2>1
<1>2. r \in Memory
  BY <1>1, <1>a DEF PosDiv, Memory
<1>3. ASSUME NEW i \in Cells
      PROVE  /\ i \in r.used <=> r.pos[i] # -1
             /\ r.pos[i] >= -1
             /\ r.pos[i] = -1 <=> r.seq[i] = {}
             /\ r.pos[i] = -1 \/ ~ r.hasShift => r.shift[i] = 0
  <2>1. /\ i \in k.used <=> k.pos[i] # -1
        /\ k.pos[i] >= -1
        /\ k.pos[i] = -1 <=> k.seq[i] = {}
        /\ k.pos[i] = -1 \/ ~ k.hasShift => k.shift[i] = 0
    BY <1>1, AgreePoint
  <2>2. /\ r.used = k.used /\ r.seq = k.seq /\ r.hasShift = (k.hasShift \/ I # {})
        /\ r.pos[i] = IF i \in I THEN k.pos[i] \div d ELSE k.pos[i]
        /\ i \notin I => r.shift[i] = k.shift[i]
    BY DEF PosDiv
  <2>3. CASE i \in I
    <3>1. k.pos[i] \div d \in Int /\ k.pos[i] \div d >= 0 /\ k.pos[i] # -1 /\ I # {}
      BY <2>3, <1>a
    <3>2. r.pos[i] # -1 /\ r.pos[i] >= -1
      BY <2>2, <2>3, <3>1
    <3>3. r.hasShift
      BY <2>2, <3>1
    <3> QED BY <2>1, <2>2, <3>1, <3>2, <3>3
  <2>4. CASE i \notin I
    BY <2>1, <2>2, <2>4
  <2> QED BY <2>3, <2>4
<1>4. ASSUME NEW i \in Cells, NEW s \in Seqs, NEW p \in Int
      PROVE  <<p, i>> \in r.seqPos[s] <=> s \in r.seq[i] /\ p = r.pos[i]
  <2>1. <<p, i>> \in k.seqPos[s] <=> s \in k.seq[i] /\ p = k.pos[i]
    BY <1>1, AgreePoint
  <2>2. <<p, i>> \in r.seqPos[s] <=>
          s \in k.seq[i] /\ p = IF i \in I THEN k.pos[i] \div d ELSE k.pos[i]
    BY <2>1, InPairs DEF PosDiv
  <2> QED BY <2>2 DEF PosDiv
<1> QED BY <1>2, <1>3, <1>4, AgreePoint

LEMMA FillAgrees ==
  ASSUME NEW k, Agree(k), NEW ub \in Seq(Tokens), NEW P \in SUBSET Cells,
  NEW p \in [P -> DOMAIN ub]
  PROVE  Agree(Fill(k, p, ub)) /\ Fill(k, p, ub).hasShift = k.hasShift
<1> DEFINE r == Fill(k, p, ub)
<1>1. k \in Memory
  BY DEF Agree
<1>a. ASSUME NEW i \in P PROVE ub[p[i]].pos \in Nat /\ ub[p[i]].seq \in Seqs
  <2>1. ub[p[i]] \in Tokens
    OBVIOUS
  <2> QED BY <2>1 DEF Tokens
<1>b. DOMAIN p = P
  OBVIOUS
<1>2. r \in Memory
  BY <1>1, <1>a, <1>b DEF Fill, Memory
<1>3. ASSUME NEW i \in Cells
      PROVE  /\ i \in r.used <=> r.pos[i] # -1
             /\ r.pos[i] >= -1
             /\ r.pos[i] = -1 <=> r.seq[i] = {}
             /\ r.pos[i] = -1 \/ ~ r.hasShift => r.shift[i] = 0
  BY <1>1, <1>a, <1>b, AgreePoint DEF Fill
<1>4. ASSUME NEW i \in Cells, NEW s \in Seqs, NEW q \in Int
      PROVE  <<q, i>> \in r.seqPos[s] <=> s \in r.seq[i] /\ q = r.pos[i]
  <2>1. <<q, i>> \in k.seqPos[s] <=> s \in k.seq[i] /\ q = k.pos[i]
    BY <1>1, AgreePoint
  <2>2. <<q, i>> \in r.seqPos[s] <=>
          IF i \in P THEN s = ub[p[i]].seq /\ q = ub[p[i]].pos ELSE s \in k.seq[i] /\ q = k.pos[i]
    BY <2>1, <1>b, InPairs DEF Fill
  <2> QED BY <2>2, <1>b DEF Fill
<1>5. r.hasShift = k.hasShift
  BY DEF Fill
<1> QED BY <1>2, <1>3, <1>4, <1>5, AgreePoint

(* What cp has saved of the cells P.                                        *)
IsCopy(o) ==
  \E P \in SUBSET Cells :
    /\ o.pos \in [P -> Int] /\ o.seq \in [P -> SUBSET Seqs]
    /\ \A i \in P : o.pos[i] >= -1 /\ (o.pos[i] = -1 <=> o.seq[i] = {})

LEMMA RestoreAgrees ==
  ASSUME NEW k, Agree(k), ~ k.hasShift, NEW old, IsCopy(old)
  PROVE  Agree(Restore(k, old)) /\ Restore(k, old).hasShift = k.hasShift
<1> PICK P \in SUBSET Cells :
      /\ old.pos \in [P -> Int] /\ old.seq \in [P -> SUBSET Seqs]
      /\ \A i \in P : old.pos[i] >= -1 /\ (old.pos[i] = -1 <=> old.seq[i] = {})
  BY DEF IsCopy
<1> DEFINE r == Restore(k, old)
<1>1. k \in Memory
  BY DEF Agree
<1>a. ASSUME NEW i \in P PROVE /\ old.pos[i] \in Int /\ old.seq[i] \in SUBSET Seqs
                               /\ old.pos[i] >= -1 /\ (old.pos[i] = -1 <=> old.seq[i] = {})
  OBVIOUS
<1>b. DOMAIN old.pos = P
  OBVIOUS
<1>2. r \in Memory
  BY <1>1, <1>a, <1>b DEF Restore, Memory, Pairs
<1>3. ASSUME NEW i \in Cells
      PROVE  /\ i \in r.used <=> r.pos[i] # -1
             /\ r.pos[i] >= -1
             /\ r.pos[i] = -1 <=> r.seq[i] = {}
             /\ r.pos[i] = -1 \/ ~ r.hasShift => r.shift[i] = 0
  BY <1>1, <1>a, <1>b, AgreePoint DEF Restore
<1>4. ASSUME NEW i \in Cells, NEW s \in Seqs, NEW q \in Int
      PROVE  <<q, i>> \in r.seqPos[s] <=> s \in r.seq[i] /\ q = r.pos[i]
  <2>1. <<q, i>> \in k.seqPos[s] <=> s \in k.seq[i] /\ q = k.pos[i]
    BY <1>1, AgreePoint
  <2>2. <<q, i>> \in r.seqPos[s] <=>
          IF i \in P THEN s \in old.seq[i] /\ q = old.pos[i] ELSE s \in k.seq[i] /\ q = k.pos[i]
    BY <2>1, <1>b, InPairs DEF Restore
  <2> QED BY <2>2, <1>b DEF Restore
<1> QED BY <1>2, <1>3, <1>4, AgreePoint DEF Restore

LEMMA SavedIsCopy ==
  ASSUME NEW k, Agree(k), NEW P \in SUBSET Cells
  PROVE  IsCopy([pos |-> [i \in P |-> k.pos[i]], seq |-> [i \in P |-> k.seq[i]], head |-> head])
BY DEF Agree, Memory, IsCopy

LEMMA OfUsed ==
  ASSUME NEW k, Agree(k), NEW s, NEW r
  PROVE  Of(k, s, r) \in SUBSET {i \in Cells : k.pos[i] # -1}
BY DEF Of, Agree

-----------------------------------------------------------------------------
(* The parts of a batch and their places.                                   *)

Slots == UNION {[P -> Nat] : P \in SUBSET Cells}

LEMMA FindSlotPlaces ==
  ASSUME NEW n \in Nat
  PROVE  /\ DOMAIN FindSlot(n) \in SUBSET Cells
         /\ FindSlot(n) \in [DOMAIN FindSlot(n) -> 1 .. n]
<1>1. \A i : Turn(i, n) \in Nat \ {0}
  <2>1. IsFiniteSet(Cells)
    BY SizesAssumption, FS_Interval DEF Cells
  <2>2. ASSUME NEW i PROVE {j \in Usable : Dist(j, n) < Dist(i, n)} \in SUBSET Cells
    BY DEF Usable
  <2>3. ASSUME NEW i PROVE Cardinality({j \in Usable : Dist(j, n) < Dist(i, n)}) \in Nat
    BY <2>1, <2>2, FS_Subset, FS_CardinalityType
  <2> QED BY <2>3 DEF Turn
<1> QED BY <1>1 DEF FindSlot, Usable

LEMMA PartsAreTokens ==
  ASSUME NEW toks \in Seq(Tokens)
  PROVE  Parts(toks) \in Seq(Seq(Tokens))
<1>1. Len(toks) \in Nat /\ NUbatch \in Nat /\ NUbatch >= 1
  BY SizesAssumption
<1>2. (Len(toks) + NUbatch - 1) \div NUbatch \in Nat
  BY <1>1
<1>3. ASSUME NEW k \in 1 .. (Len(toks) + NUbatch - 1) \div NUbatch
      PROVE  SubSeq(toks, (k - 1) * NUbatch + 1,
      IF k * NUbatch <= Len(toks) THEN k * NUbatch ELSE Len(toks))
               \in Seq(Tokens)
  <2> DEFINE lo == (k - 1) * NUbatch + 1
             hi == IF k * NUbatch <= Len(toks) THEN k * NUbatch ELSE Len(toks)
  <2>1. lo \in Int /\ hi \in Int /\ hi <= Len(toks)
    BY <1>1, <1>2
  <2>2. (k - 1) \in Nat
    BY <1>2
  <2>3. (k - 1) * NUbatch >= 0
    BY <1>1, <2>2
  <2>4. lo >= 1
    BY <1>1, <2>2, <2>3
  <2>5. \A i \in lo .. hi : toks[i] \in Tokens
    <3> HIDE DEF lo, hi
    <3> QED BY <1>1, <2>1, <2>4
  <2> HIDE DEF lo, hi
  <2>6. SubSeq(toks, lo, hi) \in Seq(Tokens)
    BY <2>1, <2>5, SubSeqProperties
  <2> QED BY <2>6 DEF lo, hi
<1> DEFINE l == (Len(toks) + NUbatch - 1) \div NUbatch
<1>4. Parts(toks) \in [1 .. l -> Seq(Tokens)]
  BY <1>3 DEF Parts
<1>5. l \in Nat
  BY <1>2
<1> HIDE DEF l
<1> QED BY <1>4, <1>5

LEMMA RunIsTokens ==
  ASSUME NEW s \in Seqs, NEW p \in Nat, NEW n \in Nat
  PROVE  RunOf(s, p, n) \in Seq(Tokens)
<1>1. ASSUME NEW k \in 1 .. n PROVE [pos |-> p + k - 1, seq |-> s] \in Tokens
  BY DEF Tokens
<1> QED BY <1>1 DEF RunOf

-----------------------------------------------------------------------------
(* The invariant: outside the callers' operations no shift waits, and every *)
(* part still to apply has a place for each of its tokens.                  *)

Fits == \A k \in 1 .. Len(plan) : \A i \in DOMAIN plan[k] : plan[k][i] \in 1 .. Len(batch[k])

PlanOK ==
  /\ plan \in Seq(Slots) /\ batch \in Seq(Seq(Tokens))
  /\ phase = "idle" => plan = <<>>
  /\ phase = "prepare" => Len(plan) <= Len(batch) /\ Fits
  /\ phase = "restore" => batch = <<>> \/ (Len(plan) = Len(batch) /\ Fits)
  /\ phase \in {"apply", "compute"} => batch # <<>> /\ Len(plan) = Len(batch) /\ Fits

SavedOK == \E S : saved \in Seq(S) /\ \A k \in 1 .. Len(saved) : IsCopy(saved[k])

IInv == Consistent /\ PlanOK /\ SavedOK /\ (phase # "idle" => ~ c.hasShift)

LEMMA ApplyAgrees ==
  ASSUME Agree(c), NEW ub \in Seq(Tokens), NEW P \in SUBSET Cells, NEW p \in [P -> 1 .. Len(ub)],
  Apply(p, ub)
  PROVE  Agree(c') /\ c'.hasShift = c.hasShift
<1>1. p \in [P -> DOMAIN ub]
  OBVIOUS
<1>2. Agree(Fill(c, p, ub)) /\ Fill(c, p, ub).hasShift = c.hasShift
  BY <1>1, FillAgrees
<1> DEFINE k == Fill(c, p, ub)
<1>3. [i \in Cells |-> {s \in Seqs : \E q \in Overwritten(p, s) : k.pos[i] <= q}] \in [Cells -> SUBSET Seqs]
  OBVIOUS
<1>4. c' = Strip(k, [i \in Cells |-> {s \in Seqs : \E q \in Overwritten(p, s) : k.pos[i] <= q}])
  BY DEF Apply, Purge
<1> HIDE DEF k
<1> QED BY <1>2, <1>3, <1>4, StripAgrees DEF k

LEMMA InitIInv == Init => IInv
<1> SUFFICES ASSUME Init PROVE IInv
  OBVIOUS
<1>1. c \in Memory
  BY DEF Init, Memory
<1>2. Agree(c)
  BY <1>1, AgreePoint DEF Init
<1>3. SavedOK
  <2>1. saved \in Seq({}) /\ Len(saved) = 0
    BY DEF Init
  <2> QED BY <2>1 DEF SavedOK
<1>4. PlanOK
  BY DEF Init, PlanOK
<1> QED BY <1>2, <1>3, <1>4 DEF Init, IInv, Consistent

LEMMA CallIInv ==
  ASSUME IInv, NEW k, Call(k), Agree(k)
  PROVE  IInv'
<1>1. phase = "idle" /\ UNCHANGED <<phase, batch, plan, saved>> /\ c' = k
  BY DEF Call, decoding
<1>2. PlanOK'
  BY <1>1 DEF IInv, PlanOK
<1>3. SavedOK'
  BY <1>1 DEF IInv, SavedOK
<1> QED BY <1>1, <1>2, <1>3 DEF IInv, Consistent

LEMMA CallsIInv == IInv /\ Calls => IInv'
<1> SUFFICES ASSUME IInv, Calls PROVE IInv'
  OBVIOUS
<1>a. Agree(c)
  BY DEF IInv, Consistent
<1>s. ASSUME NEW g \in [Cells -> SUBSET Seqs], Call(Strip(c, g)) PROVE IInv'
  BY <1>a, <1>s, StripAgrees, CallIInv
<1>1. CASE Clear
  BY <1>1, <1>s DEF Clear
<1>2. ASSUME NEW r \in Ranges, RemoveAny(r) PROVE IInv'
  <2>1. [i \in Cells |-> IF In(c, i, r) THEN Seqs ELSE {}] \in [Cells -> SUBSET Seqs]
    OBVIOUS
  <2> QED BY <1>2, <1>s, <2>1 DEF RemoveAny
<1>3. ASSUME NEW s \in Seqs, Keep(s) PROVE IInv'
  <2>1. [i \in Cells |-> Seqs \ {s}] \in [Cells -> SUBSET Seqs]
    OBVIOUS
  <2> QED BY <1>3, <1>s, <2>1 DEF Keep
<1>4. ASSUME NEW s \in Seqs, NEW r \in Ranges, Remove(s, r) PROVE IInv'
  <2>1. [i \in Cells |-> IF In(c, i, r) THEN {s} ELSE {}] \in [Cells -> SUBSET Seqs]
    OBVIOUS
  <2> QED BY <1>4, <1>s, <2>1 DEF Remove, SeqRm
<1>5. ASSUME NEW s \in Seqs, NEW d \in Seqs, NEW r \in Ranges, Copy(s, d, r) PROVE IInv'
  <2>1. Agree(Share(c, Of(c, s, r), d))
    BY <1>a, OfUsed, ShareAgrees
  <2> QED BY <1>5, <2>1, CallIInv DEF Copy
<1>6. ASSUME NEW s \in Seqs, NEW r \in Ranges, NEW d \in Shifts, Add(s, r, d) PROVE IInv'
  <2>1. d \in Int
    BY CallsAssumption
  <2>2. Agree(PosAdd(c, Of(c, s, r), d))
    BY <1>a, <2>1, OfUsed, PosAddAgrees
  <2> QED BY <1>6, <2>2, CallIInv DEF Add
<1>7. ASSUME NEW s \in Seqs, NEW r \in Ranges, NEW d \in Divisors, Div(s, r, d) PROVE IInv'
  <2>1. d \in Nat \ {0}
    BY CallsAssumption
  <2>2. Agree(PosDiv(c, Of(c, s, r), d))
    BY <1>a, <2>1, OfUsed, PosDivAgrees
  <2> QED BY <1>7, <2>2, CallIInv DEF Div
<1> QED BY <1>1, <1>2, <1>3, <1>4, <1>5, <1>6, <1>7 DEF Calls

LEMMA DecodeIInv ==
  ASSUME IInv, NEW s \in Seqs, NEW t \in Seqs, NEW n \in 1 .. MaxBatch, NEW m \in 0 .. MaxBatch,
         Decode(s, n, t, m)
  PROVE  IInv'
<1> PICK p \in 0 .. MaxPos, q \in 0 .. MaxPos : batch' = Parts(RunOf(s, p, n) \o RunOf(t, q, m))
  BY DEF Decode
<1>1. n \in Nat /\ m \in Nat /\ p \in Nat /\ q \in Nat
  BY SizesAssumption
<1>2. batch' \in Seq(Seq(Tokens))
  <2>1. RunOf(s, p, n) \in Seq(Tokens) /\ RunOf(t, q, m) \in Seq(Tokens)
    BY <1>1, RunIsTokens
  <2>2. RunOf(s, p, n) \o RunOf(t, q, m) \in Seq(Tokens)
    BY <2>1, ConcatProperties
  <2> QED BY <2>2, PartsAreTokens
<1>3. phase = "idle" /\ phase' = "prepare" /\ plan' = plan /\ saved' = saved /\ plan = <<>>
  BY DEF Decode, IInv, PlanOK
<1>4. Agree(c') /\ ~ c'.hasShift
  <2>0. Agree(c) /\ c \in Memory
    BY DEF IInv, Consistent, Agree
  <2>1. CASE ~ c.hasShift
    BY <2>0, <2>1 DEF Decode
  <2>2. CASE c.hasShift
    <3>1. c' = [c EXCEPT !.shift = [i \in Cells |-> 0], !.hasShift = FALSE]
      BY <2>2 DEF Decode
    <3>a. c = [pos |-> c.pos, seq |-> c.seq, shift |-> c.shift, used |-> c.used,
    seqPos |-> c.seqPos,
               hasShift |-> c.hasShift]
      BY <2>0 DEF Memory
    <3>b. c' = [pos |-> c.pos, seq |-> c.seq, shift |-> [i \in Cells |-> 0], used |-> c.used,
                seqPos |-> c.seqPos, hasShift |-> FALSE]
      BY <3>1, <3>a
    <3>2. c' \in Memory /\ c'.pos = c.pos /\ c'.seq = c.seq /\ c'.used = c.used
          /\ c'.seqPos = c.seqPos
          /\ c'.shift = [i \in Cells |-> 0] /\ c'.hasShift = FALSE
      BY <2>0, <3>b DEF Memory
    <3>3. \A u \in Seqs : Pairs(c', u, Cells) = Pairs(c, u, Cells)
      BY <3>2 DEF Pairs
    <3> QED BY <2>0, <3>2, <3>3 DEF Agree
  <2> QED BY <2>1, <2>2
<1>5. PlanOK'
  BY <1>2, <1>3 DEF PlanOK, Fits, IInv
<1>6. SavedOK'
  BY <1>3 DEF IInv, SavedOK
<1> QED BY <1>3, <1>4, <1>5, <1>6 DEF IInv, Consistent

LEMMA PrepareIInv == IInv /\ PrepareUbatch => IInv'
<1> SUFFICES ASSUME IInv, PrepareUbatch PROVE IInv'
  OBVIOUS
<1> DEFINE ub == batch[Len(plan) + 1]
           p  == FindSlot(Len(ub))
<1>1. /\ phase = "prepare" /\ Len(plan) < Len(batch) /\ Len(plan) \in Nat /\ Len(batch) \in Nat
      /\ plan \in Seq(Slots) /\ batch \in Seq(Seq(Tokens)) /\ Fits /\ Agree(c) /\ ~ c.hasShift
  BY DEF PrepareUbatch, IInv, PlanOK, Consistent
<1>2. ub \in Seq(Tokens) /\ Len(ub) \in Nat
  BY <1>1
<1>3. DOMAIN p \in SUBSET Cells /\ p \in [DOMAIN p -> 1 .. Len(ub)]
  BY <1>2, FindSlotPlaces
<1>4. CASE phase' = "restore" /\ batch' = <<>> /\ UNCHANGED <<c, head, plan, saved>>
  <2>1. PlanOK'
    BY <1>1, <1>4 DEF PlanOK
  <2>2. SavedOK'
    BY <1>4 DEF IInv, SavedOK
  <2> QED BY <1>1, <1>4, <2>1, <2>2 DEF IInv, Consistent
<1>5. CASE /\ plan' = Append(plan, p) /\ saved' = Append(saved, Saved(c, DOMAIN p))
           /\ Apply(p, ub) /\ UNCHANGED <<phase, batch>>
  <2>1. Agree(c') /\ ~ c'.hasShift
    BY <1>1, <1>2, <1>3, <1>5, ApplyAgrees
  <2>2. p \in Slots
    BY <1>3 DEF Slots
  <2> HIDE DEF p
  <2>3. plan' \in Seq(Slots) /\ Len(plan') = Len(plan) + 1 /\ plan'[Len(plan) + 1] = p
        /\ \A k \in 1 .. Len(plan) : plan'[k] = plan[k]
    BY <1>1, <1>5, <2>2
  <2>4. Fits'
    <3> SUFFICES ASSUME NEW k \in 1 .. Len(plan'), NEW i \in DOMAIN plan'[k]
                 PROVE  plan'[k][i] \in 1 .. Len(batch'[k])
      BY DEF Fits
    <3>1. CASE k \in 1 .. Len(plan)
      BY <1>1, <1>5, <2>3, <3>1 DEF Fits
    <3>2. CASE k = Len(plan) + 1
      BY <1>3, <1>5, <2>3, <3>2
    <3> QED BY <1>1, <2>3, <3>1, <3>2
  <2>5. PlanOK'
    BY <1>1, <1>5, <2>3, <2>4 DEF PlanOK
  <2>6. SavedOK'
    <3> PICK S : saved \in Seq(S) /\ \A k \in 1 .. Len(saved) : IsCopy(saved[k])
      BY DEF IInv, SavedOK
    <3> DEFINE o == Saved(c, DOMAIN p)
               T == S \cup {o}
    <3>1. IsCopy(o)
      BY <1>1, <1>3, SavedIsCopy DEF Saved
    <3> HIDE DEF o
    <3>2. saved \in Seq(T) /\ o \in T /\ saved' = Append(saved, o)
      BY <1>5 DEF o
    <3> HIDE DEF T
    <3>3. saved' \in Seq(T) /\ Len(saved') = Len(saved) + 1 /\ saved'[Len(saved) + 1] = o
          /\ Len(saved) \in Nat /\ \A k \in 1 .. Len(saved) : saved'[k] = saved[k]
      BY <3>2
    <3>4. \A k \in 1 .. Len(saved') : IsCopy(saved'[k])
      BY <3>1, <3>3
    <3> QED BY <3>3, <3>4 DEF SavedOK
  <2>7. \A k \in DOMAIN plan' : DOMAIN plan'[k] \subseteq Cells
    BY <2>3 DEF Slots
  <2> QED BY <1>1, <1>5, <2>1, <2>5, <2>6, <2>7 DEF IInv, Consistent
<1> QED BY <1>4, <1>5 DEF PrepareUbatch

LEMMA PreparedIInv == IInv /\ Prepared => IInv'
<1> SUFFICES ASSUME IInv, Prepared PROVE IInv'
  OBVIOUS
<1>1. PlanOK'
  BY DEF Prepared, IInv, PlanOK, Fits
<1>2. SavedOK'
  BY DEF Prepared, IInv, SavedOK
<1> QED BY <1>1, <1>2 DEF Prepared, IInv, Consistent

LEMMA RestoreIInv == IInv /\ RestoreUbatch => IInv'
<1> SUFFICES ASSUME IInv, RestoreUbatch PROVE IInv'
  OBVIOUS
<1> PICK S : saved \in Seq(S) /\ \A k \in 1 .. Len(saved) : IsCopy(saved[k])
  BY DEF IInv, SavedOK
<1>1. /\ phase = "restore" /\ saved # <<>> /\ UNCHANGED <<phase, batch, plan>>
      /\ c' = Restore(c, saved[Len(saved)]) /\ saved' = SubSeq(saved, 1, Len(saved) - 1)
  BY DEF RestoreUbatch
<1>2. Len(saved) \in Nat /\ Len(saved) >= 1
  BY <1>1
<1>3. Agree(c') /\ ~ c'.hasShift
  <2>1. Agree(c) /\ ~ c.hasShift
    BY <1>1 DEF IInv, Consistent
  <2>2. IsCopy(saved[Len(saved)])
    BY <1>2
  <2> QED BY <1>1, <2>1, <2>2, RestoreAgrees
<1>4. SavedOK'
  <2>1. Len(saved) - 1 \in Int /\ \A i \in 1 .. Len(saved) - 1 : saved[i] \in S
    BY <1>2
  <2>2. /\ saved' \in Seq(S)
        /\ Len(saved') = IF 1 <= Len(saved) - 1 THEN Len(saved) - 1 - 1 + 1 ELSE 0
        /\ \A i \in 1 .. Len(saved) - 1 - 1 + 1 : saved'[i] = saved[1 + i - 1]
    BY <1>1, <2>1, SubSeqProperties
  <2>3. \A i \in 1 .. Len(saved') : saved'[i] = saved[i] /\ i \in 1 .. Len(saved)
    BY <1>2, <2>2
  <2> QED BY <2>2, <2>3 DEF SavedOK
<1>5. PlanOK'
  BY <1>1 DEF IInv, PlanOK, Fits
<1> QED BY <1>1, <1>3, <1>4, <1>5 DEF IInv, Consistent

LEMMA RestoredIInv == IInv /\ Restored => IInv'
<1> SUFFICES ASSUME IInv, Restored PROVE IInv'
  OBVIOUS
<1>1. SavedOK'
  BY DEF Restored, IInv, SavedOK
<1>2. CASE batch = <<>>
  <2>1. PlanOK'
    BY <1>2 DEF Restored, Idle, IInv, PlanOK
  <2> QED BY <1>1, <1>2, <2>1 DEF Restored, Idle, IInv, Consistent
<1>3. CASE batch # <<>>
  <2>1. PlanOK'
    BY <1>3 DEF Restored, IInv, PlanOK, Fits
  <2> QED BY <1>1, <1>3, <2>1 DEF Restored, IInv, Consistent
<1> QED BY <1>2, <1>3

LEMMA ApplyIInv == IInv /\ ApplyUbatch => IInv'
<1> SUFFICES ASSUME IInv, ApplyUbatch PROVE IInv'
  OBVIOUS
<1>1. /\ phase = "apply" /\ phase' = "compute" /\ UNCHANGED <<batch, plan, saved>>
      /\ Apply(plan[1], batch[1])
      /\ Len(plan) = Len(batch) /\ batch # <<>> /\ Fits
      /\ plan \in Seq(Slots) /\ batch \in Seq(Seq(Tokens)) /\ Agree(c) /\ ~ c.hasShift
  BY DEF ApplyUbatch, IInv, PlanOK, Consistent
<1>2. Len(batch) \in Nat /\ Len(batch) >= 1 /\ batch[1] \in Seq(Tokens) /\ plan[1] \in Slots
  BY <1>1
<1>3. DOMAIN plan[1] \in SUBSET Cells /\ plan[1] \in [DOMAIN plan[1] -> 1 .. Len(batch[1])]
  <2>1. \A i \in DOMAIN plan[1] : plan[1][i] \in 1 .. Len(batch[1])
    BY <1>1, <1>2 DEF Fits
  <2> QED BY <1>2, <2>1 DEF Slots
<1>4. Agree(c') /\ ~ c'.hasShift
  BY <1>1, <1>2, <1>3, ApplyAgrees
<1>5. PlanOK'
  BY <1>1 DEF PlanOK, Fits
<1>6. SavedOK'
  BY <1>1 DEF IInv, SavedOK
<1> QED BY <1>1, <1>4, <1>5, <1>6 DEF IInv, Consistent

LEMMA ComputedIInv == IInv /\ Computed => IInv'
<1> SUFFICES ASSUME IInv, Computed PROVE IInv'
  OBVIOUS
<1>1. /\ phase = "compute" /\ batch' = Tail(batch) /\ plan' = Tail(plan) /\ UNCHANGED <<c, saved>>
      /\ Len(plan) = Len(batch) /\ batch # <<>> /\ Fits
      /\ plan \in Seq(Slots) /\ batch \in Seq(Seq(Tokens)) /\ Agree(c) /\ ~ c.hasShift
  BY DEF Computed, IInv, PlanOK, Consistent
<1>2. Len(batch) \in Nat /\ Len(batch) >= 1 /\ plan # <<>>
  BY <1>1
<1>3. /\ batch' \in Seq(Seq(Tokens)) /\ Len(batch') = Len(batch) - 1
      /\ plan' \in Seq(Slots) /\ Len(plan') = Len(plan) - 1
      /\ \A k \in 1 .. Len(plan') : plan'[k] = plan[k + 1] /\ batch'[k] = batch[k + 1]
  BY <1>1, <1>2, HeadTailProperties
<1>4. Fits'
  BY <1>1, <1>2, <1>3 DEF Fits
<1>5. phase' = IF Len(batch) = 1 THEN "idle" ELSE "apply"
  BY DEF Computed, Idle
<1>6. PlanOK'
  <2>1. CASE Len(batch) = 1
    BY <1>1, <1>3, <1>5, <2>1 DEF PlanOK
  <2>2. CASE Len(batch) # 1
    <3>1. phase' = "apply" /\ Len(batch') # 0 /\ Len(plan') = Len(batch')
      BY <1>1, <1>2, <1>3, <1>5, <2>2
    <3>2. batch' # <<>>
      BY <3>1
    <3> QED BY <1>3, <1>4, <3>1, <3>2 DEF PlanOK
  <2> QED BY <2>1, <2>2
<1>7. SavedOK'
  BY <1>1 DEF IInv, SavedOK
<1>8. \A k \in DOMAIN plan' : DOMAIN plan'[k] \subseteq Cells
  BY <1>3 DEF Slots
<1> QED BY <1>1, <1>5, <1>6, <1>7, <1>8 DEF IInv, Consistent

LEMMA ComputeFailsIInv == IInv /\ ComputeFails => IInv'
<1> SUFFICES ASSUME IInv, ComputeFails PROVE IInv'
  OBVIOUS
<1> DEFINE g == [i \in Cells |-> {s \in Seqs : \E k \in DOMAIN batch[1] :
                                     batch[1][k].seq = s /\ batch[1][k].pos <= c.pos[i]}]
<1>1. c' = Strip(c, g) /\ batch' = <<>> /\ plan' = <<>> /\ phase' = "idle" /\ saved' = saved
  BY DEF ComputeFails, Idle
<1>2. g \in [Cells -> SUBSET Seqs]
  OBVIOUS
<1> HIDE DEF g
<1>3. Agree(c')
  BY <1>1, <1>2, StripAgrees DEF IInv, Consistent
<1>4. PlanOK'
  BY <1>1 DEF PlanOK
<1>5. SavedOK'
  BY <1>1 DEF IInv, SavedOK
<1> QED BY <1>1, <1>3, <1>4, <1>5 DEF IInv, Consistent

-----------------------------------------------------------------------------
LEMMA IInvStep == IInv /\ [Next]_vars => IInv'
<1> SUFFICES ASSUME IInv, [Next]_vars PROVE IInv'
  OBVIOUS
<1>1. CASE Calls
  BY <1>1, CallsIInv
<1>2. CASE DecodeSteps
  BY <1>2, PrepareIInv, PreparedIInv, RestoreIInv, RestoredIInv, ApplyIInv, ComputedIInv,
     ComputeFailsIInv DEF DecodeSteps
<1>3. CASE \E s, t \in Seqs, n \in 1 .. MaxBatch, m \in 0 .. MaxBatch : Decode(s, n, t, m)
  BY <1>3, DecodeIInv
<1>4. CASE UNCHANGED vars
  <2>1. PlanOK' /\ SavedOK'
    BY <1>4 DEF vars, IInv, PlanOK, Fits, SavedOK
  <2> QED BY <1>4, <2>1 DEF vars, IInv, Consistent
<1> QED BY <1>1, <1>2, <1>3, <1>4 DEF Next

(* The indices of the cells agree with the cells in every state (the loops  *)
(* of llama_kv_cache keep used and seq_pos true to pos and seq), also in    *)
(* the middle of a prepare, after its roll-back and after a failed part.    *)
THEOREM IndicesAgree == Spec => []Consistent
<1>1. IInv => Consistent
  BY DEF IInv
<1> QED BY InitIInv, IInvStep, <1>1, PTL DEF Spec

(* The least of a set of numbers, and the greatest of a finite set by a     *)
(* measure: a smallest set without one has a smaller one without.           *)
LEMMA LeastOf ==
  ASSUME NEW T, T \subseteq Nat, T # {}
  PROVE  \E x \in T : \A y \in T : x <= y
<1>1. PICK x \in T : \A y \in T : ~ (<<y, x>> \in OpToRel(<, Nat))
  BY NatLessThanWellFounded, WFMin
<1>2. \A y \in T : ~ (y < x)
  BY <1>1 DEF OpToRel
<1> QED BY <1>2

LEMMA FirstIs ==
  ASSUME NEW K, K \subseteq Nat, K # {}
  PROVE  First(K) \in K /\ \A j \in K : First(K) <= j
<1>1. \E k \in K : \A j \in K : k <= j
  BY LeastOf
<1> QED BY <1>1 DEF First

LEMMA GreatestOf ==
  ASSUME NEW U, IsFiniteSet(U), NEW f \in [U -> Int], U # {}
  PROVE  \E x \in U : \A y \in U : f[y] <= f[x]
<1> DEFINE Top(V) == \E x \in V : \A y \in V : f[y] <= f[x]
           T == {n \in Nat : \E V \in SUBSET U : V # {} /\ Cardinality(V) = n /\ ~ Top(V)}
<1>a. \A V \in SUBSET U : IsFiniteSet(V) /\ Cardinality(V) \in Nat
  BY FS_Subset, FS_CardinalityType
<1>1. SUFFICES ASSUME T # {} PROVE FALSE
  <2>1. Cardinality(U) \in Nat /\ U \in SUBSET U
    BY <1>a
  <2> QED BY <2>1, <1>1
<1>2. PICK n \in T : \A m \in T : n <= m
  BY <1>1, LeastOf
<1>3. PICK V \in SUBSET U : V # {} /\ Cardinality(V) = n /\ ~ Top(V)
  OBVIOUS
<1>4. PICK x : x \in V
  BY <1>3
<1>5. Cardinality(V \ {x}) = n - 1 /\ n - 1 \in Nat
  <2>1. Cardinality(V \ {x}) = Cardinality(V) - 1
    BY <1>a, <1>4, FS_RemoveElement
  <2>2. Cardinality(V \ {x}) \in Nat
    BY <1>a
  <2> QED BY <1>3, <2>1, <2>2
<1>6. V \ {x} # {}
  <2>1. SUFFICES ASSUME V = {x} PROVE Top(V)
    BY <1>3, <1>4
  <2> QED BY <2>1
<1>7. Top(V \ {x})
  <2>1. n - 1 \notin T
    BY <1>2, <1>5
  <2>2. V \ {x} \in SUBSET U
    OBVIOUS
  <2> QED BY <2>1, <2>2, <1>5, <1>6
<1>8. PICK y \in V \ {x} : \A z \in V \ {x} : f[z] <= f[y]
  BY <1>7
<1>9. \A z \in V : f[z] \in Int
  OBVIOUS
<1>10. CASE f[x] <= f[y]
  BY <1>3, <1>8, <1>10
<1>11. CASE ~ (f[x] <= f[y])
  BY <1>3, <1>4, <1>8, <1>9, <1>11
<1> QED BY <1>10, <1>11

LEMMA CellsFinite == N \in Nat /\ N >= 1 /\ IsFiniteSet(Cells) /\ Cells \subseteq Nat
<1>1. N \in Nat /\ N >= 1
  BY SizesAssumption
<1>2. IsFiniteSet(0 .. N - 1)
  BY <1>1, FS_Interval
<1> QED BY <1>1, <1>2 DEF Cells

(* seq_pos_max is the last position of a sequence that has one.             *)
LEMMA PosMaxIs ==
  ASSUME NEW k, Agree(k), NEW s \in Seqs
  PROVE  /\ Positions(k, s) = {k.pos[i] : i \in {j \in Cells : s \in k.seq[j]}}
         /\ PosMax(k, s) \in Int /\ PosMax(k, s) >= -1
         /\ \A i \in Cells : s \in k.seq[i] => k.pos[i] <= PosMax(k, s)
         /\ PosMax(k, s) # -1 => PosMax(k, s) \in Positions(k, s)
<1> DEFINE U == {j \in Cells : s \in k.seq[j]}
<1>1. k \in Memory
  BY DEF Agree
<1>2. k.seqPos[s] = {<<k.pos[i], i>> : i \in U}
  BY DEF Agree, Pairs
<1>3. Positions(k, s) = {k.pos[i] : i \in U}
  <2> DEFINE pair(i) == <<k.pos[i], i>>
  <2>1. \A i : pair(i)[1] = k.pos[i]
    OBVIOUS
  <2>2. k.seqPos[s] = {pair(i) : i \in U}
    BY <1>2
  <2> HIDE DEF pair, U
  <2>3. {x[1] : x \in {pair(i) : i \in U}} = {k.pos[i] : i \in U}
    BY <2>1
  <2> QED BY <2>2, <2>3 DEF Positions
<1>4. \A i \in U : k.pos[i] \in Int /\ k.pos[i] >= 0
  BY <1>1, AgreePoint DEF Memory
<1>5. CASE U = {}
  BY <1>2, <1>3, <1>5 DEF PosMax
<1>6. CASE U # {}
  <2>1. IsFiniteSet(U)
    BY CellsFinite, FS_Subset
  <2> DEFINE f == [i \in U |-> k.pos[i]]
  <2>2. f \in [U -> Int]
    BY <1>4
  <2>3. PICK x \in U : \A y \in U : f[y] <= f[x]
    BY <1>6, <2>1, <2>2, GreatestOf
  <2>4. \A y \in U : k.pos[y] <= k.pos[x]
    BY <2>3
  <2>5. k.seqPos[s] # {}
    BY <1>2, <1>6
  <2>6. \E p \in Positions(k, s) : \A q \in Positions(k, s) : q <= p
    BY <1>3, <2>4
  <2>7. PosMax(k, s) \in Positions(k, s) /\ \A q \in Positions(k, s) : q <= PosMax(k, s)
    BY <2>5, <2>6 DEF PosMax
  <2>8. PosMax(k, s) \in Int /\ PosMax(k, s) >= 0
    BY <1>3, <1>4, <2>7
  <2> QED BY <1>3, <2>7, <2>8
<1> QED BY <1>5, <1>6

LEMMA SameRemainder ==
  ASSUME NEW m \in Nat, m >= 1, NEW a \in Int, NEW b \in Int, a % m = b % m, a - b < m, b - a < m
  PROVE  a = b
<1>1. PICK x \in Int, y \in Int, r \in Int : a = m * x + r /\ b = m * y + r
  <2>1. a = m * (a \div m) + (a % m) /\ b = m * (b \div m) + (b % m)
    OBVIOUS
  <2>2. a \div m \in Int /\ b \div m \in Int /\ a % m \in Int
    OBVIOUS
  <2> QED BY <2>1, <2>2
<1>2. m * x \in Int /\ m * y \in Int /\ a - b = m * x - m * y
  BY <1>1
<1>3. a - b = m * (x - y) /\ b - a = m * (y - x)
  BY <1>2
<1>4. ASSUME NEW d \in Int, d >= 1 PROVE m * d >= m
  BY <1>4
<1>5. CASE x - y >= 1
  BY <1>3, <1>4, <1>5
<1>6. CASE y - x >= 1
  BY <1>3, <1>4, <1>6
<1>7. CASE x = y
  BY <1>1, <1>7
<1> QED BY <1>5, <1>6, <1>7

LEMMA DistApart ==
  ASSUME head \in Nat, NEW n \in Nat, NEW i \in Cells, NEW j \in Cells, Dist(i, n) = Dist(j, n)
  PROVE  i = j
<1> DEFINE a == i + N - Start(n)
           b == j + N - Start(n)
<1>1. N \in Nat /\ N >= 1 /\ i \in Int /\ j \in Int /\ i - j < N /\ j - i < N
  BY CellsFinite DEF Cells
<1>2. Start(n) \in Int
  BY DEF Start
<1>3. a \in Int /\ b \in Int /\ a - b = i - j /\ b - a = j - i /\ a % N = b % N
  BY <1>1, <1>2 DEF Dist
<1> HIDE DEF a, b
<1>4. a = b
  BY <1>1, <1>3, SameRemainder
<1> QED BY <1>1, <1>3, <1>4

(* The search gives its turns out without a gap: as many cells as the part  *)
(* has tokens, one for each.                                                *)
LEMMA FindSlotFills ==
  ASSUME head \in Nat, NEW n \in Nat, Cardinality(Usable) >= n, NEW m \in 1 .. n
  PROVE  \E i \in DOMAIN FindSlot(n) : FindSlot(n)[i] = m
<1> DEFINE Below(i) == {j \in Usable : Dist(j, n) < Dist(i, n)}
           u == Cardinality(Usable)
           turn == [i \in Usable |-> 1 + Cardinality(Below(i))]
<1>1. \A V \in SUBSET Usable : IsFiniteSet(V) /\ Cardinality(V) \in Nat /\ Cardinality(V) <= u
  <2>1. IsFiniteSet(Usable)
    <3>1. Usable \in SUBSET Cells
      BY DEF Usable
    <3> QED BY <3>1, CellsFinite, FS_Subset
  <2> QED BY <2>1, FS_Subset, FS_CardinalityType
<1>2. u \in Nat /\ IsFiniteSet(Usable) /\ Usable \subseteq Cells
  BY <1>1 DEF Usable
<1>3. \A i \in Usable : Dist(i, n) \in Int
  <2>1. N \in Nat /\ N >= 1
    BY CellsFinite
  <2>2. Start(n) \in Int
    BY DEF Start
  <2> QED BY <1>2, <2>1, <2>2, CellsFinite DEF Dist
<1>4. ASSUME NEW i \in Usable, NEW V \in SUBSET Usable, Below(i) \subseteq V, i \in V
      PROVE  Cardinality(Below(i)) + 1 <= Cardinality(V)
  <2>1. i \notin Below(i)
    BY <1>3
  <2>2. Cardinality(Below(i) \cup {i}) = Cardinality(Below(i)) + 1
    BY <1>1, <2>1, FS_AddElement
  <2>3. Below(i) \cup {i} \in SUBSET V /\ IsFiniteSet(V)
    BY <1>1, <1>4
  <2>4. Cardinality(Below(i) \cup {i}) <= Cardinality(V)
    BY <2>3, FS_Subset
  <2> QED BY <2>2, <2>4
<1>5. turn \in [Usable -> 1 .. u]
  <2> SUFFICES ASSUME NEW i \in Usable PROVE 1 + Cardinality(Below(i)) \in 1 .. u
    OBVIOUS
  <2>1. Cardinality(Below(i)) + 1 <= u /\ Cardinality(Below(i)) \in Nat
    BY <1>1, <1>4
  <2> QED BY <1>2, <2>1
<1>6. ASSUME NEW i \in Usable, NEW j \in Usable, Dist(i, n) < Dist(j, n) PROVE turn[i] < turn[j]
  <2>1. Below(i) \subseteq Below(j) /\ i \in Below(j)
    BY <1>3, <1>6
  <2>2. Cardinality(Below(i)) + 1 <= Cardinality(Below(j))
    BY <1>4, <2>1
  <2>3. Cardinality(Below(i)) \in Nat /\ Cardinality(Below(j)) \in Nat
    BY <1>1
  <2> QED BY <2>2, <2>3
<1>7. ASSUME NEW i \in Usable, NEW j \in Usable, turn[i] = turn[j] PROVE i = j
  <2>1. turn[i] \in Int /\ turn[j] \in Int
    BY <1>5
  <2>2. Dist(i, n) = Dist(j, n)
    BY <1>3, <1>6, <1>7, <2>1
  <2> QED BY <1>2, <2>2, DistApart
<1>8. turn \in Injection(Usable, 1 .. u)
  BY <1>5, <1>7 DEF Injection, IsInjective
<1>9. IsFiniteSet(1 .. u) /\ Cardinality(1 .. u) = u
  BY <1>2, FS_Interval
<1>10. turn \in Surjection(Usable, 1 .. u)
  BY <1>8, <1>9, <1>2, FS_Injection
<1>11. m \in 1 .. u
  BY <1>2
<1>12. PICK i \in Usable : turn[i] = m
  BY <1>10, <1>11 DEF Surjection
<1>13. Turn(i, n) = m
  BY <1>12 DEF Turn
<1> QED BY <1>13, <1>12 DEF FindSlot


(* The m-th token of the k-th part is the (k - 1) NUbatch + m-th of them.   *)
LEMMA PartToken ==
  ASSUME NEW toks \in Seq(Tokens), NEW k \in DOMAIN Parts(toks)
  PROVE  /\ k \in Nat /\ k >= 1 /\ Parts(toks)[k] # <<>>
         /\ \A m \in DOMAIN Parts(toks)[k] :
              /\ m \in 1 .. NUbatch /\ (k - 1) * NUbatch + m \in 1 .. Len(toks)
              /\ Parts(toks)[k][m] = toks[(k - 1) * NUbatch + m]
<1> DEFINE L == Len(toks)
           l == (L + NUbatch - 1) \div NUbatch
           lo == (k - 1) * NUbatch + 1
           hi == IF k * NUbatch <= L THEN k * NUbatch ELSE L
<1>1. L \in Nat /\ NUbatch \in Nat /\ NUbatch >= 1
  BY SizesAssumption
<1>2. l \in Nat
  BY <1>1
<1>3. k \in 1 .. l /\ Parts(toks)[k] = SubSeq(toks, lo, hi)
  BY DEF Parts
<1>4. NUbatch * l <= L + NUbatch - 1
  BY <1>1
<1> HIDE DEF l
<1>5. k \in Nat /\ k >= 1 /\ k <= l
  BY <1>2, <1>3
<1>6. NUbatch * k <= NUbatch * l
  <2>1. NUbatch * (l - k) >= 0
    BY <1>1, <1>2, <1>5
  <2> QED BY <1>1, <1>2, <1>5, <2>1
<1>7. k * NUbatch = NUbatch * k /\ (k - 1) * NUbatch = NUbatch * k - NUbatch
      /\ NUbatch * k \in Int
  BY <1>1, <1>5
<1>8. lo \in Int /\ hi \in Int /\ lo >= 1 /\ lo <= hi /\ hi <= L /\ hi - lo + 1 <= NUbatch
  <2>1. (k - 1) * NUbatch >= 0
    BY <1>1, <1>5
  <2>2. NUbatch * l \in Int
    BY <1>1, <1>2
  <2> QED BY <1>1, <1>4, <1>6, <1>7, <2>1, <2>2
<1>9. L = Len(toks)
  OBVIOUS
<1> HIDE DEF lo, hi, L
<1>10. \A i \in lo .. hi : toks[i] \in Tokens
  BY <1>8, <1>9
<1> DEFINE sub == SubSeq(toks, lo, hi)
<1>11. /\ sub \in Seq(Tokens)
       /\ Len(sub) = IF lo <= hi THEN hi - lo + 1 ELSE 0
       /\ \A i \in 1 .. hi - lo + 1 : sub[i] = toks[lo + i - 1]
  BY <1>8, <1>10, SubSeqProperties
<1>a. Parts(toks)[k] = sub
  BY <1>3
<1> HIDE DEF sub
<1>12. DOMAIN Parts(toks)[k] = 1 .. hi - lo + 1 /\ Parts(toks)[k] # <<>>
  <2>1. hi - lo + 1 >= 1 /\ Len(sub) = hi - lo + 1
    BY <1>8, <1>11
  <2> QED BY <1>a, <1>11, <2>1
<1>13. ASSUME NEW m \in DOMAIN Parts(toks)[k]
       PROVE  /\ m \in 1 .. NUbatch /\ (k - 1) * NUbatch + m \in 1 .. Len(toks)
              /\ Parts(toks)[k][m] = toks[(k - 1) * NUbatch + m]
  <2>1. m \in 1 .. hi - lo + 1 /\ Parts(toks)[k][m] = toks[lo + m - 1]
    BY <1>a, <1>11, <1>12
  <2>2. lo + m - 1 = (k - 1) * NUbatch + m
    BY <1>1, <1>7, <2>1 DEF lo
  <2> QED BY <1>1, <1>8, <1>9, <2>1, <2>2
<1> QED BY <1>5, <1>12, <1>13

LEMMA PartsAscend ==
  ASSUME NEW k \in Nat, NEW l \in Nat, k < l, NEW m \in 1 .. NUbatch, NEW n \in Nat, n >= 1
  PROVE  (k - 1) * NUbatch + m < (l - 1) * NUbatch + n
<1>1. NUbatch \in Nat /\ NUbatch >= 1
  BY SizesAssumption
<1>2. (l - 1) * NUbatch = (k - 1) * NUbatch + (l - k) * NUbatch
  BY <1>1
<1>3. (l - k) * NUbatch >= NUbatch
  <2>1. (l - k - 1) * NUbatch >= 0
    BY <1>1
  <2>2. (l - k - 1) * NUbatch = (l - k) * NUbatch - NUbatch
    BY <1>1
  <2>3. (l - k) * NUbatch \in Int
    BY <1>1
  <2> QED BY <1>1, <2>1, <2>2, <2>3
<1>4. (k - 1) * NUbatch \in Int /\ (l - k) * NUbatch \in Int
  BY <1>1
<1> QED BY <1>1, <1>2, <1>3, <1>4

(* The positions of a sequence ascend through the batch of a decode.        *)
TokensOf(s, p, n, t, q, m) == RunOf(s, p, n) \o RunOf(t, q, m)

Runs(toks, s, p, t, q) ==
  /\ toks \in Seq(Tokens)
  /\ \A a, b \in 1 .. Len(toks) : a < b /\ toks[a].seq = toks[b].seq => toks[a].pos < toks[b].pos
  /\ \A a \in 1 .. Len(toks) : \/ toks[a].seq = s /\ toks[a].pos >= p
                               \/ toks[a].seq = t /\ toks[a].pos >= q

LEMMA RunsAscend ==
  ASSUME NEW s \in Seqs, NEW t \in Seqs, NEW p \in Nat, NEW q \in Nat, NEW n \in Nat,
  NEW m \in Nat,
         s # t \/ m = 0
  PROVE  Runs(TokensOf(s, p, n, t, q, m), s, p, t, q)
<1> DEFINE toks == TokensOf(s, p, n, t, q, m)
<1>1. /\ RunOf(s, p, n) \in Seq(Tokens) /\ Len(RunOf(s, p, n)) = n
      /\ RunOf(t, q, m) \in Seq(Tokens) /\ Len(RunOf(t, q, m)) = m
  <2>1. ASSUME NEW u \in Seqs, NEW o \in Nat, NEW e \in Nat
        PROVE  RunOf(u, o, e) \in Seq(Tokens) /\ Len(RunOf(u, o, e)) = e
    <3>1. RunOf(u, o, e) \in Seq(Tokens) /\ DOMAIN RunOf(u, o, e) = 1 .. e
      BY RunIsTokens DEF RunOf
    <3> QED BY <3>1
  <2> QED BY <2>1
<1>2. toks \in Seq(Tokens) /\ Len(toks) = n + m
  BY <1>1 DEF TokensOf
<1>3. ASSUME NEW a \in 1 .. n + m
      PROVE  /\ a <= n => toks[a].pos = p + a - 1 /\ toks[a].seq = s
             /\ a > n => toks[a].pos = q + (a - n) - 1 /\ toks[a].seq = t
  <2>1. CASE a <= n
    <3>1. toks[a] = RunOf(s, p, n)[a] /\ a \in 1 .. n
      BY <1>1, <2>1 DEF TokensOf
    <3>2. toks[a] = [pos |-> p + a - 1, seq |-> s]
      BY <3>1 DEF RunOf
    <3> QED BY <2>1, <3>2
  <2>2. CASE a > n
    <3>1. toks[a] = RunOf(t, q, m)[a - n]
      BY <1>1, <2>2 DEF TokensOf
    <3>2. a - n \in 1 .. m
      BY <2>2
    <3>3. toks[a] = [pos |-> q + (a - n) - 1, seq |-> t]
      BY <3>1, <3>2 DEF RunOf
    <3> QED BY <2>2, <3>3
  <2> QED BY <2>1, <2>2
<1> HIDE DEF toks
<1>4. ASSUME NEW a \in 1 .. n + m, NEW b \in 1 .. n + m, a < b, toks[a].seq = toks[b].seq
      PROVE  toks[a].pos < toks[b].pos
  <2>1. CASE b <= n
    BY <1>3, <1>4, <2>1
  <2>2. CASE a > n
    BY <1>3, <1>4, <2>2
  <2>3. CASE a <= n /\ b > n
    BY <1>3, <1>4, <2>3
  <2> QED BY <2>1, <2>2, <2>3
<1>5. ASSUME NEW a \in 1 .. n + m
      PROVE  (toks[a].seq = s /\ toks[a].pos >= p) \/ (toks[a].seq = t /\ toks[a].pos >= q)
  BY <1>3
<1> QED BY <1>2, <1>4, <1>5 DEF Runs, toks


(* What a placed part does to each cell, when its tokens come after all     *)
(* that their sequences have: the cells it takes hold its tokens, and the   *)
(* others lose what is before an overwritten position.                      *)
Above(ub) == \A m \in DOMAIN ub, i \in Cells : ub[m].seq \in c.seq[i] => c.pos[i] < ub[m].pos

Dropped(P, i) == {s \in c.seq[i] : \E j \in P : s \in c.seq[j] /\ c.pos[i] <= c.pos[j]}

Behind(p, ub, i) ==
  {s \in Seqs : \E j \in DOMAIN p : s \in c.seq[j] /\ Fill(c, p, ub).pos[i] <= c.pos[j]}

LEMMA AppliedCells ==
  ASSUME NEW P \in SUBSET Cells, NEW p, DOMAIN p = P, NEW ub, Apply(p, ub), NEW i \in Cells
  PROVE  LET k == Fill(c, p, ub) IN
         /\ c'.seq[i] = k.seq[i] \ Behind(p, ub, i)
         /\ c'.pos[i] = IF k.seq[i] # {} /\ k.seq[i] \subseteq Behind(p, ub, i)
                        THEN -1 ELSE k.pos[i]
<1> DEFINE k == Fill(c, p, ub)
           gone == [j \in Cells |-> {s \in Seqs : \E q \in Overwritten(p, s) : k.pos[j] <= q}]
<1>1. c' = Strip(k, gone)
  BY DEF Apply, Purge
<1>2. \A s \in Seqs : \A q : q \in Overwritten(p, s) <=> \E j \in P : s \in c.seq[j] /\ q = c.pos[j]
  BY DEF Overwritten
<1>3. gone[i] = Behind(p, ub, i)
  BY <1>2 DEF Behind
<1> HIDE DEF k, gone
<1>4. /\ c'.seq[i] = k.seq[i] \ gone[i]
      /\ c'.pos[i] = IF k.seq[i] # {} /\ k.seq[i] \subseteq gone[i] THEN -1 ELSE k.pos[i]
  BY <1>1 DEF Strip
<1> QED BY <1>3, <1>4 DEF k

LEMMA TakenCells ==
  ASSUME Agree(c), NEW P \in SUBSET Cells, NEW p, DOMAIN p = P, NEW ub, Apply(p, ub), Above(ub),
         NEW i \in Cells, i \in P
  PROVE  p[i] \in DOMAIN ub /\ ub[p[i]].pos \in Int =>
           c'.pos[i] = ub[p[i]].pos /\ c'.seq[i] = {ub[p[i]].seq}
<1> DEFINE k == Fill(c, p, ub)
           gone == Behind(p, ub, i)
<1>1. i \in Cells
  OBVIOUS
<1>2. /\ c'.seq[i] = k.seq[i] \ gone
      /\ c'.pos[i] = IF k.seq[i] # {} /\ k.seq[i] \subseteq gone THEN -1 ELSE k.pos[i]
  BY <1>1, AppliedCells
<1>3. k.pos[i] = ub[p[i]].pos /\ k.seq[i] = {ub[p[i]].seq}
  BY <1>1 DEF Fill
<1>4. p[i] \in DOMAIN ub /\ ub[p[i]].pos \in Int => ub[p[i]].seq \notin gone
  <2> SUFFICES ASSUME p[i] \in DOMAIN ub, ub[p[i]].pos \in Int PROVE ub[p[i]].seq \notin gone
    OBVIOUS
  <2>1. \A j \in P : ub[p[i]].seq \in c.seq[j] => c.pos[j] \in Int /\ c.pos[j] < ub[p[i]].pos
    BY DEF Above, Agree, Memory
  <2> QED BY <1>1, <1>3, <2>1 DEF Behind
<1> HIDE DEF k, gone
<1> QED BY <1>2, <1>3, <1>4

LEMMA OtherCells ==
  ASSUME Agree(c), NEW P \in SUBSET Cells, NEW p, DOMAIN p = P, NEW ub,
         Apply(p, ub), NEW i \in Cells \ P
  PROVE  /\ c'.seq[i] = c.seq[i] \ Dropped(P, i)
         /\ c'.seq[i] = {} => c'.pos[i] = -1
         /\ c'.seq[i] # {} => c'.pos[i] = c.pos[i]
<1> DEFINE k == Fill(c, p, ub)
           gone == Behind(p, ub, i)
<1>1. i \in Cells /\ c.seq[i] \subseteq Seqs /\ (c.pos[i] = -1 <=> c.seq[i] = {})
  BY DEF Agree, Memory
<1>2. /\ c'.seq[i] = k.seq[i] \ gone
      /\ c'.pos[i] = IF k.seq[i] # {} /\ k.seq[i] \subseteq gone THEN -1 ELSE k.pos[i]
  BY <1>1, AppliedCells
<1>3. k.pos[i] = c.pos[i] /\ k.seq[i] = c.seq[i]
  BY <1>1 DEF Fill
<1>4. c.seq[i] \ gone = c.seq[i] \ Dropped(P, i)
  BY <1>1, <1>3 DEF Behind, Dropped
<1> HIDE DEF k, gone
<1> QED BY <1>1, <1>2, <1>3, <1>4

-----------------------------------------------------------------------------
(* What a cell will be when the prepare is taken back: its oldest copy, and *)
(* if it has none what it is.                                               *)
Rolling == phase \in {"prepare", "restore"}

Copies(i) == {k \in 1 .. Len(saved) : i \in DOMAIN saved[k].pos}
wasPos == [i \in Cells |-> IF Copies(i) = {} THEN c.pos[i] ELSE saved[First(Copies(i))].pos[i]]
wasSeq == [i \in Cells |-> IF Copies(i) = {} THEN c.seq[i] ELSE saved[First(Copies(i))].seq[i]]

LEMMA WasNow ==
  ASSUME saved = <<>>, NEW i \in Cells
  PROVE  Copies(i) = {} /\ wasPos[i] = c.pos[i] /\ wasSeq[i] = c.seq[i]
<1>1. Copies(i) = {}
  BY DEF Copies
<1> QED BY <1>1 DEF wasPos, wasSeq

(* Placing a part saves a copy of each cell it takes: only cells without a  *)
(* copy are changed for good.                                               *)
LEMMA WasPrepared ==
  ASSUME NEW T, saved \in Seq(T), NEW p, saved' = Append(saved, Saved(c, DOMAIN p)),
  NEW i \in Cells
  PROVE  /\ i \in DOMAIN p \/ Copies(i) # {} => wasPos'[i] = wasPos[i] /\ wasSeq'[i] = wasSeq[i]
         /\ ~ (i \in DOMAIN p \/ Copies(i) # {}) => wasPos'[i] = c'.pos[i] /\ wasSeq'[i] = c'.seq[i]
         /\ ~ (i \in DOMAIN p \/ Copies(i) # {}) => wasPos[i] = c.pos[i] /\ wasSeq[i] = c.seq[i]
<1> DEFINE o == Saved(c, DOMAIN p)
           n == Len(saved) + 1
<1>1. /\ o.pos = [j \in DOMAIN p |-> c.pos[j]] /\ o.seq = [j \in DOMAIN p |-> c.seq[j]]
      /\ DOMAIN o.pos = DOMAIN p
  BY DEF Saved
<1> HIDE DEF o
<1>2. /\ Len(saved) \in Nat /\ Len(saved') = n /\ saved'[n] = o
      /\ \A k \in 1 .. Len(saved) : saved'[k] = saved[k]
  <2>1. saved' = Append(saved, o)
    BY DEF o
  <2> QED BY <2>1
<1>3. \A k : k \in Copies(i)' <=> k \in Copies(i) \/ (k = n /\ i \in DOMAIN p)
  <2>1. \A k : k \in Copies(i)' <=> k \in 1 .. n /\ i \in DOMAIN saved'[k].pos
    BY <1>2 DEF Copies
  <2>2. \A k : k \in Copies(i) <=> k \in 1 .. Len(saved) /\ i \in DOMAIN saved[k].pos
    BY DEF Copies
  <2> QED BY <1>1, <1>2, <2>1, <2>2
<1>4. \A k \in Copies(i) : k \in Nat /\ k < n /\ saved'[k] = saved[k]
  BY <1>2 DEF Copies
<1> DEFINE K == Copies(i)
           L == Copies(i)'
<1>5. K \subseteq Nat /\ L \subseteq Nat
  BY <1>2, <1>3, <1>4
<1>6. /\ wasPos'[i]  = IF L = {} THEN c'.pos[i] ELSE saved'[First(L)].pos[i]
      /\ wasSeq'[i]  = IF L = {} THEN c'.seq[i] ELSE saved'[First(L)].seq[i]
      /\ wasPos[i] = IF K = {} THEN c.pos[i] ELSE saved[First(K)].pos[i]
      /\ wasSeq[i] = IF K = {} THEN c.seq[i] ELSE saved[First(K)].seq[i]
  BY DEF wasPos, wasSeq, First
<1>7. CASE K # {}
  <2>1. /\ First(K) \in K /\ \A j \in K : First(K) <= j
        /\ First(L) \in L /\ \A j \in L : First(L) <= j
    BY <1>3, <1>5, <1>7, FirstIs
  <2> HIDE DEF K, L
  <2>2. First(L) = First(K)
    BY <1>2, <1>3, <1>4, <1>5, <2>1 DEF K, L
  <2> QED BY <1>3, <1>4, <1>6, <1>7, <2>1, <2>2 DEF K, L
<1>8. CASE K = {} /\ i \in DOMAIN p
  <2>1. L = {n}
    BY <1>3, <1>8
  <2>2. First(L) = n
    BY <1>5, <2>1, FirstIs
  <2> QED BY <1>1, <1>2, <1>6, <1>8, <2>1, <2>2
<1>9. CASE K = {} /\ i \notin DOMAIN p
  <2>1. L = {}
    BY <1>3, <1>9
  <2> QED BY <1>6, <1>9, <2>1
<1> QED BY <1>7, <1>8, <1>9

(* Taking back the latest part changes no cell for good.                    *)
LEMMA WasRestored ==
  ASSUME NEW T, saved \in Seq(T), RestoreUbatch, NEW i \in Cells
  PROVE  wasPos'[i] = wasPos[i] /\ wasSeq'[i] = wasSeq[i]
<1> DEFINE n == Len(saved)
<1>1. /\ saved # <<>> /\ n \in Nat /\ n >= 1 /\ Len(saved') = n - 1
      /\ \A k \in 1 .. n - 1 : saved'[k] = saved[k]
  <2>1. saved # <<>> /\ saved' = SubSeq(saved, 1, Len(saved) - 1)
    BY DEF RestoreUbatch
  <2>2. n \in Nat /\ n >= 1
    BY <2>1
  <2>3. n - 1 \in Int /\ \A k \in 1 .. n - 1 : saved[k] \in T
    BY <2>2
  <2>4. /\ Len(saved') = IF 1 <= n - 1 THEN n - 1 - 1 + 1 ELSE 0
        /\ \A k \in 1 .. n - 1 - 1 + 1 : saved'[k] = saved[1 + k - 1]
    BY <2>1, <2>3, SubSeqProperties
  <2> HIDE DEF n
  <2>5. Len(saved') = n - 1
    BY <2>2, <2>4
  <2>6. ASSUME NEW k \in 1 .. n - 1 PROVE saved'[k] = saved[k]
    <3>1. k \in 1 .. n - 1 - 1 + 1 /\ 1 + k - 1 = k
      BY <2>2
    <3> QED BY <2>4, <3>1
  <2> QED BY <2>1, <2>2, <2>5, <2>6
<1>2. /\ c'.pos[i] = IF i \in DOMAIN saved[n].pos THEN saved[n].pos[i] ELSE c.pos[i]
      /\ c'.seq[i] = IF i \in DOMAIN saved[n].pos THEN saved[n].seq[i] ELSE c.seq[i]
  BY DEF RestoreUbatch, Restore
<1>3. \A k : k \in Copies(i)' <=> k \in Copies(i) /\ k # n
  <2>1. \A k : k \in Copies(i)' <=> k \in 1 .. n - 1 /\ i \in DOMAIN saved'[k].pos
    BY <1>1 DEF Copies
  <2>2. \A k : k \in Copies(i) <=> k \in 1 .. n /\ i \in DOMAIN saved[k].pos
    BY DEF Copies
  <2> QED BY <1>1, <2>1, <2>2
<1>4. \A k \in Copies(i) : k \in Nat /\ k <= n /\ (k # n => saved'[k] = saved[k])
  BY <1>1 DEF Copies
<1>5. n \in Copies(i) <=> i \in DOMAIN saved[n].pos
  BY <1>1 DEF Copies
<1> HIDE DEF n
<1> DEFINE K == Copies(i)
           L == Copies(i)'
<1>6. K \subseteq Nat /\ L \subseteq Nat
  BY <1>3, <1>4
<1>7. /\ wasPos'[i]  = IF L = {} THEN c'.pos[i] ELSE saved'[First(L)].pos[i]
      /\ wasSeq'[i]  = IF L = {} THEN c'.seq[i] ELSE saved'[First(L)].seq[i]
      /\ wasPos[i] = IF K = {} THEN c.pos[i] ELSE saved[First(K)].pos[i]
      /\ wasSeq[i] = IF K = {} THEN c.seq[i] ELSE saved[First(K)].seq[i]
  BY DEF wasPos, wasSeq, First
<1>8. CASE L # {}
  <2>1. /\ First(K) \in K /\ \A j \in K : First(K) <= j
        /\ First(L) \in L /\ \A j \in L : First(L) <= j
    BY <1>3, <1>6, <1>8, FirstIs
  <2> HIDE DEF K, L
  <2>2. First(L) = First(K) /\ First(L) # n
    BY <1>1, <1>3, <1>4, <1>6, <2>1 DEF K, L
  <2> QED BY <1>3, <1>4, <1>7, <1>8, <2>1, <2>2 DEF K, L
<1>9. CASE L = {} /\ n \in K
  <2>1. K = {n}
    BY <1>3, <1>9
  <2>2. First(K) = n
    BY <1>6, <2>1, FirstIs
  <2> QED BY <1>2, <1>5, <1>7, <1>9, <2>1, <2>2
<1>10. CASE L = {} /\ n \notin K
  <2>1. K = {}
    BY <1>3, <1>10
  <2> QED BY <1>2, <1>5, <1>7, <1>10, <2>1
<1> QED BY <1>8, <1>9, <1>10


(* The part that prepare places next, and the cells it finds for it.        *)
Part == batch[Len(plan) + 1]
Place == FindSlot(Len(Part))
Placing ==
  /\ Cardinality(Usable) >= Len(Part)
  /\ plan' = Append(plan, Place) /\ saved' = Append(saved, Saved(c, DOMAIN Place))
  /\ Apply(Place, Part) /\ UNCHANGED <<swa, phase, batch, data, divided, before>>

LEMMA PlacingFacts ==
  ASSUME IInv, PrepareUbatch
  PROVE  /\ phase = "prepare" /\ Len(plan) \in Nat /\ Len(plan) + 1 \in DOMAIN batch
         /\ Part \in Seq(Tokens) /\ DOMAIN Place \in SUBSET Cells /\ DOMAIN Place \subseteq Usable
         /\ Place \in [DOMAIN Place -> 1 .. Len(Part)]
         /\ \/ Placing
            \/ /\ phase' = "restore" /\ batch' = <<>>
               /\ UNCHANGED <<swa, c, head, plan, saved, data, divided, before>>
         /\ Placing => /\ Len(plan') = Len(plan) + 1 /\ plan'[Len(plan) + 1] = Place
                       /\ \A k \in 1 .. Len(plan) : plan'[k] = plan[k]
<1>1. /\ phase = "prepare" /\ Len(plan) < Len(batch) /\ Len(plan) \in Nat /\ Len(batch) \in Nat
      /\ plan \in Seq(Slots) /\ batch \in Seq(Seq(Tokens))
  BY DEF PrepareUbatch, IInv, PlanOK
<1>2. Len(plan) + 1 \in DOMAIN batch /\ Part \in Seq(Tokens) /\ Len(Part) \in Nat
  BY <1>1 DEF Part
<1>3. DOMAIN Place \in SUBSET Cells /\ Place \in [DOMAIN Place -> 1 .. Len(Part)]
  BY <1>2, FindSlotPlaces DEF Place
<1>4. DOMAIN Place \subseteq Usable
  BY DEF Place, FindSlot
<1>5. IsFiniteSet(Usable) /\ Cardinality(Usable) \in Nat
  <2>1. Usable \in SUBSET Cells
    BY DEF Usable
  <2> QED BY <2>1, CellsFinite, FS_Subset, FS_CardinalityType
<1>6. \/ Placing
      \/ /\ phase' = "restore" /\ batch' = <<>>
         /\ UNCHANGED <<swa, c, head, plan, saved, data, divided, before>>
  BY <1>2, <1>5 DEF PrepareUbatch, Placing, Part, Place
<1>7. Placing => /\ Len(plan') = Len(plan) + 1 /\ plan'[Len(plan) + 1] = Place
                 /\ \A k \in 1 .. Len(plan) : plan'[k] = plan[k]
  <2> SUFFICES ASSUME plan' = Append(plan, Place)
               PROVE  /\ Len(plan') = Len(plan) + 1 /\ plan'[Len(plan) + 1] = Place
                      /\ \A k \in 1 .. Len(plan) : plan'[k] = plan[k]
    BY DEF Placing
  <2> HIDE DEF Place
  <2> QED BY <1>1
<1> QED BY <1>1, <1>2, <1>3, <1>4, <1>6, <1>7

LEMMA SavedIsSeq ==
  ASSUME IInv PROVE \E T : saved \in Seq(T)
BY DEF IInv, SavedOK

LEMMA TokenTypes ==
  ASSUME NEW ub \in Seq(Tokens), NEW m \in DOMAIN ub
  PROVE  ub[m].pos \in Nat /\ ub[m].seq \in Seqs
<1>1. ub[m] \in Tokens
  OBVIOUS
<1> QED BY <1>1 DEF Tokens

LEMMA CellTypes ==
  ASSUME NEW k, Agree(k), NEW i \in Cells
  PROVE  /\ k.pos[i] \in Int /\ k.pos[i] >= -1 /\ k.seq[i] \subseteq Seqs
         /\ k.pos[i] = -1 <=> k.seq[i] = {}
         /\ ~ k.hasShift => k.shift[i] = 0
         /\ k.shift[i] \in Int
BY DEF Agree, Memory

LEMMA PlacingTakes ==
  ASSUME IInv, PrepareUbatch, Placing, Above(Part), NEW i \in DOMAIN Place
  PROVE  c'.pos[i] = Part[Place[i]].pos /\ c'.seq[i] = {Part[Place[i]].seq}
<1>1. Agree(c) /\ DOMAIN Place \in SUBSET Cells /\ Apply(Place, Part)
  BY PlacingFacts DEF IInv, Consistent, Placing
<1>2. Place[i] \in DOMAIN Part /\ Part[Place[i]].pos \in Int
  <2>1. Part \in Seq(Tokens) /\ Place \in [DOMAIN Place -> 1 .. Len(Part)]
    BY PlacingFacts
  <2>2. Place[i] \in DOMAIN Part
    BY <2>1
  <2> QED BY <2>1, <2>2, TokenTypes
<1> QED BY <1>1, <1>2, TakenCells

LEMMA PlacingLeaves ==
  ASSUME IInv, PrepareUbatch, Placing, NEW i \in Cells \ DOMAIN Place
  PROVE  /\ c'.seq[i] = c.seq[i] \ Dropped(DOMAIN Place, i)
         /\ c'.seq[i] = {} => c'.pos[i] = -1
         /\ c'.seq[i] # {} => c'.pos[i] = c.pos[i]
<1>1. Agree(c) /\ DOMAIN Place \in SUBSET Cells /\ Apply(Place, Part)
  BY PlacingFacts DEF IInv, Consistent, Placing
<1> QED BY <1>1, OtherCells

(* What prepare has saved, and the positions that taking it back leaves.    *)
Kept ==
  /\ before \in [Seqs -> SUBSET Int]
  /\ phase = "prepare" => Len(saved) = Len(plan)
  /\ phase = "restore" => Len(saved) <= Len(plan)
  /\ ~ Rolling => saved = <<>>
  /\ \A k \in 1 .. Len(saved) : DOMAIN saved[k].pos = DOMAIN plan[k]
  /\ Rolling => \A i \in Cells : \A s \in wasSeq[i] : wasPos[i] \in before[s]
  /\ phase = "prepare" /\ plan = <<>> => 
       \A s \in Seqs : \A q \in before[s] : \E i \in Cells : s \in c.seq[i] /\ c.pos[i] = q

LEMMA KeptOutside ==
  ASSUME ~ Rolling', saved' = <<>>, before' \in [Seqs -> SUBSET Int] PROVE Kept'
BY DEF Kept, Rolling

LEMMA PositionsAre ==
  ASSUME NEW k, Agree(k), NEW s \in Seqs
  PROVE  /\ Positions(k, s) \subseteq Int
         /\ \A i \in Cells : s \in k.seq[i] => k.pos[i] \in Positions(k, s)
         /\ \A q \in Positions(k, s) : \E i \in Cells : s \in k.seq[i] /\ q = k.pos[i]
<1>1. Positions(k, s) = {k.pos[i] : i \in {j \in Cells : s \in k.seq[j]}}
  BY PosMaxIs
<1>2. \A i \in Cells : k.pos[i] \in Int
  BY CellTypes
<1> QED BY <1>1, <1>2

LEMMA DecodeCells ==
  ASSUME IInv, NEW s, NEW t, NEW n, NEW m, Decode(s, n, t, m)
  PROVE  /\ c'.pos = c.pos /\ c'.seq = c.seq
         /\ \A i \in Cells : c'.shift[i] = 0
         /\ c.hasShift => data' = Keys(c, divided, [i \in Cells |-> data[i] + c.shift[i]])
         /\ ~ c.hasShift => data' = data
         /\ phase = "idle" /\ phase' = "prepare" /\ plan' = <<>> /\ saved' = saved /\ head' = head
         /\ divided' = divided /\ before' = [u \in Seqs |-> Positions(c, u)] /\ swa' = swa
<1>1. Agree(c) /\ c \in Memory
  BY DEF IInv, Consistent, Agree
<1>2. phase = "idle" /\ phase' = "prepare" /\ plan' = <<>> /\ saved' = saved /\ head' = head
      /\ divided' = divided /\ before' = [u \in Seqs |-> Positions(c, u)] /\ swa' = swa
  BY DEF Decode, IInv, PlanOK
<1>3. CASE ~ c.hasShift
  <2>1. c' = c /\ data' = data
    BY <1>3 DEF Decode
  <2> QED BY <1>1, <1>2, <1>3, <2>1, CellTypes
<1>4. CASE c.hasShift
  <2>1. c' = [c EXCEPT !.shift = [i \in Cells |-> 0], !.hasShift = FALSE]
        /\ data' = Keys(c, divided, [i \in Cells |-> data[i] + c.shift[i]])
    BY <1>4 DEF Decode
  <2>2. c'.pos = c.pos /\ c'.seq = c.seq /\ c'.shift = [i \in Cells |-> 0]
    BY <1>1, <2>1 DEF Memory
  <2> QED BY <1>2, <1>4, <2>1, <2>2
<1> QED BY <1>3, <1>4

LEMMA KeptInit == Init => Kept
BY DEF Init, Kept, Rolling

LEMMA KeptDecode ==
  ASSUME IInv, Kept, NEW s \in Seqs, NEW t \in Seqs, NEW n, NEW m, Decode(s, n, t, m), Agree(c')
  PROVE  Kept'
<1>1. /\ saved = <<>> /\ saved' = <<>> /\ phase' = "prepare" /\ plan' = <<>>
      /\ c'.pos = c.pos /\ c'.seq = c.seq /\ before' = [u \in Seqs |-> Positions(c, u)]
  BY DecodeCells DEF Kept, Rolling
<1>2. Agree(c)
  BY DEF IInv, Consistent
<1>3. before' \in [Seqs -> SUBSET Int]
  BY <1>1, <1>2, PositionsAre
<1>4. \A i \in Cells : wasPos'[i] = c.pos[i] /\ wasSeq'[i] = c.seq[i]
  BY <1>1 DEF wasPos, wasSeq, Copies
<1>5. \A i \in Cells : \A u \in wasSeq'[i] : wasPos'[i] \in before'[u]
  <2>1. \A i \in Cells : c.seq[i] \subseteq Seqs
    BY <1>2, CellTypes
  <2> QED BY <1>1, <1>2, <1>4, <2>1, PositionsAre
<1>6. \A u \in Seqs : \A q \in before'[u] : \E i \in Cells : u \in c'.seq[i] /\ c'.pos[i] = q
  BY <1>1, <1>2, PositionsAre
<1> QED BY <1>1, <1>3, <1>5, <1>6 DEF Kept, Rolling

LEMMA KeptPrepare == IInv /\ Kept /\ PrepareUbatch => Kept'
<1> SUFFICES ASSUME IInv, Kept, PrepareUbatch PROVE Kept'
  OBVIOUS
<1>1. phase = "prepare" /\ Len(saved) = Len(plan) /\ Len(plan) \in Nat
  BY PlacingFacts DEF Kept
<1>2. CASE /\ phase' = "restore" /\ batch' = <<>>
           /\ UNCHANGED <<swa, c, head, plan, saved, data, divided, before>>
  <2>1. wasPos' = wasPos /\ wasSeq' = wasSeq
    BY <1>2 DEF wasPos, wasSeq, Copies
  <2> QED BY <1>1, <1>2, <2>1 DEF Kept, Rolling
<1>3. CASE Placing
  <2>1. /\ plan' = Append(plan, Place) /\ saved' = Append(saved, Saved(c, DOMAIN Place))
        /\ phase' = "prepare" /\ before' = before /\ Apply(Place, Part)
    BY <1>1, <1>3 DEF Placing
  <2>2. PICK T : saved \in Seq(T)
    BY SavedIsSeq
  <2>3. /\ Len(plan') = Len(plan) + 1 /\ plan'[Len(plan) + 1] = Place
        /\ \A k \in 1 .. Len(plan) : plan'[k] = plan[k]
    BY <1>3, PlacingFacts
  <2>4. /\ Len(saved') = Len(saved) + 1 /\ DOMAIN saved'[Len(saved) + 1].pos = DOMAIN Place
        /\ \A k \in 1 .. Len(saved) : saved'[k] = saved[k]
    <3> DEFINE o == Saved(c, DOMAIN Place)
    <3>1. DOMAIN o.pos = DOMAIN Place
      BY DEF Saved
    <3> HIDE DEF o
    <3>2. saved' = Append(saved, o)
      BY <2>1 DEF o
    <3> QED BY <2>2, <3>1, <3>2
  <2>5. \A k \in 1 .. Len(saved') : DOMAIN saved'[k].pos = DOMAIN plan'[k]
    BY <1>1, <2>3, <2>4 DEF Kept
  <2>6. ASSUME NEW i \in Cells, NEW s \in wasSeq'[i] PROVE wasPos'[i] \in before[s]
    <3>1. CASE i \in DOMAIN Place \/ Copies(i) # {}
      BY <1>1, <2>1, <2>2, <2>6, <3>1, WasPrepared DEF Kept, Rolling
    <3>2. CASE ~ (i \in DOMAIN Place \/ Copies(i) # {})
      <4>1. wasPos'[i] = c'.pos[i] /\ wasSeq'[i] = c'.seq[i] /\ wasPos[i] = c.pos[i]
            /\ wasSeq[i] = c.seq[i]
        BY <2>1, <2>2, <3>2, WasPrepared
      <4>2. /\ c'.seq[i] = c.seq[i] \ Dropped(DOMAIN Place, i)
            /\ c'.seq[i] # {} => c'.pos[i] = c.pos[i]
        BY <1>3, <3>2, PlacingLeaves
      <4>3. s \in c.seq[i] /\ c'.pos[i] = c.pos[i]
        BY <2>6, <4>1, <4>2
      <4> QED BY <1>1, <4>1, <4>3 DEF Kept, Rolling
    <3> QED BY <3>1, <3>2
  <2>7. plan' # <<>>
    BY <1>1, <2>3
  <2> QED BY <1>1, <2>1, <2>3, <2>4, <2>5, <2>6, <2>7 DEF Kept, Rolling
<1> QED BY <1>2, <1>3, PlacingFacts

LEMMA KeptRestore == IInv /\ Kept /\ RestoreUbatch => Kept'
<1> SUFFICES ASSUME IInv, Kept, RestoreUbatch PROVE Kept'
  OBVIOUS
<1>1. /\ phase = "restore" /\ phase' = "restore" /\ before' = before /\ plan' = plan
      /\ saved # <<>>
      /\ saved' = SubSeq(saved, 1, Len(saved) - 1)
  BY DEF RestoreUbatch
<1>2. PICK T : saved \in Seq(T)
  BY SavedIsSeq
<1>3. /\ Len(saved) \in Nat /\ Len(saved') <= Len(saved)
      /\ \A k \in 1 .. Len(saved') : saved'[k] = saved[k]
      /\ Len(saved') \in Nat /\ \A k \in 1 .. Len(saved') : k \in 1 .. Len(saved)
  <2> DEFINE n == Len(saved)
  <2>1. n \in Nat /\ n >= 1 /\ \A k \in 1 .. n - 1 : saved[k] \in T
    BY <1>1, <1>2
  <2>2. /\ saved' \in Seq(T) /\ Len(saved') = IF 1 <= n - 1 THEN n - 1 - 1 + 1 ELSE 0
        /\ \A k \in 1 .. n - 1 - 1 + 1 : saved'[k] = saved[1 + k - 1]
    BY <1>1, <2>1, SubSeqProperties
  <2> HIDE DEF n
  <2>3. Len(saved') = n - 1
    BY <2>1, <2>2
  <2>4. ASSUME NEW k \in 1 .. n - 1 PROVE saved'[k] = saved[k] /\ k \in 1 .. n
    <3>1. k \in 1 .. n - 1 - 1 + 1 /\ 1 + k - 1 = k /\ k \in 1 .. n
      BY <2>1
    <3> QED BY <2>2, <3>1
  <2> QED BY <2>1, <2>3, <2>4 DEF n
<1>4. \A i \in Cells : wasPos'[i] = wasPos[i] /\ wasSeq'[i] = wasSeq[i]
  BY <1>2, WasRestored
<1>5. Len(plan) \in Nat
  BY DEF IInv, PlanOK
<1> QED BY <1>1, <1>3, <1>4, <1>5 DEF Kept, Rolling

LEMMA KeptPrepared == IInv /\ Kept /\ Prepared => Kept'
<1> SUFFICES ASSUME IInv, Kept, Prepared PROVE Kept'
  OBVIOUS
<1>1. /\ phase = "prepare" /\ phase' = "restore" /\ Len(plan) \in Nat
      /\ UNCHANGED <<swa, c, head, batch, plan, saved, data, divided, before>>
  BY DEF Prepared, IInv, PlanOK
<1>2. wasPos' = wasPos /\ wasSeq' = wasSeq
  BY <1>1 DEF wasPos, wasSeq, Copies
<1> QED BY <1>1, <1>2 DEF Kept, Rolling

LEMMA KeptElse ==
  ASSUME IInv, Kept, Calls \/ Restored \/ ApplyUbatch \/ Computed \/ ComputeFails
  PROVE  Kept'
<1>a. before \in [Seqs -> SUBSET Int] /\ (~ Rolling => saved = <<>>)
  BY DEF Kept
<1>1. CASE Calls
  BY <1>a, <1>1, KeptOutside DEF Calls, Clear, RemoveAny, Keep, Remove, Copy, Add, Div, Call,
                                 decoding, Rolling
<1>2. CASE Restored
  <2>1. before' \in [Seqs -> SUBSET Int]
    BY <1>2, <1>a DEF Restored, Idle
  <2> QED BY <1>2, <2>1, KeptOutside DEF Restored, Idle, Rolling
<1>3. CASE ApplyUbatch
  BY <1>3, <1>a, KeptOutside DEF ApplyUbatch, Rolling
<1>4. CASE Computed
  <2>1. /\ phase = "compute" /\ saved' = saved /\ batch # <<>> /\ batch \in Seq(Seq(Tokens))
        /\ ~ Rolling'
    BY <1>4 DEF Computed, Idle, Rolling, IInv, PlanOK
  <2>2. batch[1] \in Seq(Tokens)
    BY <2>1
  <2>3. \A k \in DOMAIN batch[1] : batch[1][k].pos \in Int
    BY <2>2, TokenTypes
  <2>4. before' \in [Seqs -> SUBSET Int]
    BY <1>4, <1>a, <2>3 DEF Computed, Idle
  <2> QED BY <1>a, <2>1, <2>4, KeptOutside DEF Rolling
<1>5. CASE ComputeFails
  BY <1>5, <1>a, KeptOutside DEF ComputeFails, Idle, Rolling
<1> QED BY <1>1, <1>2, <1>3, <1>4, <1>5


-----------------------------------------------------------------------------
(* The parts come in the order of their tokens: each position follows all   *)
(* that its sequence has, or had.                                           *)

Heads == head \in Nat /\ \A k \in 1 .. Len(saved) : saved[k].head \in Nat

Batched ==
  \A k \in DOMAIN batch :
    /\ batch[k] # <<>>
    /\ \A l \in DOMAIN batch : \A m \in DOMAIN batch[k], n \in DOMAIN batch[l] :
         (k < l \/ (k = l /\ m < n)) /\ batch[k][m].seq = batch[l][n].seq =>
           batch[k][m].pos < batch[l][n].pos

Later ==
  Rolling => \A l \in DOMAIN batch : \A m \in DOMAIN batch[l] :
               \A q \in before[batch[l][m].seq] : q < batch[l][m].pos

Waits(l) == \/ phase = "prepare" /\ l > Len(plan)
            \/ phase = "apply"
            \/ phase = "compute" /\ l > 1

Follow ==
  \A l \in DOMAIN batch : Waits(l) =>
    \A m \in DOMAIN batch[l], i \in Cells :
      batch[l][m].seq \in c.seq[i] => c.pos[i] < batch[l][m].pos

Full ==
  \A k \in DOMAIN plan : k \in DOMAIN batch =>
    \A m \in DOMAIN batch[k] : \E i \in DOMAIN plan[k] : plan[k][i] = m

Tok(k, i) == batch[k][plan[k][i]]

Stands ==
  phase = "compute" =>
    \A i \in DOMAIN plan[1] : c.pos[i] = Tok(1, i).pos /\ c.seq[i] = {Tok(1, i).seq}

Ordered == Heads /\ Batched /\ Later /\ Follow /\ Full /\ Stands

(* The batch of a step: as it was, gone, without its first part, or new.    *)
LEMMA BatchSteps ==
  ASSUME Calls \/ DecodeSteps \/ UNCHANGED vars
  PROVE  batch' = batch \/ batch' = <<>> \/ (Computed /\ phase = "compute" /\ batch' = Tail(batch))
BY DEF Calls, Clear, RemoveAny, Keep, Remove, Copy, Add, Div, Call, decoding, DecodeSteps,
       PrepareUbatch, Prepared, RestoreUbatch, Restored, ApplyUbatch, Computed, ComputeFails, vars

LEMMA PlanFits ==
  ASSUME IInv, phase # "idle", batch # <<>>, NEW k \in DOMAIN plan
  PROVE  /\ k \in DOMAIN batch /\ batch[k] \in Seq(Tokens) /\ DOMAIN plan[k] \subseteq Cells
         /\ \A i \in DOMAIN plan[k] : plan[k][i] \in DOMAIN batch[k] /\ Tok(k, i) \in Tokens
<1>1. plan \in Seq(Slots) /\ batch \in Seq(Seq(Tokens)) /\ Len(plan) <= Len(batch) /\ Fits
  BY DEF IInv, PlanOK, Consistent
<1>2. k \in 1 .. Len(plan) /\ k \in 1 .. Len(batch) /\ batch[k] \in Seq(Tokens)
      /\ plan[k] \in Slots
  BY <1>1
<1>3. \A i \in DOMAIN plan[k] : plan[k][i] \in 1 .. Len(batch[k])
  BY <1>1, <1>2 DEF Fits
<1>4. \A i \in DOMAIN plan[k] : plan[k][i] \in DOMAIN batch[k] /\ Tok(k, i) \in Tokens
  BY <1>2, <1>3 DEF Tok
<1>5. DOMAIN plan[k] \subseteq Cells
  BY <1>2 DEF Slots
<1> QED BY <1>1, <1>2, <1>4, <1>5

(* The first part, while the parts are applied and computed.                *)
LEMMA FirstPart ==
  ASSUME IInv, phase \in {"apply", "compute"}
  PROVE  /\ batch # <<>> /\ 1 \in DOMAIN plan /\ 1 \in DOMAIN batch
         /\ batch[1] \in Seq(Tokens) /\ DOMAIN plan[1] \subseteq Cells /\ Len(plan) = Len(batch)
         /\ Len(batch) \in Nat /\ batch \in Seq(Seq(Tokens)) /\ plan \in Seq(Slots)
         /\ \A i \in DOMAIN plan[1] : plan[1][i] \in DOMAIN batch[1] /\ Tok(1, i) \in Tokens
<1>1. plan \in Seq(Slots) /\ batch \in Seq(Seq(Tokens)) /\ Len(plan) = Len(batch) /\ batch # <<>>
  BY DEF IInv, PlanOK, Consistent
<1>2. Len(batch) \in Nat /\ Len(batch) >= 1
  BY <1>1
<1>3. 1 \in DOMAIN plan /\ 1 \in DOMAIN batch
  BY <1>1, <1>2
<1> QED BY <1>1, <1>2, <1>3, PlanFits

LEMMA TailParts ==
  ASSUME IInv, Computed
  PROVE  /\ Len(batch') = Len(batch) - 1 /\ Len(plan') = Len(plan) - 1
         /\ DOMAIN batch' = 1 .. Len(batch) - 1 /\ DOMAIN plan' = 1 .. Len(batch) - 1
         /\ \A k \in 1 .. Len(batch) - 1 :
              k + 1 \in DOMAIN batch /\ batch'[k] = batch[k + 1] /\ plan'[k] = plan[k + 1]
<1>1. /\ batch' = Tail(batch) /\ plan' = Tail(plan) /\ Len(plan) = Len(batch)
      /\ Len(batch) \in Nat
      /\ batch # <<>> /\ plan # <<>> /\ plan \in Seq(Slots) /\ batch \in Seq(Seq(Tokens))
  BY FirstPart DEF Computed
<1>2. /\ batch' \in Seq(Seq(Tokens)) /\ Len(batch') = Len(batch) - 1
      /\ plan' \in Seq(Slots) /\ Len(plan') = Len(plan) - 1
      /\ \A k \in 1 .. Len(plan') : plan'[k] = plan[k + 1] /\ batch'[k] = batch[k + 1]
  BY <1>1, HeadTailProperties
<1> QED BY <1>1, <1>2

LEMMA BatchedStep ==
  ASSUME IInv, Batched, Calls \/ DecodeSteps \/ UNCHANGED vars
  PROVE  Batched'
<1>1. CASE batch' = batch \/ batch' = <<>>
  BY <1>1 DEF Batched
<1>2. CASE Computed
  <2>1. /\ DOMAIN batch' = 1 .. Len(batch) - 1 /\ Len(batch) \in Nat
        /\ \A k \in DOMAIN batch' : k + 1 \in DOMAIN batch /\ batch'[k] = batch[k + 1]
    BY <1>2, TailParts, FirstPart DEF Computed
  <2>2. ASSUME NEW k \in DOMAIN batch', NEW l \in DOMAIN batch', NEW m \in DOMAIN batch'[k],
               NEW n \in DOMAIN batch'[l], k < l \/ (k = l /\ m < n),
               batch'[k][m].seq = batch'[l][n].seq
        PROVE  batch'[k][m].pos < batch'[l][n].pos
    <3>1. k + 1 \in DOMAIN batch /\ batch'[k] = batch[k + 1] /\ l + 1 \in DOMAIN batch
          /\ batch'[l] = batch[l + 1]
      BY <2>1
    <3>2. k + 1 < l + 1 \/ (k + 1 = l + 1 /\ m < n)
      BY <2>1, <2>2
    <3> QED BY <2>2, <3>1, <3>2 DEF Batched
  <2>3. \A k \in DOMAIN batch' : batch'[k] # <<>>
    BY <2>1 DEF Batched
  <2> QED BY <2>2, <2>3 DEF Batched
<1> QED BY <1>1, <1>2, BatchSteps

LEMMA DecodeBatch ==
  ASSUME IInv, NEW s \in Seqs, NEW t \in Seqs, NEW n \in 1 .. MaxBatch, NEW m \in 0 .. MaxBatch,
         Decode(s, n, t, m)
  PROVE  /\ Batched'
         /\ \A l \in DOMAIN batch' : \A j \in DOMAIN batch'[l] :
              batch'[l][j].seq \in Seqs /\ batch'[l][j].pos \in Int
              /\ \A q \in Positions(c, batch'[l][j].seq) : q < batch'[l][j].pos
<1> PICK p \in 0 .. MaxPos, q \in 0 .. MaxPos :
      /\ p = PosMax(c, s) + 1 /\ q = PosMax(c, t) + 1
      /\ batch' = Parts(RunOf(s, p, n) \o RunOf(t, q, m))
  BY DEF Decode
<1>1. n \in Nat /\ m \in Nat /\ p \in Nat /\ q \in Nat /\ (s # t \/ m = 0)
  BY SizesAssumption DEF Decode
<1> DEFINE toks == TokensOf(s, p, n, t, q, m)
<1>2. /\ toks \in Seq(Tokens)
      /\ \A a, b \in 1 .. Len(toks) : a < b /\ toks[a].seq = toks[b].seq => toks[a].pos < toks[b].pos
      /\ \A a \in 1 .. Len(toks) : \/ toks[a].seq = s /\ toks[a].pos >= p
                                   \/ toks[a].seq = t /\ toks[a].pos >= q
  <2>1. Runs(toks, s, p, t, q)
    BY <1>1, RunsAscend
  <2> HIDE DEF toks
  <2> QED BY <2>1 DEF Runs
<1>3. batch' = Parts(toks)
  BY DEF TokensOf
<1> HIDE DEF toks
<1>4. ASSUME NEW k \in DOMAIN batch'
      PROVE  /\ k \in Nat /\ k >= 1 /\ batch'[k] # <<>>
             /\ \A j \in DOMAIN batch'[k] :
                  /\ j \in 1 .. NUbatch /\ (k - 1) * NUbatch + j \in 1 .. Len(toks)
                  /\ batch'[k][j] = toks[(k - 1) * NUbatch + j]
  BY <1>2, <1>3, <1>4, PartToken
<1>5. ASSUME NEW k \in DOMAIN batch', NEW l \in DOMAIN batch', NEW a \in DOMAIN batch'[k],
             NEW b \in DOMAIN batch'[l], k < l \/ (k = l /\ a < b),
             batch'[k][a].seq = batch'[l][b].seq
      PROVE  batch'[k][a].pos < batch'[l][b].pos
  <2>1. /\ k \in Nat /\ l \in Nat /\ a \in 1 .. NUbatch /\ b \in 1 .. NUbatch
        /\ batch'[k][a] = toks[(k - 1) * NUbatch + a] /\ (k - 1) * NUbatch + a \in 1 .. Len(toks)
        /\ batch'[l][b] = toks[(l - 1) * NUbatch + b] /\ (l - 1) * NUbatch + b \in 1 .. Len(toks)
    BY <1>4
  <2>2. (k - 1) * NUbatch + a < (l - 1) * NUbatch + b
    <3>1. CASE k < l
      <4>1. b \in Nat /\ b >= 1
        BY <2>1, SizesAssumption
      <4> QED BY <2>1, <3>1, <4>1, PartsAscend
    <3>2. CASE k = l /\ a < b
      <4>1. (k - 1) * NUbatch \in Int /\ a \in Int /\ b \in Int
        BY <2>1, SizesAssumption
      <4> QED BY <3>2, <4>1
    <3> QED BY <1>5, <3>1, <3>2
  <2> QED BY <1>2, <1>5, <2>1, <2>2
<1>6. Batched'
  BY <1>4, <1>5 DEF Batched
<1>7. ASSUME NEW l \in DOMAIN batch', NEW j \in DOMAIN batch'[l]
      PROVE  batch'[l][j].seq \in Seqs /\ batch'[l][j].pos \in Int
             /\ \A x \in Positions(c, batch'[l][j].seq) : x < batch'[l][j].pos
  <2> PICK a \in 1 .. Len(toks) : batch'[l][j] = toks[a]
    BY <1>4
  <2>1. toks[a].seq \in Seqs /\ toks[a].pos \in Int
    BY <1>2, TokenTypes
  <2>2. ASSUME NEW u \in Seqs, NEW x \in Positions(c, u)
        PROVE  x \in Int /\ PosMax(c, u) \in Int /\ x <= PosMax(c, u)
    <3>1. Agree(c)
      BY DEF IInv, Consistent
    <3>2. PICK i \in Cells : u \in c.seq[i] /\ x = c.pos[i]
      BY <2>2, <3>1, PositionsAre
    <3> QED BY <2>2, <3>1, <3>2, PosMaxIs, CellTypes
  <2> QED BY <1>1, <1>2, <2>1, <2>2
<1> QED BY <1>6, <1>7


LEMMA CellsFirst ==
  ASSUME NEW I \in SUBSET Cells, I # {} PROVE First(I) \in Nat
BY FirstIs, CellsFinite

LEMMA HeadBackIs ==
  ASSUME head \in Nat, NEW k PROVE HeadBack(k) \in Nat
<1>1. Freed(k) \in SUBSET Cells
  BY DEF Freed
<1> QED BY <1>1, CellsFirst DEF HeadBack

LEMMA HeadApplied ==
  ASSUME NEW P \in SUBSET Cells, P # {}, NEW n, NEW p \in [P -> 1 .. n], n \in Nat, NEW ub,
  Apply(p, ub)
  PROVE  head' \in Nat
<1>1. IsFiniteSet(P) /\ p \in [P -> Int]
  <2>1. IsFiniteSet(P)
    BY CellsFinite, FS_Subset
  <2>2. p \in [P -> Int]
    OBVIOUS
  <2> QED BY <2>1, <2>2
<1>2. \E i \in DOMAIN p : \A j \in DOMAIN p : p[j] <= p[i]
  BY <1>1, GreatestOf
<1>3. (CHOOSE i \in DOMAIN p : \A j \in DOMAIN p : p[j] <= p[i]) \in DOMAIN p
  BY <1>2
<1>4. DOMAIN p \subseteq Nat
  BY CellsFinite
<1>5. head' = 1 + CHOOSE i \in DOMAIN p : \A j \in DOMAIN p : p[j] <= p[i]
  BY DEF Apply
<1> QED BY <1>3, <1>4, <1>5

LEMMA HeadsCalls == Heads /\ Calls => Heads'
<1> SUFFICES ASSUME Heads, Calls PROVE Heads'
  OBVIOUS
<1>1. saved' = saved
  BY DEF Calls, Clear, RemoveAny, Keep, Remove, Copy, Add, Div, Call, decoding
<1>2. \A k : HeadBack(k) \in Nat
  BY HeadBackIs DEF Heads
<1>3. \A k : Freed(k) # {} => First(Freed(k)) \in Nat
  <2>1. \A k : Freed(k) \in SUBSET Cells
    BY DEF Freed
  <2> QED BY <2>1, CellsFirst
<1>4. head' \in {0, head, HeadBack(c')} \/ (Freed(c') # {} /\ head' = First(Freed(c')))
  BY DEF Calls, Clear, RemoveAny, Keep, Remove, Copy, Add, Div
<1>5. head' \in Nat
  BY <1>2, <1>3, <1>4 DEF Heads
<1> QED BY <1>1, <1>5 DEF Heads

LEMMA PartHasTokens ==
  ASSUME Batched, NEW k \in DOMAIN batch, NEW p,
         \A m \in DOMAIN batch[k] : \E i \in DOMAIN p : p[i] = m,
         batch[k] \in Seq(Tokens)
  PROVE  DOMAIN p # {}
<1>1. batch[k] # <<>>
  BY DEF Batched
<1>2. 1 \in DOMAIN batch[k]
  BY <1>1
<1> QED BY <1>2

(* The search has placed every token of the part.                           *)
LEMMA PlaceFull ==
  ASSUME IInv, Heads, PrepareUbatch, Placing
  PROVE  \A m \in DOMAIN Part : \E i \in DOMAIN Place : Place[i] = m
<1>1. head \in Nat /\ Part \in Seq(Tokens) /\ Cardinality(Usable) >= Len(Part)
  BY PlacingFacts DEF Heads, Placing
<1>2. Len(Part) \in Nat /\ DOMAIN Part = 1 .. Len(Part)
  BY <1>1
<1>3. ASSUME NEW m \in 1 .. Len(Part)
      PROVE  \E i \in DOMAIN FindSlot(Len(Part)) : FindSlot(Len(Part))[i] = m
  BY <1>1, <1>2, FindSlotFills
<1> QED BY <1>2, <1>3 DEF Place

LEMMA HeadsDecodeSteps == IInv /\ Heads /\ Batched /\ Full /\ DecodeSteps => Heads'
<1> SUFFICES ASSUME IInv, Heads, Batched, Full, DecodeSteps PROVE Heads'
  OBVIOUS
<1>a. PICK T : saved \in Seq(T)
  BY SavedIsSeq
<1>1. CASE PrepareUbatch
  <2>1. CASE UNCHANGED <<head, saved>>
    BY <2>1 DEF Heads
  <2>2. CASE Placing
    <3>1. DOMAIN Place # {}
      BY <1>1, <2>2, PlaceFull, PlacingFacts, PartHasTokens DEF Part
    <3>2. head' \in Nat
      <4>1. DOMAIN Place \in SUBSET Cells /\ Part \in Seq(Tokens) /\ Apply(Place, Part)
            /\ Place \in [DOMAIN Place -> 1 .. Len(Part)]
        BY <1>1, <2>2, PlacingFacts DEF Placing
      <4>2. Len(Part) \in Nat
        BY <4>1
      <4> QED BY <3>1, <4>1, <4>2, HeadApplied
    <3> DEFINE o == Saved(c, DOMAIN Place)
    <3>3. o.head = head
      BY DEF Saved
    <3> HIDE DEF o
    <3>4. saved' = Append(saved, o)
      BY <2>2 DEF Placing, o
    <3>5. \A k \in 1 .. Len(saved') : saved'[k] = o \/ (k \in 1 .. Len(saved) /\ saved'[k] = saved[k])
      BY <1>a, <3>4
    <3> QED BY <3>2, <3>3, <3>5 DEF Heads
  <2> QED BY <1>1, <2>1, <2>2, PlacingFacts
<1>2. CASE Prepared \/ Restored \/ Computed
  BY <1>2 DEF Prepared, Restored, Computed, Heads
<1>3. CASE RestoreUbatch
  <2>1. saved # <<>> /\ head' = saved[Len(saved)].head /\ saved' = SubSeq(saved, 1, Len(saved) - 1)
    BY <1>3 DEF RestoreUbatch
  <2>2. Len(saved) \in 1 .. Len(saved)
    BY <1>a, <2>1
  <2>3. \A k \in 1 .. Len(saved') : \E j \in 1 .. Len(saved) : saved'[k] = saved[j]
    <3> DEFINE n == Len(saved)
    <3>1. n \in Nat /\ n >= 1 /\ n - 1 \in Int /\ \A k \in 1 .. n - 1 : saved[k] \in T
      BY <1>a, <2>2
    <3>2. /\ Len(saved') = IF 1 <= n - 1 THEN n - 1 - 1 + 1 ELSE 0
          /\ \A k \in 1 .. n - 1 - 1 + 1 : saved'[k] = saved[1 + k - 1]
      BY <2>1, <3>1, SubSeqProperties
    <3> HIDE DEF n
    <3>3. Len(saved') = n - 1
          /\ \A k \in 1 .. n - 1 : k \in 1 .. n - 1 - 1 + 1 /\ 1 + k - 1 = k /\ k \in 1 .. n
      BY <3>1, <3>2
    <3> QED BY <3>2, <3>3 DEF n
  <2> QED BY <2>1, <2>2, <2>3 DEF Heads
<1>4. CASE ApplyUbatch
  <2>1. phase = "apply" /\ Apply(plan[1], batch[1]) /\ saved' = saved
    BY <1>4 DEF ApplyUbatch
  <2>2. /\ 1 \in DOMAIN batch /\ batch[1] \in Seq(Tokens) /\ DOMAIN plan[1] \in SUBSET Cells
        /\ 1 \in DOMAIN plan
        /\ \A i \in DOMAIN plan[1] : plan[1][i] \in DOMAIN batch[1]
    BY <2>1, FirstPart
  <2>3. DOMAIN plan[1] # {}
    BY <2>2, PartHasTokens DEF Full
  <2>4. plan[1] \in [DOMAIN plan[1] -> 1 .. Len(batch[1])] /\ Len(batch[1]) \in Nat
    <3>1. plan[1] \in Slots
      BY <2>1, <2>2, FirstPart
    <3> QED BY <2>2, <3>1 DEF Slots
  <2>5. head' \in Nat
    BY <2>1, <2>2, <2>3, <2>4, HeadApplied
  <2> QED BY <2>1, <2>5 DEF Heads
<1>5. CASE ComputeFails
  <2>1. head' = HeadBack(c') /\ saved' = saved
    BY <1>5 DEF ComputeFails
  <2> QED BY <2>1, HeadBackIs DEF Heads
<1> QED BY <1>1, <1>2, <1>3, <1>4, <1>5 DEF DecodeSteps

LEMMA FullStep ==
  ASSUME IInv, Heads, Full, Calls \/ DecodeSteps
  PROVE  Full'
<1>1. CASE UNCHANGED <<plan, batch>> \/ (plan' = plan /\ batch' = <<>>) \/ plan' = <<>>
  BY <1>1 DEF Full
<1>2. CASE PrepareUbatch /\ Placing
  <2>1. /\ batch' = batch /\ Len(plan') = Len(plan) + 1 /\ plan'[Len(plan) + 1] = Place
        /\ \A k \in 1 .. Len(plan) : plan'[k] = plan[k]
    BY <1>2, PlacingFacts DEF Placing
  <2>2. plan \in Seq(Slots) /\ plan' = Append(plan, Place)
    BY <1>2 DEF IInv, PlanOK, Placing
  <2>3. DOMAIN plan = 1 .. Len(plan) /\ DOMAIN plan' = 1 .. Len(plan) + 1 /\ Len(plan) \in Nat
    BY <2>2
  <2>4. \A k \in DOMAIN plan' : k \in DOMAIN plan \/ k = Len(plan) + 1
    BY <2>3
  <2>5. \A m \in DOMAIN Part : \E i \in DOMAIN Place : Place[i] = m
    BY <1>2, PlaceFull
  <2> QED BY <2>1, <2>3, <2>4, <2>5 DEF Full, Part
<1>3. CASE Computed
  <2>1. /\ DOMAIN batch' = 1 .. Len(batch) - 1 /\ DOMAIN plan' = 1 .. Len(batch) - 1
        /\ \A k \in 1 .. Len(batch) - 1 :
              k + 1 \in DOMAIN batch /\ batch'[k] = batch[k + 1] /\ plan'[k] = plan[k + 1]
    BY <1>3, TailParts
  <2>2. DOMAIN plan = DOMAIN batch
    <3>1. plan \in Seq(Slots) /\ batch \in Seq(Seq(Tokens)) /\ Len(plan) = Len(batch)
      BY <1>3, FirstPart DEF Computed
    <3> QED BY <3>1
  <2> QED BY <2>1, <2>2 DEF Full
<1>4. Calls => UNCHANGED <<plan, batch>>
  BY DEF Calls, Clear, RemoveAny, Keep, Remove, Copy, Add, Div, Call, decoding
<1>5. PrepareUbatch => Placing \/ (plan' = plan /\ batch' = <<>>)
  BY PlacingFacts
<1>6. Prepared \/ RestoreUbatch \/ Restored \/ ApplyUbatch \/ ComputeFails =>
        UNCHANGED <<plan, batch>> \/ plan' = <<>>
  BY DEF Prepared, RestoreUbatch, Restored, ApplyUbatch, ComputeFails
<1> QED BY <1>1, <1>2, <1>3, <1>4, <1>5, <1>6 DEF DecodeSteps


LEMMA LaterStep ==
  ASSUME IInv, Later, Calls \/ DecodeSteps
  PROVE  Later'
<1>1. CASE ~ Rolling'
  BY <1>1 DEF Later
<1>2. CASE Rolling'
  <2>1. Rolling /\ before' = before /\ (batch' = batch \/ batch' = <<>>)
    BY <1>2 DEF Rolling, Calls, Clear, RemoveAny, Keep, Remove, Copy, Add, Div, Call, decoding,
         DecodeSteps, PrepareUbatch, Prepared, RestoreUbatch, Restored, ApplyUbatch, Computed,
         ComputeFails, Idle
  <2> QED BY <1>2, <2>1 DEF Later
<1> QED BY <1>1, <1>2

(* The next part comes after all that its sequences have.                   *)
LEMMA PartAbove ==
  ASSUME IInv, Follow, PrepareUbatch PROVE Above(Part)
<1>1. phase = "prepare" /\ Len(plan) + 1 \in DOMAIN batch /\ Len(plan) \in Nat
  BY PlacingFacts
<1>2. Waits(Len(plan) + 1)
  BY <1>1 DEF Waits
<1> QED BY <1>1, <1>2 DEF Follow, Part, Above

LEMMA FirstAbove ==
  ASSUME IInv, Follow, ApplyUbatch PROVE Above(batch[1])
<1>1. phase = "apply" /\ 1 \in DOMAIN batch
  BY FirstPart DEF ApplyUbatch
<1> QED BY <1>1 DEF Follow, Waits, Above

LEMMA ApplyTakes ==
  ASSUME IInv, Follow, ApplyUbatch, NEW i \in DOMAIN plan[1]
  PROVE  c'.pos[i] = Tok(1, i).pos /\ c'.seq[i] = {Tok(1, i).seq}
<1>1. Agree(c) /\ DOMAIN plan[1] \in SUBSET Cells /\ Apply(plan[1], batch[1]) /\ i \in Cells
  BY FirstPart DEF IInv, Consistent, ApplyUbatch
<1>2. plan[1][i] \in DOMAIN batch[1] /\ batch[1][plan[1][i]].pos \in Int
  <2>1. batch[1] \in Seq(Tokens) /\ plan[1][i] \in DOMAIN batch[1]
    BY FirstPart DEF ApplyUbatch
  <2> QED BY <2>1, TokenTypes
<1>3. PICK p, ub : p = plan[1] /\ ub = batch[1]
  OBVIOUS
<1>4. /\ Apply(p, ub) /\ Above(ub) /\ DOMAIN p \in SUBSET Cells /\ i \in DOMAIN p
      /\ p[i] \in DOMAIN ub /\ ub[p[i]].pos \in Int
  BY <1>1, <1>2, <1>3, FirstAbove
<1>5. c'.pos[i] = ub[p[i]].pos /\ c'.seq[i] = {ub[p[i]].seq}
  BY <1>1, <1>4, TakenCells
<1> QED BY <1>3, <1>5 DEF Tok

LEMMA ApplyLeaves ==
  ASSUME IInv, ApplyUbatch, NEW i \in Cells \ DOMAIN plan[1]
  PROVE  /\ c'.seq[i] = c.seq[i] \ Dropped(DOMAIN plan[1], i)
         /\ c'.seq[i] = {} => c'.pos[i] = -1
         /\ c'.seq[i] # {} => c'.pos[i] = c.pos[i]
<1>1. Agree(c) /\ DOMAIN plan[1] \in SUBSET Cells /\ Apply(plan[1], batch[1])
  BY FirstPart DEF IInv, Consistent, ApplyUbatch
<1> QED BY <1>1, OtherCells

LEMMA StandsStep ==
  ASSUME IInv, Follow, Calls \/ DecodeSteps
  PROVE  Stands'
<1>1. CASE ApplyUbatch
  <2>1. UNCHANGED <<batch, plan>>
    BY <1>1 DEF ApplyUbatch
  <2> QED BY <1>1, <2>1, ApplyTakes DEF Stands, Tok
<1>2. CASE ~ ApplyUbatch
  <2>1. phase' # "compute"
    BY <1>2 DEF Calls, Clear, RemoveAny, Keep, Remove, Copy, Add, Div, Call, decoding,
         DecodeSteps, PrepareUbatch, Prepared, RestoreUbatch, Restored, Computed, ComputeFails,
         Idle
  <2> QED BY <2>1 DEF Stands
<1> QED BY <1>1, <1>2

LEMMA FollowStep ==
  ASSUME IInv, Kept, Ordered, Calls \/ DecodeSteps
  PROVE  Follow'
<1>1. CASE PrepareUbatch /\ Placing
  <2> SUFFICES ASSUME NEW l \in DOMAIN batch', Waits(l)', NEW m \in DOMAIN batch'[l],
  NEW i \in Cells,
                      batch'[l][m].seq \in c'.seq[i]
               PROVE  c'.pos[i] < batch'[l][m].pos
    BY DEF Follow
  <2>1. /\ batch' = batch /\ phase = "prepare" /\ phase' = "prepare" /\ Len(plan') = Len(plan) + 1
        /\ Len(plan) + 1 \in DOMAIN batch /\ Len(plan) \in Nat /\ batch \in Seq(Seq(Tokens))
    BY <1>1, PlacingFacts DEF Placing, IInv, PlanOK
  <2>2. l \in DOMAIN batch /\ l > Len(plan) + 1 /\ l > Len(plan)
    BY <2>1 DEF Waits
  <2>3. \A j \in Cells : batch[l][m].seq \in c.seq[j] => c.pos[j] < batch[l][m].pos
    BY <2>1, <2>2 DEF Ordered, Follow, Waits
  <2>4. CASE i \in DOMAIN Place
    <3>1. c'.pos[i] = Part[Place[i]].pos /\ c'.seq[i] = {Part[Place[i]].seq}
      BY <1>1, <2>4, PartAbove, PlacingTakes DEF Ordered
    <3>2. Place[i] \in DOMAIN Part
      BY <1>1, <2>4, PlacingFacts
    <3>3. Part[Place[i]].seq = batch[l][m].seq
      BY <2>1, <3>1
    <3> QED BY <2>1, <2>2, <3>1, <3>2, <3>3 DEF Ordered, Batched, Part
  <2>5. CASE i \notin DOMAIN Place
    <3>1. /\ c'.seq[i] = c.seq[i] \ Dropped(DOMAIN Place, i)
          /\ c'.seq[i] # {} => c'.pos[i] = c.pos[i]
      BY <1>1, <2>5, PlacingLeaves
    <3> QED BY <2>1, <2>3, <3>1
  <2> QED BY <2>4, <2>5
<1>2. CASE Restored
  <2> SUFFICES ASSUME NEW l \in DOMAIN batch', NEW m \in DOMAIN batch'[l], NEW i \in Cells,
                      batch'[l][m].seq \in c'.seq[i]
               PROVE  c'.pos[i] < batch'[l][m].pos
    BY DEF Follow
  <2>1. UNCHANGED <<c, batch>> /\ phase = "restore" /\ saved = <<>>
    BY <1>2 DEF Restored
  <2>2. wasPos[i] = c.pos[i] /\ wasSeq[i] = c.seq[i]
    BY <2>1, WasNow
  <2>3. c.pos[i] \in before[batch[l][m].seq]
    BY <2>1, <2>2 DEF Kept, Rolling
  <2> QED BY <2>1, <2>3 DEF Ordered, Later, Rolling
<1>3. CASE ApplyUbatch
  <2> SUFFICES ASSUME NEW l \in DOMAIN batch', Waits(l)', NEW m \in DOMAIN batch'[l],
  NEW i \in Cells,
                      batch'[l][m].seq \in c'.seq[i]
               PROVE  c'.pos[i] < batch'[l][m].pos
    BY DEF Follow
  <2>1. /\ batch' = batch /\ phase = "apply" /\ phase' = "compute" /\ 1 \in DOMAIN batch
        /\ batch \in Seq(Seq(Tokens))
    BY <1>3, FirstPart DEF ApplyUbatch
  <2>2. l \in DOMAIN batch /\ l > 1
    BY <2>1 DEF Waits
  <2>3. \A j \in Cells : batch[l][m].seq \in c.seq[j] => c.pos[j] < batch[l][m].pos
    BY <2>1, <2>2 DEF Ordered, Follow, Waits
  <2>4. CASE i \in DOMAIN plan[1]
    <3>1. c'.pos[i] = Tok(1, i).pos /\ c'.seq[i] = {Tok(1, i).seq}
      BY <1>3, <2>4, ApplyTakes DEF Ordered
    <3>2. plan[1][i] \in DOMAIN batch[1]
      BY <2>1, <2>4, FirstPart
    <3>3. Tok(1, i).seq = batch[l][m].seq
      BY <2>1, <3>1
    <3> QED BY <2>1, <2>2, <3>1, <3>2, <3>3 DEF Ordered, Batched, Tok
  <2>5. CASE i \notin DOMAIN plan[1]
    <3>1. /\ c'.seq[i] = c.seq[i] \ Dropped(DOMAIN plan[1], i)
          /\ c'.seq[i] # {} => c'.pos[i] = c.pos[i]
      BY <1>3, <2>5, ApplyLeaves
    <3> QED BY <2>1, <2>3, <3>1
  <2> QED BY <2>4, <2>5
<1>4. CASE Computed
  <2>1. /\ DOMAIN batch' = 1 .. Len(batch) - 1 /\ c' = c /\ phase = "compute"
        /\ Len(batch) \in Nat
        /\ \A k \in 1 .. Len(batch) - 1 : k + 1 \in DOMAIN batch /\ batch'[k] = batch[k + 1] /\ k + 1 > 1
    BY <1>4, TailParts, FirstPart DEF Computed
  <2> QED BY <2>1 DEF Ordered, Follow, Waits
<1>5. CASE ~ Restored /\ ~ ApplyUbatch /\ ~ Computed /\ ~ (PrepareUbatch /\ Placing)
  <2>1. PrepareUbatch => phase' = "restore"
    BY <1>5, PlacingFacts
  <2>2. phase' \in {"idle", "restore"}
    BY <1>5, <2>1 DEF Calls, Clear, RemoveAny, Keep, Remove, Copy, Add, Div, Call, decoding,
         DecodeSteps, Prepared, RestoreUbatch, ComputeFails, Idle
  <2> QED BY <2>2 DEF Follow, Waits
<1> QED BY <1>1, <1>2, <1>3, <1>4, <1>5

LEMMA OrderedInit == Init => Ordered
BY DEF Init, Ordered, Heads, Batched, Later, Follow, Full, Stands

LEMMA OrderedDecode ==
  ASSUME IInv, Kept, Ordered, NEW s \in Seqs, NEW t \in Seqs, NEW n \in 1 .. MaxBatch,
  NEW m \in 0 .. MaxBatch,
         Decode(s, n, t, m)
  PROVE  Ordered'
<1>1. /\ phase' = "prepare" /\ plan' = <<>> /\ saved' = saved /\ head' = head /\ c'.pos = c.pos
      /\ c'.seq = c.seq /\ before' = [u \in Seqs |-> Positions(c, u)]
  BY DecodeCells
<1>2. /\ Batched'
      /\ \A l \in DOMAIN batch' : \A j \in DOMAIN batch'[l] :
           batch'[l][j].seq \in Seqs /\ batch'[l][j].pos \in Int
           /\ \A q \in Positions(c, batch'[l][j].seq) : q < batch'[l][j].pos
  BY DecodeBatch
<1>3. Heads'
  BY <1>1 DEF Ordered, Heads
<1>4. Later'
  BY <1>1, <1>2 DEF Later
<1>5. Follow'
  <2>1. \A u \in Seqs, i \in Cells : u \in c.seq[i] => c.pos[i] \in Positions(c, u)
    BY PositionsAre DEF IInv, Consistent
  <2> QED BY <1>1, <1>2, <2>1 DEF Follow
<1>6. Full' /\ Stands'
  BY <1>1 DEF Full, Stands
<1> QED BY <1>2, <1>3, <1>4, <1>5, <1>6 DEF Ordered

LEMMA OrderedStep ==
  ASSUME IInv, Kept, Ordered, Calls \/ DecodeSteps
  PROVE  Ordered'
BY HeadsCalls, HeadsDecodeSteps, BatchedStep, LaterStep, FollowStep, FullStep, StandsStep
   DEF Ordered


-----------------------------------------------------------------------------
(* The keys follow the positions.  In the middle of a decode no shift waits, *)
(* and the key of a cell is that of what the cell was before the prepare;    *)
(* a part that is being computed writes the keys of its cells.               *)
Keyed ==
  /\ data \in [Cells -> Int] /\ divided \subseteq Cells
  /\ phase = "idle" =>
       \A i \in Cells \ divided : c.pos[i] # -1 => data[i] + c.shift[i] = c.pos[i]
  /\ phase \in {"prepare", "restore", "apply"} =>
       \A i \in Cells \ divided : wasPos[i] # -1 => data[i] = wasPos[i]
  /\ phase = "compute" =>
       \A i \in Cells \ (divided \cup DOMAIN plan[1]) : c.pos[i] # -1 => data[i] = c.pos[i]

LEMMA KeyedCall ==
  ASSUME Keyed, phase = "idle", phase' = "idle", NEW D, divided \subseteq D, D \subseteq Cells,
  Track(c', D),
         \A i \in Cells : /\ c.pos[i] \in Int /\ c.shift[i] \in Int /\ c'.pos[i] \in Int
                          /\ c'.shift[i] \in Int
                          /\ i \notin D /\ c'.pos[i] # -1 =>
                               c.pos[i] # -1 /\ c'.pos[i] - c'.shift[i] = c.pos[i] - c.shift[i]
  PROVE  Keyed'
<1>1. divided' = {i \in D : c'.pos[i] # -1}
      /\ data' = [i \in Cells |-> IF c'.pos[i] = -1 \/ i \in D THEN 0 ELSE data[i]]
  BY DEF Track, Keys
<1>2. data \in [Cells -> Int]
  BY DEF Keyed
<1>3. data' \in [Cells -> Int] /\ divided' \subseteq Cells
  BY <1>1, <1>2
<1>4. ASSUME NEW i \in Cells \ divided', c'.pos[i] # -1 PROVE data'[i] + c'.shift[i] = c'.pos[i]
  <2>1. i \notin D /\ data'[i] = data[i]
    BY <1>1, <1>4
  <2>2. data[i] + c.shift[i] = c.pos[i] /\ data[i] \in Int
    BY <1>2, <1>4, <2>1 DEF Keyed
  <2> QED BY <1>4, <2>1, <2>2
<1> QED BY <1>3, <1>4 DEF Keyed

LEMMA KeyedStrip ==
  ASSUME IInv, IInv', Keyed, phase = "idle", phase' = "idle", NEW g, c' = Strip(c, g),
         Track(c', divided)
  PROVE  Keyed'
<1>1. Agree(c) /\ Agree(c')
  BY DEF IInv, Consistent
<1>2. ASSUME NEW i \in Cells
      PROVE  /\ c.pos[i] \in Int /\ c.shift[i] \in Int /\ c'.pos[i] \in Int /\ c'.shift[i] \in Int
             /\ c'.pos[i] # -1 => c.pos[i] # -1 /\ c'.pos[i] - c'.shift[i] = c.pos[i] - c.shift[i]
  <2>1. c.pos[i] \in Int /\ c.shift[i] \in Int /\ c'.pos[i] \in Int /\ c'.shift[i] \in Int
    BY <1>1, CellTypes
  <2>2. c'.pos[i] # -1 => c'.pos[i] = c.pos[i] /\ c'.shift[i] = c.shift[i]
    BY DEF Strip
  <2> QED BY <2>1, <2>2
<1>3. divided \subseteq Cells
  BY DEF Keyed
<1> QED BY <1>2, <1>3, KeyedCall

LEMMA KeyedCalls == IInv /\ IInv' /\ Keyed /\ Calls => Keyed'
<1> SUFFICES ASSUME IInv, IInv', Keyed, Calls PROVE Keyed'
  OBVIOUS
<1>1. phase = "idle" /\ phase' = "idle"
  BY DEF Calls, Clear, RemoveAny, Keep, Remove, Copy, Add, Div, Call, decoding
<1>a. Agree(c) /\ Agree(c') /\ divided \subseteq Cells
  BY DEF IInv, Consistent, Keyed
<1>b. \A i \in Cells : /\ c.pos[i] \in Int /\ c.shift[i] \in Int /\ c'.pos[i] \in Int
                       /\ c'.shift[i] \in Int
                       /\ c.pos[i] >= -1
  BY <1>a, CellTypes
<1>2. CASE Clear
  BY <1>1, <1>2, KeyedStrip DEF Clear, Call
<1>3. ASSUME NEW r \in Ranges, RemoveAny(r) PROVE Keyed'
  BY <1>1, <1>3, KeyedStrip DEF RemoveAny, Call
<1>4. ASSUME NEW s \in Seqs, Keep(s) PROVE Keyed'
  BY <1>1, <1>4, KeyedStrip DEF Keep, Call
<1>5. ASSUME NEW s \in Seqs, NEW r \in Ranges, Remove(s, r) PROVE Keyed'
  BY <1>1, <1>5, KeyedStrip DEF Remove, Call, SeqRm
<1>6. ASSUME NEW s \in Seqs, NEW d \in Seqs, NEW r \in Ranges, Copy(s, d, r) PROVE Keyed'
  <2>1. c'.pos = c.pos /\ c'.shift = c.shift /\ Track(c', divided)
    BY <1>6 DEF Copy, Call, Share
  <2> QED BY <1>1, <1>a, <1>b, <2>1, KeyedCall
<1>7. ASSUME NEW s \in Seqs, NEW r \in Ranges, NEW d \in Shifts, Add(s, r, d) PROVE Keyed'
  <2>1. c' = PosAdd(c, Of(c, s, r), d) /\ Track(c', divided) /\ d \in Int
    BY <1>7, CallsAssumption DEF Add, Call
  <2>2. ASSUME NEW i \in Cells, c'.pos[i] # -1
        PROVE  c.pos[i] # -1 /\ c'.pos[i] - c'.shift[i] = c.pos[i] - c.shift[i]
    <3>1. CASE i \in Of(c, s, r)
      <4>1. c.pos[i] # -1
        BY <1>a, <3>1, OfUsed
      <4>2. ~ (c.pos[i] + d < 0) /\ c.pos[i] + d >= 0
        BY <1>b, <2>1, <2>2, <3>1 DEF PosAdd
      <4>3. c'.pos[i] = c.pos[i] + d /\ c'.shift[i] = c.shift[i] + d
        BY <2>1, <3>1, <4>2 DEF PosAdd
      <4> QED BY <1>b, <2>1, <4>1, <4>3
    <3>2. CASE i \notin Of(c, s, r)
      <4>1. c'.pos[i] = c.pos[i] /\ c'.shift[i] = c.shift[i]
        BY <2>1, <3>2 DEF PosAdd
      <4> QED BY <2>2, <4>1
    <3> QED BY <3>1, <3>2
  <2> QED BY <1>1, <1>a, <1>b, <2>1, <2>2, KeyedCall
<1>8. ASSUME NEW s \in Seqs, NEW r \in Ranges, NEW d \in Divisors, Div(s, r, d) PROVE Keyed'
  <2> DEFINE D == divided \cup Of(c, s, r)
  <2>1. c' = PosDiv(c, Of(c, s, r), d) /\ Track(c', D)
    BY <1>8 DEF Div, Call
  <2>2. divided \subseteq D /\ D \subseteq Cells
    BY <1>a DEF Of
  <2>3. \A i \in Cells : i \notin D => c'.pos[i] = c.pos[i] /\ c'.shift[i] = c.shift[i]
    BY <2>1 DEF PosDiv
  <2> HIDE DEF D
  <2> QED BY <1>1, <1>b, <2>1, <2>2, <2>3, KeyedCall
<1> QED BY <1>2, <1>3, <1>4, <1>5, <1>6, <1>7, <1>8 DEF Calls

LEMMA KeyedDecode ==
  ASSUME IInv, Kept, Keyed, NEW s, NEW t, NEW n, NEW m, Decode(s, n, t, m)
  PROVE  Keyed'
<1>1. /\ c'.pos = c.pos /\ c'.seq = c.seq
      /\ c.hasShift => data' = Keys(c, divided, [i \in Cells |-> data[i] + c.shift[i]])
      /\ ~ c.hasShift => data' = data
      /\ phase = "idle" /\ phase' = "prepare" /\ saved' = saved /\ saved = <<>>
      /\ divided' = divided
  BY DecodeCells DEF Kept, Rolling
<1>2. \A i \in Cells : wasPos'[i] = c.pos[i]
  BY <1>1 DEF wasPos, Copies
<1>3. data \in [Cells -> Int] /\ divided \subseteq Cells
  BY DEF Keyed
<1>4. \A i \in Cells : c.shift[i] \in Int /\ (~ c.hasShift => c.shift[i] = 0)
  BY CellTypes DEF IInv, Consistent
<1>5. CASE c.hasShift
  <2>1. data' = [i \in Cells |-> IF c.pos[i] = -1 \/ i \in divided THEN 0 ELSE data[i] + c.shift[i]]
    BY <1>1, <1>5 DEF Keys
  <2>2. data' \in [Cells -> Int]
    BY <1>3, <1>4, <2>1
  <2>3. \A i \in Cells \ divided' : wasPos'[i] # -1 => data'[i] = wasPos'[i]
    BY <1>1, <1>2, <2>1 DEF Keyed
  <2> QED BY <1>1, <1>3, <2>2, <2>3 DEF Keyed
<1>6. CASE ~ c.hasShift
  <2>1. \A i \in Cells \ divided' : wasPos'[i] # -1 => data'[i] = wasPos'[i]
    BY <1>1, <1>2, <1>3, <1>4, <1>6 DEF Keyed
  <2> QED BY <1>1, <1>3, <1>6, <2>1 DEF Keyed
<1> QED BY <1>5, <1>6

LEMMA KeyedDecodeSteps == IInv /\ IInv' /\ Kept /\ Kept' /\ Ordered /\ Keyed
/\ DecodeSteps => Keyed'
<1> SUFFICES ASSUME IInv, IInv', Kept, Kept', Ordered, Keyed, DecodeSteps PROVE Keyed'
  OBVIOUS
<1>a. Agree(c) /\ Agree(c') /\ divided \subseteq Cells /\ data \in [Cells -> Int]
  BY DEF IInv, Consistent, Keyed
<1>b. \A i \in Cells : /\ c.pos[i] \in Int /\ c.shift[i] \in Int
                       /\ phase # "idle" => c.shift[i] = 0
  BY <1>a, CellTypes DEF IInv
<1>c. ASSUME NEW i \in Cells, saved = <<>> PROVE wasPos[i] = c.pos[i]
  BY <1>c, WasNow
<1>d. ASSUME NEW i \in Cells, saved' = <<>> PROVE wasPos'[i] = c'.pos[i]
  BY <1>d DEF wasPos, Copies
<1>1. CASE PrepareUbatch
  <2>1. phase = "prepare" /\ phase' \in {"prepare", "restore"} /\ UNCHANGED <<data, divided>>
    BY <1>1, PlacingFacts DEF Placing
  <2> SUFFICES ASSUME NEW i \in Cells, wasPos'[i] # -1 PROVE wasPos'[i] = wasPos[i]
    BY <1>a, <2>1 DEF Keyed
  <2>2. CASE UNCHANGED <<c, saved>>
    BY <2>2 DEF wasPos, Copies
  <2>3. CASE Placing
    <3>1. PICK T : saved \in Seq(T)
      BY SavedIsSeq
    <3>2. saved' = Append(saved, Saved(c, DOMAIN Place))
      BY <2>3 DEF Placing
    <3>3. CASE i \in DOMAIN Place \/ Copies(i) # {}
      BY <3>1, <3>2, <3>3, WasPrepared
    <3>4. CASE ~ (i \in DOMAIN Place \/ Copies(i) # {})
      <4>1. wasPos'[i] = c'.pos[i] /\ wasPos[i] = c.pos[i]
        BY <3>1, <3>2, <3>4, WasPrepared
      <4>2. (c'.seq[i] = {} => c'.pos[i] = -1) /\ (c'.seq[i] # {} => c'.pos[i] = c.pos[i])
        BY <1>1, <2>3, <3>4, PlacingLeaves
      <4> QED BY <4>1, <4>2
    <3> QED BY <3>3, <3>4
  <2> QED BY <1>1, <2>2, <2>3, PlacingFacts
<1>2. CASE Prepared
  <2>1. wasPos' = wasPos /\ phase = "prepare" /\ phase' = "restore" /\ UNCHANGED <<data, divided>>
    BY <1>2 DEF Prepared, wasPos, Copies
  <2> QED BY <1>a, <2>1 DEF Keyed
<1>3. CASE RestoreUbatch
  <2>1. PICK T : saved \in Seq(T)
    BY SavedIsSeq
  <2>2. \A i \in Cells : wasPos'[i] = wasPos[i]
    BY <1>3, <2>1, WasRestored
  <2>3. phase = "restore" /\ phase' = "restore" /\ UNCHANGED <<data, divided>>
    BY <1>3 DEF RestoreUbatch
  <2> QED BY <1>a, <2>2, <2>3 DEF Keyed
<1>4. CASE Restored
  <2>1. phase = "restore" /\ saved = <<>> /\ saved' = <<>> /\ c' = c
    BY <1>4 DEF Restored
  <2>2. CASE batch = <<>>
    <3>1. /\ phase' = "idle" /\ divided' = {i \in divided : c.pos[i] # -1}
          /\ data' = [i \in Cells |-> IF c.pos[i] = -1 \/ i \in divided THEN 0 ELSE data[i]]
      BY <1>4, <2>2 DEF Restored, Idle, Track, Keys
    <3>2. data' \in [Cells -> Int] /\ divided' \subseteq Cells
      BY <1>a, <3>1
    <3>3. ASSUME NEW i \in Cells \ divided',
    c'.pos[i] # -1 PROVE data'[i] + c'.shift[i] = c'.pos[i]
      <4>1. data'[i] = data[i] /\ i \in Cells \ divided /\ c.shift[i] = 0 /\ c.pos[i] # -1
        BY <1>b, <2>1, <3>1, <3>3
      <4>2. data[i] = c.pos[i]
        BY <1>c, <2>1, <4>1 DEF Keyed
      <4> QED BY <1>b, <2>1, <4>1, <4>2
    <3> QED BY <3>1, <3>2, <3>3 DEF Keyed
  <2>3. CASE batch # <<>>
    <3>1. phase' = "apply" /\ UNCHANGED <<data, divided>>
      BY <1>4, <2>3 DEF Restored
    <3>2. \A i \in Cells : wasPos'[i] = wasPos[i]
      BY <1>c, <1>d, <2>1
    <3> QED BY <1>a, <2>1, <3>1, <3>2 DEF Keyed
  <2> QED BY <2>2, <2>3
<1>5. CASE ApplyUbatch
  <2>1. /\ phase = "apply" /\ phase' = "compute" /\ UNCHANGED <<data, plan>>
        /\ divided' = divided \ DOMAIN plan[1] /\ saved = <<>>
    BY <1>5 DEF ApplyUbatch, Kept, Rolling
  <2>2. ASSUME NEW i \in Cells \ (divided' \cup DOMAIN plan'[1]),
  c'.pos[i] # -1 PROVE data'[i] = c'.pos[i]
    <3>1. i \in Cells \ divided /\ i \notin DOMAIN plan[1]
      BY <2>1, <2>2
    <3>2. c'.pos[i] = c.pos[i]
      BY <1>5, <2>2, <3>1, ApplyLeaves
    <3> QED BY <1>c, <2>1, <2>2, <3>1, <3>2 DEF Keyed
  <2> QED BY <1>a, <2>1, <2>2 DEF Keyed
<1>6. CASE Computed
  <2>1. /\ phase = "compute" /\ phase' \in {"idle", "apply"} /\ c' = c /\ divided' = divided
        /\ data' = Keys(c, divided, [i \in Cells |-> IF i \in DOMAIN plan[1]
                                                     THEN batch[1][plan[1][i]].pos ELSE data[i]])
        /\ saved' = <<>>
    BY <1>6 DEF Computed, Idle, Kept, Rolling
  <2>2. \A i \in Cells : data'[i] = IF c.pos[i] = -1 \/ i \in divided THEN 0
                                    ELSE IF i \in DOMAIN plan[1] THEN Tok(1, i).pos ELSE data[i]
    BY <2>1 DEF Keys, Tok
  <2>3. ASSUME NEW i \in Cells
        PROVE  data'[i] \in Int /\ (i \notin divided /\ c.pos[i] # -1 => data'[i] = c.pos[i])
    <3>1. CASE i \in DOMAIN plan[1]
      <4>1. c.pos[i] = Tok(1, i).pos
        BY <2>1, <3>1 DEF Ordered, Stands
      <4> QED BY <1>b, <2>2, <3>1, <4>1
    <3>2. CASE i \notin DOMAIN plan[1]
      BY <1>a, <2>1, <2>2, <3>2 DEF Keyed
    <3> QED BY <3>1, <3>2
  <2>4. data' \in [Cells -> Int]
    <3>1. data' = [i \in Cells |-> data'[i]]
      BY <2>1 DEF Keys
    <3> QED BY <2>3, <3>1
  <2>5. \A i \in Cells \ divided : c.pos[i] # -1 => data'[i] + c.shift[i] = c.pos[i]
    BY <1>b, <2>1, <2>3
  <2>6. \A i \in Cells : wasPos'[i] = c.pos[i]
    BY <1>d, <2>1
  <2> QED BY <1>a, <2>1, <2>3, <2>4, <2>5, <2>6 DEF Keyed
<1>7. CASE ComputeFails
  <2> DEFINE g == [i \in Cells |-> {s \in Seqs : \E k \in DOMAIN batch[1] :
                                       batch[1][k].seq = s /\ batch[1][k].pos <= c.pos[i]}]
  <2>1. c' = Strip(c, g) /\ phase = "compute" /\ phase' = "idle" /\ Track(c', divided)
    BY <1>7 DEF ComputeFails, Idle
  <2>2. /\ divided' = {i \in divided : c'.pos[i] # -1}
        /\ data' = [i \in Cells |-> IF c'.pos[i] = -1 \/ i \in divided THEN 0 ELSE data[i]]
    BY <2>1 DEF Track, Keys
  <2>3. data' \in [Cells -> Int] /\ divided' \subseteq Cells
    BY <1>a, <2>2
  <2>4. ASSUME NEW i \in DOMAIN plan[1] PROVE c'.pos[i] = -1
    <3>1. /\ c.pos[i] = Tok(1, i).pos /\ c.seq[i] = {Tok(1, i).seq}
          /\ plan[1][i] \in DOMAIN batch[1]
          /\ Tok(1, i) \in Tokens /\ i \in Cells
      BY <2>1, FirstPart DEF Ordered, Stands
    <3>2. Tok(1, i).seq \in Seqs /\ Tok(1, i).pos \in Int
      BY <3>1 DEF Tokens
    <3>3. Tok(1, i).seq \in g[i]
      BY <3>1, <3>2 DEF Tok
    <3> HIDE DEF g
    <3>4. c.seq[i] # {} /\ c.seq[i] \subseteq g[i]
      BY <3>1, <3>3
    <3> QED BY <2>1, <3>1, <3>4 DEF Strip
  <2> HIDE DEF g
  <2>5. ASSUME NEW i \in Cells \ divided', c'.pos[i] # -1 PROVE data'[i] + c'.shift[i] = c'.pos[i]
    <3>1. i \notin DOMAIN plan[1] /\ i \in Cells \ divided /\ data'[i] = data[i]
      BY <2>2, <2>4, <2>5
    <3>2. c'.pos[i] = c.pos[i] /\ c'.shift[i] = c.shift[i]
      BY <2>1, <2>5 DEF Strip
    <3>3. data[i] = c.pos[i] /\ c.shift[i] = 0
      BY <1>b, <2>1, <2>5, <3>1, <3>2 DEF Keyed
    <3> QED BY <1>b, <3>1, <3>2, <3>3
  <2> QED BY <2>1, <2>3, <2>5 DEF Keyed
<1> QED BY <1>1, <1>2, <1>3, <1>4, <1>5, <1>6, <1>7 DEF DecodeSteps

LEMMA KeyedInit == Init => Keyed
BY DEF Init, Keyed

LEMMA KeyedIs == IInv /\ Kept /\ Keyed => KeysFollow
<1> SUFFICES ASSUME IInv, Kept, Keyed, NEW i \in Cells \ (divided \cup InFlight), c.pos[i] # -1
             PROVE  /\ data[i] + c.shift[i] = c.pos[i]
                    /\ phase = "idle" \/ c.shift[i] = 0
  BY DEF KeysFollow
<1>1. c.pos[i] \in Int /\ (phase # "idle" => c.shift[i] = 0)
  BY CellTypes DEF IInv, Consistent
<1>2. CASE phase = "idle"
  BY <1>2 DEF Keyed
<1>3. CASE phase \in {"prepare", "restore"}
  <2>1. Copies(i) = {}
    <3>1. Len(saved) <= Len(plan) /\ plan \in Seq(Slots)
          /\ \A k \in 1 .. Len(saved) : DOMAIN saved[k].pos = DOMAIN plan[k]
      BY <1>3 DEF Kept, IInv, PlanOK
    <3>a. Len(saved) \in Nat
      BY SavedIsSeq
    <3>2. \A k \in 1 .. Len(saved) : k \in DOMAIN plan
      BY <3>1, <3>a
    <3>3. \A k \in DOMAIN plan : i \notin DOMAIN plan[k]
      BY <1>3 DEF InFlight
    <3> QED BY <3>1, <3>2, <3>3 DEF Copies
  <2>2. wasPos[i] = c.pos[i]
    BY <2>1 DEF wasPos
  <2> QED BY <1>1, <1>3, <2>2 DEF Keyed
<1>4. CASE phase = "apply"
  <2>1. wasPos[i] = c.pos[i]
    BY <1>4, WasNow DEF Kept, Rolling
  <2> QED BY <1>1, <1>4, <2>1 DEF Keyed
<1>5. CASE phase = "compute"
  <2>1. i \notin DOMAIN plan[1]
    BY <1>5, FirstPart DEF InFlight
  <2> QED BY <1>1, <1>5, <2>1 DEF Keyed
<1> QED BY <1>2, <1>3, <1>4, <1>5 DEF IInv, Consistent


Sized == swa \in Windows

LEMMA SizedStep == Sized /\ [Next]_vars => Sized'
<1> SUFFICES ASSUME [Next]_vars PROVE swa' = swa
  BY DEF Sized
<1>1. CASE Calls
  BY <1>1 DEF Calls, Clear, RemoveAny, Keep, Remove, Copy, Add, Div, Call
<1>2. CASE DecodeSteps
  BY <1>2 DEF DecodeSteps, PrepareUbatch, Prepared, RestoreUbatch, Restored, ApplyUbatch,
              Computed, ComputeFails
<1>3. CASE \E s, t \in Seqs, n \in 1 .. MaxBatch, m \in 0 .. MaxBatch : Decode(s, n, t, m)
  BY <1>3 DEF Decode
<1> QED BY <1>1, <1>2, <1>3 DEF Next, vars

KInv == IInv /\ Sized /\ Kept /\ Ordered /\ Keyed

LEMMA KInvInit == Init => KInv
BY InitIInv, KeptInit, OrderedInit, KeyedInit DEF KInv, Sized, Init

LEMMA KeptStep ==
  ASSUME IInv, IInv', Kept, [Next]_vars PROVE Kept'
<1>1. CASE Calls \/ DecodeSteps
  BY <1>1, KeptPrepare, KeptRestore, KeptPrepared, KeptElse DEF DecodeSteps
<1>2. CASE \E s, t \in Seqs, n \in 1 .. MaxBatch, m \in 0 .. MaxBatch : Decode(s, n, t, m)
  <2>1. Agree(c')
    BY DEF IInv, Consistent
  <2> QED BY <1>2, <2>1, KeptDecode
<1>3. CASE UNCHANGED vars
  <2>1. wasPos' = wasPos /\ wasSeq' = wasSeq
    BY <1>3 DEF vars, wasPos, wasSeq, Copies
  <2> QED BY <1>3, <2>1 DEF vars, Kept, Rolling
<1> QED BY <1>1, <1>2, <1>3 DEF Next

LEMMA KInvStep == KInv /\ [Next]_vars => KInv'
<1> SUFFICES ASSUME IInv, Kept, Ordered, Keyed, [Next]_vars
             PROVE  IInv' /\ Kept' /\ Ordered' /\ Keyed'
  BY SizedStep DEF KInv
<1>1. IInv' /\ Kept'
  BY IInvStep, KeptStep
<1>2. CASE Calls \/ DecodeSteps
  BY <1>1, <1>2, OrderedStep, KeyedCalls, KeyedDecodeSteps
<1>3. CASE \E s, t \in Seqs, n \in 1 .. MaxBatch, m \in 0 .. MaxBatch : Decode(s, n, t, m)
  BY <1>1, <1>3, OrderedDecode, KeyedDecode
<1>4. CASE UNCHANGED vars
  <2>1. wasPos' = wasPos
    BY <1>4 DEF vars, wasPos, Copies
  <2>2. Keyed'
    BY <1>4, <2>1 DEF vars, Keyed
  <2>3. Heads' /\ Batched' /\ Later' /\ Follow' /\ Full' /\ Stands'
    BY <1>4 DEF vars, Ordered, Heads, Batched, Later, Rolling, Follow, Waits, Full, Stands, Tok
  <2> QED BY <1>1, <2>2, <2>3 DEF Ordered
<1> QED BY <1>2, <1>3, <1>4 DEF Next

(* The key in a cell, rotated by what is still to be applied, is that of    *)
(* the cell's position, for any number of cells, sequences and tokens.      *)
THEOREM KeysAreRotated == Spec => []KeysFollow
<1>1. KInv => KeysFollow
  BY KeyedIs DEF KInv
<1> QED BY KInvInit, KInvStep, <1>1, PTL DEF Spec

-----------------------------------------------------------------------------
(* A part of a batch that is placed alone takes from a sequence only what   *)
(* its next token does not see; without a window, no part takes anything.   *)
Recalled ==
  Rolling /\ (swa = 0 \/ Len(plan) <= 1) =>
    \A s \in Seqs : \A p \in before[s] :
      (\A q \in before[s] : ~ (swa # 0 /\ (q + 1) - p >= swa)) =>
        \E i \in Cells : s \in wasSeq[i] /\ wasPos[i] = p

(* A cell that is used and can be taken is seen by no token after the last  *)
(* position of its sequence.                                                *)
LEMMA UsableIs ==
  ASSUME Agree(c), NEW x \in Usable, NEW s \in c.seq[x]
  PROVE  /\ s \in Seqs /\ swa # 0 /\ c.seq[x] = {s} /\ PosMax(c, s) \in Int
         /\ (PosMax(c, s) + 1) - c.pos[x] >= swa
         /\ \E j \in Cells : s \in c.seq[j] /\ c.pos[j] = PosMax(c, s)
<1>1. x \in Cells /\ c.pos[x] # -1 /\ s \in Seqs /\ c.pos[x] \in Int /\ c.pos[x] >= -1
  <2>1. x \in Cells
    BY DEF Usable
  <2> QED BY <2>1, CellTypes
<1>2. c.seq[x] = {s} /\ swa # 0 /\ (PosMax(c, s) + 1) - c.pos[x] >= swa
  <2>1. PICK u \in Seqs : c.seq[x] = {u} /\ Masked(c.pos[x], PosMax(c, u) + 1)
    BY <1>1 DEF Usable
  <2>2. u = s
    BY <2>1
  <2> QED BY <2>1, <2>2 DEF Masked
<1>3. PosMax(c, s) \in Int /\ c.pos[x] <= PosMax(c, s)
  BY <1>1, PosMaxIs
<1>4. PosMax(c, s) \in Positions(c, s)
  BY <1>1, <1>3, PosMaxIs
<1>5. \E j \in Cells : s \in c.seq[j] /\ PosMax(c, s) = c.pos[j]
  BY <1>1, <1>4, PositionsAre
<1> QED BY <1>1, <1>2, <1>3, <1>5

LEMMA RecalledPlacing ==
  ASSUME IInv, Kept, Sized, Recalled, PrepareUbatch, Placing
  PROVE  Recalled'
<1> SUFFICES ASSUME swa' = 0 \/ Len(plan') <= 1, NEW s \in Seqs, NEW p \in before'[s],
                    \A q \in before'[s] : ~ (swa' # 0 /\ (q + 1) - p >= swa')
             PROVE  \E i \in Cells : s \in wasSeq'[i] /\ wasPos'[i] = p
  BY DEF Recalled
<1>1. /\ phase = "prepare" /\ before' = before /\ swa' = swa /\ Len(plan) \in Nat
      /\ Len(plan') = Len(plan) + 1 /\ saved' = Append(saved, Saved(c, DOMAIN Place))
      /\ DOMAIN Place \subseteq Usable /\ Agree(c) /\ Len(saved) = Len(plan)
      /\ DOMAIN Place \in SUBSET Cells
  BY PlacingFacts DEF Placing, IInv, Consistent, Kept
<1>2. PICK T : saved \in Seq(T)
  BY SavedIsSeq
<1>3. PICK i \in Cells : s \in wasSeq[i] /\ wasPos[i] = p
  BY <1>1 DEF Recalled, Rolling
<1>4. CASE i \in DOMAIN Place \/ Copies(i) # {}
  BY <1>1, <1>2, <1>3, <1>4, WasPrepared
<1>5. CASE ~ (i \in DOMAIN Place \/ Copies(i) # {})
  <2>1. wasPos'[i] = c'.pos[i] /\ wasSeq'[i] = c'.seq[i] /\ wasPos[i] = c.pos[i]
        /\ wasSeq[i] = c.seq[i]
    BY <1>1, <1>2, <1>5, WasPrepared
  <2>2. /\ c'.seq[i] = c.seq[i] \ Dropped(DOMAIN Place, i)
        /\ c'.seq[i] # {} => c'.pos[i] = c.pos[i]
    BY <1>5, PlacingLeaves
  <2>3. ASSUME s \in Dropped(DOMAIN Place, i) PROVE FALSE
    <3>1. PICK x \in DOMAIN Place : s \in c.seq[x] /\ c.pos[i] <= c.pos[x]
      BY <2>3 DEF Dropped
    <3>2. x \in Usable
      BY <1>1
    <3>3. PICK j \in Cells : s \in c.seq[j] /\ c.pos[j] = PosMax(c, s)
      BY <1>1, <3>1, <3>2, UsableIs
    <3>4. swa # 0 /\ PosMax(c, s) \in Int /\ (PosMax(c, s) + 1) - c.pos[x] >= swa
      BY <1>1, <3>1, <3>2, UsableIs
    <3>5. saved = <<>>
      BY <1>1, <1>2, <3>4
    <3>6. PosMax(c, s) \in before[s]
      <4>1. wasPos[j] = c.pos[j] /\ wasSeq[j] = c.seq[j]
        BY <3>5, WasNow
      <4> QED BY <1>1, <3>3, <4>1 DEF Kept, Rolling
    <3>7. c.pos[i] \in Int /\ c.pos[x] \in Int /\ swa \in Int
      BY <1>1, CellTypes, SizesAssumption DEF Sized
    <3> QED BY <1>1, <1>3, <2>1, <3>1, <3>4, <3>6, <3>7
  <2> QED BY <1>3, <2>1, <2>2, <2>3
<1> QED BY <1>4, <1>5

LEMMA RecalledStep ==
  ASSUME IInv, Kept, Sized, Recalled, Calls \/ DecodeSteps
  PROVE  Recalled'
<1>1. CASE PrepareUbatch
  <2>1. CASE /\ phase' = "restore" /\ batch' = <<>>
             /\ UNCHANGED <<swa, c, head, plan, saved, data, divided, before>>
    <3>1. wasPos' = wasPos /\ wasSeq' = wasSeq /\ Rolling
      BY <1>1, <2>1, PlacingFacts DEF wasPos, wasSeq, Copies, Rolling
    <3> QED BY <2>1, <3>1 DEF Recalled
  <2> QED BY <1>1, <2>1, RecalledPlacing, PlacingFacts
<1>2. CASE Prepared
  <2>1. wasPos' = wasPos /\ wasSeq' = wasSeq /\ Rolling
    BY <1>2 DEF Prepared, wasPos, wasSeq, Copies, Rolling
  <2> QED BY <1>2, <2>1 DEF Recalled, Prepared
<1>3. CASE RestoreUbatch
  <2>1. \A i \in Cells : wasPos'[i] = wasPos[i] /\ wasSeq'[i] = wasSeq[i]
    BY <1>3, SavedIsSeq, WasRestored
  <2>2. Rolling
    BY <1>3 DEF RestoreUbatch, Rolling
  <2> QED BY <1>3, <2>1, <2>2 DEF Recalled, RestoreUbatch
<1>4. CASE ~ PrepareUbatch /\ ~ Prepared /\ ~ RestoreUbatch
  <2>1. ~ Rolling'
    BY <1>4 DEF Rolling, Calls, Clear, RemoveAny, Keep, Remove, Copy, Add, Div, Call, decoding,
         DecodeSteps, Restored, ApplyUbatch, Computed, ComputeFails, Idle
  <2> QED BY <2>1 DEF Recalled
<1> QED BY <1>1, <1>2, <1>3, <1>4

LEMMA RecalledDecode ==
  ASSUME IInv, Kept, NEW s, NEW t, NEW n, NEW m, Decode(s, n, t, m)
  PROVE  Recalled'
<1>1. /\ c'.pos = c.pos /\ c'.seq = c.seq /\ before' = [u \in Seqs |-> Positions(c, u)]
      /\ saved' = <<>>
  BY DecodeCells DEF Kept, Rolling
<1>2. \A i \in Cells : wasPos'[i] = c.pos[i] /\ wasSeq'[i] = c.seq[i]
  BY <1>1 DEF wasPos, wasSeq, Copies
<1>3. \A u \in Seqs : \A p \in before'[u] : \E i \in Cells : u \in c.seq[i] /\ p = c.pos[i]
  BY <1>1, PositionsAre DEF IInv, Consistent
<1> QED BY <1>2, <1>3 DEF Recalled

LEMMA RecalledIs == IInv /\ Kept /\ Recalled => PrepareRestores
<1> SUFFICES ASSUME IInv, Kept, Recalled, phase = "restore", saved = <<>>, NEW s \in Seqs
             PROVE  /\ Positions(c, s) \subseteq before[s]
                    /\ swa = 0 \/ Len(plan) <= 1 =>
                         {p \in before[s] : \A q \in before[s] : ~ Masked(p, q + 1)}
                           \subseteq Positions(c, s)
  BY DEF PrepareRestores
<1>1. \A i \in Cells : wasPos[i] = c.pos[i] /\ wasSeq[i] = c.seq[i]
  BY WasNow
<1>2. Agree(c)
  BY DEF IInv, Consistent
<1>3. Positions(c, s) \subseteq before[s]
  BY <1>1, <1>2, PositionsAre DEF Kept, Rolling
<1>4. ASSUME swa = 0 \/ Len(plan) <= 1, NEW p \in before[s], \A q \in before[s] : ~ Masked(p, q + 1)
      PROVE  p \in Positions(c, s)
  <2>1. \A q \in before[s] : ~ (swa # 0 /\ (q + 1) - p >= swa)
    BY <1>4 DEF Masked
  <2>2. PICK i \in Cells : s \in wasSeq[i] /\ wasPos[i] = p
    BY <1>4, <2>1 DEF Recalled, Rolling
  <2> QED BY <1>1, <1>2, <2>2, PositionsAre
<1> QED BY <1>3, <1>4

(* After the roll-back a sequence has no other positions than before, and   *)
(* all in the window of its next token, when one part was placed or there   *)
(* is no window.                                                            *)
THEOREM RollBackRestores == Spec => []PrepareRestores
<1> DEFINE R == KInv /\ Recalled
<1>1. Init => R
  BY KInvInit DEF Init, Recalled, Rolling
<1>2. R /\ [Next]_vars => R'
  <2> SUFFICES ASSUME KInv, Recalled, [Next]_vars PROVE Recalled'
    BY KInvStep
  <2>1. CASE Calls \/ DecodeSteps
    BY <2>1, RecalledStep DEF KInv
  <2>2. CASE \E s, t \in Seqs, n \in 1 .. MaxBatch, m \in 0 .. MaxBatch : Decode(s, n, t, m)
    BY <2>2, RecalledDecode DEF KInv
  <2>3. CASE UNCHANGED vars
    <3>1. wasPos' = wasPos /\ wasSeq' = wasSeq
      BY <2>3 DEF vars, wasPos, wasSeq, Copies
    <3> QED BY <2>3, <3>1 DEF vars, Recalled, Rolling
  <2> QED BY <2>1, <2>2, <2>3 DEF Next
<1>3. R => PrepareRestores
  BY RecalledIs DEF KInv
<1> QED BY <1>1, <1>2, <1>3, PTL DEF Spec


-----------------------------------------------------------------------------
(* What a part overwrites is seen by no token from that part on.  Gone[n]   *)
(* holds the <<sequence, position>> that no token of part n or a later one  *)
(* sees.                                                                    *)
Gone == [n \in Nat |-> {x \in Seqs \X Int :
           \A l \in DOMAIN batch : l >= n => \A m \in DOMAIN batch[l] :
             batch[l][m].seq = x[1] => swa # 0 /\ batch[l][m].pos - x[2] >= swa}]

LEMMA GoneIs ==
  ASSUME NEW n \in Nat, NEW s \in Seqs, NEW q \in Int
  PROVE  <<s, q>> \in Gone[n] <=>
           \A l \in DOMAIN batch : l >= n => \A m \in DOMAIN batch[l] :
             batch[l][m].seq = s => swa # 0 /\ batch[l][m].pos - q >= swa
<1>1. <<s, q>> \in Seqs \X Int /\ <<s, q>>[1] = s /\ <<s, q>>[2] = q
  OBVIOUS
<1> QED BY <1>1 DEF Gone

LEMMA GoneUp ==
  ASSUME batch \in Seq(Seq(Tokens)), NEW n \in Nat, NEW o \in Nat, n <= o, NEW s \in Seqs,
  NEW q \in Int,
         <<s, q>> \in Gone[n]
  PROVE  <<s, q>> \in Gone[o]
<1>1. \A l \in DOMAIN batch : l \in Nat /\ (l >= o => l >= n)
  OBVIOUS
<1> QED BY <1>1, GoneIs

LEMMA GoneDown ==
  ASSUME Sized, batch \in Seq(Seq(Tokens)), NEW n \in Nat, NEW s \in Seqs, NEW q \in Int,
  NEW p \in Int,
         p <= q, <<s, q>> \in Gone[n]
  PROVE  <<s, p>> \in Gone[n]
<1>1. swa \in Int
  BY SizesAssumption DEF Sized
<1>2. ASSUME NEW l \in DOMAIN batch, l >= n, NEW m \in DOMAIN batch[l], batch[l][m].seq = s
      PROVE  swa # 0 /\ batch[l][m].pos - p >= swa
  <2>1. swa # 0 /\ batch[l][m].pos - q >= swa
    BY <1>2, GoneIs
  <2>2. batch[l][m].pos \in Int
    <3>1. batch[l] \in Seq(Tokens)
      BY <1>2
    <3> QED BY <1>2, <3>1, TokenTypes
  <2> QED BY <1>1, <2>1, <2>2
<1> QED BY <1>2, GoneIs

LEMMA GoneSame ==
  ASSUME UNCHANGED <<batch, swa>> PROVE Gone' = Gone
BY DEF Gone

LEMMA GoneTail ==
  ASSUME IInv, Computed, NEW n \in Nat, NEW s \in Seqs, NEW q \in Int, <<s, q>> \in Gone[n + 1]
  PROVE  <<s, q>> \in Gone'[n]
<1>1. /\ DOMAIN batch' = 1 .. Len(batch) - 1 /\ Len(batch) \in Nat /\ swa' = swa
      /\ \A l \in DOMAIN batch' : l + 1 \in DOMAIN batch /\ batch'[l] = batch[l + 1]
  BY TailParts, FirstPart DEF Computed
<1>2. ASSUME NEW l \in DOMAIN batch', l >= n, NEW m \in DOMAIN batch'[l], batch'[l][m].seq = s
      PROVE  swa' # 0 /\ batch'[l][m].pos - q >= swa'
  <2>1. l + 1 \in DOMAIN batch /\ l + 1 >= n + 1 /\ batch'[l] = batch[l + 1]
    BY <1>1, <1>2
  <2> QED BY <1>1, <1>2, <2>1, GoneIs
<1>3. <<s, q>> \in Seqs \X Int /\ <<s, q>>[1] = s /\ <<s, q>>[2] = q
  OBVIOUS
<1> QED BY <1>2, <1>3 DEF Gone

(* What the cells of a part had before the prepare, or have.                *)
Spare ==
  Rolling /\ batch # <<>> =>
    \A k \in DOMAIN plan : \A i \in DOMAIN plan[k] :
      wasPos[i] = -1 \/ \E u \in Seqs : wasSeq[i] = {u} /\ <<u, wasPos[i]>> \in Gone[k]

SpareApply ==
  phase \in {"apply", "compute"} =>
    \A k \in DOMAIN plan : phase = "apply" \/ k > 1 => \A i \in DOMAIN plan[k] :
      c.pos[i] = -1 \/ \E u \in Seqs : c.seq[i] = {u} /\ <<u, c.pos[i]>> \in Gone[k]

(* What an earlier part has put into them.                                  *)
Reuse ==
  phase # "idle" /\ batch # <<>> =>
    \A k, j \in DOMAIN plan : j < k => \A i \in DOMAIN plan[j] \cap DOMAIN plan[k] :
      <<Tok(j, i).seq, Tok(j, i).pos>> \in Gone[k]

Lives ==
  phase = "prepare" =>
    \A j \in DOMAIN plan : \A i \in DOMAIN plan[j] :
      \/ c.pos[i] = Tok(j, i).pos /\ c.seq[i] = {Tok(j, i).seq}
      \/ <<Tok(j, i).seq, Tok(j, i).pos>> \in Gone[Len(plan) + 1]

(* A position that its sequence had is there, or no token of the last part  *)
(* sees it; without a window, no token that is still to come.               *)
Lasting ==
  phase # "idle" =>
    \A s \in Seqs : \A q \in before[s] :
      \/ \E i \in Cells : s \in wasSeq[i] /\ wasPos[i] = q
      \/ Rolling /\ swa # 0 /\ <<s, q>> \in Gone[Len(batch)]
      \/ ~ Rolling /\ swa = 0 /\ <<s, q>> \in Gone[1]
      \/ ~ Rolling /\ swa # 0 /\ <<s, q>> \in Gone[Len(batch)]

Spared == Spare /\ SpareApply /\ Reuse /\ Lives /\ Lasting

(* A used cell that is taken is seen by no token of the part, nor after it. *)
LEMMA UsableGone ==
  ASSUME IInv, Sized, Follow, PrepareUbatch, NEW x \in Usable, NEW s \in c.seq[x]
  PROVE  /\ s \in Seqs /\ swa # 0 /\ c.seq[x] = {s} /\ c.pos[x] \in Int
         /\ <<s, c.pos[x]>> \in Gone[Len(plan) + 1]
<1>1. Agree(c)
  BY DEF IInv, Consistent
<1>2. /\ s \in Seqs /\ swa # 0 /\ c.seq[x] = {s} /\ PosMax(c, s) \in Int
      /\ (PosMax(c, s) + 1) - c.pos[x] >= swa
  BY <1>1, UsableIs
<1>3. PICK j \in Cells : s \in c.seq[j] /\ c.pos[j] = PosMax(c, s)
  BY <1>1, UsableIs
<1>4. c.pos[x] \in Int /\ swa \in Int /\ Len(plan) + 1 \in Nat /\ phase = "prepare"
      /\ batch \in Seq(Seq(Tokens))
  <2>1. x \in Cells
    BY DEF Usable
  <2> QED BY <1>1, <2>1, CellTypes, PlacingFacts, SizesAssumption DEF Sized, IInv, PlanOK
<1>5. ASSUME NEW l \in DOMAIN batch, l >= Len(plan) + 1, NEW m \in DOMAIN batch[l],
batch[l][m].seq = s
      PROVE  swa # 0 /\ batch[l][m].pos - c.pos[x] >= swa
  <2>1. Waits(l)
    <3>1. l \in Nat /\ Len(plan) \in Nat
      BY <1>4, PlacingFacts
    <3> QED BY <1>4, <1>5, <3>1 DEF Waits
  <2>2. PosMax(c, s) < batch[l][m].pos
    BY <1>3, <1>5, <2>1 DEF Follow
  <2>3. batch[l][m].pos \in Int
    <3>1. batch[l] \in Seq(Tokens)
      BY <1>4
    <3> QED BY <3>1, TokenTypes
  <2> QED BY <1>2, <1>4, <2>2, <2>3
<1> QED BY <1>2, <1>4, <1>5, GoneIs

(* What the part takes from the other cells: the same.                      *)
LEMMA DroppedGone ==
  ASSUME IInv, Sized, Follow, PrepareUbatch, NEW i \in Cells, NEW s \in Dropped(DOMAIN Place, i)
  PROVE  swa # 0 /\ <<s, c.pos[i]>> \in Gone[Len(plan) + 1]
<1>1. PICK x \in DOMAIN Place : s \in c.seq[x] /\ c.pos[i] <= c.pos[x]
  BY DEF Dropped
<1>2. x \in Usable /\ Len(plan) + 1 \in Nat
  BY PlacingFacts
<1>3. s \in Seqs /\ swa # 0 /\ c.pos[x] \in Int /\ <<s, c.pos[x]>> \in Gone[Len(plan) + 1]
  BY <1>1, <1>2, UsableGone
<1>4. c.pos[i] \in Int /\ batch \in Seq(Seq(Tokens))
  BY CellTypes DEF IInv, Consistent, PlanOK
<1> QED BY <1>1, <1>2, <1>3, <1>4, GoneDown


LEMMA TokIs ==
  ASSUME IInv, phase # "idle", batch # <<>>, NEW k \in DOMAIN plan, NEW i \in DOMAIN plan[k]
  PROVE  Tok(k, i).seq \in Seqs /\ Tok(k, i).pos \in Int /\ Tok(k, i).pos >= 0
<1>1. Tok(k, i) \in Tokens
  BY PlanFits
<1> QED BY <1>1 DEF Tokens

(* Placing a part.                                                          *)
LEMMA PlacingPlan ==
  ASSUME IInv, Kept, PrepareUbatch, Placing
  PROVE  /\ phase = "prepare" /\ phase' = "prepare" /\ batch' = batch /\ swa' = swa
         /\ before' = before
         /\ batch # <<>> /\ batch \in Seq(Seq(Tokens)) /\ Gone' = Gone
         /\ Len(plan) \in Nat /\ Len(plan) + 1 \in Nat /\ Len(plan') = Len(plan) + 1
         /\ Len(plan) + 1 <= Len(batch) /\ Len(batch) \in Nat
         /\ DOMAIN plan = 1 .. Len(plan) /\ DOMAIN plan' = 1 .. Len(plan) + 1
         /\ plan'[Len(plan) + 1] = Place /\ \A k \in DOMAIN plan : plan'[k] = plan[k]
         /\ \A k \in DOMAIN plan' : k \in DOMAIN plan \/ k = Len(plan) + 1
         /\ DOMAIN Place \in SUBSET Cells /\ DOMAIN Place \subseteq Usable
<1>1. /\ phase = "prepare" /\ Len(plan) \in Nat /\ Len(plan) + 1 \in DOMAIN batch
      /\ DOMAIN Place \in SUBSET Cells /\ DOMAIN Place \subseteq Usable
      /\ Len(plan') = Len(plan) + 1 /\ plan'[Len(plan) + 1] = Place
      /\ \A k \in 1 .. Len(plan) : plan'[k] = plan[k]
  BY PlacingFacts
<1>2. /\ plan \in Seq(Slots) /\ plan' = Append(plan, Place) /\ batch \in Seq(Seq(Tokens))
      /\ UNCHANGED <<swa, phase, batch, before>>
  BY DEF IInv, PlanOK, Placing
<1>3. DOMAIN plan = 1 .. Len(plan) /\ DOMAIN plan' = 1 .. Len(plan) + 1
  <2> HIDE DEF Place
  <2> QED BY <1>1, <1>2
<1>4. batch # <<>> /\ Len(plan) + 1 <= Len(batch) /\ Len(batch) \in Nat
  BY <1>1, <1>2
<1>5. \A k \in DOMAIN plan' : k \in DOMAIN plan \/ k = Len(plan) + 1
  BY <1>1, <1>3
<1> QED BY <1>1, <1>2, <1>3, <1>4, <1>5, GoneSame

LEMMA CopiesOfPlan ==
  ASSUME IInv, Kept, phase = "prepare", NEW i \in Cells
  PROVE  /\ \A k \in Copies(i) : k \in DOMAIN plan /\ k \in Nat /\ k <= Len(plan) /\ i \in DOMAIN plan[k]
         /\ \A k \in DOMAIN plan : i \in DOMAIN plan[k] => k \in Copies(i)
<1>1. Len(saved) = Len(plan) /\ plan \in Seq(Slots)
      /\ \A k \in 1 .. Len(saved) : DOMAIN saved[k].pos = DOMAIN plan[k]
  BY DEF Kept, IInv, PlanOK
<1>2. DOMAIN plan = 1 .. Len(plan) /\ Len(plan) \in Nat
  BY <1>1
<1> QED BY <1>1, <1>2 DEF Copies

LEMMA SparePlacing ==
  ASSUME IInv, Sized, Kept, Follow, Spare, PrepareUbatch, Placing
  PROVE  Spare'
<1>1. PICK T : saved \in Seq(T)
  BY SavedIsSeq
<1>2. saved' = Append(saved, Saved(c, DOMAIN Place))
  BY DEF Placing
<1>3. ASSUME NEW k \in DOMAIN plan', NEW i \in DOMAIN plan'[k]
      PROVE  wasPos'[i] = -1 \/ \E u \in Seqs : wasSeq'[i] = {u} /\ <<u, wasPos'[i]>> \in Gone[k]
  <2>1. CASE k \in DOMAIN plan
    <3>1. i \in DOMAIN plan[k] /\ i \in Cells /\ Rolling /\ batch # <<>>
      BY <1>3, <2>1, PlacingPlan, PlanFits DEF Rolling
    <3>2. Copies(i) # {}
      BY <2>1, <3>1, CopiesOfPlan, PlacingPlan
    <3>3. wasPos'[i] = wasPos[i] /\ wasSeq'[i] = wasSeq[i]
      BY <1>1, <1>2, <3>1, <3>2, WasPrepared
    <3> QED BY <2>1, <3>1, <3>3 DEF Spare
  <2>2. CASE k = Len(plan) + 1
    <3>1. i \in DOMAIN Place /\ i \in Cells /\ i \in Usable /\ Rolling /\ batch # <<>>
          /\ k \in Nat
      BY <1>3, <2>2, PlacingPlan DEF Rolling
    <3>2. wasPos'[i] = wasPos[i] /\ wasSeq'[i] = wasSeq[i]
      BY <1>1, <1>2, <3>1, WasPrepared
    <3>3. CASE Copies(i) # {}
      <4>1. PICK j \in DOMAIN plan : i \in DOMAIN plan[j] /\ j \in Nat /\ j <= Len(plan)
        BY <3>1, <3>3, CopiesOfPlan, PlacingPlan
      <4>2. wasPos[i] = -1 \/ \E u \in Seqs : wasSeq[i] = {u} /\ <<u, wasPos[i]>> \in Gone[j]
        BY <3>1, <4>1 DEF Spare
      <4>3. \A u \in Seqs : <<u, wasPos[i]>> \in Gone[j] => <<u, wasPos[i]>> \in Gone[k]
        <5> SUFFICES ASSUME NEW u \in Seqs, <<u, wasPos[i]>> \in Gone[j] PROVE <<u,
        wasPos[i]>> \in Gone[k]
          OBVIOUS
        <5>1. wasPos[i] \in Int
          <6>1. <<u, wasPos[i]>> \in Seqs \X Int
            BY <4>1 DEF Gone
          <6> QED BY <6>1
        <5>2. batch \in Seq(Seq(Tokens)) /\ j <= k
          BY <2>2, <4>1, PlacingPlan
        <5> QED BY <3>1, <4>1, <5>1, <5>2, GoneUp
      <4> QED BY <3>2, <4>2, <4>3
    <3>4. CASE Copies(i) = {}
      <4>1. wasPos[i] = c.pos[i] /\ wasSeq[i] = c.seq[i]
        BY <3>1, <3>4 DEF wasPos, wasSeq
      <4>2. c.pos[i] = -1 \/ \E u : u \in c.seq[i]
        BY <3>1, CellTypes DEF IInv, Consistent
      <4> QED BY <2>2, <3>1, <3>2, <4>1, <4>2, UsableGone
    <3> QED BY <3>3, <3>4
  <2> QED BY <1>3, <2>1, <2>2, PlacingPlan
<1> QED BY <1>3, PlacingPlan DEF Spare

LEMMA ReusePlacing ==
  ASSUME IInv, Sized, Kept, Follow, Reuse, Lives, PrepareUbatch, Placing
  PROVE  Reuse'
<1>1. ASSUME NEW k \in DOMAIN plan', NEW j \in DOMAIN plan', j < k,
NEW i \in DOMAIN plan'[j] \cap DOMAIN plan'[k]
      PROVE  <<batch[j][plan'[j][i]].seq, batch[j][plan'[j][i]].pos>> \in Gone[k]
  <2>1. j \in DOMAIN plan /\ plan'[j] = plan[j]
    BY <1>1, PlacingPlan
  <2>2. Tok(j, i).seq \in Seqs /\ Tok(j, i).pos \in Int /\ Tok(j, i).pos >= 0
        /\ i \in DOMAIN plan[j]
    BY <1>1, <2>1, TokIs, PlacingPlan
  <2>3. CASE k \in DOMAIN plan
    <3>1. plan'[k] = plan[k] /\ phase # "idle" /\ batch # <<>>
      BY <2>3, PlacingPlan
    <3> QED BY <1>1, <2>1, <2>3, <3>1 DEF Reuse, Tok
  <2>4. CASE k = Len(plan) + 1
    <3>1. i \in DOMAIN Place /\ i \in Usable /\ phase = "prepare"
      BY <1>1, <2>4, PlacingPlan
    <3>2. \/ c.pos[i] = Tok(j, i).pos /\ c.seq[i] = {Tok(j, i).seq}
          \/ <<Tok(j, i).seq, Tok(j, i).pos>> \in Gone[k]
      BY <2>1, <2>2, <2>4, <3>1 DEF Lives
    <3> QED BY <2>1, <2>4, <3>1, <3>2, UsableGone DEF Tok
  <2> QED BY <1>1, <2>3, <2>4, PlacingPlan
<1> QED BY <1>1, PlacingPlan DEF Reuse, Tok

LEMMA LivesPlacing ==
  ASSUME IInv, Sized, Kept, Follow, Lives, PrepareUbatch, Placing
  PROVE  Lives'
<1> DEFINE n == Len(plan) + 1
<1>1. ASSUME NEW j \in DOMAIN plan', NEW i \in DOMAIN plan'[j]
      PROVE  \/ c'.pos[i] = batch[j][plan'[j][i]].pos /\ c'.seq[i] = {batch[j][plan'[j][i]].seq}
             \/ <<batch[j][plan'[j][i]].seq, batch[j][plan'[j][i]].pos>> \in Gone[n + 1]
  <2>1. CASE j = n
    BY <1>1, <2>1, PlacingPlan, PartAbove, PlacingTakes DEF Part
  <2>2. CASE j \in DOMAIN plan
    <3> DEFINE s == Tok(j, i).seq
               q == Tok(j, i).pos
    <3>1. plan'[j] = plan[j] /\ i \in DOMAIN plan[j] /\ i \in Cells /\ s \in Seqs /\ q \in Int
      BY <1>1, <2>2, PlacingPlan, TokIs, PlanFits
    <3>2. n \in Nat /\ n + 1 \in Nat /\ n <= n + 1 /\ batch \in Seq(Seq(Tokens))
      BY PlacingPlan
    <3>3. (c.pos[i] = q /\ c.seq[i] = {s}) \/ <<s, q>> \in Gone[n]
      BY <2>2, <3>1, PlacingPlan DEF Lives
    <3>4. s = batch[j][plan'[j][i]].seq /\ q = batch[j][plan'[j][i]].pos
      BY <3>1 DEF Tok
    <3> HIDE DEF s, q, n
    <3>5. CASE <<s, q>> \in Gone[n]
      BY <3>1, <3>2, <3>4, <3>5, GoneUp
    <3>6. CASE c.pos[i] = q /\ c.seq[i] = {s} /\ i \in DOMAIN Place
      <4>1. <<s, q>> \in Gone[n]
        BY <3>6, UsableGone, PlacingPlan DEF n
      <4> QED BY <3>1, <3>2, <3>4, <4>1, GoneUp
    <3>7. CASE c.pos[i] = q /\ c.seq[i] = {s} /\ i \notin DOMAIN Place
      <4>1. /\ c'.seq[i] = c.seq[i] \ Dropped(DOMAIN Place, i)
            /\ c'.seq[i] # {} => c'.pos[i] = c.pos[i]
        BY <3>1, <3>7, PlacingLeaves
      <4>2. CASE s \in Dropped(DOMAIN Place, i)
        <5>1. <<s, q>> \in Gone[n]
          BY <3>1, <3>7, <4>2, DroppedGone DEF n
        <5> QED BY <3>1, <3>2, <3>4, <5>1, GoneUp
      <4>3. CASE s \notin Dropped(DOMAIN Place, i)
        <5>1. c'.seq[i] = {s}
          BY <3>7, <4>1, <4>3
        <5> QED BY <3>4, <3>7, <4>1, <5>1
      <4> QED BY <4>2, <4>3
    <3> QED BY <3>3, <3>5, <3>6, <3>7
  <2> QED BY <1>1, <2>1, <2>2, PlacingPlan
<1> QED BY <1>1, PlacingPlan DEF Lives, Tok

LEMMA LastingPlacing ==
  ASSUME IInv, Sized, Kept, Follow, Lasting, PrepareUbatch, Placing
  PROVE  Lasting'
<1>1. PICK T : saved \in Seq(T)
  BY SavedIsSeq
<1>2. saved' = Append(saved, Saved(c, DOMAIN Place))
  BY DEF Placing
<1>3. ASSUME NEW s \in Seqs, NEW q \in before[s]
      PROVE  \/ \E i \in Cells : s \in wasSeq'[i] /\ wasPos'[i] = q
             \/ swa # 0 /\ <<s, q>> \in Gone[Len(batch)]
  <2>1. CASE swa # 0 /\ <<s, q>> \in Gone[Len(batch)]
    BY <2>1
  <2>2. CASE \E i \in Cells : s \in wasSeq[i] /\ wasPos[i] = q
    <3>1. PICK i \in Cells : s \in wasSeq[i] /\ wasPos[i] = q
      BY <2>2
    <3>2. CASE i \in DOMAIN Place \/ Copies(i) # {}
      BY <1>1, <1>2, <3>1, <3>2, WasPrepared
    <3>3. CASE ~ (i \in DOMAIN Place \/ Copies(i) # {})
      <4>1. wasPos'[i] = c'.pos[i] /\ wasSeq'[i] = c'.seq[i] /\ wasPos[i] = c.pos[i]
            /\ wasSeq[i] = c.seq[i]
        BY <1>1, <1>2, <3>3, WasPrepared
      <4>2. /\ c'.seq[i] = c.seq[i] \ Dropped(DOMAIN Place, i)
            /\ c'.seq[i] # {} => c'.pos[i] = c.pos[i]
        BY <3>3, PlacingLeaves
      <4>3. CASE s \in Dropped(DOMAIN Place, i)
        <5>1. swa # 0 /\ <<s, q>> \in Gone[Len(plan) + 1]
          BY <3>1, <4>1, <4>3, DroppedGone
        <5>2. q \in Int
          <6>1. c.pos[i] \in Int
            BY CellTypes DEF IInv, Consistent
          <6> QED BY <3>1, <4>1, <6>1
        <5> QED BY <5>1, <5>2, GoneUp, PlacingPlan
      <4>4. CASE s \notin Dropped(DOMAIN Place, i)
        BY <3>1, <4>1, <4>2, <4>4
      <4> QED BY <4>3, <4>4
    <3> QED BY <3>2, <3>3
  <2> QED BY <1>3, <2>1, <2>2, PlacingPlan DEF Lasting, Rolling
<1> QED BY <1>3, PlacingPlan DEF Lasting, Rolling


LEMMA SparedPrepare ==
  ASSUME IInv, Sized, Kept, Ordered, Spared, PrepareUbatch
  PROVE  Spared'
<1>1. CASE /\ phase' = "restore" /\ batch' = <<>>
           /\ UNCHANGED <<swa, c, head, plan, saved, data, divided, before>>
  <2>1. wasPos' = wasPos /\ wasSeq' = wasSeq /\ phase = "prepare"
    BY <1>1, PlacingFacts DEF wasPos, wasSeq, Copies
  <2>2. ASSUME NEW s \in Seqs, NEW q \in before[s] PROVE <<s, q>> \in Gone'[Len(batch')]
    <3>1. q \in Int /\ Len(batch') = 0 /\ DOMAIN batch' = {}
      BY <1>1, <2>2 DEF Kept
    <3>2. <<s, q>> \in Seqs \X Int
      BY <3>1
    <3> QED BY <3>1, <3>2 DEF Gone
  <2>3. Lasting'
    <3>1. /\ Rolling /\ Rolling' /\ swa' = swa /\ before' = before
      BY <1>1, <2>1 DEF Rolling
    <3>2. ASSUME NEW s \in Seqs, NEW q \in before[s], swa = 0
          PROVE  \E i \in Cells : s \in wasSeq'[i] /\ wasPos'[i] = q
      <4>1. \E i \in Cells : s \in wasSeq[i] /\ wasPos[i] = q
        BY <2>1, <3>1, <3>2 DEF Spared, Lasting
      <4> QED BY <2>1, <4>1
    <3> QED BY <2>2, <3>1, <3>2 DEF Lasting
  <2> QED BY <1>1, <2>3 DEF Spared, Spare, SpareApply, Reuse, Lives
<1>2. CASE Placing
  <2>1. SpareApply'
    BY <1>2, PlacingPlan DEF SpareApply
  <2> QED BY <1>2, <2>1, SparePlacing, ReusePlacing, LivesPlacing, LastingPlacing DEF Ordered,
                                                            Spared
<1> QED BY <1>1, <1>2, PlacingFacts

LEMMA SparedRollBack ==
  ASSUME IInv, Kept, Spared, Prepared \/ RestoreUbatch
  PROVE  Spared'
<1>1. /\ \A i \in Cells : wasPos'[i] = wasPos[i] /\ wasSeq'[i] = wasSeq[i]
      /\ Rolling /\ phase' = "restore" /\ phase # "idle" /\ UNCHANGED <<batch, plan, swa, before>>
  <2>1. CASE Prepared
    BY <2>1 DEF Prepared, wasPos, wasSeq, Copies, Rolling
  <2>2. CASE RestoreUbatch
    <3>1. \A i \in Cells : wasPos'[i] = wasPos[i] /\ wasSeq'[i] = wasSeq[i]
      BY <2>2, SavedIsSeq, WasRestored
    <3> QED BY <2>2, <3>1 DEF RestoreUbatch, Rolling
  <2> QED BY <2>1, <2>2
<1>2. Gone' = Gone
  BY <1>1, GoneSame
<1>3. batch # <<>> => \A k \in DOMAIN plan : DOMAIN plan[k] \subseteq Cells
  BY <1>1, PlanFits
<1>4. Spare'
  BY <1>1, <1>2, <1>3 DEF Spared, Spare
<1>5. Reuse'
  BY <1>1, <1>2 DEF Spared, Reuse, Tok
<1>6. Lasting'
  <2>1. ASSUME NEW s \in Seqs, NEW q \in before[s]
        PROVE  \/ \E i \in Cells : s \in wasSeq[i] /\ wasPos[i] = q
               \/ swa # 0 /\ <<s, q>> \in Gone[Len(batch)]
    BY <1>1, <2>1 DEF Spared, Lasting
  <2>2. Rolling'
    BY <1>1 DEF Rolling
  <2> QED BY <1>1, <1>2, <2>1, <2>2 DEF Lasting
<1> QED BY <1>1, <1>4, <1>5, <1>6 DEF Spared, SpareApply, Lives

LEMMA SparedRestored ==
  ASSUME IInv, Kept, Spared, Restored
  PROVE  Spared'
<1>1. /\ phase = "restore" /\ saved = <<>> /\ saved' = <<>> /\ UNCHANGED <<swa, c, batch>>
      /\ batch = <<>> => phase' = "idle"
      /\ batch # <<>> => phase' = "apply" /\ plan' = plan /\ before' = before
  BY DEF Restored, Idle
<1>2. CASE batch = <<>>
  BY <1>1, <1>2 DEF Spared, Spare, SpareApply, Reuse, Lives, Lasting, Rolling
<1>3. CASE batch # <<>>
  <2>1. Gone' = Gone /\ Rolling /\ ~ Rolling'
    BY <1>1, <1>3, GoneSame DEF Rolling
  <2>2. \A i \in Cells : /\ wasPos[i] = c.pos[i] /\ wasSeq[i] = c.seq[i]
                         /\ wasPos'[i] = c.pos[i] /\ wasSeq'[i] = c.seq[i]
    <3>1. \A i \in Cells : wasPos[i] = c.pos[i] /\ wasSeq[i] = c.seq[i]
      BY <1>1, WasNow
    <3> QED BY <1>1, <3>1 DEF wasPos, wasSeq, Copies
  <2>3. \A k \in DOMAIN plan : DOMAIN plan[k] \subseteq Cells
    BY <1>1, <1>3, PlanFits
  <2>4. SpareApply'
    BY <1>1, <1>3, <2>1, <2>2, <2>3 DEF Spared, Spare, SpareApply
  <2>5. Reuse'
    BY <1>1, <1>3, <2>1 DEF Spared, Reuse, Tok
  <2>6. Lasting'
    <3>1. ASSUME NEW s \in Seqs, NEW q \in before[s]
          PROVE  \/ \E i \in Cells : s \in wasSeq[i] /\ wasPos[i] = q
                 \/ swa # 0 /\ <<s, q>> \in Gone[Len(batch)]
      BY <1>1, <2>1, <3>1 DEF Spared, Lasting
    <3>2. ASSUME NEW s \in Seqs, NEW q \in before[s]
          PROVE  \/ \E i \in Cells : s \in wasSeq'[i] /\ wasPos'[i] = q
                 \/ swa' # 0 /\ <<s, q>> \in Gone'[Len(batch')]
      BY <1>1, <2>1, <2>2, <3>1, <3>2
    <3> QED BY <1>1, <1>3, <2>1, <3>2 DEF Lasting
  <2> QED BY <1>1, <1>3, <2>1, <2>4, <2>5, <2>6 DEF Spared, Spare, Lives
<1> QED BY <1>2, <1>3

LEMMA SparedApply ==
  ASSUME IInv, Sized, Kept, Ordered, Spared, ApplyUbatch
  PROVE  Spared'
<1>1. /\ phase = "apply" /\ phase' = "compute" /\ UNCHANGED <<swa, batch, plan, saved, before>>
      /\ ~ Rolling /\ ~ Rolling' /\ saved = <<>> /\ saved' = <<>> /\ Gone' = Gone
      /\ phase # "idle"
  BY GoneSame DEF ApplyUbatch, Rolling, Kept
<1>2. /\ batch # <<>> /\ 1 \in DOMAIN plan /\ Len(batch) \in Nat /\ 1 <= Len(batch)
      /\ batch \in Seq(Seq(Tokens)) /\ DOMAIN plan[1] \subseteq Cells /\ plan \in Seq(Slots)
      /\ \A k \in DOMAIN plan : k \in Nat
  <2>1. /\ batch # <<>> /\ 1 \in DOMAIN plan /\ Len(batch) \in Nat /\ batch \in Seq(Seq(Tokens))
        /\ DOMAIN plan[1] \subseteq Cells /\ plan \in Seq(Slots)
    BY <1>1, FirstPart
  <2> QED BY <2>1
<1>3. \A i \in Cells : /\ wasPos[i] = c.pos[i] /\ wasSeq[i] = c.seq[i]
                       /\ wasPos'[i] = c'.pos[i] /\ wasSeq'[i] = c'.seq[i]
  <2>1. \A i \in Cells : wasPos[i] = c.pos[i] /\ wasSeq[i] = c.seq[i]
    BY <1>1, WasNow
  <2> QED BY <1>1, <2>1 DEF wasPos, wasSeq, Copies
<1>4. \A i \in DOMAIN plan[1] : c'.pos[i] = Tok(1, i).pos /\ c'.seq[i] = {Tok(1, i).seq}
  BY ApplyTakes DEF Ordered
<1>5. \A i \in Cells : i \notin DOMAIN plan[1] =>
        /\ c'.seq[i] = c.seq[i] \ Dropped(DOMAIN plan[1], i)
        /\ c'.seq[i] = {} => c'.pos[i] = -1
        /\ c'.seq[i] # {} => c'.pos[i] = c.pos[i]
  BY ApplyLeaves
<1>6. ASSUME NEW x \in DOMAIN plan[1], NEW s \in c.seq[x]
      PROVE  c.seq[x] = {s} /\ s \in Seqs /\ c.pos[x] \in Int /\ <<s, c.pos[x]>> \in Gone[1]
  <2>1. x \in Cells /\ c.pos[x] # -1 /\ c.pos[x] \in Int
    BY <1>2, CellTypes DEF IInv, Consistent
  <2>2. PICK u \in Seqs : c.seq[x] = {u} /\ <<u, c.pos[x]>> \in Gone[1]
    BY <1>1, <1>2, <2>1 DEF Spared, SpareApply
  <2>3. u = s
    BY <2>2
  <2> QED BY <2>1, <2>2, <2>3
<1>7. \A k \in DOMAIN plan : DOMAIN plan[k] \subseteq Cells
  BY <1>1, <1>2, PlanFits
<1>8. SpareApply'
  <2> SUFFICES ASSUME NEW k \in DOMAIN plan, k > 1, NEW i \in DOMAIN plan[k], c'.pos[i] # -1
               PROVE  \E u \in Seqs : c'.seq[i] = {u} /\ <<u, c'.pos[i]>> \in Gone[k]
    BY <1>1 DEF SpareApply
  <2>1. CASE i \in DOMAIN plan[1]
    <3>1. <<Tok(1, i).seq, Tok(1, i).pos>> \in Gone[k] /\ Tok(1, i).seq \in Seqs
      BY <1>1, <1>2, <2>1, TokIs DEF Spared, Reuse
    <3> QED BY <1>4, <2>1, <3>1
  <2>2. CASE i \notin DOMAIN plan[1]
    <3>1. i \in Cells /\ c'.seq[i] # {} /\ c'.pos[i] = c.pos[i] /\ c'.seq[i] \subseteq c.seq[i]
      BY <1>5, <1>7, <2>2
    <3>2. PICK u \in Seqs : c.seq[i] = {u} /\ <<u, c.pos[i]>> \in Gone[k]
      BY <1>1, <3>1 DEF Spared, SpareApply
    <3>3. c'.seq[i] = {u}
      BY <3>1, <3>2
    <3> QED BY <3>1, <3>2, <3>3
  <2> QED BY <2>1, <2>2
<1>9. Reuse'
  BY <1>1 DEF Spared, Reuse, Tok
<1>10. ASSUME NEW s \in Seqs, NEW q \in before[s]
       PROVE  \/ \E i \in Cells : s \in wasSeq'[i] /\ wasPos'[i] = q
              \/ swa = 0 /\ <<s, q>> \in Gone[1]
              \/ swa # 0 /\ <<s, q>> \in Gone[Len(batch)]
  <2>1. q \in Int
    BY <1>10 DEF Kept
  <2>2. CASE \E i \in Cells : s \in wasSeq[i] /\ wasPos[i] = q
    <3>1. PICK i \in Cells : s \in c.seq[i] /\ c.pos[i] = q
      BY <1>3, <2>2
    <3>2. CASE <<s, q>> \in Gone[1]
      <4>1. <<s, q>> \in Gone[Len(batch)]
        BY <1>2, <2>1, <3>2, GoneUp
      <4> QED BY <3>2, <4>1
    <3>3. CASE i \in DOMAIN plan[1]
      BY <1>6, <3>1, <3>2, <3>3
    <3>4. CASE i \notin DOMAIN plan[1] /\ s \in Dropped(DOMAIN plan[1], i)
      <4>1. PICK x \in DOMAIN plan[1] : s \in c.seq[x] /\ c.pos[i] <= c.pos[x]
        BY <3>4 DEF Dropped
      <4>2. <<s, q>> \in Gone[1]
        BY <1>2, <1>6, <2>1, <3>1, <4>1, GoneDown
      <4> QED BY <3>2, <4>2
    <3>5. CASE i \notin DOMAIN plan[1] /\ s \notin Dropped(DOMAIN plan[1], i)
      BY <1>3, <1>5, <3>1, <3>5
    <3> QED BY <3>3, <3>4, <3>5
  <2> QED BY <1>1, <1>10, <2>2 DEF Spared, Lasting
<1>11. Lasting'
  BY <1>1, <1>10 DEF Lasting
<1> QED BY <1>1, <1>8, <1>9, <1>11 DEF Spared, Spare, Lives

LEMMA SparedComputed ==
  ASSUME IInv, Sized, Kept, Ordered, Spared, Computed
  PROVE  Spared'
<1>1. /\ phase = "compute" /\ UNCHANGED <<swa, c, saved>> /\ ~ Rolling /\ ~ Rolling'
      /\ saved = <<>> /\ saved' = <<>>
      /\ Len(batch) = 1 => phase' = "idle"
      /\ Len(batch) # 1 => phase' = "apply" /\ before' = [s \in Seqs |-> before[s] \cup
                {batch[1][j].pos : j \in {k \in DOMAIN batch[1] : batch[1][k].seq = s}}]
  BY DEF Computed, Idle, Rolling, Kept
<1>2. CASE Len(batch) = 1
  BY <1>1, <1>2 DEF Spared, Spare, SpareApply, Reuse, Lives, Lasting
<1>3. CASE Len(batch) # 1
  <2>1. /\ batch # <<>> /\ 1 \in DOMAIN batch /\ 1 \in DOMAIN plan /\ Len(batch) \in Nat
        /\ batch \in Seq(Seq(Tokens)) /\ plan \in Seq(Slots) /\ Len(plan) = Len(batch)
        /\ batch[1] \in Seq(Tokens)
    BY <1>1, FirstPart
  <2>2. Len(batch) >= 2 /\ Len(batch') = Len(batch) - 1 /\ Len(batch) - 1 \in Nat
    BY <2>1, <1>3, TailParts
  <2>3. \A k \in DOMAIN plan' : /\ k \in Nat /\ k + 1 \in DOMAIN plan /\ k + 1 > 1
                                /\ plan'[k] = plan[k + 1] /\ batch'[k] = batch[k + 1]
    <3>1. /\ DOMAIN plan' = 1 .. Len(batch) - 1 /\ DOMAIN plan = 1 .. Len(batch)
          /\ \A k \in 1 .. Len(batch) - 1 : batch'[k] = batch[k + 1] /\ plan'[k] = plan[k + 1]
      BY <2>1, TailParts
    <3> QED BY <2>1, <3>1
  <2>4. \A i \in Cells : /\ wasPos[i] = c.pos[i] /\ wasSeq[i] = c.seq[i]
                         /\ wasPos'[i] = c.pos[i] /\ wasSeq'[i] = c.seq[i]
    <3>1. \A i \in Cells : wasPos[i] = c.pos[i] /\ wasSeq[i] = c.seq[i]
      BY <1>1, WasNow
    <3> QED BY <1>1, <3>1 DEF wasPos, wasSeq, Copies
  <2>5. SpareApply'
    <3> SUFFICES ASSUME NEW k \in DOMAIN plan', NEW i \in DOMAIN plan'[k], c.pos[i] # -1
                 PROVE  \E u \in Seqs : c.seq[i] = {u} /\ <<u, c.pos[i]>> \in Gone'[k]
      BY <1>1 DEF SpareApply
    <3>1. k \in Nat /\ k + 1 \in DOMAIN plan /\ k + 1 > 1 /\ i \in DOMAIN plan[k + 1]
          /\ i \in Cells
      <4>1. k \in Nat /\ k + 1 \in DOMAIN plan /\ k + 1 > 1 /\ i \in DOMAIN plan[k + 1]
        BY <2>3
      <4> QED BY <1>1, <2>1, <4>1, PlanFits
    <3>2. PICK u \in Seqs : c.seq[i] = {u} /\ <<u, c.pos[i]>> \in Gone[k + 1]
      BY <1>1, <3>1 DEF Spared, SpareApply
    <3>3. c.pos[i] \in Int
      BY <3>1, CellTypes DEF IInv, Consistent
    <3> QED BY <3>1, <3>2, <3>3, GoneTail
  <2>6. Reuse'
    <3> SUFFICES ASSUME NEW k \in DOMAIN plan', NEW j \in DOMAIN plan', j < k,
                        NEW i \in DOMAIN plan'[j] \cap DOMAIN plan'[k]
                 PROVE  <<batch'[j][plan'[j][i]].seq, batch'[j][plan'[j][i]].pos>> \in Gone'[k]
      BY DEF Reuse, Tok
    <3>1. /\ k \in Nat /\ j \in Nat /\ k + 1 \in DOMAIN plan /\ j + 1 \in DOMAIN plan
          /\ j + 1 < k + 1
          /\ i \in DOMAIN plan[j + 1] \cap DOMAIN plan[k + 1]
          /\ batch'[j][plan'[j][i]] = Tok(j + 1, i)
      BY <2>3 DEF Tok
    <3>2. Tok(j + 1, i).seq \in Seqs /\ Tok(j + 1, i).pos \in Int
      BY <1>1, <2>1, <3>1, TokIs
    <3>3. <<Tok(j + 1, i).seq, Tok(j + 1, i).pos>> \in Gone[k + 1]
      BY <1>1, <2>1, <3>1 DEF Spared, Reuse
    <3> QED BY <3>1, <3>2, <3>3, GoneTail
  <2>7. ASSUME NEW s \in Seqs, NEW q \in before'[s]
        PROVE  \/ \E i \in Cells : s \in wasSeq'[i] /\ wasPos'[i] = q
               \/ swa = 0 /\ <<s, q>> \in Gone'[1]
               \/ swa # 0 /\ <<s, q>> \in Gone'[Len(batch) - 1]
    <3>1. CASE q \in before[s]
      <4>1. q \in Int
        BY <3>1 DEF Kept
      <4>2. \/ \E i \in Cells : s \in wasSeq[i] /\ wasPos[i] = q
            \/ swa = 0 /\ <<s, q>> \in Gone[1]
            \/ swa # 0 /\ <<s, q>> \in Gone[Len(batch)]
        BY <1>1, <3>1 DEF Spared, Lasting
      <4>3. <<s, q>> \in Gone[1] => <<s, q>> \in Gone'[1]
        <5>1. <<s, q>> \in Gone[1] => <<s, q>> \in Gone[1 + 1]
          BY <2>1, <4>1, GoneUp
        <5> QED BY <4>1, <5>1, GoneTail
      <4>4. <<s, q>> \in Gone[Len(batch)] => <<s, q>> \in Gone'[Len(batch) - 1]
        <5>1. Len(batch) = (Len(batch) - 1) + 1
          BY <2>2
        <5> QED BY <2>2, <4>1, <5>1, GoneTail
      <4> QED BY <2>4, <4>2, <4>3, <4>4
    <3>2. CASE q \notin before[s]
      <4>1. PICK j \in DOMAIN batch[1] : batch[1][j].seq = s /\ batch[1][j].pos = q
        BY <1>1, <1>3, <2>7, <3>2
      <4>2. PICK i \in DOMAIN plan[1] : plan[1][i] = j
        BY <2>1, <4>1 DEF Ordered, Full
      <4>3. c.pos[i] = q /\ c.seq[i] = {s} /\ i \in Cells
        BY <1>1, <2>1, <4>1, <4>2, PlanFits DEF Ordered, Stands, Tok
      <4> QED BY <2>4, <4>3
    <3> QED BY <3>1, <3>2
  <2>8. Lasting'
    BY <1>1, <2>2, <2>7 DEF Lasting
  <2> QED BY <1>1, <1>3, <2>5, <2>6, <2>8 DEF Spared, Spare, Lives
<1> QED BY <1>2, <1>3

LEMMA SparedDecode ==
  ASSUME IInv, Kept, NEW s, NEW t, NEW n, NEW m, Decode(s, n, t, m)
  PROVE  Spared'
<1>1. /\ c'.pos = c.pos /\ c'.seq = c.seq /\ before' = [u \in Seqs |-> Positions(c, u)]
      /\ saved' = <<>> /\ phase' = "prepare" /\ plan' = <<>>
  BY DecodeCells DEF Kept, Rolling
<1>2. \A i \in Cells : wasPos'[i] = c.pos[i] /\ wasSeq'[i] = c.seq[i]
  BY <1>1 DEF wasPos, wasSeq, Copies
<1>3. \A u \in Seqs : \A p \in before'[u] : \E i \in Cells : u \in c.seq[i] /\ p = c.pos[i]
  BY <1>1, PositionsAre DEF IInv, Consistent
<1>4. Lasting'
  BY <1>2, <1>3 DEF Lasting
<1> QED BY <1>1, <1>4 DEF Spared, Spare, SpareApply, Reuse, Lives

LEMMA SparedStep ==
  ASSUME KInv, Spared, [Next]_vars
  PROVE  Spared'
<1>a. IInv /\ Sized /\ Kept /\ Ordered
  BY DEF KInv
<1>1. CASE PrepareUbatch \/ Prepared \/ RestoreUbatch \/ Restored \/ ApplyUbatch \/ Computed
  BY <1>a, <1>1, SparedPrepare, SparedRollBack, SparedRestored, SparedApply, SparedComputed
<1>2. CASE Calls \/ ComputeFails
  <2>1. phase' = "idle"
    BY <1>2 DEF Calls, Clear, RemoveAny, Keep, Remove, Copy, Add, Div, Call, decoding,
                ComputeFails, Idle
  <2> QED BY <2>1 DEF Spared, Spare, SpareApply, Reuse, Lives, Lasting, Rolling
<1>3. CASE \E s, t \in Seqs, n \in 1 .. MaxBatch, m \in 0 .. MaxBatch : Decode(s, n, t, m)
  BY <1>a, <1>3, SparedDecode
<1>4. CASE UNCHANGED vars
  <2>1. wasPos' = wasPos /\ wasSeq' = wasSeq /\ Gone' = Gone
    BY <1>4 DEF vars, wasPos, wasSeq, Copies, Gone
  <2>2. UNCHANGED <<phase, batch, plan, swa, before, c>>
    BY <1>4 DEF vars
  <2>3. Spare' /\ SpareApply'
    BY <2>1, <2>2 DEF Spared, Spare, SpareApply, Rolling
  <2>4. Reuse' /\ Lives'
    BY <2>1, <2>2 DEF Spared, Reuse, Lives, Tok
  <2>5. Lasting'
    BY <2>1, <2>2 DEF Spared, Lasting, Rolling
  <2> QED BY <2>3, <2>4, <2>5 DEF Spared
<1> QED BY <1>1, <1>2, <1>3, <1>4 DEF Next, DecodeSteps

LEMMA SparedIs == KInv /\ Spared => Sees
<1> SUFFICES ASSUME KInv, Spared, phase = "compute", swa = 0 \/ Len(batch) = 1,
                    NEW k \in DOMAIN batch[1], NEW p \in before[batch[1][k].seq],
                    ~ Masked(p, batch[1][k].pos)
             PROVE  p \in Positions(c, batch[1][k].seq)
  BY DEF Sees, SeesWindow
<1> DEFINE t == batch[1][k]
<1>1. IInv /\ Kept /\ ~ Rolling /\ saved = <<>> /\ Agree(c)
  BY DEF KInv, Kept, Rolling, IInv, Consistent
<1>2. 1 \in DOMAIN batch /\ t.seq \in Seqs /\ p \in Int
  <2>1. 1 \in DOMAIN batch /\ batch[1] \in Seq(Tokens)
    BY <1>1, FirstPart
  <2> QED BY <1>1, <2>1, TokenTypes DEF Kept
<1>3. <<t.seq, p>> \notin Gone[1]
  <2> SUFFICES ASSUME <<t.seq, p>> \in Gone[1] PROVE FALSE
    OBVIOUS
  <2>1. swa # 0 /\ t.pos - p >= swa
    BY <1>2, GoneIs
  <2> QED BY <2>1 DEF Masked
<1>4. \E i \in Cells : t.seq \in wasSeq[i] /\ wasPos[i] = p
  BY <1>1, <1>2, <1>3 DEF Spared, Lasting
<1>5. \E i \in Cells : t.seq \in c.seq[i] /\ c.pos[i] = p
  BY <1>1, <1>4, WasNow
<1> QED BY <1>1, <1>2, <1>5, PositionsAre

(* A part that is computed sees all that is in the windows of its tokens,   *)
(* when it is the last or there is no window.                               *)
THEOREM WindowIsSeen == Spec => []Sees
<1> DEFINE S == KInv /\ Spared
<1>1. Init => S
  <2>1. Init => Spared
    BY DEF Init, Spared, Spare, SpareApply, Reuse, Lives, Lasting, Rolling
  <2> QED BY <2>1, KInvInit
<1>2. S /\ [Next]_vars => S'
  BY KInvStep, SparedStep
<1>3. S => Sees
  BY SparedIs
<1> QED BY <1>1, <1>2, <1>3, PTL DEF Spec
================================================================================
