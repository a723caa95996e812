-------------------------------- MODULE KvCells --------------------------------
(***************************************************************************)
(* The cells of llama.cpp's attention memory (llama_kv_cells) and the      *)
(* operations of llama_kv_cache on them, for one stream: a cell holds the  *)
(* key and value of one position, for one or more sequences.  Which cells  *)
(* are used and which (position, cell) pairs a sequence has is kept beside *)
(* the cells and updated with each of them.                                *)
(*                                                                         *)
(* A decode is a transaction: prepare places every part (ubatch) of the    *)
(* batch in turn, remembers what it overwrites and puts it back; then the  *)
(* parts are placed again and computed one by one, and either step can     *)
(* fail.  A cell outside the attention window of its sequence (swa) may be *)
(* overwritten.  Left out: several streams, 2D positions and the tokens of *)
(* the cells, batches that give one token to several sequences, saved      *)
(* states, a shift that the model does not support or fails to compute.    *)
(***************************************************************************)
EXTENDS Integers, Sequences, FiniteSets

CONSTANTS
  N,          \* number of cells
  Seqs,
  Windows,    \* the attention windows a run explores, 0 for none
  NUbatch,    \* tokens in a part
  MaxBatch,   \* bound: tokens in a batch
  MaxPos,     \* bound: positions
  MaxShift,   \* bound: what is still to be applied to a cell
  Shifts,     \* bound: shifts and divisors of callers
  Divisors,
  Ranges      \* bound: <<p0, p1>> of callers

Cells == 0 .. N - 1

ASSUME SizesAssumption == /\ N \in Nat \ {0} /\ NUbatch \in Nat \ {0} /\ MaxBatch \in Nat
                          /\ MaxPos \in Nat /\ MaxShift \in Nat /\ Windows \subseteq Nat
ASSUME CallsAssumption == Shifts \subseteq Int \ {0} /\ Divisors \subseteq Nat \ {0, 1}
                          /\ Ranges \subseteq Int \X Int

VARIABLES
  swa,       \* n_swa
  c,         \* the cells: pos, seq, shift of each; used, seqPos, hasShift
  head,      \* where the search for free cells begins
  phase,     \* "idle", "prepare", "restore", "apply" or "compute"
  batch,     \* the parts still to place
  plan,      \* where: a function from the cells of a part to its tokens
  saved,     \* what prepare has overwritten, the latest last
  (* history *)
  data,      \* the position the key in a cell has been rotated to
  divided,   \* cells that seq_div has moved
  before     \* positions of each sequence when the decode began, or computed by it

vars == <<swa, c, head, phase, batch, plan, saved, data, divided, before>>
decoding == <<phase, batch, plan, saved, before>>

-----------------------------------------------------------------------------
(* The cells.  Each operator is a loop of per-cell updates, which touch    *)
(* only the cell and its pairs.                                            *)

Pairs(k, s, I) == {<<k.pos[i], i>> : i \in {j \in I : s \in k.seq[j]}}

(* seq_rm, rm and seq_keep: cell i loses the sequences gone[i].            *)
Strip(k, gone) ==
  LET empty(i) == k.seq[i] # {} /\ k.seq[i] \subseteq gone[i] IN
  [pos      |-> [i \in Cells |-> IF empty(i) THEN -1 ELSE k.pos[i]],
   shift    |-> [i \in Cells |-> IF empty(i) THEN 0 ELSE k.shift[i]],
   seq      |-> [i \in Cells |-> k.seq[i] \ gone[i]],
   used     |-> k.used \ {i \in Cells : empty(i)},
   seqPos   |-> [s \in Seqs |-> k.seqPos[s] \ Pairs(k, s, {i \in Cells : s \in gone[i]})],
   hasShift |-> k.hasShift]

(* Mutant: a copied cell counts as new.                                    *)
ShareReset(k, I, d) ==
  [k EXCEPT !.seq       = [i \in Cells |-> IF i \in I THEN k.seq[i] \cup {d} ELSE k.seq[i]],
            !.shift     = [i \in Cells |-> IF i \in I THEN 0 ELSE k.shift[i]],
            !.seqPos[d] = @ \cup {<<k.pos[i], i>> : i \in I}]

(* seq_add: the cells I are also of sequence d.                            *)
Share(k, I, d) ==
  [pos      |-> k.pos,
   shift    |-> k.shift,
   seq      |-> [i \in Cells |-> IF i \in I THEN k.seq[i] \cup {d} ELSE k.seq[i]],
   used     |-> k.used,
   seqPos   |-> [s \in Seqs |-> k.seqPos[s] \cup {<<k.pos[i], i>> : i \in {j \in I : s = d}}],
   hasShift |-> k.hasShift]

(* Mutant: the pairs of a cell that falls below zero stay.                 *)
PosAddStale(k, I, d) ==
  LET gone(i)  == i \in I /\ k.pos[i] + d < 0
      moved(i) == i \in I /\ k.pos[i] + d >= 0
  IN [pos      |-> [i \in Cells |-> IF gone(i) THEN -1 ELSE IF moved(i) THEN k.pos[i] + d ELSE k.pos[i]],
      shift    |-> [i \in Cells |-> IF gone(i) THEN 0 ELSE IF moved(i) THEN k.shift[i] + d ELSE k.shift[i]],
      seq      |-> [i \in Cells |-> IF gone(i) THEN {} ELSE k.seq[i]],
      used     |-> k.used \ {i \in Cells : gone(i)},
      seqPos   |-> [s \in Seqs |-> (k.seqPos[s] \ Pairs(k, s, {i \in Cells : moved(i)}))
                     \cup {<<k.pos[i] + d, i>> : i \in {j \in Cells : moved(j) /\ s \in k.seq[j]}}],
      hasShift |-> k.hasShift \/ I # {}]

(* pos_add: a cell that would fall below zero is freed.                    *)
PosAdd(k, I, d) ==
  LET gone(i)  == i \in I /\ k.pos[i] + d < 0
      moved(i) == i \in I /\ k.pos[i] + d >= 0
  IN [pos      |-> [i \in Cells |-> IF gone(i) THEN -1 ELSE IF moved(i) THEN k.pos[i] + d ELSE k.pos[i]],
      shift    |-> [i \in Cells |-> IF gone(i) THEN 0 ELSE IF moved(i) THEN k.shift[i] + d ELSE k.shift[i]],
      seq      |-> [i \in Cells |-> IF gone(i) THEN {} ELSE k.seq[i]],
      used     |-> k.used \ {i \in Cells : gone(i)},
      seqPos   |-> [s \in Seqs |-> (k.seqPos[s] \ Pairs(k, s, I))
                     \cup {<<k.pos[i] + d, i>> : i \in {j \in Cells : moved(j) /\ s \in k.seq[j]}}],
      hasShift |-> k.hasShift \/ I # {}]

(* pos_div; the shift is what the code adds to it.                         *)
PosDiv(k, I, d) ==
  [pos      |-> [i \in Cells |-> IF i \in I THEN k.pos[i] \div d ELSE k.pos[i]],
   shift    |-> [i \in Cells |-> IF i \in I THEN k.shift[i] + k.pos[i] - k.pos[i] \div d ELSE k.shift[i]],
   seq      |-> k.seq,
   used     |-> k.used,
   seqPos   |-> [s \in Seqs |-> (k.seqPos[s] \ Pairs(k, s, I))
                  \cup {<<k.pos[i] \div d, i>> : i \in {j \in I : s \in k.seq[j]}}],
   hasShift |-> k.hasShift \/ I # {}]

(* rm, pos_set and seq_add: the cells of p get the tokens ub[p[i]].        *)
Fill(k, p, ub) ==
  LET P == DOMAIN p IN
  [pos      |-> [i \in Cells |-> IF i \in P THEN ub[p[i]].pos ELSE k.pos[i]],
   shift    |-> [i \in Cells |-> IF i \in P THEN 0 ELSE k.shift[i]],
   seq      |-> [i \in Cells |-> IF i \in P THEN {ub[p[i]].seq} ELSE k.seq[i]],
   used     |-> k.used \cup P,
   seqPos   |-> [s \in Seqs |-> (k.seqPos[s] \ Pairs(k, s, P))
                  \cup {<<ub[p[i]].pos, i>> : i \in {j \in P : ub[p[j]].seq = s}}],
   hasShift |-> k.hasShift]

(* set: the cells are as cp has saved them.                                *)
Restore(k, old) ==
  LET P == DOMAIN old.pos IN
  [pos      |-> [i \in Cells |-> IF i \in P THEN old.pos[i] ELSE k.pos[i]],
   shift    |-> k.shift,
   seq      |-> [i \in Cells |-> IF i \in P THEN old.seq[i] ELSE k.seq[i]],
   used     |-> (k.used \ P) \cup {i \in P : old.pos[i] # -1},
   seqPos   |-> [s \in Seqs |-> (k.seqPos[s] \ Pairs(k, s, P)) \cup Pairs(old, s, P)],
   hasShift |-> k.hasShift]

Saved(k, P) == [pos |-> [i \in P |-> k.pos[i]], seq |-> [i \in P |-> k.seq[i]], head |-> head]

-----------------------------------------------------------------------------
(* Positions                                                               *)

Positions(k, s) == {x[1] : x \in k.seqPos[s]}
PosMax(k, s) ==
  IF k.seqPos[s] = {} THEN -1
  ELSE CHOOSE p \in Positions(k, s) : \A q \in Positions(k, s) : q <= p

Low(r) == IF r[1] < 0 THEN 0 ELSE r[1]
In(k, i, r) == Low(r) <= k.pos[i] /\ (r[2] < 0 \/ k.pos[i] < r[2])
Of(k, s, r) == {i \in Cells : In(k, i, r) /\ s \in k.seq[i]}

(* "If we freed up a slot, set head to it so searching can start there."   *)
Freed(k) == {i \in Cells : c.pos[i] # -1 /\ k.pos[i] = -1}
First(I) == CHOOSE i \in I : \A j \in I : i <= j
HeadBack(k) == IF Freed(k) # {} /\ First(Freed(k)) < head THEN First(Freed(k)) ELSE head

-----------------------------------------------------------------------------
(* The callers' operations, between two decodes.                           *)

(* What a cell holds matters while it has a position and no seq_div has    *)
(* moved it.                                                               *)
Keys(k, div, old) == [i \in Cells |-> IF k.pos[i] = -1 \/ i \in div THEN 0 ELSE old[i]]
Track(k, div) ==
  /\ divided' = {i \in div : k.pos[i] # -1}
  /\ data' = Keys(k, div, data)

Call(k) == phase = "idle" /\ c' = k /\ UNCHANGED <<swa, decoding>>

Clear ==
  /\ Call(Strip(c, [i \in Cells |-> Seqs])) /\ head' = 0
  /\ Track(c', divided)

SeqRm(s, r) == Strip(c, [i \in Cells |-> IF In(c, i, r) THEN {s} ELSE {}])
Remove(s, r) ==
  /\ Call(SeqRm(s, r)) /\ head' = HeadBack(c')
  /\ Track(c', divided)

RemoveAny(r) ==
  /\ Call(Strip(c, [i \in Cells |-> IF In(c, i, r) THEN Seqs ELSE {}])) /\ head' = HeadBack(c')
  /\ Track(c', divided)

Copy(s, d, r) ==
  /\ s # d /\ Call(Share(c, Of(c, s, r), d))
  /\ UNCHANGED head /\ Track(c', divided)

Keep(s) ==
  /\ Call(Strip(c, [i \in Cells |-> Seqs \ {s}])) /\ head' = HeadBack(c')
  /\ Track(c', divided)

Add(s, r, d) ==
  /\ \A i \in Of(c, s, r) : c.pos[i] + d <= MaxPos /\ c.shift[i] + d \in - MaxShift .. MaxShift
  /\ Low(r) # r[2]
  /\ Call(PosAdd(c, Of(c, s, r), d))
  /\ head' = IF Freed(c') = {} THEN 0 ELSE First(Freed(c'))
  /\ Track(c', divided)

Div(s, r, d) ==
  /\ \A i \in Of(c, s, r) : c.shift[i] + c.pos[i] - c.pos[i] \div d <= MaxShift
  /\ Low(r) # r[2]
  /\ Call(PosDiv(c, Of(c, s, r), d)) /\ UNCHANGED head
  /\ Track(c', divided \cup Of(c, s, r))

-----------------------------------------------------------------------------
(* decode                                                                  *)

Tokens == [pos : Nat, seq : Seqs]
RunOf(s, p, n) == [k \in 1 .. n |-> [pos |-> p + k - 1, seq |-> s]]

(* split_simple                                                            *)
Parts(toks) ==
  [k \in 1 .. (Len(toks) + NUbatch - 1) \div NUbatch |->
     SubSeq(toks, (k - 1) * NUbatch + 1,
            IF k * NUbatch <= Len(toks) THEN k * NUbatch ELSE Len(toks))]

(* A batch goes on where each of its sequences ends (llama_batch_allocr);  *)
(* shifts that wait are applied first (memory_update).                     *)
Decode(s, n, t, m) ==
  /\ phase = "idle" /\ (s # t \/ m = 0) /\ n + m <= MaxBatch
  /\ \E p, q \in 0 .. MaxPos :
       /\ p = PosMax(c, s) + 1 /\ p + n - 1 <= MaxPos
       /\ q = PosMax(c, t) + 1 /\ q + m - 1 <= MaxPos
       /\ batch' = Parts(RunOf(s, p, n) \o RunOf(t, q, m))
  /\ IF c.hasShift
     THEN /\ data' = Keys(c, divided, [i \in Cells |-> data[i] + c.shift[i]])
          /\ c' = [c EXCEPT !.shift = [i \in Cells |-> 0], !.hasShift = FALSE]
     ELSE UNCHANGED <<c, data>>
  /\ phase' = "prepare" /\ before' = [u \in Seqs |-> Positions(c, u)]
  /\ UNCHANGED <<swa, head, plan, saved, divided>>

(* find_slot: the free cells and those outside the window, in turn from    *)
(* the head on.                                                            *)
Masked(p0, p1) == swa # 0 /\ p1 - p0 >= swa

(* Mutant: the window of the token after the next.                         *)
UsableEarly == {i \in Cells : \/ c.pos[i] = -1
                              \/ \E s \in Seqs : c.seq[i] = {s} /\ Masked(c.pos[i], PosMax(c, s) + 2)}

Usable == {i \in Cells : \/ c.pos[i] = -1
                         \/ \E s \in Seqs : c.seq[i] = {s} /\ Masked(c.pos[i], PosMax(c, s) + 1)}

Start(n)   == IF head > Cardinality(c.used) + 2 * n THEN 0 ELSE head
Dist(i, n) == (i + N - Start(n)) % N
Turn(i, n) == 1 + Cardinality({j \in Usable : Dist(j, n) < Dist(i, n)})
FindSlot(n) == [i \in {j \in Usable : Turn(j, n) <= n} |-> Turn(i, n)]

(* The positions of s that a part overwrites, and all before them, go.     *)
Overwritten(p, s) == {c.pos[i] : i \in {j \in DOMAIN p : s \in c.seq[j]}}
Purge(k, p) ==
  Strip(k, [i \in Cells |-> {s \in Seqs : \E q \in Overwritten(p, s) : k.pos[i] <= q}])

(* apply_ubatch                                                            *)
Apply(p, ub) ==
  /\ c' = Purge(Fill(c, p, ub), p)
  /\ head' = 1 + CHOOSE i \in DOMAIN p : \A j \in DOMAIN p : p[j] <= p[i]

PrepareUbatch ==
  /\ phase = "prepare" /\ Len(plan) < Len(batch)
  /\ LET ub == batch[Len(plan) + 1]
         p  == FindSlot(Len(ub))
     IN IF Cardinality(Usable) < Len(ub)
        THEN phase' = "restore" /\ batch' = <<>> /\ UNCHANGED <<c, head, plan, saved>>
        ELSE /\ plan' = Append(plan, p) /\ saved' = Append(saved, Saved(c, DOMAIN p))
             /\ Apply(p, ub)
             /\ UNCHANGED <<phase, batch>>
  /\ UNCHANGED <<swa, data, divided, before>>

Prepared ==
  /\ phase = "prepare" /\ Len(plan) = Len(batch)
  /\ phase' = "restore"
  /\ UNCHANGED <<swa, c, head, batch, plan, saved, data, divided, before>>

(* Mutant: only the last part is taken back.                               *)
RestoreLast ==
  /\ phase = "restore" /\ saved # <<>>
  /\ c' = Restore(c, saved[Len(saved)]) /\ head' = saved[Len(saved)].head
  /\ saved' = <<>>
  /\ UNCHANGED <<swa, phase, batch, plan, data, divided, before>>

RestoreUbatch ==
  /\ phase = "restore" /\ saved # <<>>
  /\ c' = Restore(c, saved[Len(saved)]) /\ head' = saved[Len(saved)].head
  /\ saved' = SubSeq(saved, 1, Len(saved) - 1)
  /\ UNCHANGED <<swa, phase, batch, plan, data, divided, before>>

Idle == phase' = "idle" /\ before' = [s \in Seqs |-> {}]

Restored ==
  /\ phase = "restore" /\ saved = <<>>
  /\ IF batch = <<>> THEN Idle /\ plan' = <<>> /\ Track(c, divided)
     ELSE phase' = "apply" /\ UNCHANGED <<plan, before, data, divided>>
  /\ UNCHANGED <<swa, c, head, batch, saved>>

ApplyUbatch ==
  /\ phase = "apply"
  /\ Apply(plan[1], batch[1])
  /\ phase' = "compute"
  /\ divided' = divided \ DOMAIN plan[1]
  /\ UNCHANGED <<swa, batch, plan, saved, data, before>>

Computed ==
  /\ phase = "compute"
  /\ data' = Keys(c, divided, [i \in Cells |-> IF i \in DOMAIN plan[1] THEN batch[1][plan[1][i]].pos ELSE data[i]])
  /\ batch' = Tail(batch) /\ plan' = Tail(plan)
  /\ UNCHANGED <<swa, c, head, saved, divided>>
  /\ IF Len(batch) = 1 THEN Idle
     ELSE /\ phase' = "apply"
          /\ before' = [s \in Seqs |-> before[s] \cup
                          {batch[1][j].pos : j \in {k \in DOMAIN batch[1] : batch[1][k].seq = s}}]

(* The positions of the part are removed again.                            *)
ComputeFails ==
  /\ phase = "compute"
  /\ c' = Strip(c, [i \in Cells |-> {s \in Seqs : \E k \in DOMAIN batch[1] :
                                       batch[1][k].seq = s /\ batch[1][k].pos <= c.pos[i]}])
  /\ head' = HeadBack(c')
  /\ batch' = <<>> /\ plan' = <<>> /\ Idle
  /\ Track(c', divided)
  /\ UNCHANGED <<swa, saved>>

-----------------------------------------------------------------------------
Init ==
  /\ swa \in Windows
  /\ c = [pos |-> [i \in Cells |-> -1], seq |-> [i \in Cells |-> {}], shift |-> [i \in Cells |-> 0],
          used |-> {}, seqPos |-> [s \in Seqs |-> {}], hasShift |-> FALSE]
  /\ head = 0 /\ phase = "idle" /\ batch = <<>> /\ plan = <<>> /\ saved = <<>>
  /\ data = [i \in Cells |-> 0] /\ divided = {} /\ before = [s \in Seqs |-> {}]

Calls ==
  \/ Clear
  \/ \E r \in Ranges : RemoveAny(r)
  \/ \E s \in Seqs : Keep(s)
  \/ \E s \in Seqs, r \in Ranges : Remove(s, r)
  \/ \E s, d \in Seqs, r \in Ranges : Copy(s, d, r)
  \/ \E s \in Seqs, r \in Ranges, d \in Shifts : Add(s, r, d)
  \/ \E s \in Seqs, r \in Ranges, d \in Divisors : Div(s, r, d)

DecodeSteps ==
  \/ PrepareUbatch \/ Prepared \/ RestoreUbatch \/ Restored
  \/ ApplyUbatch \/ Computed \/ ComputeFails

Next ==
  \/ Calls \/ DecodeSteps
  \/ \E s, t \in Seqs, n \in 1 .. MaxBatch, m \in 0 .. MaxBatch : Decode(s, n, t, m)

Spec == Init /\ [][Next]_vars

-----------------------------------------------------------------------------
(* Properties                                                              *)

Memory == [pos : [Cells -> Int], seq : [Cells -> SUBSET Seqs], shift : [Cells -> Int],
           used : SUBSET Cells, seqPos : [Seqs -> SUBSET (Int \X Cells)], hasShift : BOOLEAN]

(* The indices of the cells agree with them: used holds the cells that     *)
(* have a position, each sequence has exactly the pairs of its cells, a    *)
(* cell has a position when it has a sequence, and a shift only when one   *)
(* waits.                                                                  *)
Agree(k) ==
  /\ k \in Memory
  /\ k.used = {i \in Cells : k.pos[i] # -1}
  /\ \A s \in Seqs : k.seqPos[s] = Pairs(k, s, Cells)
  /\ \A i \in Cells : /\ k.pos[i] >= -1
                      /\ k.pos[i] = -1 <=> k.seq[i] = {}
                      /\ k.pos[i] = -1 \/ ~ k.hasShift => k.shift[i] = 0

(* So it is after every call, in the middle of a prepare and after its     *)
(* roll-back, and no placement of a part leaves the cells.                 *)
Consistent ==
  /\ Agree(c)
  /\ phase \in {"idle", "prepare", "restore", "apply", "compute"}
  /\ \A k \in DOMAIN plan : DOMAIN plan[k] \subseteq Cells

(* "this array accumulates any applied shifts to the pos array"            *)
(* (llama-kv-cells.h): the key in a cell, rotated by what is still to be   *)
(* applied, is that of the cell's position, unless seq_div has moved it.   *)
InFlight == IF phase = "apply" THEN {} ELSE UNION {DOMAIN plan[k] : k \in DOMAIN plan}
KeysFollow ==
  \A i \in Cells \ (divided \cup InFlight) :
    c.pos[i] # -1 => /\ data[i] + c.shift[i] = c.pos[i]
                     /\ phase = "idle" \/ c.shift[i] = 0

(* A part that is computed sees every position its sequences had when the  *)
(* decode began, or got in it, that is in their windows: always without a  *)
(* window, in the last part of a batch with one.                           *)
SeesWindow ==
  \A k \in DOMAIN batch[1] :
    LET t == batch[1][k] IN
    {p \in before[t.seq] : ~ Masked(p, t.pos)} \subseteq Positions(c, t.seq)
Sees == phase = "compute" /\ (swa = 0 \/ Len(batch) = 1) => SeesWindow

(* "iterate backwards and restore the cells to their original state"       *)
(* (llama-kv-cache.cpp:979): after prepare, successful or not, a sequence  *)
(* has no other positions than before, and still all in the window of its  *)
(* next token; with a window, when no more than one part was placed.       *)
PrepareRestores ==
  phase = "restore" /\ saved = <<>> =>
    \A s \in Seqs :
      LET seen == {p \in before[s] : \A q \in before[s] : ~ Masked(p, q + 1)}
      IN  /\ Positions(c, s) \subseteq before[s]
          /\ swa = 0 \/ Len(plan) <= 1 => seen \subseteq Positions(c, s)
================================================================================
