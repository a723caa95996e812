------------------------------- MODULE SlotBatch -------------------------------
(***************************************************************************)
(* The batch of llama-server and the memory (KV cache) behind its slots:   *)
(* update_slots() of tools/server/server-context.cpp.  Every round shifts  *)
(* contexts that are full, batches the sampled tokens and the pending      *)
(* prompts, decodes the batch (in parts, when the memory is full) and      *)
(* samples.  The hazard is the bookkeeping: slot.prompt.tokens says what   *)
(* the memory holds before it does, and the next request of the slot       *)
(* reuses as much of it as it can.                                         *)
(*                                                                         *)
(* One thread runs all of this; a step is one slot in one phase.  Which    *)
(* requests share a batch, and the queues, are in ServerSlots.  Left out:  *)
(* speculative drafts, multimodal chunks, checkpoints and the host prompt  *)
(* cache.                                                                  *)
(***************************************************************************)
EXTENDS Integers, Sequences, FiniteSetsExt

CONSTANTS
  NSlots,     \* n_parallel
  Tokens,
  Prompts,    \* the prompts a request may have
  NBatch,     \* llama_n_batch
  NCtx,       \* context size of a slot
  NKeep,      \* n_keep of a request
  NReuse,     \* n_cache_reuse, 0 when off
  Scenarios,  \* [kinds, faults]: requests there are and how decoding fails
  MaxTasks,   \* bound: requests launched
  MaxGen,     \* n_predict
  NoTask

Slots == 1 .. NSlots

ASSUME SizesAssumption ==
  /\ NSlots \in Nat \ {0} /\ NBatch \in Nat \ {0} /\ NSlots <= NBatch
  /\ NCtx \in Nat /\ NCtx > 4 /\ NKeep \in Nat /\ NReuse \in Nat
  /\ MaxTasks \in Nat /\ MaxGen \in Nat \ {0}
  /\ Prompts \subseteq Seq(Tokens) \ {<<>>} /\ Tokens # {}

VARIABLES
  scenario,
  launched,   \* requests so far
  phase,      \* "tasks", "shift", "sampled", "prompts", "reuse", "decode" or "post"
  at,         \* the slot an iteration has come to
  heads,      \* of a reuse of chunks: head_c in the cached prompt, head_p in the new one
  slot,       \* state, task, prompt.tokens, sampled token, n_gen, i_batch
  kv,         \* the memory: <<position, token>> pairs of each sequence
  batch,      \* [slot, pos, tok] of every row
  off, n      \* head and size of the part being decoded

batchVars == <<scenario, launched, phase, at, heads, slot, kv, batch, off, n>>

-----------------------------------------------------------------------------
(* The memory                                                              *)

SeqRm(cells, p0, p1)     == {c \in cells : ~ (p0 <= c[1] /\ c[1] < p1)}
SeqAdd(cells, p0, p1, d) == {IF p0 <= c[1] /\ c[1] < p1 THEN <<c[1] - d, c[2]>> ELSE c : c \in cells}
Inf == NCtx + 1
Cells(s) == {<<i - 1, s[i]>> : i \in DOMAIN s}

-----------------------------------------------------------------------------
(* Slots                                                                   *)

Idle(s) == slot[s].state = "IDLE"

(* release: the context stays for the next request, but not a child's.     *)
Freed(s)  == [slot[s] EXCEPT !.state = "IDLE", !.task = NoTask,
                             !.prompt = IF slot[s].task.kind = "child" THEN <<>> ELSE @]
FreedKv(s) == IF slot[s].task.kind = "child" THEN {} ELSE kv[s]
Release(s) == slot' = [slot EXCEPT ![s] = Freed(s)] /\ kv' = [kv EXCEPT ![s] = FreedKv(s)]

Launch(s, kind, toks) ==
  [slot[s] EXCEPT !.state = IF kind = "child" THEN "WAIT_OTHER" ELSE "STARTED",
                  !.task = [id |-> launched, kind |-> kind, tokens |-> toks], !.gen = 0]

(* Between two rounds the main loop processes tasks.                       *)
LaunchTask == \E s \in Slots, p \in Prompts, kind \in scenario.kinds :
  /\ phase = "tasks" /\ launched < MaxTasks /\ Idle(s)
  /\ launched' = launched + 1
  /\ \/ kind = "single" /\ slot' = [slot EXCEPT ![s] = Launch(s, kind, p)]
     \/ /\ kind = "parent"
        /\ \E c \in Slots \ {s} :
             /\ Idle(c)
             /\ slot' = [slot EXCEPT ![s] = Launch(s, kind, p), ![c] = Launch(c, "child", p)]
  /\ UNCHANGED <<scenario, phase, at, heads, kv, batch, off, n>>

CancelSlot == \E s \in Slots :
  /\ phase = "tasks" /\ ~ Idle(s)
  /\ Release(s)
  /\ UNCHANGED <<scenario, launched, phase, at, heads, batch, off, n>>

(* SLOT_ERASE, or the clearing of idle slots when a task is launched.      *)
EraseSlot == \E s \in Slots :
  /\ phase = "tasks" /\ Idle(s) /\ slot[s].prompt # <<>>
  /\ slot' = [slot EXCEPT ![s].prompt = <<>>] /\ kv' = [kv EXCEPT ![s] = {}]
  /\ UNCHANGED <<scenario, launched, phase, at, heads, batch, off, n>>

BeginRound ==
  /\ phase = "tasks" /\ \E s \in Slots : ~ Idle(s)
  /\ phase' = "shift" /\ at' = 1 /\ batch' = <<>>
  /\ UNCHANGED <<scenario, launched, heads, slot, kv, off, n>>

Advance(this, next) ==
  IF at < NSlots THEN at' = at + 1 /\ phase' = this ELSE at' = 1 /\ phase' = next

-----------------------------------------------------------------------------
(* pre_decode                                                              *)

(* A context that is full loses n_discard tokens after the first n_keep.   *)
Shifted(s) ==
  LET p == slot[s].prompt
      keep == Min({NCtx - 4, NKeep})
      discard == (Len(p) - keep) \div 2
  IN /\ slot' = [slot EXCEPT ![s].prompt = SubSeq(p, 1, keep) \o SubSeq(p, keep + discard + 1, Len(p))]
     /\ kv' = [kv EXCEPT ![s] = SeqAdd(SeqRm(@, keep, keep + discard), keep + discard, Len(p), discard)]

ShiftContext ==
  /\ phase = "shift"
  /\ IF slot[at].state = "GENERATING" /\ Len(slot[at].prompt) + 1 >= NCtx
     THEN IF slot[at].task.kind = "single" THEN Shifted(at) ELSE Release(at)
     ELSE UNCHANGED <<slot, kv>>
  /\ Advance("shift", "sampled")
  /\ UNCHANGED <<scenario, launched, heads, batch, off, n>>

Row(s, pos, tok) == [slot |-> s, pos |-> pos, tok |-> tok]

(* handle_last_sampled_token                                               *)
AddSampled ==
  /\ phase = "sampled"
  /\ LET me == slot[at] IN
     IF me.state = "GENERATING"
     THEN /\ batch' = Append(batch, Row(at, Len(me.prompt), me.sampled))
          /\ slot' = [slot EXCEPT ![at].prompt = Append(@, me.sampled), ![at].ibatch = Len(batch)]
     ELSE UNCHANGED <<batch, slot>>
  /\ Advance("sampled", "prompts")
  /\ UNCHANGED <<scenario, launched, heads, kv, off, n>>

CommonPrefix(p, q) ==
  Max({k \in 0 .. Min({Len(p), Len(q)}) : SubSeq(p, 1, k) = SubSeq(q, 1, k)})

(* How many tokens of p from c on are those of q from h on.                *)
Match(p, q, c, h) == CommonPrefix(SubSeq(p, c + 1, Len(p)), SubSeq(q, h + 1, Len(q)))

Room == Len(batch) < NBatch

(* A slot without a pending prompt, or a batch without room, is passed     *)
(* over; a prompt that is too long is refused.                             *)
SkipPrompt ==
  /\ phase = "prompts"
  /\ \/ /\ slot[at].state \notin {"STARTED", "PROCESSING_PROMPT"} \/ ~ Room
        /\ UNCHANGED <<slot, kv>>
     \/ /\ slot[at].state = "STARTED" /\ Room /\ Len(slot[at].task.tokens) >= NCtx
        /\ Release(at)
  /\ Advance("prompts", "decode")
  /\ UNCHANGED <<scenario, launched, heads, batch, off, n>>

(* A slot that starts keeps the common prefix of its context and the       *)
(* prompt, and looks for chunks to reuse behind it.                        *)
StartPrompt ==
  /\ phase = "prompts" /\ slot[at].state = "STARTED" /\ Room /\ Len(slot[at].task.tokens) < NCtx
  /\ \E cached \in BOOLEAN :
       LET k == CommonPrefix(slot[at].prompt, slot[at].task.tokens)
           end == Len(slot[at].prompt)
       IN heads' = IF cached THEN [c |-> IF NReuse = 0 THEN end ELSE k, h |-> k]
                   ELSE [c |-> end, h |-> 0]
  /\ phase' = "reuse"
  /\ UNCHANGED <<scenario, launched, at, slot, kv, batch, off, n>>

MoreChunks == heads.c < Len(slot[at].prompt) /\ heads.h < Len(slot[at].task.tokens)

(* One iteration: a chunk of the cached prompt that recurs in the new one, *)
(* further to the front, is moved there.                                   *)
ReuseChunk ==
  /\ phase = "reuse" /\ MoreChunks
  /\ LET p == slot[at].prompt
         c == heads.c
         h == heads.h
         m == Match(p, slot[at].task.tokens, c, h)
     IN IF m < NReuse THEN heads' = [heads EXCEPT !.c = c + 1] /\ UNCHANGED <<slot, kv>>
        ELSE /\ heads' = [c |-> c + m, h |-> h + m]
             /\ slot' = [slot EXCEPT ![at].prompt =
                           [i \in DOMAIN p |-> IF h < i /\ i <= h + m THEN p[i - h + c] ELSE p[i]]]
             /\ kv' = [kv EXCEPT ![at] = SeqAdd(SeqRm(@, h, c), c, c + m, c - h)]
  /\ UNCHANGED <<scenario, launched, phase, at, batch, off, n>>

(* What follows the tokens p, which the memory holds, is removed from it,  *)
(* and as many tokens of the prompt as there is room for are batched.      *)
Fill(p) ==
  LET q == slot[at].task.tokens
      have == Len(p)
      add == Min({Len(q) - have, NBatch - Len(batch)})
      done == have + add = Len(q)
  IN /\ kv' = [kv EXCEPT ![at] = SeqRm(@, have, Inf)]
     /\ batch' = batch \o [i \in 1 .. add |-> Row(at, have + i - 1, q[have + i])]
     /\ slot' = [slot EXCEPT ![at].prompt = p \o SubSeq(q, have + 1, have + add),
                             ![at].state = IF done THEN "DONE_PROMPT" ELSE "PROCESSING_PROMPT",
                             ![at].ibatch = IF done THEN Len(batch) + add - 1 ELSE @]

(* At least one token is left to evaluate.                                 *)
Past == IF heads.h = Len(slot[at].task.tokens) THEN heads.h - 1 ELSE heads.h

AddPrompt ==
  /\ \/ /\ phase = "reuse" /\ ~ MoreChunks
        /\ Fill(SubSeq(slot[at].prompt, 1, Past))
     \/ /\ phase = "prompts" /\ slot[at].state = "PROCESSING_PROMPT" /\ Room
        /\ Fill(slot[at].prompt)
  /\ Advance("prompts", "decode") /\ heads' = [c |-> 0, h |-> 0]
  /\ UNCHANGED <<scenario, launched, off, n>>

-----------------------------------------------------------------------------
(* decode                                                                  *)

Size == Min({n, Len(batch) - off})
View == off + 1 .. off + Size

(* What is left of the batch is not looked at again before it is cleared.  *)
EndRound == phase' = "tasks" /\ off' = 0 /\ n' = NBatch /\ batch' = <<>>

NothingToDecode ==
  /\ phase = "decode" /\ batch = <<>>
  /\ EndRound
  /\ UNCHANGED <<scenario, launched, at, heads, slot, kv>>

(* The children of a parent whose prompt is done get its state: those of   *)
(* copy_state_to, on top of what the decode has written.                   *)
ParentOf(c) == {p \in Slots : /\ slot[c].state = "WAIT_OTHER" /\ slot[p].state = "DONE_PROMPT"
                              /\ slot[p].task.kind = "parent" /\ slot[p].task.id = slot[c].task.id}

DecodeOk ==
  /\ phase = "decode" /\ batch # <<>>
  /\ LET written == [s \in Slots |-> kv[s] \cup
                       {<<batch[i].pos, batch[i].tok>> : i \in {j \in View : batch[j].slot = s}}]
         from(c) == CHOOSE p \in ParentOf(c) : TRUE
     IN /\ kv' = [s \in Slots |-> IF ParentOf(s) = {} THEN written[s] ELSE written[from(s)]]
        /\ slot' = [s \in Slots |->
             IF ParentOf(s) = {} THEN slot[s]
             ELSE [slot[s] EXCEPT !.state = "DONE_PROMPT", !.prompt = slot[from(s)].prompt,
                                  !.ibatch = slot[from(s)].ibatch]]
  /\ phase' = "post" /\ at' = 1
  /\ UNCHANGED <<scenario, launched, heads, batch, off, n>>

(* Mutant: instead of giving up at one row, start over with the full size. *)
DecodeFullForever ==
  /\ phase = "decode" /\ batch # <<>> /\ "full" \in scenario.faults
  /\ n' = IF n = 1 THEN NBatch ELSE n \div 2
  /\ UNCHANGED <<scenario, launched, phase, at, heads, slot, kv, batch, off>>

(* No room: an idle slot loses its context, or the part is halved.         *)
Purgeable == {s \in Slots : Idle(s) /\ slot[s].prompt # <<>>}
DecodeFull ==
  /\ phase = "decode" /\ batch # <<>> /\ "full" \in scenario.faults /\ n > 1
  /\ IF Purgeable # {}
     THEN /\ slot' = [slot EXCEPT ![Min(Purgeable)].prompt = <<>>]
          /\ kv' = [kv EXCEPT ![Min(Purgeable)] = {}]
          /\ UNCHANGED n
     ELSE /\ n' = n \div 2
          /\ UNCHANGED <<slot, kv>>
  /\ UNCHANGED <<scenario, launched, phase, at, heads, batch, off>>

(* Mutant: the slots are released with their contexts.                     *)
DecodeFailsKeeping ==
  /\ phase = "decode" /\ batch # <<>> /\ "fatal" \in scenario.faults
  /\ slot' = [s \in Slots |-> IF Idle(s) THEN slot[s] ELSE Freed(s)]
  /\ kv' = [s \in Slots |-> IF Idle(s) THEN kv[s] ELSE FreedKv(s)]
  /\ EndRound /\ at' = 1
  /\ UNCHANGED <<scenario, launched, heads>>

(* An error that no retry helps: every slot in use starts from nothing.    *)
DecodeFails ==
  /\ phase = "decode" /\ batch # <<>>
  /\ \/ "full" \in scenario.faults /\ n = 1
     \/ "fatal" \in scenario.faults
  /\ slot' = [s \in Slots |-> IF Idle(s) THEN slot[s] ELSE [Freed(s) EXCEPT !.prompt = <<>>]]
  /\ kv' = [s \in Slots |-> IF Idle(s) THEN kv[s] ELSE {}]
  /\ EndRound /\ at' = 1
  /\ UNCHANGED <<scenario, launched, heads>>

(* An exception after a part is decoded, of post_decode or of the worker   *)
(* thread: abort_all_slots releases the slots and keeps their contexts.    *)
Abort ==
  /\ phase = "post" /\ "throw" \in scenario.faults
  /\ slot' = [s \in Slots |-> IF Idle(s) THEN slot[s] ELSE Freed(s)]
  /\ kv' = [s \in Slots |-> IF Idle(s) THEN kv[s] ELSE FreedKv(s)]
  /\ EndRound /\ at' = 1
  /\ UNCHANGED <<scenario, launched, heads>>

-----------------------------------------------------------------------------
(* post_decode                                                             *)

(* Mutant: the first row of a part is left out.                            *)
InsideAfter(i) == off < i /\ i < off + Size

Inside(i) == off <= i /\ i < off + Size

NextPart ==
  IF at < NSlots THEN at' = at + 1 /\ UNCHANGED <<phase, off, n, batch>>
  ELSE /\ at' = 1
       /\ IF off + Size < Len(batch)
          THEN phase' = "decode" /\ off' = off + Size /\ n' = NBatch /\ UNCHANGED batch
          ELSE EndRound

(* The slot whose last row is in this part samples a token, and goes on    *)
(* until a limit, a stop word, the end of the text or an error.            *)
PostDecode ==
  /\ phase = "post"
  /\ LET me == slot[at]
         sampled == Inside(me.ibatch) /\ me.state \in {"DONE_PROMPT", "GENERATING"}
     IN \/ ~ sampled /\ UNCHANGED <<slot, kv>>
        \/ /\ sampled
           /\ slot' = [slot EXCEPT ![at] = [Freed(at) EXCEPT !.ibatch = -1]]
           /\ kv' = [kv EXCEPT ![at] = FreedKv(at)]
        \/ \E tok \in Tokens :
             /\ sampled /\ me.gen + 1 < MaxGen
             /\ slot' = [slot EXCEPT ![at].state = "GENERATING", ![at].sampled = tok,
                                     ![at].gen = @ + 1, ![at].ibatch = -1]
             /\ UNCHANGED kv
  /\ NextPart
  /\ UNCHANGED <<scenario, launched, heads>>

-----------------------------------------------------------------------------
BatchInit ==
  /\ scenario \in Scenarios /\ launched = 0
  /\ phase = "tasks" /\ at = 1 /\ heads = [c |-> 0, h |-> 0]
  /\ slot = [s \in Slots |-> [state |-> "IDLE", task |-> NoTask, prompt |-> <<>>,
                              sampled |-> CHOOSE tok \in Tokens : TRUE, gen |-> 0, ibatch |-> -1]]
  /\ kv = [s \in Slots |-> {}]
  /\ batch = <<>> /\ off = 0 /\ n = NBatch

UpdateSlots ==
  \/ ShiftContext \/ AddSampled
  \/ SkipPrompt \/ StartPrompt \/ ReuseChunk \/ AddPrompt
  \/ NothingToDecode \/ DecodeOk \/ DecodeFull \/ DecodeFails \/ Abort
  \/ PostDecode

BatchNext == LaunchTask \/ CancelSlot \/ EraseSlot \/ BeginRound \/ UpdateSlots

BatchSpec == BatchInit /\ [][BatchNext]_batchVars /\ WF_batchVars(UpdateSlots)

-----------------------------------------------------------------------------
(* Properties                                                              *)

TypeOK ==
  /\ scenario \in Scenarios /\ launched \in 0 .. MaxTasks
  /\ phase \in {"tasks", "shift", "sampled", "prompts", "reuse", "decode", "post"} /\ at \in Slots
  /\ heads \in [c : 0 .. NCtx, h : 0 .. NCtx]
  /\ \A s \in Slots :
       /\ slot[s].state \in {"IDLE", "WAIT_OTHER", "STARTED", "PROCESSING_PROMPT",
                             "DONE_PROMPT", "GENERATING"}
       /\ slot[s].task = NoTask \/ slot[s].task.tokens \in Prompts
       /\ slot[s].prompt \in Seq(Tokens) /\ Len(slot[s].prompt) < NCtx
       /\ slot[s].sampled \in Tokens /\ slot[s].gen \in 0 .. MaxGen
       /\ slot[s].ibatch \in -1 .. NBatch - 1
       /\ kv[s] \subseteq (0 .. NCtx) \X Tokens
  /\ Len(batch) <= NBatch /\ off \in 0 .. NBatch /\ n \in 1 .. NBatch

(* Rows of the batch that the memory does not hold yet.                    *)
Pending(s) ==
  {<<batch[i].pos, batch[i].tok>> :
     i \in {j \in (IF phase = "post" THEN off + Size ELSE off) + 1 .. Len(batch) :
              phase # "tasks" /\ batch[j].slot = s}}

(* Between the heads of a reuse the context has tokens that are passed     *)
(* over and holes that moved chunks have left.                             *)
Unsettled(s, pos) == phase = "reuse" /\ s = at /\ heads.h <= pos /\ pos < heads.c

(* What a slot evaluates is its request: until it generates, its context   *)
(* is a beginning of the request's tokens, whatever was reused from where, *)
(* and a child, which copies its parent's, has one of its own request.     *)
PromptIsRequest == \A s \in Slots :
  /\ slot[s].state = "PROCESSING_PROMPT" =>
       slot[s].prompt = SubSeq(slot[s].task.tokens, 1, Len(slot[s].prompt))
  /\ slot[s].state = "DONE_PROMPT" => slot[s].prompt = slot[s].task.tokens

(* prompt.tokens is what the memory holds of the slot, plus what is about  *)
(* to be decoded: every token at its position, nothing else, nothing twice.*)
(* So whatever the slot reuses later is really there, after any shift of   *)
(* the context, each moved chunk, retry in parts, error or cancellation;   *)
(* and the context of no slot is ever full (TypeOK).  Not so when a memory *)
(* that is full meets an exception of llama_decode or a request for two    *)
(* completions, which no scenario of the run does.                         *)
KvIsPrompt ==
  /\ TypeOK /\ PromptIsRequest
  /\ \A s \in Slots :
       /\ kv[s] \cap Pending(s) = {}
       /\ {x \in kv[s] \cup Pending(s) : ~ Unsettled(s, x[1])} =
            {x \in Cells(slot[s].prompt) : ~ Unsettled(s, x[1])}

(* No slot is left with a result it has not looked at: when a round ends,  *)
(* each slot in the batch has sampled, however the batch was cut.          *)
AllSampled ==
  phase = "tasks" => \A s \in Slots : /\ slot[s].state # "DONE_PROMPT"
                                      /\ slot[s].state = "GENERATING" => slot[s].ibatch = -1

(* A round ends: halving and purging do not go on for ever.                *)
RoundEnds == phase # "tasks" ~> phase = "tasks"
=============================================================================
