------------------------------ MODULE ServerSlots ------------------------------
(***************************************************************************)
(* Request scheduling of llama-server: HTTP requests post tasks through    *)
(* their server_response_reader, the main loop of server_queue hands them  *)
(* to the slots of server_context, and results come back through           *)
(* server_response.  Files: tools/server/server-queue.cpp and the part of  *)
(* tools/server/server-context.cpp that moves slots and tasks.             *)
(*                                                                         *)
(* One action is one section under mutex_tasks or mutex_results, or one    *)
(* step of the main loop between two of them.  In particular a task that   *)
(* process_new_tasks has popped is in the hands of the main loop, out of   *)
(* reach of the cleanup that a cancellation does in the queues.            *)
(*                                                                         *)
(* A task is <<r, 0>>, the task of request r, or <<r, 1>>, its child when  *)
(* the request asks for two completions.  Prompts and tokens are left out: *)
(* a prompt takes one or two batches and at most MaxGen tokens follow.     *)
(***************************************************************************)
EXTENDS Naturals, Sequences, FiniteSets

CONSTANTS
  Requests,   \* HTTP requests, one server_response_reader each
  NSlots,     \* n_parallel
  Mixes,      \* what the requests may ask for: functions from Requests to
              \* [kind, slot, empty]; slot 0 is id_slot = -1, and empty says
              \* that the prompt has no tokens
  MaxGen,     \* bound: tokens of a completion
  NoTask      \* the task of an entry or a slot that has none

Slots == 1 .. NSlots
Tasks == Requests \X {0, 1}

ASSUME BoundsAssumption == NSlots \in Nat \ {0} /\ MaxGen \in Nat

ASSUME NoTaskAssumption == NoTask \notin Tasks

ASSUME MixesAssumption ==
  Mixes \subseteq [Requests -> [kind  : {"gen", "pair", "embd", "action", "query"},
                               slot  : 0 .. NSlots,
                               empty : BOOLEAN]]

VARIABLES
  (* HTTP threads *)
  rd,        \* the reader: "new", "open", "cancelling" or "done"
  shape,     \* what the request asked for
  got,       \* tasks whose final result the reader has received
  (* server_response *)
  waiting,   \* waiting_task_ids
  results,   \* queue_results, kept per task
  (* server_queue *)
  queue,     \* queue_tasks
  deferred,  \* queue_tasks_deferred
  (* the main loop *)
  loop,      \* "tasks", "pre", "decode", "post", "abort" or "wait"
  cur,       \* the task process_new_tasks has popped
  at,        \* the slot an iteration over the slots has come to
  batched,   \* slots with tokens in the batch
  slot       \* state, task and tokens generated

http  == <<rd, shape, got>>
resp  == <<waiting, results>>
queues == <<queue, deferred>>
main  == <<loop, cur, at, batched, slot>>
vars  == <<http, resp, queues, main>>

-----------------------------------------------------------------------------
(* Tasks and queue entries                                                 *)

Kind(t) == shape[t[1]].kind
Target(t) == shape[t[1]].slot
Pin(t)  == IF Kind(t) = "action" THEN 0 ELSE Target(t)
Ids(r)  == {<<r, 0>>} \cup (IF shape[r].kind = "pair" THEN {<<r, 1>>} ELSE {})

Entry(op, t) == [op |-> op, task |-> t]
Cancellations(order) == [i \in DOMAIN order |-> Entry("cancel", order[i])]
NextResponse == Entry("next", NoTask)
None         == Entry("none", NoTask)

Idle       == [state |-> "IDLE", task |-> NoTask, n |-> 0]
Processing == {s \in Slots : slot[s].state # "IDLE"}
Free       == Slots \ Processing

(* Which slots may share a batch: can_batch_with.                          *)
SameBatch(s, o) == (Kind(slot[s].task) = "embd") = (Kind(slot[o].task) = "embd")

-----------------------------------------------------------------------------
(* server_response::send, for one result of each task in T                 *)
Sent(T, k) == [t \in Tasks |-> IF t \in T \cap waiting THEN Append(results[t], k)
                                                       ELSE results[t]]

(* The entries of q at the positions in K, in their order.                 *)
Kept(q, K) ==
  [n \in 1 .. Cardinality(K) |-> q[CHOOSE i \in K : Cardinality({j \in K : j <= i}) = n]]

(* server_queue::pop_deferred_task: the first deferred task of this slot,  *)
(* or the first of all if there is none, goes to the front of the queue.   *)
PopDeferred(s) ==
  LET own == {i \in DOMAIN deferred : Pin(deferred[i]) = s}
  IN \/ deferred = <<>> /\ UNCHANGED queues
     \/ \E i \in DOMAIN deferred :
          /\ IF own = {} THEN i = 1 ELSE i \in own /\ \A k \in own : i <= k
          /\ queue' = <<Entry("run", deferred[i])>> \o queue
          /\ deferred' = Kept(deferred, DOMAIN deferred \ {i})

(* server_slot::release                                                    *)
Release(s) == PopDeferred(s) /\ slot' = [slot EXCEPT ![s] = Idle]

(* cleanup_pending_task                                                    *)
WithoutRun(T) == Kept(queue, {i \in DOMAIN queue : ~ (queue[i].op = "run" /\ queue[i].task \in T)})
WithoutDeferred(T) == Kept(deferred, {i \in DOMAIN deferred : deferred[i] \notin T})

-----------------------------------------------------------------------------
(* HTTP threads                                                            *)

(* post_tasks: the ids are registered before the tasks are queued.         *)
PostTasks(r) ==
  /\ rd[r] = "new"
  /\ rd' = [rd EXCEPT ![r] = "open"]
  /\ waiting' = waiting \cup Ids(r)
  /\ queue' = Append(queue, Entry("run", <<r, 0>>))
  /\ UNCHANGED <<shape, got, results, deferred, main>>

(* Mutant: stop() unregisters the ids, but leaves the pending results.     *)
ForgetIdsOnly(r) ==
  /\ rd' = [rd EXCEPT ![r] = "cancelling"]
  /\ waiting' = waiting \ Ids(r)
  /\ UNCHANGED results

(* The first half of stop(): no result for these ids any more.             *)
Forget(r) ==
  /\ rd' = [rd EXCEPT ![r] = "cancelling"]
  /\ waiting' = waiting \ Ids(r)
  /\ results' = [t \in Tasks |-> IF t \in Ids(r) THEN <<>> ELSE results[t]]

(* next() on a result of one of the reader's tasks.                        *)
Receive(r) == \E t \in Ids(r) :
  /\ rd[r] = "open" /\ got[r] # Ids(r) /\ results[t] # <<>>
  /\ \/ /\ Head(results[t]) = "error"
        /\ Forget(r)
        /\ UNCHANGED got
     \/ /\ Head(results[t]) # "error"
        /\ results' = [results EXCEPT ![t] = Tail(@)]
        /\ got' = IF Head(results[t]) = "final" THEN [got EXCEPT ![r] = @ \cup {t}] ELSE got
        /\ UNCHANGED <<rd, waiting>>
  /\ UNCHANGED <<shape, queues, main>>

(* should_stop(): the client has closed the connection.                    *)
Disconnect(r) ==
  /\ rd[r] = "open" /\ got[r] # Ids(r)
  /\ Forget(r)
  /\ UNCHANGED <<shape, got, queues, main>>

(* The second half of stop(): the cancellations, one per id, go to the     *)
(* front in the order of an unordered_set, and pending tasks go.           *)
PostCancels(r) ==
  /\ rd[r] = "cancelling"
  /\ rd' = [rd EXCEPT ![r] = "done"]
  /\ \E order \in [1 .. Cardinality(Ids(r)) -> Ids(r)] :
       /\ \A t \in Ids(r) : \E i \in DOMAIN order : order[i] = t
       /\ queue' = Cancellations(order) \o WithoutRun(Ids(r))
  /\ deferred' = WithoutDeferred(Ids(r))
  /\ UNCHANGED <<shape, got, resp, main>>

(* ~server_response_reader when every result has been received.            *)
Close(r) ==
  /\ rd[r] = "open" /\ got[r] = Ids(r)
  /\ rd' = [rd EXCEPT ![r] = "done"]
  /\ waiting' = waiting \ Ids(r)
  /\ UNCHANGED <<shape, got, results, queues, main>>

-----------------------------------------------------------------------------
(* The main loop: process_new_tasks and process_single_task                *)

PopTask ==
  /\ loop = "tasks" /\ cur = None /\ queue # <<>>
  /\ cur' = Head(queue) /\ queue' = Tail(queue)
  /\ UNCHANGED <<http, resp, deferred, loop, at, batched, slot>>

Handling(op) == loop = "tasks" /\ cur.op = op

Handled == cur' = None /\ UNCHANGED <<loop, at, batched>>

SkipNextResponse ==
  /\ Handling("next")
  /\ Handled /\ UNCHANGED <<http, resp, queues, slot>>

CancelTask ==
  /\ Handling("cancel")
  /\ \/ \E s \in Processing : slot[s].task = cur.task /\ Release(s)
     \/ (\A s \in Processing : slot[s].task # cur.task) /\ UNCHANGED <<queues, slot>>
  /\ Handled /\ UNCHANGED <<http, resp>>

IsSlotTask(t) == Kind(t) \in {"gen", "embd", "pair"}

(* get_available_slot: the slot asked for, or any free one.  LRU order and *)
(* prompt similarity only choose among the free slots.                     *)
Available(t) == IF Pin(t) = 0 THEN Free ELSE Free \cap {Pin(t)}

(* Slots for a task and its child.                                         *)
Placed(t) == {p \in Available(t) \X Free : (p[1] = p[2]) = (Kind(t) # "pair")}

(* A task that get_available_slot finds no slot for is set aside, and so   *)
(* is one that acts on a busy slot.                                        *)
DeferTask ==
  /\ Handling("run")
  /\ \/ IsSlotTask(cur.task) /\ Placed(cur.task) = {}
     \/ Kind(cur.task) = "action" /\ Target(cur.task) \in Processing
  /\ deferred' = Append(deferred, cur.task)
  /\ Handled /\ UNCHANGED <<http, resp, queue, slot>>

Launched(t) == [state |-> IF t[2] = 1 THEN "WAIT_OTHER" ELSE "STARTED", task |-> t, n |-> 0]

LaunchTask ==
  /\ Handling("run") /\ IsSlotTask(cur.task)
  /\ \E p \in Placed(cur.task) :
       slot' = [s \in Slots |-> IF s = p[1] THEN Launched(cur.task)
                                ELSE IF s = p[2] THEN Launched(<<cur.task[1], 1>>)
                                ELSE slot[s]]
  /\ Handled /\ UNCHANGED <<http, resp, queues>>

(* The task is refused: this model has no use for it, its input cannot be  *)
(* tokenized, or launch_slot_with_task (its own or its child's) fails.     *)
RefuseTask ==
  /\ Handling("run")
  /\ \/ IsSlotTask(cur.task) /\ results' = Sent({cur.task}, "error")
     \/ Kind(cur.task) = "pair" /\ Placed(cur.task) # {}
        /\ results' = Sent({<<cur.task[1], 1>>}, "error")
  /\ Handled /\ UNCHANGED <<http, waiting, queues, slot>>

(* launch_slots_with_parent_task: the child is launched, the parent is     *)
(* refused, and the child's slot is released again.                        *)
RefuseParent ==
  /\ Handling("run") /\ Kind(cur.task) = "pair"
  /\ results' = Sent({cur.task}, "error")
  /\ \E p \in Placed(cur.task) : Release(p[2])
  /\ Handled /\ UNCHANGED <<http, waiting>>

(* Metrics, slot listing, adapters: answered at once.  Saving, restoring   *)
(* and erasing a slot: answered at once when the slot is idle.             *)
AnswerTask ==
  /\ Handling("run")
  /\ \/ Kind(cur.task) = "query"
     \/ Kind(cur.task) = "action" /\ Target(cur.task) \in Free
  /\ \E k \in {"final", "error"} : results' = Sent({cur.task}, k)
  /\ Handled /\ UNCHANGED <<http, waiting, queues, slot>>

-----------------------------------------------------------------------------
(* The main loop: update_slots                                             *)

(* Mutant: no NEXT_RESPONSE is posted.                                     *)
BeginUpdateOnce ==
  /\ loop = "tasks" /\ cur = None /\ queue = <<>>
  /\ loop' = IF Processing = {} THEN "wait" ELSE "pre"
  /\ at' = 1 /\ batched' = {}
  /\ UNCHANGED <<http, resp, queues, cur, slot>>

(* The queue is empty: a round over the slots, if there is work.  The      *)
(* NEXT_RESPONSE task makes sure that another round follows.               *)
BeginUpdate ==
  /\ loop = "tasks" /\ cur = None /\ queue = <<>>
  /\ \/ /\ Processing # {}
        /\ loop' = "pre" /\ at' = 1 /\ batched' = {}
        /\ queue' = <<NextResponse>>
     \/ /\ Processing = {}
        /\ loop' = "wait"
        /\ UNCHANGED <<at, batched, queue>>
  /\ UNCHANGED <<http, resp, deferred, cur, slot>>

(* start_loop waits for condition_tasks while the queue is empty.          *)
WakeUp ==
  /\ loop = "wait" /\ queue # <<>>
  /\ loop' = "tasks"
  /\ UNCHANGED <<http, resp, queues, cur, at, batched, slot>>

(* On to the next slot, or to the next part of the round.                  *)
Advance(next) ==
  IF at < NSlots THEN at' = at + 1 /\ UNCHANGED loop ELSE at' = 1 /\ loop' = next

(* Mutant: the slot is not released.                                       *)
FinishHeld(s, k) ==
  /\ results' = Sent({slot[s].task}, k)
  /\ UNCHANGED <<waiting, queues, slot>>

(* A slot is done: its last result is sent, then it is released.           *)
Finish(s, k) ==
  /\ results' = Sent({slot[s].task}, k)
  /\ Release(s)
  /\ UNCHANGED waiting

Move(s, state) ==
  /\ slot' = [slot EXCEPT ![s].state = state]
  /\ UNCHANGED <<resp, queues>>

(* pre_decode, for one slot: the last token sampled or the next part of    *)
(* the prompt goes into the batch, unless the batch is full or of another  *)
(* kind; or the slot ends (no room, empty prompt, an exception).           *)
PreDecode ==
  /\ loop = "pre"
  /\ LET state == slot[at].state
         prompt == state \in {"STARTED", "PROCESSING_PROMPT"}
         empty == state = "STARTED" /\ shape[slot[at].task[1]].empty
         fits == \A o \in batched : SameBatch(at, o)
     IN \/ /\ \/ state \in {"IDLE", "WAIT_OTHER"}
              \/ prompt /\ batched # {}
              \/ state = "GENERATING" /\ ~ fits
           /\ UNCHANGED <<resp, queues, slot, batched>>
        \/ /\ \/ state = "STARTED" /\ ~ empty /\ fits /\ Move(at, "PROCESSING_PROMPT")
              \/ prompt /\ ~ empty /\ fits /\ Move(at, "DONE_PROMPT")
              \/ state = "GENERATING" /\ fits /\ UNCHANGED <<resp, queues, slot>>
           /\ batched' = batched \cup {at}
        \/ /\ \/ (prompt \/ state = "GENERATING") /\ Finish(at, "error")
              \/ empty /\ fits /\ Finish(at, "final")
           /\ UNCHANGED batched
  /\ Advance("decode")
  /\ UNCHANGED <<http, cur>>

(* The children of the slots whose prompt is done start from its state.    *)
Children == {s \in Slots : slot[s].state = "WAIT_OTHER" /\
               \E p \in Slots : /\ slot[p].state = "DONE_PROMPT"
                               /\ slot[p].task = <<slot[s].task[1], 0>>}

Decode ==
  /\ loop = "decode" /\ batched # {}
  /\ slot' = [s \in Slots |-> IF s \in Children THEN [slot[s] EXCEPT !.state = "DONE_PROMPT"]
                                                ELSE slot[s]]
  /\ batched' = batched \cup Children
  /\ loop' = "post"
  /\ UNCHANGED <<http, resp, queues, cur, at>>

NothingToDecode ==
  /\ loop = "decode" /\ batched = {}
  /\ loop' = "wait"
  /\ UNCHANGED <<http, resp, queues, cur, at, batched, slot>>

(* A fatal error of decode(), or of pre_decode() or post_decode() outside  *)
(* any slot.                                                               *)
AbortAllSlots ==
  /\ loop \in {"decode", "post"} /\ at = 1
  /\ loop' = "abort"
  /\ UNCHANGED <<http, resp, queues, cur, at, batched, slot>>

(* Mutant: only the slots of the batch answer.                             *)
AbortBatched ==
  /\ loop = "abort"
  /\ IF at \in Processing
     THEN /\ results' = Sent({slot[at].task : s \in {at} \cap batched}, "error")
          /\ Release(at) /\ UNCHANGED waiting
     ELSE UNCHANGED <<resp, queues, slot>>
  /\ Advance("wait")
  /\ UNCHANGED <<http, cur, batched>>

(* abort_all_slots, for one slot: in use, it answers with an error and is  *)
(* released.                                                               *)
AbortSlot ==
  /\ loop = "abort"
  /\ IF at \in Processing THEN Finish(at, "error") ELSE UNCHANGED <<resp, queues, slot>>
  /\ Advance("wait")
  /\ UNCHANGED <<http, cur, batched>>

(* post_decode, for one slot: what its prompt was for, or the next token.  *)
PostDecode ==
  /\ loop = "post"
  /\ LET sampled == at \in batched /\ slot[at].state \in {"DONE_PROMPT", "GENERATING"}
     IN \/ /\ ~ sampled
           /\ UNCHANGED <<resp, queues, slot>>
        \/ sampled /\ Finish(at, "error")
        \/ sampled /\ Finish(at, "final")
        \/ /\ sampled /\ Kind(slot[at].task) # "embd" /\ slot[at].n < MaxGen
           /\ slot' = [slot EXCEPT ![at].state = "GENERATING", ![at].n = @ + 1]
           /\ results' = Sent({slot[at].task}, "partial")
           /\ UNCHANGED <<waiting, queues>>
  /\ Advance("wait")
  /\ UNCHANGED <<http, cur, batched>>

-----------------------------------------------------------------------------
Init ==
  /\ rd = [r \in Requests |-> "new"]
  /\ shape \in Mixes
  /\ got = [r \in Requests |-> {}]
  /\ waiting = {} /\ results = [t \in Tasks |-> <<>>]
  /\ queue = <<>> /\ deferred = <<>>
  /\ loop = "wait" /\ cur = None /\ at = 1 /\ batched = {}
  /\ slot = [s \in Slots |-> Idle]

Reader(r) == Receive(r) \/ PostCancels(r) \/ Close(r)

MainLoop ==
  \/ PopTask \/ SkipNextResponse \/ CancelTask
  \/ DeferTask \/ LaunchTask \/ RefuseTask \/ RefuseParent \/ AnswerTask
  \/ BeginUpdate \/ WakeUp
  \/ PreDecode \/ Decode \/ NothingToDecode \/ AbortAllSlots \/ AbortSlot \/ PostDecode

Next ==
  \/ \E r \in Requests : PostTasks(r) \/ Reader(r) \/ Disconnect(r)
  \/ MainLoop

Spec == Init /\ [][Next]_vars

(* The main loop does not stop while it has something to do, and a thread  *)
(* that serves a request polls its results; clients owe nothing.           *)
FairSpec == Spec /\ WF_vars(MainLoop) /\ \A r \in Requests : WF_vars(Reader(r))

-----------------------------------------------------------------------------
(* Properties                                                              *)

States == {"IDLE", "WAIT_OTHER", "STARTED", "PROCESSING_PROMPT", "DONE_PROMPT", "GENERATING"}
Terminal == {"final", "error"}

TypeOK ==
  /\ rd \in [Requests -> {"new", "open", "cancelling", "done"}]
  /\ got \in [Requests -> SUBSET Tasks] /\ waiting \in SUBSET Tasks
  /\ results \in [Tasks -> Seq(Terminal \cup {"partial"})]
  /\ queue \in Seq([op : {"run", "cancel", "next"}, task : Tasks \cup {NoTask}])
  /\ deferred \in Seq(Tasks)
  /\ loop \in {"tasks", "pre", "decode", "post", "abort", "wait"}
  /\ cur \in [op : {"run", "cancel", "next", "none"}, task : Tasks \cup {NoTask}]
  /\ at \in Slots /\ batched \in SUBSET Slots
  /\ slot \in [Slots -> [state : States, task : Tasks \cup {NoTask}, n : 0 .. MaxGen]]

(* Where a task is.  A child stays inside its parent until both start.     *)
Carries(p, t) == p = t \/ (p # NoTask /\ t = <<p[1], 1>>)

Places(t) ==
       {<<"queue", i>> : i \in {j \in DOMAIN queue : queue[j].op = "run" /\ Carries(queue[j].task, t)}}
  \cup {<<"deferred", i>> : i \in {j \in DOMAIN deferred : Carries(deferred[j], t)}}
  \cup {<<"slot", s>> : s \in {o \in Slots : slot[o].task = t}}
  \cup (IF cur.op = "run" /\ Carries(cur.task, t) THEN {<<"loop", 0>>} ELSE {})

Queued(t, K) == \E i \in DOMAIN results[t] : results[t][i] \in K
Answered(t)  == t \in got[t[1]] \/ Queued(t, Terminal)
Failing(r)   == \E t \in Ids(r) : Queued(t, {"error"})

(* A task is never in two places: two slots, or waiting and running.       *)
AtMostOne == \A t \in Tasks : Cardinality(Places(t)) <= 1

(* While its client is there it is in one, or answered, or its request has *)
(* failed: nobody waits for nothing.                                       *)
AtLeastOne ==
  \A r \in Requests : rd[r] = "open" =>
    \A t \in Ids(r) : Places(t) # {} \/ Answered(t) \/ Failing(r)

(* The child of a completion waits only while its parent has its prompt to *)
(* process, unless the request has failed or been cancelled.               *)
WaitingChildHasParent ==
  \A s \in Slots : slot[s].state = "WAIT_OTHER" =>
    LET r == slot[s].task[1] IN
    \/ rd[r] # "open" \/ Failing(r)
    \/ \E p \in Slots :
         /\ slot[p].task = <<r, 0>>
         /\ \/ slot[p].state \in {"STARTED", "PROCESSING_PROMPT"}
            \/ slot[p].state = "DONE_PROMPT" /\ loop \in {"pre", "decode", "abort"}

(* So it is for every task, whatever is deferred, popped, cancelled and    *)
(* aborted.                                                                *)
OnePlace == TypeOK /\ AtMostOne /\ AtLeastOne /\ WaitingChildHasParent

(* A task is answered once, last and for good: after its final result or   *)
(* error nothing follows and no slot or queue holds the task any more.     *)
AnsweredOnce ==
  \A r \in Requests : rd[r] = "open" =>
    \A t \in Ids(r) :
      /\ t \in got[r] => results[t] = <<>>
      /\ \A i \in DOMAIN results[t] : results[t][i] \in Terminal => i = Len(results[t])
      /\ Answered(t) => Places(t) = {}

(* A result is kept only while a reader is there to take it: nothing stays *)
(* in queue_results for a request that has ended.                          *)
NoOrphanResult ==
  \A t \in Tasks : results[t] # <<>> => rd[t[1]] = "open" /\ t \in waiting

(* Whatever its client does, a slot that works on a task is free again.    *)
WorkEnds ==
  \A s \in Slots : slot[s].state \notin {"IDLE", "WAIT_OTHER"} ~> slot[s].state = "IDLE"

(* server-queue.h:58 has a task wait in the deferred queue "until one slot *)
(* is available": with every slot idle and nothing to process, it is empty. *)
NoForgottenTask == loop = "wait" /\ queue = <<>> /\ Processing = {} => deferred = <<>>
=============================================================================
