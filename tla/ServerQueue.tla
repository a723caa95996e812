------------------------------ MODULE ServerQueue ------------------------------
(***************************************************************************)
(* The locks and condition variables of server_queue (llama-server,        *)
(* tools/server/server-queue.cpp): HTTP threads post tasks, the main loop  *)
(* (start_loop) processes them and computes; while it computes             *)
(* (yield_to_queue) a worker thread processes the tasks that only read;    *)
(* an idle loop goes to sleep and frees the model.                         *)
(*                                                                         *)
(* An action is one critical section of mutex_tasks.  asleep holds the     *)
(* threads that block on condition_tasks, which main loop, worker and HTTP *)
(* threads share: a notify_one may wake any of them, and a thread that is  *)
(* woken looks at its predicate again.  ServerSlots has what the tasks do. *)
(***************************************************************************)
EXTENDS Naturals, Sequences, FiniteSets

CONSTANTS
  Requests,   \* one task each
  Metrics,    \* those that only read: METRICS and SLOT_GET
  Main, Worker,
  NoEntry

ASSUME ThreadsAssumption ==
  Metrics \subseteq Requests /\ Main # Worker /\ Main \notin Requests /\ Worker \notin Requests

VARIABLES
  (* HTTP threads *)
  http,       \* "new", "waking", "ready", "posted" or "cancelled"
  (* under mutex_tasks *)
  tasks,      \* queue_tasks
  unhandled,  \* queue_tasks_unhandled
  running, sleeping, stopSleep,
  busy, yielding, stop, thrown,  \* worker_t
  asleep,     \* threads blocked on condition_tasks
  (* the two threads that process tasks: where they are, what they hold *)
  main, mainTask,
  worker, workerTask,
  (* history *)
  posted,     \* requests in the order of their posts
  handled,    \* entries processed, in order
  dropped     \* requests that a cancellation removed or an exception took

queues   == <<tasks, unhandled>>
sleepers == <<sleeping, stopSleep>>
shake    == <<busy, yielding, stop, thrown>>
threads  == <<main, mainTask, worker, workerTask>>
history  == <<posted, handled, dropped>>
vars == <<http, queues, running, sleepers, shake, asleep, threads, history>>

-----------------------------------------------------------------------------
Run(r)    == [op |-> "run", req |-> r]
Cancel(r) == [op |-> "cancel", req |-> r]
Entries   == {Run(r) : r \in Requests} \cup {Cancel(r) : r \in Requests}

ASSUME NoEntryAssumption == NoEntry \notin Entries

(* What callback_new_task does not decline while the queue yields.         *)
OnlyReads(e) == e.op = "run" /\ e.req \in Metrics

(* condition_tasks.notify_one()                                            *)
Woken == IF asleep = {} THEN {asleep} ELSE {asleep \ {t} : t \in asleep}

-----------------------------------------------------------------------------
(* HTTP threads                                                            *)

(* wait_until_no_sleep, which every route calls first.                     *)
CheckSleep(r) ==
  /\ http[r] = "new"
  /\ IF sleeping
     THEN /\ http' = [http EXCEPT ![r] = "waking"]
          /\ stopSleep' = TRUE
          /\ \E w \in IF stopSleep THEN {asleep} ELSE Woken : asleep' = w \cup {r}
     ELSE http' = [http EXCEPT ![r] = "ready"] /\ UNCHANGED <<stopSleep, asleep>>
  /\ UNCHANGED <<queues, running, sleeping, shake, threads, history>>

StopWaiting(r) ==
  /\ http[r] = "waking" /\ r \notin asleep
  /\ IF sleeping THEN asleep' = asleep \cup {r} /\ UNCHANGED http
                 ELSE http' = [http EXCEPT ![r] = "ready"] /\ UNCHANGED asleep
  /\ UNCHANGED <<queues, running, sleepers, shake, threads, history>>

(* post, after the request has been parsed and its prompt tokenized.       *)
Post(r) ==
  /\ http[r] = "ready"
  /\ http' = [http EXCEPT ![r] = "posted"]
  /\ tasks' = Append(tasks, Run(r)) /\ posted' = Append(posted, r)
  /\ asleep' \in Woken
  /\ UNCHANGED <<unhandled, running, sleepers, shake, threads, handled, dropped>>

In(q, e) == \E i \in DOMAIN q : q[i] = e

(* remove_if; a task waits at most once (OrderIsKept), so it removes one.  *)
Without(q, r) ==
  IF ~ In(q, Run(r)) THEN q
  ELSE LET i == CHOOSE i \in DOMAIN q : q[i] = Run(r)
       IN  SubSeq(q, 1, i - 1) \o SubSeq(q, i + 1, Len(q))

(* post of a CANCEL, at the front: cleanup_pending_task removes the task   *)
(* wherever it waits.                                                      *)
PostCancel(r) ==
  /\ http[r] = "posted"
  /\ http' = [http EXCEPT ![r] = "cancelled"]
  /\ tasks' = <<Cancel(r)>> \o Without(tasks, r)
  /\ unhandled' = Without(unhandled, r)
  /\ dropped' = IF In(tasks, Run(r)) \/ In(unhandled, Run(r)) THEN dropped \cup {r} ELSE dropped
  /\ asleep' \in Woken
  /\ UNCHANGED <<running, sleepers, shake, threads, posted, handled>>

Terminate ==
  /\ running
  /\ running' = FALSE /\ asleep' = {}
  /\ UNCHANGED <<http, queues, sleepers, shake, threads, history>>

-----------------------------------------------------------------------------
(* start_loop                                                              *)

MainPop ==
  /\ main = "pop"
  /\ \/ ~ running /\ main' = "stop" /\ UNCHANGED <<tasks, mainTask>>
     \/ running /\ tasks = <<>> /\ main' = "update" /\ UNCHANGED <<tasks, mainTask>>
     \/ /\ running /\ tasks # <<>>
        /\ mainTask' = Head(tasks) /\ tasks' = Tail(tasks) /\ main' = "handle"
  /\ UNCHANGED <<http, unhandled, running, sleepers, shake, asleep, worker, workerTask, history>>

MainHandle ==
  /\ main = "handle"
  /\ handled' = Append(handled, mainTask)
  /\ mainTask' = NoEntry /\ main' = "pop"
  /\ UNCHANGED <<http, queues, running, sleepers, shake, asleep, worker, workerTask, posted, dropped>>

(* callback_update_slots is over, or yields to the queue to decode.        *)
UpdateDone ==
  /\ main = "update" /\ main' = "wait"
  /\ UNCHANGED <<http, queues, running, sleepers, shake, asleep, mainTask, worker, workerTask, history>>

Yield ==
  /\ main = "update"
  /\ main' = "work" /\ busy' = TRUE /\ yielding' = TRUE
  /\ UNCHANGED <<http, queues, running, sleepers, stop, thrown, asleep, mainTask, worker, workerTask, history>>

(* work() is over: everyone is told, and the worker waited for.            *)
WorkDone ==
  /\ main = "work"
  /\ main' = "yielded" /\ yielding' = FALSE /\ asleep' = {}
  /\ UNCHANGED <<http, queues, running, sleepers, busy, stop, thrown, mainTask, worker, workerTask, history>>

(* Mutant: the worker is not waited for.                                   *)
CollectAtOnce ==
  /\ main = "yielded"
  /\ tasks' = unhandled \o tasks /\ unhandled' = <<>>
  /\ main' = "update"
  /\ UNCHANGED <<http, running, sleepers, shake, asleep, mainTask, worker, workerTask, history>>

(* Mutant: the declined tasks go behind those that came after them.        *)
CollectBehind ==
  /\ main = "yielded" /\ Main \notin asleep
  /\ IF busy
     THEN asleep' = asleep \cup {Main} /\ UNCHANGED <<main, queues, thrown>>
     ELSE /\ tasks' = tasks \o unhandled /\ unhandled' = <<>>
          /\ main' = "update" /\ thrown' = FALSE
          /\ UNCHANGED asleep
  /\ UNCHANGED <<http, running, sleepers, busy, yielding, stop, mainTask, worker, workerTask, history>>

(* The declined tasks go back, and an exception of the worker is thrown    *)
(* again: update_slots then aborts all slots and returns.                  *)
Collect ==
  /\ main = "yielded" /\ Main \notin asleep
  /\ IF busy
     THEN asleep' = asleep \cup {Main} /\ UNCHANGED <<main, queues, thrown>>
     ELSE /\ tasks' = unhandled \o tasks /\ unhandled' = <<>>
          /\ main' = IF thrown THEN "wait" ELSE "update"
          /\ thrown' = FALSE
          /\ UNCHANGED asleep
  /\ UNCHANGED <<http, running, sleepers, busy, yielding, stop, mainTask, worker, workerTask, history>>

(* Nothing to do: to sleep, when it has been so for idle_sleep_ms, or to   *)
(* wait for a second at most.                                              *)
MainWait ==
  /\ main = "wait"
  /\ \/ (~ running \/ tasks # <<>>) /\ main' = "pop" /\ UNCHANGED <<sleepers, asleep>>
     \/ /\ running /\ tasks = <<>>
        /\ main' = "asleep" /\ asleep' = asleep \cup {Main}
        /\ sleeping' = TRUE /\ stopSleep' = FALSE
     \/ /\ running /\ tasks = <<>>
        /\ main' = "waiting" /\ asleep' = asleep \cup {Main}
        /\ UNCHANGED sleepers
  /\ UNCHANGED <<http, queues, running, shake, mainTask, worker, workerTask, history>>

(* Notified or timed out.                                                  *)
MainWaited ==
  /\ main = "waiting"
  /\ main' = IF ~ running \/ tasks # <<>> THEN "pop" ELSE "wait"
  /\ asleep' = asleep \ {Main}
  /\ UNCHANGED <<http, queues, running, sleepers, shake, mainTask, worker, workerTask, history>>

MainAsleep ==
  /\ main = "asleep" /\ Main \notin asleep
  /\ \/ ~ running /\ main' = "pop" /\ UNCHANGED <<sleepers, asleep>>
     \/ /\ running /\ stopSleep
        /\ main' = "pop" /\ asleep' = {}
        /\ sleeping' = FALSE /\ stopSleep' = FALSE
     \/ /\ running /\ ~ stopSleep
        /\ asleep' = asleep \cup {Main}
        /\ UNCHANGED <<main, sleepers>>
  /\ UNCHANGED <<http, queues, running, shake, mainTask, worker, workerTask, history>>

(* worker_stop                                                             *)
StopWorker ==
  /\ main = "stop"
  /\ main' = "join" /\ stop' = TRUE /\ asleep' = {}
  /\ UNCHANGED <<http, queues, running, sleepers, busy, yielding, thrown, mainTask, worker, workerTask, history>>

Join ==
  /\ main = "join" /\ worker = "done"
  /\ main' = "done"
  /\ UNCHANGED <<http, queues, running, sleepers, shake, asleep, mainTask, worker, workerTask, history>>

-----------------------------------------------------------------------------
(* worker_loop                                                             *)

WorkerStart ==
  /\ worker = "idle" /\ (stop \/ busy)
  /\ worker' = IF stop THEN "done" ELSE "pop"
  /\ UNCHANGED <<http, queues, running, sleepers, shake, asleep, main, mainTask, workerTask, history>>

WorkerPop ==
  /\ worker = "pop"
  /\ \/ ~ running /\ worker' = "clear" /\ UNCHANGED <<tasks, workerTask>>
     \/ running /\ tasks = <<>> /\ worker' = "check" /\ UNCHANGED <<tasks, workerTask>>
     \/ /\ running /\ tasks # <<>>
        /\ workerTask' = Head(tasks) /\ tasks' = Tail(tasks) /\ worker' = "handle"
  /\ UNCHANGED <<http, unhandled, running, sleepers, shake, asleep, main, mainTask, history>>

(* Processed, taken by an exception, or declined and set aside.            *)
WorkerHandle ==
  /\ worker = "handle" /\ OnlyReads(workerTask)
  /\ \/ /\ handled' = Append(handled, workerTask) /\ worker' = "pop"
        /\ UNCHANGED <<thrown, dropped>>
     \/ /\ thrown' = TRUE /\ worker' = "clear"
        /\ dropped' = dropped \cup {workerTask.req}
        /\ UNCHANGED handled
  /\ workerTask' = NoEntry
  /\ UNCHANGED <<http, queues, running, sleepers, busy, yielding, stop, asleep, main, mainTask, posted>>

WorkerDecline ==
  /\ worker = "handle" /\ ~ OnlyReads(workerTask)
  /\ unhandled' = Append(unhandled, workerTask)
  /\ workerTask' = NoEntry /\ worker' = "pop"
  /\ UNCHANGED <<http, tasks, running, sleepers, shake, asleep, main, mainTask, history>>

WorkerCheck ==
  /\ worker = "check"
  /\ \/ (stop \/ ~ yielding) /\ worker' = "clear" /\ UNCHANGED asleep
     \/ ~ stop /\ yielding /\ tasks # <<>> /\ worker' = "pop" /\ UNCHANGED asleep
     \/ ~ stop /\ yielding /\ tasks = <<>> /\ worker' = "wait" /\ asleep' = asleep \cup {Worker}
  /\ UNCHANGED <<http, queues, running, sleepers, shake, main, mainTask, workerTask, history>>

WorkerWait ==
  /\ worker = "wait" /\ Worker \notin asleep
  /\ IF stop \/ ~ running \/ ~ yielding \/ tasks # <<>>
     THEN worker' = "pop" /\ UNCHANGED asleep
     ELSE asleep' = asleep \cup {Worker} /\ UNCHANGED worker
  /\ UNCHANGED <<http, queues, running, sleepers, shake, main, mainTask, workerTask, history>>

(* Mutant: yield_to_queue is not told that the worker is through.          *)
WorkerClearSilently ==
  /\ worker = "clear"
  /\ worker' = "idle" /\ busy' = FALSE
  /\ UNCHANGED <<http, queues, running, sleepers, yielding, stop, thrown, asleep, main, mainTask,
                 workerTask, history>>

WorkerClear ==
  /\ worker = "clear"
  /\ worker' = "idle" /\ busy' = FALSE /\ asleep' = {}
  /\ UNCHANGED <<http, queues, running, sleepers, yielding, stop, thrown, main, mainTask, workerTask, history>>

-----------------------------------------------------------------------------
Init ==
  /\ http = [r \in Requests |-> "new"]
  /\ tasks = <<>> /\ unhandled = <<>>
  /\ running = TRUE /\ sleeping = FALSE /\ stopSleep = FALSE
  /\ busy = FALSE /\ yielding = FALSE /\ stop = FALSE /\ thrown = FALSE
  /\ asleep = {}
  /\ main = "pop" /\ mainTask = NoEntry
  /\ worker = "idle" /\ workerTask = NoEntry
  /\ posted = <<>> /\ handled = <<>> /\ dropped = {}

MainLoop ==
  \/ MainPop \/ MainHandle \/ UpdateDone \/ Yield \/ WorkDone \/ Collect
  \/ MainWait \/ MainWaited \/ MainAsleep \/ StopWorker \/ Join

WorkerLoop ==
  \/ WorkerStart \/ WorkerPop \/ WorkerHandle \/ WorkerDecline
  \/ WorkerCheck \/ WorkerWait \/ WorkerClear

Client(r) == CheckSleep(r) \/ StopWaiting(r) \/ Post(r)

Next ==
  \/ MainLoop \/ WorkerLoop \/ Terminate
  \/ \E r \in Requests : Client(r) \/ PostCancel(r)

(* Main loop and worker run; update_slots does not yield for ever, as it   *)
(* decodes a batch in a finite number of parts.  HTTP threads owe nothing: *)
(* one that is woken in the place of another thread may never go on.       *)
Spec == Init /\ [][Next]_vars
FairSpec == Spec /\ WF_vars(MainLoop) /\ SF_vars(UpdateDone) /\ WF_vars(WorkerLoop)

-----------------------------------------------------------------------------
(* Properties.                                                             *)

Working == {"pop", "handle", "check", "wait", "clear"}

(* Types; a thread on the list of condition_tasks is one that waits there. *)
ControlOK ==
  /\ http \in [Requests -> {"new", "waking", "ready", "posted", "cancelled"}]
  /\ {running, sleeping, stopSleep, busy, yielding, stop, thrown} \subseteq BOOLEAN
  /\ main \in {"pop", "handle", "update", "work", "yielded", "wait", "waiting", "asleep",
               "stop", "join", "done"}
  /\ worker \in Working \cup {"idle", "done"}
  /\ asleep \subseteq Requests \cup {Main, Worker}
  /\ Main \in asleep => main \in {"yielded", "waiting", "asleep"}
  /\ Worker \in asleep => worker = "wait"
  /\ \A r \in Requests \cap asleep : http[r] = "waking"

(* Only one thread is ever at the slots: while the worker has a task in    *)
(* its hands the main thread neither processes one nor runs update_slots   *)
(* outside the yield, also when the yield, the worker's task, a shutdown   *)
(* or an exception ends first (yield_to_queue waits for busy).             *)
OneHandler == worker \in Working => main \in {"work", "yielded"}

Hand(e) == IF e = NoEntry THEN <<>> ELSE <<e>>
Trail   == handled \o Hand(mainTask) \o unhandled \o Hand(workerTask) \o tasks

Once(q) == \A i, j \in DOMAIN q : q[i] = q[j] => i = j
Precedes(q, e, f) == \E i, j \in DOMAIN q : i < j /\ q[i] = e /\ q[j] = f

(* Every posted request is in exactly one place, or was dropped; and those *)
(* that change slots are processed in the order of their posts, although   *)
(* the worker takes some out of the queue, declines them, and others come  *)
(* in meanwhile ("put the declined tasks back, keeping their order").      *)
InOrder ==
  /\ Once(Trail)
  /\ \A r \in Requests : In(Trail, Run(r)) <=> In(posted, r) /\ r \notin dropped
  /\ \A r, q \in Requests \ Metrics :
       Precedes(posted, r, q) => ~ Precedes(Trail, Run(q), Run(r))

(* A cancellation, posted at the front, never comes before the task it is  *)
(* for: the task would run afterwards for a client that is gone.           *)
CancelIsLast == \A r \in Requests : ~ Precedes(Trail, Cancel(r), Run(r))

(* Declining, putting back and cancelling keep the order of the tasks.     *)
OrderIsKept == InOrder /\ CancelIsLast

(* No wake-up is lost between the threads that share condition_tasks: what *)
(* is posted is processed unless a cancellation or an exception takes it,  *)
(* the loop sleeps, or it ends, which it does once it is told to.          *)
Answered ==
  \A r \in Requests :
    http[r] = "posted" ~> In(handled, Run(r)) \/ r \in dropped \/ sleeping \/ main = "done"
=============================================================================
