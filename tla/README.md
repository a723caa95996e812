# LocalCode in TLA+

A verification development for LocalCode: TLA+ models of the parts of the
program that run concurrently or must survive a failure, TLC runs that check
them on small instances, and TLAPS proofs of the properties that matter most.

LocalCode is two programs. The Python one (`/src/localcode/`) owns the model:
it downloads it, starts and stops the inference engine, and serves the front
ends. The engine (`/llama-cpp-turboquant/`) is a vendored llama.cpp; LocalCode
starts its `llama-server` with one slot, chunk reuse and context shift
(`runtime.py` 527, 601, 677). File names below are relative to
`src/localcode/` for Python and to `llama-cpp-turboquant/` for C++.

## Inventory

| Part | State it keeps | Operations | Interacts with |
|---|---|---|---|
| **Supervisor** `ui/supervisor.py` | the model process and its alias, the status shown to the front ends, `lock` (one model operation at a time), `_process_lock` (stop-and-spawn), `_closing`, the `cancel` event | select, server start/stop, vision install, cancel, models folder, decision, crash watchdog, initial load, signal handler | spawns the engine through the process guard; downloads through the transfer; serves the front ends over HTTP |
| **Process guard and lease** `ui/process_guard.py`, `ui/launch.py`, supervisor | the pipe to the owner, the stop event, the engine's process, the lock file all of them inherit | launch, take the lease, spawn, notice the owner's death, terminate, kill | between launcher, supervisor and engine |
| **Gateway** `ui/gateway.py` | the public listener, the saved port, 64 permits, a pair of buffers per connection | accept, refuse, relay, change the port, close | forwards to the engine; moved by the supervisor's control API |
| **Transfer** `transfer.py` | a `.part` file, its checkpoint, the final file | range request, restart, checkpoint, verify, publish, cancel | the file system and an HTTP server |
| **Download registry** `bootstrap.py` | table of downloads, queue, cancel events, worker threads | start, cancel, progress, next in queue | runs the transfer in threads; polled by the pickers |
| **Server queue** `tools/server/server-queue.cpp` | tasks, deferred and unhandled tasks, the flags of sleep, of the loop and of the yield's worker | post, cancel, defer, loop, yield, sleep, terminate | HTTP threads post, the main loop processes |
| **Slot scheduler** `tools/server/server-context.cpp`, the readers of `server-queue.cpp` | slots and their tasks, waiting ids, results | launch, refuse, defer, cancel, a round over the slots, release | takes tasks from the queue, sends results to the readers |
| **Batch and prompt reuse** `tools/server/server-context.cpp` | per slot the tokens believed to be in memory, the batch and the part being decoded | context shift, chunk reuse, batching, decoding in parts, sampling | removes, shifts and copies positions of the memory |
| **Attention memory** `src/llama-kv-cells.h`, `src/llama-kv-cache.cpp`, `src/llama-context.cpp` | the cells, which are used, the positions of each sequence, pending shifts | remove, copy, keep, add, divide, prepare, apply, roll back | called by every decode |
| **Prompt warm-up** `ui/warmup.py`, supervisor | replay of the prompt prefix, its status | start, cancel, give way to a turn | runs against the model just loaded |
| **Server manager** `server_manager.py`, `runtime.py` | the server of the Python runtime, its PID file, timers | ensure running, shut down, idle watchdog, recover a crash | memory guard |
| **Memory guard** `memory_guard.py` | the count of critical readings | poll, kill | kills the server manager's process |
| **Agent plug-in** `ui/plugin/*.ts` | per session: turns, repeated checks, plateau history | hooks of the agent loop | the supervisor's control API |
| Launcher, ports, authentication; context budget; voice; quant listing and catalog; split files; configuration | | | |
| Engine front end (HTTP, JSON, chat templates, model router, streams); models and graphs; ggml and its back ends | | | |
| Evaluation suite; release scripts | | | |

What makes these parts hard:

- the supervisor's status fields are read and written without any lock from many
  threads, operations last minutes and look at the server long before they act
  on it, and a signal may interrupt the main thread in its own critical section;
- launcher, supervisor, guard and engine are four processes, any of which can be
  killed while the next launch is already waiting for what they own;
- the public port moves while connections are queued, relayed and half closed;
- downloads are cancelled, restarted and resumed over crashes, by threads that
  outlive what they were started for;
- a request may be cancelled while its task is queued, deferred, in the hands of
  the main loop or on a slot, and a result may arrive for a reader that has gone;
- the main loop, a worker and HTTP threads share one condition variable on which
  a single wake-up may reach any of them;
- three places must agree on what the engine's memory holds (the cells, their
  indices and the prompt of the slot) through shifts, copies and failures in the
  middle of a batch.

## Modules

| Module | Models | Checked by |
|---|---|---|
| `Supervisor` | `ui/supervisor.py`: operations, watchdog, initial load, shutdown | `MCSupervisor`, two runs |
| `Supervisor_proofs` | theorems about `Supervisor` | TLAPS |
| `ProcessGuard` | `ui/process_guard.py` and who starts, stops and outlives whom | `MCProcessGuard`, one run |
| `ProcessGuard_proofs` | theorems about `ProcessGuard` | TLAPS |
| `Gateway` | `ui/gateway.py` | `MCGateway`, one run |
| `Gateway_proofs` | theorems about `Gateway` | TLAPS |
| `DownloadRegistry` | `bootstrap.py`: background downloads | `MCDownloadRegistry`, two runs |
| `DownloadRegistry_proofs` | theorems about `DownloadRegistry` | TLAPS |
| `AtomicDownload` | what a download promises about the final file | implemented by `Transfer` |
| `Transfer` | `transfer.py`, one download of one file | `MCTransfer`, one run |
| `Transfer_proofs` | theorems about `Transfer`, and that it implements `AtomicDownload` | TLAPS |
| `ServerQueue` | locks and condition variables of `server_queue` | `MCServerQueue`, one run |
| `ServerSlots` | tasks, slots and results of `llama-server` | `MCServerSlots`, two runs |
| `ServerSlots_proofs` | theorems about `ServerSlots` | TLAPS |
| `SlotBatch` | the batch of `update_slots()` and what slots believe of the memory | `MCSlotBatch`, one run |
| `Server_proofs` | theorems about `ServerQueue` and about `SlotBatch`, which share no state | TLAPS |
| `KvCells` | the cells of the attention memory | `MCKvCells`, one run |
| `KvCells_proofs` | theorems about `KvCells` | TLAPS |

`Supervisor` and `ProcessGuard` look at the same `start` and `stop` from two
sides. In `Supervisor` the threads of one process race, and what `proc` runs is
alive or dead; in `ProcessGuard` one caller holds `_process_lock`, and what `proc`
runs is a guard process with a model of its own. That `terminate` and `wait` leave
no model behind, which `Supervisor` takes for granted (`Kill`), is `OneModel`
there; that only one thread is in `start` or `stop`, which `ProcessGuard` takes
for granted, is proved of `Supervisor`.

The four engine modules are four views of one path. A request is posted through
the locks of `ServerQueue`; `ServerSlots` says what the posted tasks do to slots
and results, with prompts and tokens left out; `SlotBatch` says what one round
does to the tokens of a slot, with queues left out and the memory a set of
(position, token) pairs per sequence; `KvCells` is that memory as the engine
keeps it. Each leaves to the next one what its own properties cannot tell apart.

Definitions whose comment begins with "Mutant" are deliberate faults of the
definition that follows them. They are part of no specification. Putting one in
the place of its original must make a run fail, which is how each property is
known to say something about the code.

### Supervisor

A thread of the program is a member of `Threads`: the main thread, the crash
watchdog, and request threads. `pc` is its position; `op` the operation it runs;
`tgt`, `mine`, `prev`, `tries` its local variables. `lock`, `plock`, `closing`,
`cancel`, `st`, `proc` and `current` are the fields `lock`, `_process_lock`,
`_closing`, `cancel`, `state["state"]`, `proc` and `current`. A request that
starts a worker hands its lock over and returns, so the two are one thread here.

A step ends wherever another thread can come in between: `select` looks at
`current`, the process and the request (`SelectCheck`), and again in the worker
(`SelectRecheck`) after a download that lasts minutes; `start` is eight steps
from the first look at `_closing` to the health poll; `stop` is three. `late` and
`told` are history: the operations whose last look at the server was before the
running request began, and those whose download was cancelled.

The world is a process that loads, answers or dies (`LoadDone`, `Die`), a front
end with one request at a time, and a models folder.

### ProcessGuard

`sup[s]` is the supervisor process of a launch: `started`, admitted by the lease
(`up`), in a `stop` (`halting`), a `start` (`restarting`) or the handler `bye`
(`closing`), `dead`. `guard[g]` is the position in `main` of `process_guard.py`:
`boot` until the handlers are installed and `watch_owner` runs, `armed`, `checked`
(it has looked at `stop`), `watch` (the model runs), `term` and `kill`. `stop` is
its event, `pipe` the write end of its stdin, `model` the process of
`llama-server`: a `told` one has SIGTERM and need not obey, a `doomed` one SIGKILL.
The lease is no variable: it is held as long as any process has inherited the file
(`HasLease`). `Terminate` depends on where the guard is, as a signal does:
before the handlers it kills. `SupKilled`, `GuardKilled`, `LauncherEnds` and
`ModelEnds` may come at any step. `lost` is history: the guards that left their
model behind, killed by SIGKILL or after the five seconds they wait for a killed
model.

The time limits are an order: the guard's ten and five seconds lie inside the 20
of `stop()`, and those inside the launcher's 35, so none of the outer ones
passes unless an inner one has failed; they are the actions `GiveUp`,
`GuardKilled` and `SupKilled`, which the model allows at any time.

### Gateway

`listener`, `saved` and `closed` are the fields of `ModelGateway` and its file,
`open` the ports that listen. `change` is how far the change under `_lock` has
come: the replacement is bound (`ChangeBind`), its thread started or its socket closed
again (`ChangeThread`), the file written (`ChangeSave`), the listeners swapped (`ChangeSwap`), and `ChangeEnd` retires what is left over,
the previous listener or, in the `finally`, the replacement. A connection waits in
the backlog of a port (`Connect`), gets a permit or the 503 (`Accept`), its thread
and the connection to the engine (`Serve`), and is relayed: `sent`, `got` and `out`
count the bytes that an end has sent, that the relay has read and that it has
written in each direction, and `stage` is how far the end of the direction has
come. Closing a listening socket resets its backlog and leaves the relays alone.
`Reset` is the loss of a connection at any moment; the 30 minutes without a byte
(`TimeOut`) are one such loss, of a relay that still has something to read or to
write, also when a receiver that has stopped reading keeps its buffer full.

### DownloadRegistry

`entry`, `queue`, `choices` and `events` are the four tables under
`_DOWNLOAD_LOCK`; one action is one section under that lock. `StartNext` is
`_maybe_start_next`, called by three sections: `StartNew`
(`start_background_download`), `CancelFrees` (the second section of
`cancel_download`) and `Retire` (the last section of `_run_download`). A worker
is `born` by a promotion, reads its Event in `Begin`, runs `download_model`
(`Present`, `Absent`, `Refused`, `Transfer`, `Transferred`, `Failed`), and reports
in `Mark`. Events have no identity: what matters of the Event a worker holds is
whether it can still be set (`current`), is set (`set`), or will never be
(`none`).

### Transfer

One attempt, from the flock to its release. A chunk's content is the version of
the remote file it is of, a hole, or torn; a digest is the version too. `phase`
follows `download`: `Probe`, `Prepare` (verification of the old checkpoint and
truncation), `Checkpoint`, the pool, `Publish`, `Unlink`, or `sequential`
(`SeqForget` to `SeqPublish`). A thread of the pool asks (`ChunkAsk`), writes and
syncs (`ChunkSync`), records (`ChunkRecord`), fails or gives up. `dirty` are the
chunks a power loss may tear. `Crash` may come between any two steps.

`IsAtomic` states that `Transfer` implements `AtomicDownload` under the mapping
`WholeVersion` of the final file: it only ever becomes one whole version, and one
that the server offered during the attempt that published it.

### ServerQueue

`tasks`, `unhandled`, `running`, `sleeping`, `stopSleep` and the four flags of
`worker_t` are the fields under `mutex_tasks`, and an action is one critical
section of that mutex. `asleep` is the set of threads that block on
`condition_tasks`, which the main loop, the worker and the HTTP threads share:
`notify_one` removes any member of it, and a thread that is woken looks at its
predicate again. The main loop pops, handles, computes, yields the queue to the
worker while it computes (`Yield` to `Collect`), waits and falls asleep; the
worker handles what only reads, keeps the rest in `unhandled`, and passes an
exception to the loop in `thrown`. `posted`, `handled` and `dropped` are history.

### ServerSlots

`rd` is the state of a request's `server_response_reader`, `waiting` and
`results` those of `server_response`, `queue` and `deferred` those of
`server_queue`. The main loop is `PopTask`, one of the handlers, and, when the
queue is empty, a round: `BeginUpdate`, `PreDecode` for each slot, `Decode`,
`PostDecode` for each slot. The task that has been popped is in `cur`, out of the
reach of `cleanup_pending_task`. A reader that leaves does so in two steps, as
the code does: `Forget` under `mutex_results`, `PostCancels` under `mutex_tasks`.
Release wakes one deferred task (`PopDeferred`). A request is a completion, one
bound to a slot, a pair of completions with one prompt, an embedding, an action
on a slot or a query; prompts are one batch long or two. Every launch, decode
and sampling may fail.

### SlotBatch

A slot has the fields of `server_slot` that `update_slots` uses: `prompt` is
`prompt.tokens`, `ibatch` is `i_batch`, `gen` is `n_gen`. `kv` is the memory, one
set of (position, token) pairs for each sequence. A round is the shift of full
contexts (`ShiftContext`), the sampled tokens (`AddSampled`), the prompts, the
decoding of the batch in parts whose size is halved or after idle slots have been
purged when the memory is full (`DecodeOk`, `DecodeFull`, `DecodeFails`), the start
of children, and sampling (`PostDecode`). A prompt that starts takes several steps:
`StartPrompt` keeps the common prefix, each `ReuseChunk` is one iteration of the
loop that looks for recurring chunks behind it (`heads` are `head_c` and `head_p`),
and `AddPrompt` removes what is not reused and fills the batch. `scenario` says
which requests there are and which failures a behaviour has.

### KvCells

`c` is `llama_kv_cells`: `pos`, `seq` and `shift` of each cell and, beside them,
the index `used`, the map `seqPos` and the flag `hasShift`. `Strip`, `Share` and
the other operators are its loops; the actions are the `seq_*` operations of
`llama_kv_cache` and the steps of a decode: `prepare` places each part in turn,
`restore` puts back what was overwritten, `apply` places them again, `compute`
may fail and then removes what the failed batch had added. `data` is history: the
position to which the key in a cell has been rotated.

## Runs

| Run | Instance | Shows |
|---|---|---|
| `sup_ops` | 2 aliases, 2 request threads, all operations but vision and the watchdog | the status is true (a busy one has an owner, the ready model is the one loaded), running replies are spared, no operation is taken for a crash, cancels are obeyed, decisions are named after their model, a failed switch keeps the old model |
| `sup_live` | 1 alias, 1 request thread, initial load, vision, watchdog, every `start` may raise (`fstop` and cancels only in `sup_ops`) | one model at a time and none after shutdown, locks are released, shutdown completes, a crash ends in a model that answers or in a state that says there is none |
| `guard` | 2 launches, 2 guards | one supervisor, and no model beside its own; no model behind a stop; the end of launcher or supervisor ends guard and model |
| `gateway` | 2 ports, 2 connections, 1 permit, 2 bytes ahead | one listener, where the file says; no permit is lost; a direction's end follows its last byte; every connection ends, also one whose client has stopped reading |
| `reg` | 2 files, 1 slot, 2 workers | the slot limit, a download that goes on keeps its row, queued downloads get their turn, running ones end |
| `reg_cancel` | the same with 3 workers | a finding, below |
| `transfer` | 2 chunks, 2 threads, 2 strong and 2 weak versions | trust only what is on disk, publish only what is, keep work, publish whole versions, complete in spite of crashes |
| `queue` | 2 requests that write, 1 that reads | one thread at the slots, entries in order, nothing after a cancellation, every post is answered for, whoever a notification wakes |
| `slots` | 2 requests in 9 mixes, 2 slots, 1 token | a task is in one place, a child waits only for a live parent, a task is answered once and for good, no result without a reader, slots become free |
| `slots_forgotten` | 3 completions on 1 slot | a finding, below |
| `batch` | 2 slots, 3 requests in 3 scenarios, batches of 4, contexts of 6 | the prompt of a slot is what the memory holds of it, no sampled slot is left out, rounds end |
| `kv` | 3 cells, 2 sequences, with and without a window | indices agree with cells, keys are rotated to their positions, a decode sees and a roll-back leaves the positions they should |

**Bounds.** *Supervisor:* two aliases tell "the same model" from "another one",
and a third would add no new relation to `current`. Two request threads are what
it takes for one to come between another's steps; the lock admits one operation,
so a third could only be refused. The three or four process identities are never all in use
(a process nothing refers to is reused). `Retries = 1` leaves a poll that fails
and one that is the last. *Guard:* two launches are a killed one and its
successor; the second guard is what a supervisor starts beside a model it has
lost, or the successor's. *Gateway:* with one permit the second connection is
refused or takes the one given back; two ports are the old and the new one, one of
which is taken while a change to it fails; two bytes in one direction fill the
buffer, one in the other leaves it half full at its end. *Registry:* one slot makes two files compete; two
workers are a cancelled one and its successor or the other file's; the finding
uses three. `Callers` is one: a second canceller only repeats
`_maybe_start_next`, which does nothing the second time. *Transfer:* two chunks
fail in either order or one of them completes, and two weak versions are what it
takes to confuse them. *Queue:* two requests that write can be ordered, and the
reader is what the worker may take. *Slots:* two requests on two slots share a
batch or exclude each other; a third request is needed only to leave one behind,
on one slot. `MaxGen = 1` is one round of prompt and one of generation. *Batch:*
contexts of six tokens are full during a run; batches of four split prompts and
are halved twice; the prompts have a common prefix and a chunk that recurs at
another place. *Cells:* three cells for two sequences are full, shared and
fragmented, parts of two in batches of three leave a last part of one. All
bounds are CONSTANTS; `MaxWorkers`, `MaxTasks`, `MaxGen`, `MaxPos`, `MaxShift`,
`MaxBytes` and the callers' ranges are guards the code does not have.

**Deadlock** is checked for the supervisor, the registry and the transfer. In
`guard` every launch ends and in `gateway` every connection and, after `close()`,
the listener, so both say `CHECK_DEADLOCK FALSE`; that nothing hangs on the way is
`SessionEnds` and `ConnectionsEnd`. The engine runs say `CHECK_DEADLOCK FALSE`: a server that has answered its bounded
number of requests waits for the next, a queue whose `terminate` was called has
ended, and a memory whose positions are at the bound accepts no more. That
nothing hangs there is what `WorkEnds`, `RoundEnds` and `Answered` are for.

**Fairness.** *Supervisor:* threads are scheduled (weak fairness), a download
ends, and a thread waiting for `_process_lock`, held for a bounded time, is not
passed over for ever (strong fairness of `StartEnter` and `HaltEnter`). Nothing
forces a request, a load, an answer or a death. `CrashIsHandled` is stated for
runs in which requests eventually leave the lock alone and the watchdog's thread
lives: the watchdog tries without blocking, and nothing in the code keeps requests
from beating it each time; and nothing catches a `start` that raises in its thread.
`sup_live` lets `start` raise there too: the lock comes back and the shutdown
completes, but the thread is gone, the state stays `loading` and later crashes are
not handled (see Findings). *Guard:* processes that are not killed run; a launcher that is gone is noticed by
`watch_launcher` (every half second) although the supervisor starts and stops
models meanwhile (strong fairness, as the signal handler interrupts the main
thread at the first chance); a model that got SIGKILL goes, unless its guard has
given up on it. Nothing makes a model obey SIGTERM. *Gateway:* the listener's and
the handlers' threads run, a change goes on, and so does the clock of a relay that
has nothing to do on its own (`Stalled`, 30 minutes). Client and engine need not
send, read on or leave: `Write`, which waits for the receiver, has no fairness. That
they cannot put the limit off for ever by a byte now and then is `MaxBytes`. *Registry:* worker threads run, a transfer ends one way or the other
(timeouts of 30 seconds on every read), and a canceller returns. *Transfer:* an
attempt goes on and is tried again (weak fairness); each step of a resumable
attempt, tried infinitely often, succeeds infinitely often (strong fairness).
That is the weakest assumption under which one can ask whether work adds up:
without resumption, the mutant `PrepareAnew`, the property fails under it.
*Queue:* the main loop and the worker run (weak fairness), and a computation ends
after finitely many yields (strong fairness of `UpdateDone`): a batch is decoded in
finitely many parts. HTTP threads need not go on, not even one that was woken in the
place of the thread a notification was meant for. *Slots:* the main loop runs and a reader polls its results. *Batch:*
the main loop runs. Clients owe nothing anywhere: they need not ask, stay or
leave.

## Findings

Runs that expect a violation show a disagreement between the code and what it
says of itself:

- `reg_cancel`: a download cancelled before its thread has read the Event finds
  no Event, and runs to its end with no row and nothing to stop it.
- `slots_forgotten`: deferred tasks are woken one per release of a slot. When the
  one that is woken takes no slot (it is refused, or cancelled), the next stays
  deferred beside an idle slot until some other request comes.

Others were met with TLC while modelling and have no run of their own:

- `POST /cancel` is accepted during the projector download of `vision_install`,
  which gets no cancel event and goes on to restart the model
  (`ui/supervisor.py` 17, 239, 1153);
- `prepare` "restores the cells to their original state" (`llama-kv-cache.cpp`
  979) from those it placed parts in, but placing a part over a cell outside an
  attention window also removes older positions from cells of no part (1345).
  With a second part that does so, positions are gone after the roll-back that
  a token of the first may attend to; `PrepareRestores` excludes that case;
- a guard killed by SIGKILL leaves a model that nothing stops; `stop()` sees a
  dead guard and `start()` starts a second model beside the first, which keeps
  port and lease (`ui/supervisor.py` 412): the exception `lost` in `OneModel` and
  `SessionEnds`;
- when `start` raises in `vision_install` or `crash_watchdog`, the lock is
  released with the state still `loading` and every later action is refused as
  "in progress" (`ui/supervisor.py` 214, 544); the watchdog's thread ends with the
  exception, so no later crash is handled (504-517), which is why `CrashIsHandled`
  presumes that it lives;
- `_server_failure` describes an exit "without treating an intentional stop as a
  crash" (`ui/supervisor.py` 133), but `shutdown` calls `stop` with the state left at
  `ready` (402-423): until `stop` forgets the process, which may take 20 seconds,
  `/status` reports that the model "exited unexpectedly", and the watchdog may log a
  restart and leave `error` behind. Nothing is started: `_closing` is set.
  `OperationIsNotACrash` excepts the stop of `shutdown` for that reason; without
  the exception TLC shows it violated;
- a file that turns up complete while the registry transfers it, and is deleted
  again, can be started a second time beside the first worker, which then reports
  on the second's row (`bootstrap.py` 830, 843), as a worker cancelled before it has
  read its Event does: the premise of `WorkersAreShown`;
- the watchdog reads the alias before it has the lock and may restart a model
  that has been replaced (`ui/supervisor.py` 489, 499);
- a start of a queued file that has become complete marks the row done and
  leaves the key in the queue; the next free slot starts a worker
  (`bootstrap.py` 822, 830);
- a task for two completions that the main loop defers after its cancellations
  have been processed is run for nobody (`server-queue.cpp` 31); an empty prompt
  for two completions ends the parent and leaves the child
  (`server-context.cpp` 4315);
- an error that ends all slots while parts of the batch are not decoded leaves
  their tokens in `prompt.tokens` (`server-context.cpp` 3953, 5002), and a child
  may start from a parent of whose prompt only a part is decoded
  (`server-context.cpp` 5045);
- a queue that is asleep ignores tasks posted without waking it
  (`server-queue.cpp` 346, against `tools/server/README.md` 2511), and threads
  that wait for it to wake are left waiting by `terminate` (347);
- a division that moves a cell records the shift with the opposite sign of an
  addition (`llama-kv-cells.h` 486, 507; used by self-extend only), and a shift
  that fails to compute stays recorded (`llama-kv-cache.cpp` 1058);
- `ui/supervisor.py` 17 says that a cancel discards the `.part`, which the
  transfer keeps on purpose.

## Proofs

TLAPS proves, for every value of the constants that satisfies the named
assumptions:

| Theorem | States |
|---|---|
| `Supervisor_proofs!TypeCorrect` | `[]TypeOK` |
| `Supervisor_proofs!SingleModel` | `[]OnlyProcLives` |
| `Supervisor_proofs!ShutdownIsFinal` | `[]NoModelAfterShutdown` |
| `Supervisor_proofs!RepliesSpared` | `[]SparesActiveReply` |
| `Supervisor_proofs!OldModelKept` | `FailedSwitchKeepsOldModel` |
| `Supervisor_proofs!OperationIsNoCrash` | `[]OperationIsNotACrash`, without an initial load |
| `Supervisor_proofs!CancelIsHeard` | `[]CancelStopsDownload`, without vision installs |
| `Supervisor_proofs!BusyHasOwner` | `[]BusyStateIsOwned`, where no exception of `start` is uncaught |
| `Supervisor_proofs!StatusTold` | `[]StatusIsTrue`, the same and only requests load models |
| `Supervisor_proofs!DecisionIsNamed` | `[]DecisionFromNamedModel`, only requests load models |
| `ProcessGuard_proofs!SoleOwner` | `[]SoleSupervisor` |
| `ProcessGuard_proofs!SingleModel` | `[]OneModel` |
| `Gateway_proofs!PermitsReturn` | `[]PermitsAdd` |
| `Gateway_proofs!PortIsServed` | `[]PortAgrees` |
| `Gateway_proofs!EndComesLast` | `EndAfterData` |
| `DownloadRegistry_proofs!WithinSlots` | `[]SlotLimit` |
| `DownloadRegistry_proofs!CurrentIsShown` | `WorkersAreShown` |
| `Transfer_proofs!TypeCorrect` | `[]TypeOK` |
| `Transfer_proofs!TrustIsSound` | `[]TrustedIsOnDisk` |
| `Transfer_proofs!DurablePublication` | `PublishedIsDurable` |
| `Transfer_proofs!WorkSurvives` | `WorkIsKept` |
| `Transfer_proofs!DownloadIsAtomic` | `IsAtomic`: `Transfer` implements `AtomicDownload` |
| `Server_proofs!ControlCorrect` | `[]ControlOK` |
| `Server_proofs!Exclusion` | `[]OneHandler` |
| `Server_proofs!OrderKept` | `[]OrderIsKept` |
| `Server_proofs!ResultsAreSampled` | `[]AllSampled` |
| `Server_proofs!MemoryIsPrompt` | `[]KvIsPrompt`, where a full memory comes neither with exceptions of `post_decode` nor with requests for two completions |
| `ServerSlots_proofs!NoResultIsOrphaned` | `[]NoOrphanResult` |
| `ServerSlots_proofs!EveryAnswerIsLast` | `[]AnsweredOnce` |
| `ServerSlots_proofs!NoTaskIsLost` | `[](TypeOK /\ AtMostOne /\ AtLeastOne)` |
| `ServerSlots_proofs!EveryTaskHasItsPlace` | `[]OnePlace`, unless a pair has an empty prompt |
| `KvCells_proofs!IndicesAgree` | `[]Consistent` |
| `KvCells_proofs!KeysAreRotated` | `[]KeysFollow` |
| `KvCells_proofs!RollBackRestores` | `[]PrepareRestores` |
| `KvCells_proofs!WindowIsSeen` | `[]Sees` |

A theorem that is stated for some configurations only ("without", "where") has that as
a hypothesis, an assumption on constants that the run of the property satisfies.
Each was found necessary with TLC, and each is a behaviour of the code listed
under Findings.

*Supervisor.* `OnlyProcLives` is not inductive: that `proc` is the only process
depends on who is in the middle of replacing it. `Inv` adds that a thread inside
`with self._process_lock` owns `plock` (so at most one is), that nothing runs
between `terminate()`/`wait()` and the spawn, that the main thread has set `closing`
before it asks for `plock`, and that afterwards nobody else is inside. The last is
why `start` has to look at `_closing` a second time under the lock.
`SparesActiveReply` builds on it. `Reply` adds that a request is served by a process
that has come up, so that a thread that finds `proc` gone, or idle, knows that no
request is running anywhere (`LookIsSure`), and that only plain and forced stops
reach the check before `halt`. `FailedSwitchKeepsOldModel` follows from `SparesOld`:
a switch that waits to stop a failed load, or is inside the lock to do so, finds in
`proc` nothing or a process other than the one it began with. Other threads may
replace `proc` meanwhile, but never by that one, because a worker's
`previous_process` keeps its identity from reuse.

The other five rest on who holds `self.lock`. `Owner` says that a thread other than
the main one is inside an operation exactly while it holds the lock, and that the
watchdog starts after the initial load. On it stand, layer by layer: `NotReady`,
that a thread between its decision to stop or replace a model and the end of that
has told the state first, which is what the watchdog relies on when it takes a
missing process for a crash; `ToldReleases`, that an operation that was told of a
cancel while it downloads goes nowhere but to its release; `Sound`, what each
operation of a request has done so far at each of its positions; and `Named`, that
the running model is the one its loader asks for and, outside loads, the one in
`self.current`. `BusyOwned` says that the holder of the lock settles the state
before it gives the lock back. The hypotheses exclude what breaks these layers in
the code: the initial load runs without `self.lock`, so a stop may come between its
outcome and its state (`OperationIsNoCrash`); a vision install downloads without looking
at the cancel (`CancelIsHeard`); it and the watchdog let an exception of `start`
pass with the state unsettled (`BusyHasOwner`); and watchdog and initial load choose
a model without the lock, so `self.current` may name another one (`StatusTold`,
`DecisionIsNamed`). From `PidsAssumption`, `NoneAssumption`, `ThreadAssumption`,
`OptionAssumption`.

*ProcessGuard.* `OneLease` is what the lock file gives: whoever is admitted, or owns
a guard or a model that lives, is the only one. It is inductive because the lease is
inherited: a killed supervisor keeps its successor out until its model is gone.
`Guarded` says where models can be: under a guard that watches or stops them, or
`lost`; and that a supervisor has, besides lost ones, only the guard in `proc`,
which `stop()` has waited for before `start()` replaces it. From `NoneAssumption`.

*Gateway.* `Permits` counts: the free permits and the connections between their
`acquire` and their `release` make up the limit, and each step moves at most one
connection in or out. `PortAgrees` speaks of a gateway at rest; `Changing` says of
each stage of a change of the port which sockets are open and what the file may say,
so that each way out of the change, also the ones that fail, leaves the one listener
the file names. `EndAfterData` is an action property of the relay: a direction whose
end has been seen has been read to its end (`ReadToEnd`), so the end is passed on
with nothing left behind it. From `PortAssumption` and `SizeAssumption`.

*DownloadRegistry.* The invariant is the limit itself and the types of the table and
the queue; the work is in `_maybe_start_next`. `FirstStop` shows that popping stops
at a place where the wanted keys fill the free slots exactly, or at the end of the
queue with room to spare: each key popped adds at most one (`WantedGrows`), and the
first place that fills the slots is the least element of a set of numbers.
`StartNextLimit` adds what was promoted to what was running. `WorkersAreShown` is a
formula `[]OneWorker => []Shown`, and `ShownInv` is inductive under its premise: it
speaks of the workers that hold the registered Event and of those that will read it
(`Tells`), because a worker reads its Event some time after its promotion. A report
can then only hit the row of its own worker, as `OneWorker` makes every other one
with that key a cancelled one. From `KeysAssumption` and `BoundsAssumption`.

*Transfer.* `TrustedIsOnDisk` speaks of a running attempt, but what it trusts comes
from a checkpoint of an earlier one. `CkptSound` is what holds of the sidecars at
all times: a digest that matches its data is of data on disk, and of the version its
tag names. A checkpoint may be out of step with its part (the part is truncated
first), so it says nothing of digests that do not match; that is why `Prepare` has
to read the data. `OnDuty` says that the pool works only on chunks that are not
trusted. `WorkIsKept` and `PublishedIsDurable` follow from the same invariant, step
by step. The refinement needs the history too: `OneVersion` says that the version of
the tag was on offer during the attempt, and that without a tag everything fetched
is of the one version that stays. Every step is then a step of `AtomicDownload` or
leaves its variables alone. From `ContentsAssumption`, `PoolAssumption` and
`NoFileAssumption`.

*ServerQueue.* That only one thread is at the slots rests on the handshake of the
yield: the worker works only while `busy`, `busy` is set only by a main loop that
yields and is waited for before the loop goes on, and the worker is stopped only
after the loop. `IInv` is that and the types of the control state.

`OrderIsKept` is about one sequence, `Trail`: what was processed, is in the main
loop's hands, was set aside, is in the worker's hands, and waits, in this order.
Most steps move a task over a border in it and leave it as it is, which is why
putting the declined tasks back in front is right: `Places` says that the hands are
empty, and nothing is set aside, whenever something would be passed over. Four steps
change it: a post appends, a cancellation is inserted before what waits and takes
its task out of there, and a task that only reads is processed ahead of those set
aside or lost. `Ledger` ties the trail to the requests: no cancellation is in it
before the request is cancelled, and no task before it is posted. The lemmas say
what is in a concatenation, and what precedes what. From `ThreadsAssumption` and
`NoEntryAssumption`.

*ServerSlots.* A task may be in a queue, deferred, in the hands of the main loop or
in a slot, and steps hand it on in many ways. `Placement` says that a waiting task
is the root of its request, waits once, and is in no slot then, and that a slot's
task and its child are of one request. `Registered` ties the ids that
`server_response` waits for to the reader being there, so that a result that is sent
has somebody to be sent to, or is not kept; `Answers` says that a task with a result
that ends it is in no place any more. `OnePlace` also says that no child waits for a
parent that is done: `WaitingChildHasParent` needs `PromptsDone`, and that pairs
have a prompt, because a parent with an empty prompt ends before its child is
started (a finding). From `BoundsAssumption`, `NoTaskAssumption` and
`MixesAssumption`.

*SlotBatch.* `AllSampled` holds because a slot waits for a row that is still to come.
`BInv` says where that row is: a slot whose prompt is done, or that generates, has
its `ibatch` in the rows from `off` on (`Awaits`), the part being decoded included
until the loop over the slots has passed it, whatever the part was halved to. It also
holds the types, the limits of batch and context (`Fits`; a context shift discards at
least one token, `ShiftIs`), that slots with one task have one request (`Tasked`), how
far the heads of a reuse are and that everything before `head_p` is the new prompt
(`Reusing`). That reuse moves chunks in place is what makes the last one delicate:
an iteration writes at `head_p` what it reads at `head_c`, never ahead of it.

For `KvIsPrompt` each position is followed on its own: `Settled` says of every
(position, token) pair that the memory or a row to come has it just when
`prompt.tokens` does, and never both. Shift and reuse move pairs, and only the gap
between the heads (`Unsettled`) is in disorder meanwhile; a decode turns rows of the
part into pairs of the memory. `Owned` says whose rows are left to decode: only those
of slots in the middle of a prompt or with a result to come, none behind the row that
is sampled, and no two of a slot at one position. So a slot may be purged, or start
another prompt, without leaving rows behind. `Apart` says that a batch is only cut
when the memory is full, and that children come with requests for two completions.

The hypothesis `FullAlone` is about the failures and requests a behaviour may have,
and the scenarios of the run satisfy it. Without it the property is false, and TLC
says how: with a full memory and exceptions, the exception comes when a part of the
batch is decoded, and the released slots keep the tokens of the rest in
`prompt.tokens`; with a full memory and two completions, the child copies a parent
of whose prompt only a part is decoded. Both are listed under Findings.
`ResultsAreSampled` needs no hypothesis. From `SizesAssumption`.

*KvCells.* `Consistent` says that `used` and `seqPos` are what the cells say. It is
inductive only together with the state of a decode: the plan fits the parts that are
still to be placed (`PlanOK`), what `prepare` has saved are copies of consistent
cells (`SavedOK`), and no shift is waiting while a batch is placed, because a saved
cell carries none (`IInv`).

The other three follow the cells through a prepare, where a cell may be overwritten
by several parts and saved each time. `wasPos` and `wasSeq` are what a cell becomes
when everything is taken back: its oldest copy, or what it is. `Kept` says that
these hold no position that was not there before the prepare; `Ordered` that the
parts of a batch come one after the other, with positions that grow in each sequence
and follow all that it has or had. `Keyed` is then `KeysFollow` with `wasPos` in the
middle of a decode. `Recalled` compares `wasPos` with the cells before the prepare:
a part that is placed alone takes only what its next token does not see, which the
roll-back cannot bring back but no token asks for; the condition of
`PrepareRestores` excludes a second such part. For `Sees`, `Gone` holds the
positions that no token of a part or of a later one sees, and `Spared` says that
what a part overwrites, in the prepare and again when it is applied, was empty,
gone, or put there by a part before it. It has to say so in both phases, since
`apply` uses the places that `prepare` found, with cells that have changed in
between. First and last elements of sets of numbers come from well-founded induction
on the naturals (`WFMin`). From `SizesAssumption` and `CallsAssumption`.

Only model-checked: liveness under fairness (`LockIsReleased`, `ShutdownCompletes`,
`CrashIsHandled`, `DownloadsProceed`, `ResumeCompletes`, `Answered`, `WorkEnds`,
`RoundEnds`, `SessionEnds`, `ConnectionsEnd`), which is out of the prover's reach.
Every other property that a run checks is a theorem. What a prompt shares with a
context (`CommonPrefix`) is a maximum in the model, not the loop that finds it.

## Not modelled, and why

- *Supervisor:* context budget, warm-up, voice, catalog and quant listing; the
  progress numbers of a download; more than one front end request at a time.
- *Guard:* the threads of a supervisor (see `Supervisor`), `attach` of a second
  window, signals to the model from outside other than its end.
- *Gateway:* what the bytes are; the refusal of reserved ports, which looks at
  constants before the lock; the end of the process, which cuts all streams.
- *Registry:* progress numbers, and the read-only listings. The three attempts of
  `download_model` count as one transfer.
- *Transfer:* split models (each shard is one download) and the callers' checks of
  size and header; a server that sends no length, whose truncated answer
  `sequential` cannot notice; a change of a file without a strong entity tag
  during an attempt, which the code cannot notice either; the loss of a rename on
  power loss. The flock is a premise: one attempt at a time.
- *Queue:* the idle timer (sleep may come at any idle moment) and
  `has_pending_cancel`.
- *Slots:* realtime audio, speech, children that share a prefix, the prompt cache
  in host memory, the diffusion path.
- *Batch:* speculative drafts, multimodal chunks, checkpoints, embeddings,
  decisions (whose outputs must be in one batch).
- *Memory:* several streams, two-dimensional positions, recurrent and hybrid
  memories, saved states, tokens given to several sequences, a shift that fails
  to compute, the contents of the tensors.
- *Engine front end, models and graphs, ggml:* four fifths of the repository's
  C and C++ are vendored kernels and drivers (matrix products for a dozen back
  ends), generated tables and third-party headers. Their correctness is about
  floating-point numbers and hardware, not about states and orders of steps, and
  no finite abstraction of them would be faithful. Of what decides, rather than
  computes, the models have the request path from the queue to the cells; the
  model router and the streams of the front end are left in the plan.
- *Server manager, memory guard, warm-up, plug-in:* left in the plan. The
  server manager is used by `runtime.py` only, not by the supervisor.
- *Evaluation suite, release scripts, launcher, configuration, voice, catalog:*
  sequential, or device and file I/O; not part of the concurrent system.

## Plan

1. `Supervisor` with proofs; `DownloadRegistry` with proofs; `Transfer`, refining
   `AtomicDownload`, with proofs: done.
2. The request path of the engine, `ServerQueue`, `ServerSlots`, `SlotBatch`,
   `KvCells`, with proofs: done.
3. `ProcessGuard`, with proofs: the engine never outlives its owner. `Gateway`,
   with proofs: connections across a change of the port: done.
4. The model router of the engine's front end (children that load, crash and are
   evicted while requests wait for them) and its stream pipe.
5. `ServerManager` with `MemoryGuard`: kills and idle shutdowns racing requests.
   The warm-up, which a turn cancels. Split models as several transfers.

Theorems still worth proving: that a round of `SlotBatch` is a round of
`ServerSlots` with the tokens left out, and that the memory of `SlotBatch` is that
of `KvCells`, seen by sequence and position.
