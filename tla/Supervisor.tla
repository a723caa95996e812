------------------------------ MODULE Supervisor ------------------------------
(***************************************************************************)
(* The model supervisor of src/localcode/ui/supervisor.py: one process     *)
(* that owns the llama-server child, and many threads that act on it:      *)
(*                                                                         *)
(*   Main      the main thread: the optional initial load, then signals    *)
(*             and the shutdown they trigger;                              *)
(*   Watchdog  crash_watchdog, the automatic restart after a crash;        *)
(*   Clients   request threads of the control API.  A request that starts  *)
(*             a worker thread (select, server_action, vision_install)     *)
(*             hands its lock over to the worker and returns, so request   *)
(*             and worker are one thread of control here.                  *)
(*                                                                         *)
(* `lock` is Supervisor.lock, taken without blocking by every model        *)
(* operation; `plock` is _process_lock, held around stop-and-spawn.  The   *)
(* state is read and written without any lock, so every check and every    *)
(* use of it is a step of its own wherever another thread can come in      *)
(* between.                                                                *)
(***************************************************************************)
EXTENDS Integers

CONSTANTS
  Alias,         \* models of the catalog, by alias
  Clients,       \* control API request threads
  Main,          \* the main thread
  Watchdog,      \* the crash_watchdog thread
  Pids,          \* identities of model processes; a forgotten one is reused
  None,          \* Python's None
  InitialModel,  \* the --model argument: an alias, or None
  Ops,           \* what a run explores: the operations clients call, and "watch"
                 \* for the watchdog
  Raising,       \* operations during which start() may raise
  Retries        \* polls of the health endpoint before start() gives up

Threads == Clients \cup {Main, Watchdog}

OpKinds == {"select", "astart", "astop", "fstop", "vision"}
Requests == OpKinds \cup {"cancel", "dir", "decide", "watch"}

ASSUME PidsAssumption == Pids \subseteq Nat
ASSUME NoneAssumption == None \notin Alias \cup Pids \cup Threads
ASSUME ThreadAssumption == Main # Watchdog /\ {Main, Watchdog} \cap Clients = {}
ASSUME OptionAssumption == /\ InitialModel \in Alias \cup {None}
                           /\ Ops \subseteq Requests
                           /\ Raising \subseteq OpKinds \cup {"main", "watch"}
                           /\ Retries \in Nat

VARIABLES
  (* per thread *)
  pc,       \* where the thread is
  op,       \* the operation it runs: one of OpKinds, "main", "watch", "exit", "none"
  tgt,      \* the alias the operation is about
  mine,     \* the process it spawned or captured
  prev,     \* _select_worker's previous_process
  tries,    \* health polls made by start()
  answer,   \* the model that answered this thread's decision request
  (* Supervisor's own fields *)
  lock, plock, closing, cancel,
  st,       \* state["state"]
  proc, current,
  (* the world around it *)
  status,   \* of each process: "dead", "loading" (not listening yet) or "up"
  model,    \* the alias each live process was started with
  busy,     \* an inference request is running on the server
  disk,     \* aliases whose file is in the models folder
  cooling,  \* less than the watchdog's cooldown since its last restart
  (* history *)
  late,     \* operations whose last look at the server precedes the running request
  told      \* operations whose download was cancelled while it ran

locals == <<pc, op, tgt, mine, prev, tries, answer>>
locks  == <<lock, plock>>
flags  == <<closing, cancel>>
fields == <<st, proc, current>>
world  == <<status, model, busy, disk, cooling>>
ghosts == <<late, told>>
vars   == <<locals, locks, flags, fields, world, ghosts>>

-----------------------------------------------------------------------------
(* Names for the code positions.                                           *)

Downloading == {"fetch", "drafter", "project"}
Starting    == {"start", "enter", "kill", "clear", "spawn", "wait", "probe", "loaded",
                "failed", "raised"}
Halting     == {"halt", "hkill", "hclear", "halted"}
Committed   == Starting \cup Halting      \* past the operation's last look at the server
Checking    == {"check", "begin", "worker", "recheck", "acheck", "arecheck", "arun", "release"}
Asking      == {"cancel", "dir", "capture", "post", "verify", "decided"}
Resting     == {"idle", "off", "watch", "grab", "boot", "serving", "exit", "exited"}
Places      == Downloading \cup Committed \cup Checking \cup Asking \cup Resting

BusyStates  == {"loading", "downloading", "stopping"}
States      == BusyStates \cup {"idle", "ready", "error", "stopped"}

TypeOK ==
  /\ pc \in [Threads -> Places]
  /\ op \in [Threads -> OpKinds \cup {"main", "watch", "exit", "none"}]
  /\ tgt \in [Threads -> Alias \cup {None}]
  /\ mine \in [Threads -> Pids \cup {None}]
  /\ prev \in [Threads -> Pids \cup {None}]
  /\ tries \in [Threads -> 0 .. Retries]
  /\ answer \in [Threads -> Alias \cup {None}]
  /\ lock \in Threads \cup {None} /\ plock \in Threads \cup {None}
  /\ closing \in BOOLEAN /\ cancel \in BOOLEAN
  /\ st \in States
  /\ proc \in Pids \cup {None} /\ current \in Alias \cup {None}
  /\ status \in [Pids -> {"dead", "loading", "up"}]
  /\ model \in [Pids -> Alias \cup {None}]
  /\ busy \in BOOLEAN /\ disk \in SUBSET Alias /\ cooling \in BOOLEAN
  /\ late \in SUBSET Threads /\ told \in SUBSET Threads

Init ==
  /\ pc = [t \in Threads |-> IF t = Main THEN "boot" ELSE IF t = Watchdog THEN "off" ELSE "idle"]
  /\ op = [t \in Threads |-> "none"]
  /\ tgt = [t \in Threads |-> None]
  /\ mine = [t \in Threads |-> None]
  /\ prev = [t \in Threads |-> None]
  /\ tries = [t \in Threads |-> 0]
  /\ answer = [t \in Threads |-> None]
  /\ lock = None /\ plock = None
  /\ closing = FALSE /\ cancel = FALSE
  /\ st = "idle" /\ proc = None /\ current = None
  /\ status = [p \in Pids |-> "dead"]
  /\ model = [p \in Pids |-> None]
  /\ busy = FALSE /\ disk \in SUBSET Alias /\ cooling = FALSE
  /\ late = {} /\ told = {}

-----------------------------------------------------------------------------
(* What the code asks of the server.                                       *)

Alive(p)  == status[p] # "dead"
Running   == proc # None /\ Alive(proc)             \* proc.poll() is None
Serving   == \E p \in Pids : status[p] = "up"       \* healthy()
IdlePhase == Serving /\ ~busy                       \* progress()["phase"] == "idle"
Failure   == st = "ready" /\ proc # None /\ ~Alive(proc)   \* _server_failure()

Active == pc[Main] # "exited"                       \* the interpreter still runs

Goto(t, place) == pc' = [pc EXCEPT ![t] = place]

(* A thread that has finished forgets its local variables.                 *)
Home(t) == IF t = Watchdog THEN "watch" ELSE "idle"

Forget(t, place) ==
  /\ Goto(t, place)
  /\ op' = [op EXCEPT ![t] = "none"]
  /\ tgt' = [tgt EXCEPT ![t] = None]
  /\ mine' = [mine EXCEPT ![t] = None]
  /\ prev' = [prev EXCEPT ![t] = None]
  /\ tries' = [tries EXCEPT ![t] = 0]
  /\ answer' = [answer EXCEPT ![t] = None]

Leave(t, place) ==
  /\ Forget(t, place)
  /\ lock' = None
  /\ late' = late \ {t} /\ told' = told \ {t}
  /\ UNCHANGED <<plock, flags, proc, current, world>>

(* self.lock.acquire(blocking=False) succeeds.                             *)
Acquire(t, kind, a, place) ==
  /\ lock = None /\ lock' = t
  /\ op' = [op EXCEPT ![t] = kind]
  /\ tgt' = [tgt EXCEPT ![t] = a]
  /\ Goto(t, place)

-----------------------------------------------------------------------------
(* start(): stop the old process and spawn the new one under plock, then   *)
(* poll the health endpoint.                                               *)

At(t, place) == Active /\ pc[t] = place

StartCheck(t) ==
  /\ At(t, "start")
  /\ Goto(t, IF closing THEN "failed" ELSE "enter")
  /\ UNCHANGED <<op, tgt, mine, prev, tries, answer, locks, flags, fields, world, ghosts>>

(* Mutant: start() does not take plock.                                    *)
StartEnterUnlocked(t) ==
  /\ At(t, "enter") /\ plock = None
  /\ Goto(t, IF closing THEN "failed" ELSE "kill")
  /\ UNCHANGED <<op, tgt, mine, prev, tries, answer, locks, flags, fields, world, ghosts>>

StartEnter(t) ==
  /\ At(t, "enter") /\ plock = None
  /\ IF closing THEN plock' = plock /\ Goto(t, "failed")
                ELSE plock' = t /\ Goto(t, "kill")
  /\ UNCHANGED <<op, tgt, mine, prev, tries, answer, lock, flags, fields, world, ghosts>>

(* terminate() and wait(): the process is gone when the step ends, and so  *)
(* is the request it served.                                               *)
Kill(t, from, to) ==
  /\ At(t, from)
  /\ Goto(t, to)
  /\ IF Running THEN /\ status' = [status EXCEPT ![proc] = "dead"]
                     /\ model' = [model EXCEPT ![proc] = None]
                     /\ busy' = FALSE /\ late' = {}
                ELSE UNCHANGED <<status, model, busy, late>>
  /\ UNCHANGED <<op, tgt, mine, prev, tries, answer, locks, flags, fields, disk, cooling, told>>

StartClear(t) ==
  /\ At(t, "clear")
  /\ proc' = None
  /\ Goto(t, "spawn")
  /\ UNCHANGED <<op, tgt, mine, prev, tries, answer, locks, flags, st, current, world, ghosts>>

(* An identity nothing refers to any more.                                 *)
Free(p) == /\ ~Alive(p) /\ p # proc
           /\ \A t \in Threads : p # mine[t] /\ p # prev[t]

StartSpawn(t) ==
  /\ At(t, "spawn")
  /\ \E p \in Pids :
       /\ Free(p) /\ \A q \in Pids : Free(q) => p <= q
       /\ status' = [status EXCEPT ![p] = "loading"]
       /\ model' = [model EXCEPT ![p] = tgt[t]]
       /\ proc' = p
       /\ mine' = [mine EXCEPT ![t] = p]
  /\ plock' = None
  /\ Goto(t, "wait")
  /\ UNCHANGED <<op, tgt, prev, tries, answer, lock, flags, st, current, busy, disk, cooling, ghosts>>

(* server_command refuses the model, or the guard cannot be spawned.       *)
StartRaise(t) ==
  /\ Active /\ pc[t] \in {"start", "spawn"} /\ op[t] \in Raising
  /\ plock' = IF pc[t] = "spawn" THEN None ELSE plock
  /\ Goto(t, "raised")
  /\ UNCHANGED <<op, tgt, mine, prev, tries, answer, lock, flags, fields, world, ghosts>>

WaitPoll(t) ==
  /\ At(t, "wait")
  /\ Goto(t, IF closing \/ ~Alive(mine[t]) \/ tries[t] = Retries THEN "failed" ELSE "probe")
  /\ UNCHANGED <<op, tgt, mine, prev, tries, answer, locks, flags, fields, world, ghosts>>

(* Mutant: start() waits for the server without a limit.                   *)
WaitProbeEndless(t) ==
  /\ At(t, "probe")
  /\ IF Serving THEN Goto(t, "loaded") /\ current' = tgt[t]
                ELSE Goto(t, "wait") /\ UNCHANGED current
  /\ UNCHANGED <<op, tgt, mine, prev, tries, answer, locks, flags, st, proc, world, ghosts>>

WaitProbe(t) ==
  /\ At(t, "probe")
  /\ IF Serving
       THEN Goto(t, "loaded") /\ current' = tgt[t] /\ UNCHANGED tries
       ELSE Goto(t, "wait") /\ tries' = [tries EXCEPT ![t] = @ + 1] /\ UNCHANGED current
  /\ UNCHANGED <<op, tgt, mine, prev, answer, locks, flags, st, proc, world, ghosts>>

(* stop() called on its own.  plock is reentrant: the signal handler may   *)
(* run in the main thread while that thread holds it.                      *)
HaltEnter(t) ==
  /\ At(t, "halt") /\ plock \in {None, t}
  /\ plock' = t
  /\ Goto(t, "hkill")
  /\ UNCHANGED <<op, tgt, mine, prev, tries, answer, lock, flags, fields, world, ghosts>>

(* Mutant: stop() returns without releasing plock.                         *)
HaltClearLocked(t) ==
  /\ At(t, "hclear")
  /\ proc' = None
  /\ Goto(t, "halted")
  /\ UNCHANGED <<op, tgt, mine, prev, tries, answer, locks, flags, st, current, world, ghosts>>

HaltClear(t) ==
  /\ At(t, "hclear")
  /\ proc' = None
  /\ plock' = None
  /\ Goto(t, "halted")
  /\ UNCHANGED <<op, tgt, mine, prev, tries, answer, lock, flags, st, current, world, ghosts>>

StartStep(t) ==
  \/ StartCheck(t) \/ StartEnter(t) \/ Kill(t, "kill", "clear") \/ StartClear(t)
  \/ StartSpawn(t) \/ StartRaise(t) \/ WaitPoll(t) \/ WaitProbe(t)
  \/ HaltEnter(t) \/ Kill(t, "hkill", "hclear") \/ HaltClear(t)

-----------------------------------------------------------------------------
(* What each caller of start() and stop() does with the outcome.           *)

(* Write the state, then clear `active` and release the lock.              *)
Settle(t, s) ==
  /\ st' = s
  /\ Goto(t, "release")
  /\ UNCHANGED <<op, tgt, mine, prev, tries, answer, locks, flags, proc, current, world, ghosts>>

Continue(t, place) ==
  /\ Goto(t, place)
  /\ UNCHANGED <<op, tgt, mine, prev, tries, answer, locks, flags, fields, world, ghosts>>

Loaded(t) ==
  /\ At(t, "loaded") /\ op[t] # "main"
  /\ Settle(t, "ready")

(* Mutant: a failed switch always stops the model.                         *)
SelectFailedHarshly(t) ==
  /\ Active /\ pc[t] \in {"failed", "raised"} /\ op[t] = "select"
  /\ Continue(t, "halt")

SelectFailed(t) ==
  /\ Active /\ pc[t] \in {"failed", "raised"} /\ op[t] = "select"
  /\ IF proc # prev[t] THEN Continue(t, "halt") ELSE Settle(t, "error")

ActionFailed(t) ==
  /\ Active /\ pc[t] \in {"failed", "raised"} /\ op[t] = "astart"
  /\ Continue(t, "halt")

(* Mutant: the result of start() is not looked at.                         *)
RestartFailedQuietly(t) ==
  /\ At(t, "failed") /\ op[t] \in {"vision", "watch"}
  /\ Continue(t, "release")

RestartFailed(t) ==
  /\ At(t, "failed") /\ op[t] \in {"vision", "watch"}
  /\ Settle(t, "error")

(* vision_install and crash_watchdog have a finally but no except: the     *)
(* lock is released, the state is left as it was, the thread ends.         *)
RestartRaised(t) ==
  /\ At(t, "raised") /\ op[t] \in {"vision", "watch"}
  /\ Leave(t, IF t = Watchdog THEN "off" ELSE "idle")
  /\ UNCHANGED st

(* Mutant: a stopped model's state is never written.                       *)
HaltedSilently(t) ==
  /\ At(t, "halted") /\ op[t] # "exit"
  /\ Continue(t, "release")

Halted(t) ==
  /\ At(t, "halted") /\ op[t] # "exit"
  /\ Settle(t, IF op[t] \in {"astop", "fstop"} THEN "stopped" ELSE "error")

Release(t) ==
  /\ At(t, "release")
  /\ Leave(t, Home(t))
  /\ UNCHANGED st

Outcome(t) ==
  \/ Loaded(t) \/ SelectFailed(t) \/ ActionFailed(t) \/ RestartFailed(t)
  \/ RestartRaised(t) \/ Halted(t) \/ Release(t)

-----------------------------------------------------------------------------
(* POST /select.                                                           *)

Select(c, a) ==
  /\ At(c, "idle") /\ "select" \in Ops
  /\ Acquire(c, "select", a, "check")
  /\ UNCHANGED <<mine, prev, tries, answer, plock, flags, fields, world, ghosts>>

SelectCheck(c) ==
  /\ At(c, "check")
  /\ \/ /\ tgt[c] = current /\ Running /\ Serving      \* already loaded
        /\ st' = "ready" /\ Leave(c, "idle")
     \/ /\ Running /\ ~IdlePhase                        \* a request is active
        /\ ~(tgt[c] = current /\ Serving)
        /\ UNCHANGED st /\ Leave(c, "idle")
     \/ /\ ~Running \/ (IdlePhase /\ tgt[c] # current)
        /\ Continue(c, "begin")

SelectAccept(c) ==
  /\ At(c, "begin")
  /\ cancel' = FALSE
  /\ st' = IF tgt[c] \in disk THEN "loading" ELSE "downloading"
  /\ Goto(c, "worker")
  /\ UNCHANGED <<op, tgt, mine, prev, tries, answer, locks, closing, proc, current, world, ghosts>>

(* The file is not one of the repository's, or no thread can be started:   *)
(* what was written is restored.                                           *)
SelectReject(c) ==
  /\ At(c, "begin")
  /\ Leave(c, "idle")
  /\ UNCHANGED st

(* The worker looks again whether the file is there; a drafter is fetched  *)
(* for some models only.                                                   *)
SelectWorker(c) ==
  /\ At(c, "worker")
  /\ prev' = [prev EXCEPT ![c] = proc]
  /\ \E next \in IF tgt[c] \in disk THEN {"drafter", "recheck"} ELSE {"fetch"} : Goto(c, next)
  /\ UNCHANGED <<op, tgt, mine, tries, answer, locks, flags, fields, world, ghosts>>

(* on_progress.                                                            *)
Progress(c) ==
  /\ Active /\ pc[c] \in Downloading /\ st # "downloading"
  /\ st' = "downloading"
  /\ UNCHANGED <<locals, locks, flags, proc, current, world, ghosts>>

(* bootstrap.download_model returns, and the worker looks at `cancel`.     *)
Fetched(c) ==
  /\ At(c, "fetch")
  /\ \E ok \in BOOLEAN :
       /\ disk' = IF ok THEN disk \cup {tgt[c]} ELSE disk
       /\ \/ /\ cancel /\ st' = "idle" /\ Goto(c, "release")
          \/ /\ ~cancel /\ ~ok /\ st' = "error" /\ Goto(c, "release")
          \/ /\ ~cancel /\ ok /\ UNCHANGED st
             /\ \E next \in {"drafter", "recheck"} : Goto(c, next)
  /\ UNCHANGED <<op, tgt, mine, prev, tries, answer, locks, flags, proc, current, status, model,
                 busy, cooling, ghosts>>

(* Mutant: `cancel` is not looked at after the drafter.                    *)
DrafterDoneDeaf(c) ==
  /\ At(c, "drafter")
  /\ Continue(c, "recheck")

(* A drafter that cannot be fetched is not fatal.                          *)
DrafterDone(c) ==
  /\ At(c, "drafter")
  /\ IF cancel THEN Settle(c, "idle") ELSE Continue(c, "recheck")

(* Mutant: the server is only looked at when the selection is made.        *)
SelectRecheckSkipped(c) ==
  /\ At(c, "recheck")
  /\ st' = "loading"
  /\ Goto(c, "start")
  /\ UNCHANGED <<op, tgt, mine, prev, tries, answer, locks, flags, proc, current, world, ghosts>>

SelectRecheck(c) ==
  /\ At(c, "recheck")
  /\ IF Running /\ ~IdlePhase
       THEN Settle(c, "error")
       ELSE /\ st' = "loading"
            /\ Goto(c, "start")
            /\ UNCHANGED <<op, tgt, mine, prev, tries, answer, locks, flags, proc, current, world, ghosts>>

SelectStep(c) ==
  \/ \E a \in Alias : Select(c, a)
  \/ SelectCheck(c) \/ SelectAccept(c) \/ SelectReject(c) \/ SelectWorker(c)
  \/ Progress(c) \/ Fetched(c) \/ DrafterDone(c) \/ SelectRecheck(c)

-----------------------------------------------------------------------------
(* POST /server/start and /server/stop ("fstop" is a stop with force).     *)

ServerAction(c, kind) ==
  /\ At(c, "idle") /\ kind \in Ops \cap {"astart", "astop", "fstop"}
  /\ Acquire(c, kind, None, "acheck")
  /\ UNCHANGED <<mine, prev, tries, answer, plock, flags, fields, world, ghosts>>

Stops(c) == op[c] \in {"astop", "fstop"}

(* Refused: busy, active request, already running, nothing to load, or no  *)
(* worker thread.                                                          *)
ActionRefused(c) ==
  /\ At(c, "acheck")
  /\ Leave(c, "idle")
  /\ UNCHANGED st

ActionStopped(c) ==
  /\ At(c, "acheck") /\ Stops(c) /\ st \notin BusyStates /\ ~Running
  /\ st' = "stopped"
  /\ Leave(c, "idle")

(* Mutant: a stop does not write "stopping".                               *)
ActionStopQuietly(c) ==
  /\ At(c, "acheck") /\ Stops(c) /\ st \notin BusyStates /\ Running
  /\ op[c] = "astop" => IdlePhase
  /\ Continue(c, "arecheck")

ActionStop(c) ==
  /\ At(c, "acheck") /\ Stops(c) /\ st \notin BusyStates /\ Running
  /\ op[c] = "astop" => IdlePhase
  /\ st' = "stopping"
  /\ Goto(c, "arecheck")
  /\ UNCHANGED <<op, tgt, mine, prev, tries, answer, locks, flags, proc, current, world, ghosts>>

ActionStart(c) ==
  /\ At(c, "acheck") /\ op[c] = "astart" /\ st \notin BusyStates /\ ~Running
  /\ current # None /\ current \in disk
  /\ st' = "loading"
  /\ Goto(c, "arun")
  /\ UNCHANGED <<op, tgt, mine, prev, tries, answer, locks, flags, proc, current, world, ghosts>>

(* _server_action_worker: recheck immediately before stopping.             *)
StopRecheck(c) ==
  /\ At(c, "arecheck")
  /\ IF op[c] = "astop" /\ Running /\ ~IdlePhase THEN Settle(c, "ready") ELSE Continue(c, "halt")

StartCurrent(c) ==
  /\ At(c, "arun")
  /\ tgt' = [tgt EXCEPT ![c] = current]
  /\ Goto(c, "start")
  /\ UNCHANGED <<op, mine, prev, tries, answer, locks, flags, fields, world, ghosts>>

ActionStep(c) ==
  \/ \E kind \in {"astart", "astop", "fstop"} : ServerAction(c, kind)
  \/ ActionRefused(c) \/ ActionStopped(c) \/ ActionStop(c) \/ ActionStart(c)
  \/ StopRecheck(c) \/ StartCurrent(c)

-----------------------------------------------------------------------------
(* POST /vision/install: fetch the projector, restart the loaded model.    *)

Vision(c) ==
  /\ At(c, "idle") /\ "vision" \in Ops /\ current # None
  /\ Acquire(c, "vision", current, "project")
  /\ UNCHANGED <<mine, prev, tries, answer, plock, flags, fields, world, ghosts>>

ProjectorDone(c) ==
  /\ At(c, "project")
  /\ st' = "loading"
  /\ Goto(c, "start")
  /\ UNCHANGED <<op, tgt, mine, prev, tries, answer, locks, flags, proc, current, world, ghosts>>

(* POST /cancel: look at the state, then set the flag.                     *)
CancelCheck(c) ==
  /\ At(c, "idle") /\ "cancel" \in Ops /\ st = "downloading"
  /\ Continue(c, "cancel")

CancelSet(c) ==
  /\ At(c, "cancel")
  /\ cancel' = TRUE
  /\ told' = told \cup {t \in Threads : pc[t] \in Downloading}
  /\ Goto(c, "idle")
  /\ UNCHANGED <<op, tgt, mine, prev, tries, answer, locks, closing, fields, world, late>>

(* POST /models_dir: look at the state, then move to another folder.       *)
DirCheck(c) ==
  /\ At(c, "idle") /\ "dir" \in Ops /\ st \notin {"downloading", "loading"}
  /\ Continue(c, "dir")

DirSet(c) ==
  /\ At(c, "dir")
  /\ disk' \in SUBSET Alias
  /\ Goto(c, "idle")
  /\ UNCHANGED <<op, tgt, mine, prev, tries, answer, locks, flags, fields, status, model, busy,
                 cooling, ghosts>>

(* POST /decision: capture model and process, ask whatever server is on    *)
(* the port, then verify that nothing changed.                             *)
DecisionCheck(c) ==
  /\ At(c, "idle") /\ "decide" \in Ops
  /\ st = "ready" /\ current # None /\ proc # None
  /\ Continue(c, "capture")

DecisionCapture(c) ==
  /\ At(c, "capture")
  /\ tgt' = [tgt EXCEPT ![c] = current]
  /\ mine' = [mine EXCEPT ![c] = proc]
  /\ Goto(c, "post")
  /\ UNCHANGED <<op, prev, tries, answer, locks, flags, fields, world, ghosts>>

DecisionPost(c) ==
  /\ At(c, "post")
  /\ \/ /\ \E p \in Pids : status[p] = "up" /\ answer' = [answer EXCEPT ![c] = model[p]]
        /\ Goto(c, "verify")
        /\ UNCHANGED <<op, tgt, mine, prev, tries>>
     \/ Forget(c, "idle")
  /\ UNCHANGED <<locks, flags, fields, world, ghosts>>

(* Mutant: the process is not compared.                                    *)
UnchangedByName(c) == current = tgt[c] /\ st = "ready"

Unchanged(c) == current = tgt[c] /\ proc = mine[c] /\ st = "ready"

DecisionVerify(c) ==
  /\ At(c, "verify")
  /\ IF Unchanged(c) THEN Continue(c, "decided")
                     ELSE Forget(c, "idle") /\ UNCHANGED <<locks, flags, fields, world, ghosts>>

DecisionReturn(c) ==
  /\ At(c, "decided")
  /\ Forget(c, "idle")
  /\ UNCHANGED <<locks, flags, fields, world, ghosts>>

OtherStep(c) ==
  \/ Vision(c) \/ ProjectorDone(c) \/ CancelCheck(c) \/ CancelSet(c) \/ DirCheck(c) \/ DirSet(c)
  \/ DecisionCheck(c) \/ DecisionCapture(c) \/ DecisionPost(c) \/ DecisionVerify(c)
  \/ DecisionReturn(c)

-----------------------------------------------------------------------------
(* crash_watchdog.  The alias to restart is read before the lock is taken. *)

WatchLook ==
  /\ At(Watchdog, "watch") /\ "watch" \in Ops /\ ~closing
  /\ Failure /\ current # None /\ ~cooling
  /\ tgt' = [tgt EXCEPT ![Watchdog] = current]
  /\ Goto(Watchdog, "grab")
  /\ UNCHANGED <<op, mine, prev, tries, answer, locks, flags, fields, world, ghosts>>

(* The lock is taken, or the failure is over.                              *)
WatchSkip ==
  /\ At(Watchdog, "grab") /\ (lock # None \/ ~Failure)
  /\ Forget(Watchdog, "watch")
  /\ UNCHANGED <<locks, flags, fields, world, ghosts>>

WatchGrab ==
  /\ At(Watchdog, "grab") /\ Failure
  /\ Acquire(Watchdog, "watch", tgt[Watchdog], "start")
  /\ cooling' = TRUE
  /\ st' = "loading"
  /\ UNCHANGED <<mine, prev, tries, answer, plock, flags, proc, current, status, model, busy,
                 disk, ghosts>>

CooldownOver ==
  /\ Active /\ cooling /\ cooling' = FALSE
  /\ UNCHANGED <<locals, locks, flags, fields, status, model, busy, disk, ghosts>>

(* main(): the control API answers before the initial load, which takes    *)
(* no lock.                                                                *)
Boot ==
  /\ At(Main, "boot")
  /\ IF InitialModel = None
       THEN /\ st' = "idle"
            /\ pc' = [pc EXCEPT ![Main] = "serving", ![Watchdog] = "watch"]
            /\ UNCHANGED <<op, tgt>>
       ELSE /\ st' = "loading"
            /\ op' = [op EXCEPT ![Main] = "main"]
            /\ tgt' = [tgt EXCEPT ![Main] = InitialModel]
            /\ Goto(Main, "start")
  /\ UNCHANGED <<mine, prev, tries, answer, locks, flags, proc, current, world, ghosts>>

BootLoaded ==
  /\ At(Main, "loaded") /\ op[Main] = "main"
  /\ st' = "ready"
  /\ pc' = [pc EXCEPT ![Main] = "serving", ![Watchdog] = "watch"]
  /\ op' = [op EXCEPT ![Main] = "none"]
  /\ tgt' = [tgt EXCEPT ![Main] = None]
  /\ mine' = [mine EXCEPT ![Main] = None]
  /\ tries' = [tries EXCEPT ![Main] = 0]
  /\ UNCHANGED <<prev, answer, locks, flags, proc, current, world, ghosts>>

(* The initial load failed, or SIGTERM, SIGINT or SIGHUP arrived: the      *)
(* handler interrupts the main thread wherever it is.                      *)
Exiting == op[Main] = "exit"

LeaveMain ==
  /\ op' = [op EXCEPT ![Main] = "exit"]
  /\ tgt' = [tgt EXCEPT ![Main] = None]
  /\ mine' = [mine EXCEPT ![Main] = None]
  /\ tries' = [tries EXCEPT ![Main] = 0]
  /\ Goto(Main, "exit")
  /\ UNCHANGED <<prev, answer, locks, flags, fields, world, ghosts>>

BootFailed == Active /\ op[Main] = "main" /\ pc[Main] \in {"failed", "raised"} /\ LeaveMain

Signal == Active /\ ~Exiting /\ pc[Main] # "boot" /\ LeaveMain

(* Mutant: shutdown() stops the model without forbidding new ones.         *)
ShutdownOpen ==
  /\ At(Main, "exit")
  /\ cancel' = TRUE
  /\ Goto(Main, "halt")
  /\ UNCHANGED <<op, tgt, mine, prev, tries, answer, locks, closing, fields, world, ghosts>>

(* shutdown(): forbid new workers before stopping the current one.         *)
Shutdown ==
  /\ At(Main, "exit")
  /\ closing' = TRUE /\ cancel' = TRUE
  /\ Goto(Main, "halt")
  /\ UNCHANGED <<op, tgt, mine, prev, tries, answer, locks, fields, world, ghosts>>

Exit ==
  /\ At(Main, "halted") /\ Exiting
  /\ Continue(Main, "exited")

MainStep  == Boot \/ BootLoaded \/ BootFailed \/ Shutdown \/ Exit
WatchStep == WatchLook \/ WatchSkip \/ WatchGrab

-----------------------------------------------------------------------------
(* The model process and the front ends that use it.                       *)

LoadDone(p) ==
  /\ Active /\ status[p] = "loading"
  /\ status' = [status EXCEPT ![p] = "up"]
  /\ UNCHANGED <<locals, locks, flags, fields, model, busy, disk, cooling, ghosts>>

Die(p) ==
  /\ Active /\ Alive(p)
  /\ status' = [status EXCEPT ![p] = "dead"]
  /\ model' = [model EXCEPT ![p] = None]
  /\ busy' = FALSE /\ late' = {}
  /\ UNCHANGED <<locals, locks, flags, fields, disk, cooling, told>>

BeginRequest ==
  /\ Active /\ Serving /\ ~busy
  /\ busy' = TRUE
  /\ late' = {t \in Threads : pc[t] \in Committed}
  /\ UNCHANGED <<locals, locks, flags, fields, status, model, disk, cooling, told>>

EndRequest ==
  /\ Active /\ busy
  /\ busy' = FALSE
  /\ late' = {}
  /\ UNCHANGED <<locals, locks, flags, fields, status, model, disk, cooling, told>>

World == (\E p \in Pids : LoadDone(p) \/ Die(p)) \/ BeginRequest \/ EndRequest

(* After the main thread's exit no thread of the process runs.             *)
Ended == ~Active /\ UNCHANGED vars

ThreadStep(t) == StartStep(t) \/ Outcome(t)
ClientStep(c) == SelectStep(c) \/ ActionStep(c) \/ OtherStep(c)

Next ==
  \/ \E t \in Threads : ThreadStep(t)
  \/ \E c \in Clients : ClientStep(c)
  \/ MainStep \/ Signal \/ WatchStep \/ CooldownOver \/ World \/ Ended

Spec == Init /\ [][Next]_vars

(* Threads are scheduled; a download ends; an operation may never be asked *)
(* for.  plock is a blocking lock held for a bounded time: a thread that   *)
(* waits for it is not passed over for ever.                               *)
Fairness ==
  /\ \A t \in Threads : WF_vars(ThreadStep(t)) /\ SF_vars(StartEnter(t) \/ HaltEnter(t))
  /\ \A c \in Clients : WF_vars(pc[c] # "idle" /\ ClientStep(c))
  /\ WF_vars(MainStep) /\ WF_vars(WatchStep)
  /\ WF_vars(CooldownOver)

FairSpec == Spec /\ Fairness

-----------------------------------------------------------------------------
(* Safety.                                                                 *)

(* Never two model processes: whatever runs is the process in self.proc,   *)
(* so a start() cannot leave its predecessor behind (start, stop).         *)
OnlyProcLives == \A p \in Pids : Alive(p) => p = proc

(* shutdown() wins every race with a start() in another thread: once the   *)
(* main thread has stopped the model, none runs again.                     *)
NoModelAfterShutdown ==
  Exiting /\ pc[Main] \in {"halted", "exited"} => \A p \in Pids : ~Alive(p)

(* The running process was started with the alias in self.current.         *)
ReadyIsLoaded == st = "ready" /\ Running => model[proc] = current

(* A busy state has an owner that will end it.                             *)
BusyStateIsOwned ==
  st \in BusyStates => \/ lock # None
                       \/ pc[Main] \in Starting \cup {"exit", "exited"} \cup Halting

(* What /status says is so: the model it calls ready is the one that       *)
(* answers, and "a model operation is in progress" (server_action,         *)
(* set_models_dir) is only said while one is.                              *)
StatusIsTrue == ReadyIsLoaded /\ BusyStateIsOwned

(* A switch or a plain stop never ends a reply that was already running    *)
(* when it last looked at the server (_select_worker, _server_action_worker). *)
SparesActiveReply ==
  \A c \in Clients :
    op[c] \in {"select", "astop"} /\ pc[c] \in Committed /\ busy => c \in late

(* A switch whose load fails before the old model was stopped leaves that  *)
(* model running (_select_worker's test of previous_process).              *)
FailedSwitchKeepsOldModel ==
  [][\A c \in Clients :
       op[c] = "select" /\ pc[c] = "hkill" /\ pc'[c] = "hclear" /\ Running => proc # prev[c]]_vars

(* An accepted POST /cancel stops the operation whose download it met: it  *)
(* never goes on to load the model.                                        *)
CancelStopsDownload == \A t \in told : pc[t] \notin Committed

(* A decision is reported under the name of the model that made it.  Once  *)
(* shutdown() has begun, stop() leaves None in self.proc behind a state    *)
(* that may still turn ready, and a None captured earlier matches it: the  *)
(* check of decision() says nothing then.                                  *)
DecisionFromNamedModel ==
  \A c \in Clients : pc[c] = "decided" /\ ~closing => answer[c] = tgt[c]

(* While an operation starts, replaces or stops a model, no crash is       *)
(* reported: neither in the window before stop() forgets the process, nor  *)
(* while the new one is waited for (_server_failure, line 133).  This is   *)
(* not so of the stop of shutdown(), which leaves the state at "ready":    *)
(* until it forgets the process, the exit counts as unexpected.            *)
OperationIsNotACrash ==
  \A t \in Threads : pc[t] \in Committed /\ op[t] # "exit" => ~Failure

(* Liveness.                                                               *)

(* Every operation ends and gives the lock back, whatever the server does. *)
LockIsReleased == (lock # None) ~> (lock = None \/ ~Active)

(* Once the shutdown has begun, the model is stopped and the process ends. *)
ShutdownCompletes == closing ~> ~Active

(* A crash of the loaded model ends in a server that answers again or in a *)
(* state that says there is none, unless an operation of a client or the   *)
(* shutdown comes first: a restart that fails is not left at "loading"     *)
(* (crash_watchdog).  It presumes that requests do not hold the lock at    *)
(* every attempt, as the watchdog gives up a round then, and that the      *)
(* watchdog lives: nothing catches a start() that raises in its thread.    *)
(* Which alias is restarted is not part of it.                             *)
CrashIsHandled ==
  <>[](lock \in {None, Watchdog} /\ pc[Watchdog] # "off")
    => (Failure ~> \/ pc[Watchdog] = "loaded"
                   \/ st = "ready" /\ Running
                   \/ st \in {"error", "stopped", "idle"}
                   \/ lock \in Clients
                   \/ Exiting)
===============================================================================
