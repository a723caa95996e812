------------------------------ MODULE ProcessGuard ------------------------------
(***************************************************************************)
(* Who owns a model process, across launches and crashes: the launcher of  *)
(* src/localcode/ui/launch.py, the supervisor process it starts, the guard *)
(* process of ui/process_guard.py between supervisor and llama-server, and *)
(* the lock file, the lease, that admits one supervisor per user.          *)
(*                                                                         *)
(* The lease is a flock on a file opened by the supervisor and inherited   *)
(* by guard and model: it is free when the last of them is gone.  The      *)
(* guard reads a pipe whose write end only the supervisor has: its end of  *)
(* file is the supervisor's death.  Every process can be killed at any     *)
(* step (SIGKILL), a model may ignore SIGTERM, and one that hangs in the   *)
(* kernel does not even end by SIGKILL.                                    *)
(*                                                                         *)
(* A guard and its model are named by one identity, used again when        *)
(* nothing refers to it.  What the supervisor's threads do among           *)
(* themselves is in Supervisor; here _process_lock makes one caller of     *)
(* them.                                                                   *)
(***************************************************************************)
EXTENDS Integers

CONSTANTS
  Sups,     \* supervisor processes, one per launch of LocalCode
  Guards,   \* guards, each with the model it starts
  None      \* Python's None

ASSUME NoneAssumption == None \notin Sups \cup Guards

VARIABLES
  launcher, \* the launcher of each supervisor: "off", "up" or "gone"
  sup,      \* the supervisor process
  proc,     \* Supervisor.proc: the guard it started last
  owner,    \* the supervisor that started the guard
  guard,    \* where the guard is in main()
  stop,     \* the guard's stop event
  pipe,     \* the write end of the guard's stdin is open
  model,    \* the model process
  lost      \* history: guards that were killed, or that gave up on their model

procs == <<launcher, sup, proc>>
vars  == <<procs, owner, guard, stop, pipe, model, lost>>

SupStates   == {"off", "started", "up", "halting", "restarting", "closing", "dead"}
GuardStates == {"none", "boot", "armed", "checked", "watch", "term", "kill", "dead"}
ModelStates == {"none", "up", "told", "doomed", "dead"}

TypeOK ==
  /\ launcher \in [Sups -> {"off", "up", "gone"}]
  /\ sup \in [Sups -> SupStates]
  /\ proc \in [Sups -> Guards \cup {None}]
  /\ owner \in [Guards -> Sups \cup {None}]
  /\ guard \in [Guards -> GuardStates]
  /\ stop \in [Guards -> BOOLEAN] /\ pipe \in [Guards -> BOOLEAN]
  /\ model \in [Guards -> ModelStates]
  /\ lost \in SUBSET Guards

Init ==
  /\ launcher = [s \in Sups |-> "off"]
  /\ sup = [s \in Sups |-> "off"]
  /\ proc = [s \in Sups |-> None]
  /\ owner = [g \in Guards |-> None]
  /\ guard = [g \in Guards |-> "none"]
  /\ stop = [g \in Guards |-> FALSE] /\ pipe = [g \in Guards |-> FALSE]
  /\ model = [g \in Guards |-> "none"]
  /\ lost = {}

-----------------------------------------------------------------------------

Admitted(s)   == sup[s] \in {"up", "halting", "restarting", "closing"}
Existing(s)   == Admitted(s) \/ sup[s] = "started"
GuardAlive(g) == guard[g] \notin {"none", "dead"}
ModelAlive(g) == model[g] \notin {"none", "dead"}

(* Mutant: the guard does not pass the lease on to the model.              *)
HasLeaseBriefly(s) ==
  Admitted(s) \/ \E g \in Guards : owner[g] = s /\ GuardAlive(g)

(* Some process has the file of the lease open, by inheritance from s.     *)
HasLease(s) ==
  Admitted(s) \/ \E g \in Guards : owner[g] = s /\ (GuardAlive(g) \/ ModelAlive(g))

Become(s, state) == sup' = [sup EXCEPT ![s] = state]
Goto(g, place)   == guard' = [guard EXCEPT ![g] = place]

-----------------------------------------------------------------------------
(* Launcher and supervisor.                                                *)

(* A launch that has found no running session, see launch.main().          *)
Launch(s) ==
  /\ launcher[s] = "off"
  /\ launcher' = [launcher EXCEPT ![s] = "up"]
  /\ Become(s, "started")
  /\ UNCHANGED <<proc, owner, guard, stop, pipe, model, lost>>

(* The launcher leaves when the session ends, when it sees that its        *)
(* supervisor is gone, or because it is killed.                            *)
LauncherEnds(s) ==
  /\ launcher[s] = "up"
  /\ launcher' = [launcher EXCEPT ![s] = "gone"]
  /\ UNCHANGED <<sup, proc, owner, guard, stop, pipe, model, lost>>

(* flock(LOCK_EX | LOCK_NB): admitted, or refused for good.                *)
TakeLease(s) ==
  /\ sup[s] = "started"
  /\ Become(s, IF \E t \in Sups : HasLease(t) THEN "dead" ELSE "up")
  /\ UNCHANGED <<launcher, proc, owner, guard, stop, pipe, model, lost>>

(* proc.terminate(): a guard that has not installed its handlers yet dies  *)
(* of the signal, a later one sets its stop event.                         *)
Terminate(g) ==
  /\ Goto(g, IF guard[g] = "boot" THEN "dead" ELSE guard[g])
  /\ stop' = [stop EXCEPT ![g] = @ \/ guard[g] \in {"armed", "checked", "watch"}]

(* The beginning of stop(), called alone, by start() or by shutdown().     *)
StopBegin(s, state) ==
  /\ sup[s] = "up"
  /\ Become(s, state)
  /\ IF proc[s] # None THEN Terminate(proc[s]) ELSE UNCHANGED <<guard, stop>>
  /\ UNCHANGED <<launcher, proc, owner, pipe, model, lost>>

(* The signal handler bye(): a signal from outside, the launcher's         *)
(* cleanup, or watch_launcher() that finds the launcher gone.              *)
Shutdown(s) == StopBegin(s, "closing")

(* Mutant: stop() does not wait for the guard.                             *)
StoppedAtOnce(s) == \A g \in Guards : proc[s] = g => stop[g] \/ ~GuardAlive(g)

(* proc.wait() has returned, or there was nothing to wait for.             *)
Stopped(s) == \A g \in Guards : proc[s] = g => ~GuardAlive(g)

ClosePipes(S) == pipe' = [g \in Guards |-> pipe[g] /\ g \notin S]

StopEnd(s) ==
  /\ sup[s] = "halting" /\ Stopped(s)
  /\ Become(s, "up")
  /\ ClosePipes({proc[s]})
  /\ proc' = [proc EXCEPT ![s] = None]
  /\ UNCHANGED <<launcher, owner, guard, stop, model, lost>>

Unused(g) == ~GuardAlive(g) /\ ~ModelAlive(g)

(* start() goes on with spawn_owned(); the guard inherits the lease.       *)
Spawn(s) ==
  /\ sup[s] = "restarting" /\ Stopped(s)
  /\ \E g \in Guards :
       /\ Unused(g)
       /\ proc' = [proc EXCEPT ![s] = g]
       /\ owner' = [owner EXCEPT ![g] = s]
       /\ Goto(g, "boot")
       /\ stop' = [stop EXCEPT ![g] = FALSE]
       /\ pipe' = [h \in Guards |-> h = g \/ (pipe[h] /\ h # proc[s])]
       /\ model' = [model EXCEPT ![g] = "none"]
       /\ lost' = lost \ {g}
  /\ Become(s, "up")
  /\ UNCHANGED launcher

(* The end of the supervisor process closes the pipes it has.              *)
Dies(s) ==
  /\ Become(s, "dead")
  /\ ClosePipes({g \in Guards : owner[g] = s})
  /\ UNCHANGED <<launcher, proc, owner, guard, stop, model, lost>>

Exit(s) == sup[s] = "closing" /\ Stopped(s) /\ Dies(s)

(* SIGKILL, also the launcher's after 35 seconds of waiting.               *)
SupKilled(s) == Existing(s) /\ Dies(s)

-----------------------------------------------------------------------------
(* The guard: process_guard.main().                                        *)

(* Handlers installed and watch_owner started.                             *)
Arm(g) ==
  /\ guard[g] = "boot" /\ Goto(g, "armed")
  /\ UNCHANGED <<procs, owner, stop, pipe, model, lost>>

(* Mutant: the guard looks at the pipe only until it starts the model.     *)
OwnerGoneEarly(g) ==
  /\ guard[g] \in {"armed", "checked"} /\ ~pipe[g] /\ ~stop[g]
  /\ stop' = [stop EXCEPT ![g] = TRUE]
  /\ UNCHANGED <<procs, owner, guard, pipe, model, lost>>

(* The read of watch_owner() finds the end of the pipe.                    *)
OwnerGone(g) ==
  /\ guard[g] \in {"armed", "checked", "watch"} /\ ~pipe[g] /\ ~stop[g]
  /\ stop' = [stop EXCEPT ![g] = TRUE]
  /\ UNCHANGED <<procs, owner, guard, pipe, model, lost>>

CheckStop(g) ==
  /\ guard[g] = "armed"
  /\ Goto(g, IF stop[g] THEN "dead" ELSE "checked")
  /\ UNCHANGED <<procs, owner, stop, pipe, model, lost>>

(* Popen of the model, which inherits the lease, or its failure.           *)
Fork(g) ==
  /\ guard[g] = "checked"
  /\ \/ Goto(g, "watch") /\ model' = [model EXCEPT ![g] = "up"]
     \/ Goto(g, "dead") /\ UNCHANGED model
  /\ UNCHANGED <<procs, owner, stop, pipe, lost>>

(* The loop ends because of stop while the model runs: SIGTERM to it.      *)
Ask(g) ==
  /\ guard[g] = "watch" /\ stop[g] /\ ModelAlive(g)
  /\ Goto(g, "term")
  /\ model' = [model EXCEPT ![g] = "told"]
  /\ UNCHANGED <<procs, owner, stop, pipe, lost>>

(* Ten seconds later: SIGKILL.                                             *)
Insist(g) ==
  /\ guard[g] = "term" /\ ModelAlive(g)
  /\ Goto(g, "kill")
  /\ model' = [model EXCEPT ![g] = "doomed"]
  /\ UNCHANGED <<procs, owner, stop, pipe, lost>>

(* The model is reaped, in the loop or by wait(), and the guard returns.   *)
Reap(g) ==
  /\ guard[g] \in {"watch", "term", "kill"} /\ ~ModelAlive(g)
  /\ Goto(g, "dead")
  /\ UNCHANGED <<procs, owner, stop, pipe, model, lost>>

(* Five seconds after SIGKILL wait() raises and the guard leaves a model   *)
(* that hangs in the kernel.                                               *)
GiveUp(g) ==
  /\ guard[g] = "kill" /\ ModelAlive(g)
  /\ Goto(g, "dead")
  /\ lost' = lost \cup {g}
  /\ UNCHANGED <<procs, owner, stop, pipe, model>>

(* SIGKILL for the guard: from outside, or by a stop() that has waited 20  *)
(* seconds (the guard's own time limits sum to 15).                        *)
GuardKilled(g) ==
  /\ GuardAlive(g)
  /\ Goto(g, "dead")
  /\ lost' = lost \cup {g}
  /\ UNCHANGED <<procs, owner, stop, pipe, model>>

(* The model ends: a crash, SIGTERM, SIGKILL.                              *)
ModelEnds(g) ==
  /\ ModelAlive(g)
  /\ model' = [model EXCEPT ![g] = "dead"]
  /\ UNCHANGED <<procs, owner, guard, stop, pipe, lost>>

-----------------------------------------------------------------------------

SupStep(s) == TakeLease(s) \/ StopEnd(s) \/ Spawn(s) \/ Exit(s)

GuardStep(g) ==
  \/ Arm(g) \/ OwnerGone(g) \/ CheckStop(g) \/ Fork(g) \/ Ask(g) \/ Insist(g) \/ Reap(g)

Next ==
  \/ \E s \in Sups :
       \/ Launch(s) \/ LauncherEnds(s) \/ SupStep(s) \/ SupKilled(s) \/ Shutdown(s)
       \/ \E state \in {"halting", "restarting"} : StopBegin(s, state)
  \/ \E g \in Guards : GuardStep(g) \/ GiveUp(g) \/ GuardKilled(g) \/ ModelEnds(g)

Spec == Init /\ [][Next]_vars

(* Processes that are not killed run.  watch_launcher() looks every half   *)
(* second, the launcher looks after its supervisor as often, and a model   *)
(* that got SIGKILL goes unless its guard has had to give up on it.        *)
(* Nothing obliges a model to obey SIGTERM.                                *)
Fairness ==
  /\ \A s \in Sups :
       /\ WF_vars(TakeLease(s)) /\ WF_vars(StopEnd(s)) /\ WF_vars(Spawn(s)) /\ WF_vars(Exit(s))
       /\ WF_vars(sup[s] = "dead" /\ LauncherEnds(s))
       /\ SF_vars(launcher[s] = "gone" /\ Shutdown(s))
  /\ \A g \in Guards :
       WF_vars(GuardStep(g)) /\ WF_vars(model[g] = "doomed" /\ g \notin lost /\ ModelEnds(g))

FairSpec == Spec /\ Fairness

-----------------------------------------------------------------------------
(* An admitted supervisor is alone: whatever was killed before, no model   *)
(* of an earlier launch runs any more (supervisor.py:1341, "so a killed    *)
(* supervisor cannot allow a second model").                               *)
SoleSupervisor ==
  \A s \in Sups : Admitted(s) =>
    /\ \A t \in Sups : Admitted(t) => t = s
    /\ \A g \in Guards : ModelAlive(g) => owner[g] = s

(* stop() and spawn leave no old model behind: two models run only when    *)
(* the guard of one was killed or its model could not be.                  *)
OneModel ==
  \A g, h \in Guards :
    ModelAlive(g) /\ ModelAlive(h) /\ g # h => g \in lost \/ h \in lost

(* When launcher or supervisor is gone, however it went, guard and model   *)
(* end and the lease returns, unless a guard was killed and left a model.  *)
SessionEnds ==
  \A s \in Sups :
    (launcher[s] = "gone" \/ sup[s] = "dead")
      ~> (~HasLease(s) \/ \E g \in lost : owner[g] = s /\ ModelAlive(g))
=============================================================================
