-------------------------- MODULE Supervisor_proofs --------------------------
(***************************************************************************)
(* Machine-checked theorems about Supervisor, for every set of models,     *)
(* request threads and process identities:                                 *)
(*                                                                         *)
(*   TypeCorrect      TypeOK is an invariant;                              *)
(*   SingleModel      OnlyProcLives is an invariant;                       *)
(*   ShutdownIsFinal  NoModelAfterShutdown is an invariant;                *)
(*   RepliesSpared    SparesActiveReply is an invariant;                   *)
(*   OldModelKept     every step is one of FailedSwitchKeepsOldModel;      *)
(*                                                                         *)
(* and, each for the configurations in which it is true:                   *)
(*                                                                         *)
(*   OperationIsNoCrash  OperationIsNotACrash, without an initial load;    *)
(*   CancelIsHeard    CancelStopsDownload, without vision installs;        *)
(*   BusyHasOwner     BusyStateIsOwned, unless start() raises where        *)
(*                    nothing catches it;                                  *)
(*   DecisionIsNamed  DecisionFromNamedModel, and                          *)
(*   StatusTold       StatusIsTrue, when only requests load models.        *)
(*                                                                         *)
(* None of them is inductive.  Inv adds what the first three rest on: who  *)
(* is between the two ends of a `with self._process_lock` owns it, nothing *)
(* runs once terminate() and wait() have returned, and `closing` is set    *)
(* before the main thread asks for the lock.  The last five rest on Owner, *)
(* who holds self.lock, and on what its holder has done so far.            *)
(***************************************************************************)
EXTENDS Supervisor, TLAPS

(* The positions inside `with self._process_lock`.                         *)
Holding == {"kill", "clear", "spawn", "hkill", "hclear"}

PlockOwned == \A t \in Threads : pc[t] \in Holding => plock = t

NothingRuns == \A p \in Pids : ~Alive(p)

Emptied == \A t \in Threads : pc[t] \in {"clear", "spawn", "hclear"} => NothingRuns

(* The main thread runs no operation of the API: it loads, serves, exits.  *)
MainShape ==
  \/ op[Main] = "none" /\ pc[Main] \in {"boot", "serving"}
  \/ op[Main] = "main" /\ pc[Main] \in Starting
  \/ op[Main] = "exit" /\ pc[Main] \in {"exit", "exited"} \cup Halting

ClosingFirst == Exiting /\ pc[Main] \in {"exited"} \cup Halting => closing

NoSuccessor ==
  Exiting /\ pc[Main] \in {"halted", "exited"}
    => NothingRuns /\ \A t \in Threads : pc[t] \notin {"kill", "clear", "spawn"}

(* A probe is a poll that was allowed: the count stays within its bound.   *)
PollsBounded == \A t \in Threads : pc[t] = "probe" => tries[t] < Retries

(* A selection is of an alias of the catalog until its file is there.      *)
Chosen == \A t \in Threads : pc[t] \in {"check", "begin", "worker", "fetch"} => tgt[t] \in Alias

Safe ==
  /\ PlockOwned /\ Emptied /\ OnlyProcLives
  /\ MainShape /\ ClosingFirst /\ NoSuccessor

Typed == TypeOK /\ PollsBounded /\ Chosen

Inv == Typed /\ Safe

-----------------------------------------------------------------------------
(* Facts about the constants and the positions.                            *)

LEMMA MainIsNoClient == /\ Main \in Threads /\ Watchdog \in Threads /\ Clients \subseteq Threads
                        /\ \A c \in Clients : c # Main
                        /\ Watchdog # Main
  BY ThreadAssumption DEF Threads

LEMMA NoneIsNothing == None \notin Pids /\ None \notin Threads
  BY NoneAssumption

(* Everything holds at the start.                                          *)
LEMMA InitInv == Init => Inv
<1> SUFFICES ASSUME Init PROVE Inv
  OBVIOUS
<1> USE MainIsNoClient, NoneAssumption, OptionAssumption DEF Init
<1>1. TypeOK
  <2>1. pc \in [Threads -> Places]
    BY DEF Places, Resting
  <2>2. op \in [Threads -> OpKinds \cup {"main", "watch", "exit", "none"}] /\ st \in States
    BY DEF States, BusyStates
  <2>3. tries \in [Threads -> 0 .. Retries]
    OBVIOUS
  <2> QED
    BY <2>1, <2>2, <2>3 DEF TypeOK
<1>2. PollsBounded /\ Chosen
  BY DEF PollsBounded, Chosen
<1>3. Safe
  BY DEF Safe, PlockOwned, Emptied, OnlyProcLives, NothingRuns, Alive, MainShape, ClosingFirst,
         NoSuccessor, Exiting, Holding
<1> QED
  BY <1>1, <1>2, <1>3 DEF Inv, Typed

(* A step that moves one thread but the main one to a place outside the    *)
(* lock, and touches neither the processes nor what guards them.           *)
LEMMA QuietStep ==
  ASSUME Safe, TypeOK, NEW t \in Threads, t # Main, NEW place \in Places \ Holding,
         pc' = [pc EXCEPT ![t] = place], op'[Main] = op[Main],
         UNCHANGED <<plock, closing, status, proc>>
  PROVE  Safe'
  BY MainIsNoClient
     DEF Safe, TypeOK, PlockOwned, Emptied, OnlyProcLives, NothingRuns, Alive, MainShape,
         ClosingFirst, NoSuccessor, Exiting, Holding

-----------------------------------------------------------------------------
(* Types are preserved, action by action.                                  *)

LEMMA KillTyped ==
  ASSUME Typed, NEW t \in Threads, NEW from, NEW to \in Committed \ {"probe"}, Kill(t, from, to)
  PROVE  Typed'
<1> USE DEF Typed, TypeOK, PollsBounded, Chosen, Kill, Goto, Places, Committed, Starting,
            Halting, Downloading, Checking, Asking,
            Resting, locks, flags, fields
<1>1. pc' \in [Threads -> Places]
  OBVIOUS
<1>2. status' \in [Pids -> {"dead", "loading", "up"}]
  BY DEF Running
<1>3. model' \in [Pids -> Alias \cup {None}]
  BY DEF Running
<1>4. late' \in SUBSET Threads
  OBVIOUS
<1>5. busy' \in BOOLEAN
  OBVIOUS
<1>6. PollsBounded' /\ Chosen'
  OBVIOUS
<1> QED
  BY <1>1, <1>2, <1>3, <1>4, <1>5, <1>6

LEMMA ThreadTyped ==
  ASSUME Typed, NEW t \in Threads, ThreadStep(t) PROVE Typed'
<1> USE MainIsNoClient, OptionAssumption
    DEF Typed, TypeOK, PollsBounded, Chosen, Places, Starting, Halting, Committed, Downloading,
        Checking,
        Asking, Resting, OpKinds, States, BusyStates,
        locals, locks, flags, fields, world, ghosts
<1>1. CASE StartCheck(t)
  BY <1>1 DEF StartCheck, At, Goto, Continue, Settle, Leave, Forget, Home
<1>2. CASE StartEnter(t)
  BY <1>2 DEF StartEnter, At, Goto, Continue, Settle, Leave, Forget, Home
<1>3. CASE Kill(t, "kill", "clear")
  BY <1>3, KillTyped
<1>4. CASE StartClear(t)
  BY <1>4 DEF StartClear, At, Goto, Continue, Settle, Leave, Forget, Home
<1>5. CASE StartSpawn(t)
  BY <1>5 DEF StartSpawn, At, Goto, Continue, Settle, Leave, Forget, Home
<1>6. CASE StartRaise(t)
  BY <1>6 DEF StartRaise, At, Goto, Continue, Settle, Leave, Forget, Home
<1>7. CASE WaitPoll(t)
  BY <1>7 DEF WaitPoll, At, Goto, Continue, Settle, Leave, Forget, Home
<1>8. CASE WaitProbe(t)
  BY <1>8 DEF WaitProbe, At, Goto, Continue, Settle, Leave, Forget, Home
<1>9. CASE HaltEnter(t)
  BY <1>9 DEF HaltEnter, At, Goto, Continue, Settle, Leave, Forget, Home
<1>10. CASE Kill(t, "hkill", "hclear")
  BY <1>10, KillTyped
<1>11. CASE HaltClear(t)
  BY <1>11 DEF HaltClear, At, Goto, Continue, Settle, Leave, Forget, Home
<1>12. CASE Loaded(t)
  BY <1>12 DEF Loaded, At, Goto, Continue, Settle, Leave, Forget, Home
<1>13. CASE SelectFailed(t)
  BY <1>13 DEF SelectFailed, At, Goto, Continue, Settle, Leave, Forget, Home
<1>14. CASE ActionFailed(t)
  BY <1>14 DEF ActionFailed, At, Goto, Continue, Settle, Leave, Forget, Home
<1>15. CASE RestartFailed(t)
  BY <1>15 DEF RestartFailed, At, Goto, Continue, Settle, Leave, Forget, Home
<1>16. CASE RestartRaised(t)
  BY <1>16 DEF RestartRaised, At, Goto, Continue, Settle, Leave, Forget, Home
<1>17. CASE Halted(t)
  BY <1>17 DEF Halted, At, Goto, Continue, Settle, Leave, Forget, Home
<1>18. CASE Release(t)
  BY <1>18 DEF Release, At, Goto, Continue, Settle, Leave, Forget, Home
<1> QED
  BY <1>1, <1>2, <1>3, <1>4, <1>5, <1>6, <1>7, <1>8, <1>9, <1>10, <1>11, <1>12, <1>13,
     <1>14, <1>15, <1>16, <1>17, <1>18
     DEF ThreadStep, StartStep, Outcome

LEMMA ClientTyped ==
  ASSUME Typed, NEW c \in Clients, ClientStep(c) PROVE Typed'
<1> USE MainIsNoClient, OptionAssumption
    DEF Typed, TypeOK, PollsBounded, Chosen, Places, Starting, Halting, Committed, Downloading,
        Checking,
        Asking, Resting, OpKinds, States, BusyStates,
        locals, locks, flags, fields, world, ghosts
<1>1. CASE \E a \in Alias : Select(c, a)
  BY <1>1 DEF Select, At, Goto, Continue, Settle, Leave, Forget, Home, Acquire
<1>2. CASE SelectCheck(c)
  BY <1>2 DEF SelectCheck, At, Goto, Continue, Settle, Leave, Forget, Home, Acquire
<1>3. CASE SelectAccept(c)
  <2>1. cancel' \in BOOLEAN
    BY <1>3 DEF SelectAccept
  <2> QED
    BY <1>3, <2>1 DEF SelectAccept, At, Goto, Continue, Settle, Leave, Forget, Home, Acquire
<1>4. CASE SelectReject(c)
  BY <1>4 DEF SelectReject, At, Goto, Continue, Settle, Leave, Forget, Home, Acquire
<1>5. CASE SelectWorker(c)
  BY <1>5 DEF SelectWorker, At, Goto, Continue, Settle, Leave, Forget, Home, Acquire
<1>6. CASE Progress(c)
  BY <1>6 DEF Progress, At, Goto, Continue, Settle, Leave, Forget, Home, Acquire
<1>7. CASE Fetched(c)
  <2>1. disk' \in SUBSET Alias
    <3>1. disk' = disk \cup {tgt[c]} \/ disk' = disk
      BY <1>7, Zenon DEF Fetched
    <3>2. tgt[c] \in Alias
      BY <1>7 DEF Fetched, At
    <3> QED
      BY <3>1, <3>2
  <2>2. st' \in States /\ pc' \in [Threads -> Places] /\ PollsBounded' /\ Chosen'
    BY <1>7 DEF Fetched, At, Goto
  <2> QED
    BY <1>7, <2>1, <2>2 DEF Fetched
<1>8. CASE DrafterDone(c)
  BY <1>8 DEF DrafterDone, At, Goto, Continue, Settle, Leave, Forget, Home, Acquire
<1>9. CASE SelectRecheck(c)
  BY <1>9 DEF SelectRecheck, At, Goto, Continue, Settle, Leave, Forget, Home, Acquire
<1>10. CASE \E kind \in {"astart", "astop", "fstop"} : ServerAction(c, kind)
  BY <1>10 DEF ServerAction, At, Goto, Continue, Settle, Leave, Forget, Home, Acquire
<1>11. CASE ActionRefused(c)
  BY <1>11 DEF ActionRefused, At, Goto, Continue, Settle, Leave, Forget, Home, Acquire
<1>12. CASE ActionStopped(c)
  BY <1>12 DEF ActionStopped, At, Goto, Continue, Settle, Leave, Forget, Home, Acquire
<1>13. CASE ActionStop(c)
  BY <1>13 DEF ActionStop, At, Goto, Continue, Settle, Leave, Forget, Home, Acquire
<1>14. CASE ActionStart(c)
  BY <1>14 DEF ActionStart, At, Goto, Continue, Settle, Leave, Forget, Home, Acquire
<1>15. CASE StopRecheck(c)
  BY <1>15 DEF StopRecheck, At, Goto, Continue, Settle, Leave, Forget, Home, Acquire
<1>16. CASE StartCurrent(c)
  BY <1>16 DEF StartCurrent, At, Goto, Continue, Settle, Leave, Forget, Home, Acquire
<1>17. CASE Vision(c)
  BY <1>17 DEF Vision, At, Goto, Continue, Settle, Leave, Forget, Home, Acquire
<1>18. CASE ProjectorDone(c)
  BY <1>18 DEF ProjectorDone, At, Goto, Continue, Settle, Leave, Forget, Home, Acquire
<1>19. CASE CancelCheck(c)
  BY <1>19 DEF CancelCheck, At, Goto, Continue, Settle, Leave, Forget, Home, Acquire
<1>20. CASE CancelSet(c)
  <2>1. cancel' \in BOOLEAN
    BY <1>20 DEF CancelSet
  <2> QED
    BY <1>20, <2>1 DEF CancelSet, At, Goto, Continue, Settle, Leave, Forget, Home, Acquire
<1>21. CASE DirCheck(c)
  BY <1>21 DEF DirCheck, At, Goto, Continue, Settle, Leave, Forget, Home, Acquire
<1>22. CASE DirSet(c)
  BY <1>22 DEF DirSet, At, Goto, Continue, Settle, Leave, Forget, Home, Acquire
<1>23. CASE DecisionCheck(c)
  BY <1>23 DEF DecisionCheck, At, Goto, Continue, Settle, Leave, Forget, Home, Acquire
<1>24. CASE DecisionCapture(c)
  BY <1>24 DEF DecisionCapture, At, Goto, Continue, Settle, Leave, Forget, Home, Acquire
<1>25. CASE DecisionPost(c)
  BY <1>25 DEF DecisionPost, At, Goto, Continue, Settle, Leave, Forget, Home, Acquire
<1>26. CASE DecisionVerify(c)
  BY <1>26 DEF DecisionVerify, At, Goto, Continue, Settle, Leave, Forget, Home, Acquire
<1>27. CASE DecisionReturn(c)
  BY <1>27 DEF DecisionReturn, At, Goto, Continue, Settle, Leave, Forget, Home, Acquire
<1> QED
  BY <1>1, <1>2, <1>3, <1>4, <1>5, <1>6, <1>7, <1>8, <1>9, <1>10, <1>11, <1>12, <1>13,
     <1>14, <1>15, <1>16, <1>17, <1>18, <1>19, <1>20, <1>21, <1>22, <1>23, <1>24, <1>25,
     <1>26, <1>27
     DEF ClientStep, SelectStep, ActionStep, OtherStep

LEMMA OtherTyped ==
  ASSUME Typed, MainStep \/ Signal \/ WatchStep \/ CooldownOver \/ World \/ UNCHANGED vars
  PROVE  Typed'
<1> USE MainIsNoClient, OptionAssumption
    DEF Typed, TypeOK, PollsBounded, Chosen, Places, Starting, Halting, Committed, Downloading,
        Checking,
        Asking, Resting, OpKinds, States, BusyStates,
        locals, locks, flags, fields, world, ghosts
<1>1. CASE Boot
  BY <1>1 DEF Boot, At, Goto, Continue, LeaveMain, Forget, Acquire
<1>2. CASE BootLoaded
  BY <1>2 DEF BootLoaded, At, Goto, Continue, LeaveMain, Forget, Acquire
<1>3. CASE BootFailed
  BY <1>3 DEF BootFailed, At, Goto, Continue, LeaveMain, Forget, Acquire
<1>4. CASE Signal
  BY <1>4 DEF Signal, At, Goto, Continue, LeaveMain, Forget, Acquire
<1>5. CASE Shutdown
  <2>1. closing' \in BOOLEAN /\ cancel' \in BOOLEAN
    BY <1>5 DEF Shutdown
  <2> QED
    BY <1>5, <2>1 DEF Shutdown, At, Goto, Continue, LeaveMain, Forget, Acquire
<1>6. CASE Exit
  BY <1>6 DEF Exit, At, Goto, Continue, LeaveMain, Forget, Acquire
<1>7. CASE WatchLook
  BY <1>7 DEF WatchLook, At, Goto, Continue, LeaveMain, Forget, Acquire
<1>8. CASE WatchSkip
  BY <1>8 DEF WatchSkip, At, Goto, Continue, LeaveMain, Forget, Acquire
<1>9. CASE WatchGrab
  <2>1. cooling' \in BOOLEAN
    BY <1>9 DEF WatchGrab
  <2> QED
    BY <1>9, <2>1 DEF WatchGrab, At, Goto, Continue, LeaveMain, Forget, Acquire
<1>10. CASE CooldownOver
  <2>1. cooling' \in BOOLEAN
    BY <1>10 DEF CooldownOver
  <2> QED
    BY <1>10, <2>1 DEF CooldownOver, At, Goto, Continue, LeaveMain, Forget, Acquire
<1>11. CASE \E p \in Pids : LoadDone(p)
  BY <1>11 DEF LoadDone, At, Goto, Continue, LeaveMain, Forget, Acquire
<1>12. CASE \E p \in Pids : Die(p)
  <2>1. status' \in [Pids -> {"dead", "loading", "up"}]
    BY <1>12 DEF Die
  <2>2. model' \in [Pids -> Alias \cup {None}]
    BY <1>12 DEF Die
  <2>3. late' \in SUBSET Threads
    BY <1>12 DEF Die
  <2>4. busy' \in BOOLEAN
    BY <1>12 DEF Die
  <2>5. PollsBounded' /\ Chosen'
    BY <1>12 DEF Die
  <2> QED
    BY <1>12, <2>1, <2>2, <2>3, <2>4, <2>5 DEF Die
<1>13. CASE BeginRequest
  <2>1. busy' \in BOOLEAN
    BY <1>13 DEF BeginRequest
  <2> QED
    BY <1>13, <2>1 DEF BeginRequest, At, Goto, Continue, LeaveMain, Forget, Acquire
<1>14. CASE EndRequest
  <2>1. busy' \in BOOLEAN
    BY <1>14 DEF EndRequest
  <2> QED
    BY <1>14, <2>1 DEF EndRequest, At, Goto, Continue, LeaveMain, Forget, Acquire
<1>15. CASE UNCHANGED vars
  BY <1>15 DEF vars
<1> QED
  BY <1>1, <1>2, <1>3, <1>4, <1>5, <1>6, <1>7, <1>8, <1>9, <1>10, <1>11, <1>12, <1>13,
     <1>14, <1>15
     DEF MainStep, WatchStep, World

-----------------------------------------------------------------------------
(* Safety is preserved.  start() and stop() first: the steps that touch    *)
(* the lock, the processes or self.proc.                                   *)

LEMMA StartSafe ==
  ASSUME Inv, NEW t \in Threads, StartStep(t) PROVE Safe'
<1> USE MainIsNoClient, NoneIsNothing
    DEF Inv, Typed, TypeOK, Safe, PlockOwned, Emptied, OnlyProcLives, NothingRuns, Alive,
        MainShape, ClosingFirst, NoSuccessor, Exiting, Holding, Starting, Halting, Goto, At,
        locks, flags, fields, world, ghosts
<1>1. CASE StartCheck(t)
  BY <1>1 DEF StartCheck
<1>2. CASE StartEnter(t)
  BY <1>2 DEF StartEnter
<1>3. CASE Kill(t, "kill", "clear")
  BY <1>3 DEF Kill, Running
<1>4. CASE StartClear(t)
  BY <1>4 DEF StartClear
<1>5. CASE StartSpawn(t)
  BY <1>5 DEF StartSpawn
<1>6. CASE StartRaise(t)
  BY <1>6 DEF StartRaise
<1>7. CASE WaitPoll(t)
  BY <1>7 DEF WaitPoll
<1>8. CASE WaitProbe(t)
  BY <1>8 DEF WaitProbe
<1>9. CASE HaltEnter(t)
  BY <1>9 DEF HaltEnter
<1>10. CASE Kill(t, "hkill", "hclear")
  BY <1>10 DEF Kill, Running
<1>11. CASE HaltClear(t)
  BY <1>11 DEF HaltClear
<1> QED
  BY <1>1, <1>2, <1>3, <1>4, <1>5, <1>6, <1>7, <1>8, <1>9, <1>10, <1>11
     DEF StartStep

LEMMA OutcomeSafe ==
  ASSUME Inv, NEW t \in Threads, Outcome(t) PROVE Safe'
<1> USE MainIsNoClient
    DEF Inv, Typed, TypeOK, Safe, PlockOwned, Emptied, OnlyProcLives, NothingRuns, Alive,
        MainShape, ClosingFirst, NoSuccessor, Exiting, Holding, Starting, Halting, Goto, At,
        locks, flags, fields, world, ghosts
<1>1. CASE Loaded(t)
  BY <1>1 DEF Loaded, Settle, Continue, Leave, Forget, Home
<1>2. CASE SelectFailed(t)
  BY <1>2 DEF SelectFailed, Settle, Continue, Leave, Forget, Home
<1>3. CASE ActionFailed(t)
  BY <1>3 DEF ActionFailed, Settle, Continue, Leave, Forget, Home
<1>4. CASE RestartFailed(t)
  BY <1>4 DEF RestartFailed, Settle, Continue, Leave, Forget, Home
<1>5. CASE RestartRaised(t)
  BY <1>5 DEF RestartRaised, Settle, Continue, Leave, Forget, Home
<1>6. CASE Halted(t)
  BY <1>6 DEF Halted, Settle, Continue, Leave, Forget, Home
<1>7. CASE Release(t)
  BY <1>7 DEF Release, Settle, Continue, Leave, Forget, Home
<1> QED
  BY <1>1, <1>2, <1>3, <1>4, <1>5, <1>6, <1>7
     DEF Outcome

(* The steps of the control API move one request thread between places     *)
(* outside the lock.                                                       *)
LEMMA ClientSafe ==
  ASSUME Inv, NEW c \in Clients, ClientStep(c) PROVE Safe'
<1> SUFFICES /\ UNCHANGED <<plock, closing, status, proc>> /\ op'[Main] = op[Main]
             /\ \E place \in Places \ Holding : pc' = [pc EXCEPT ![c] = place]
  BY QuietStep, MainIsNoClient DEF Inv, Typed
<1> USE MainIsNoClient
    DEF Inv, Typed, TypeOK, Places, Committed, Starting, Halting, Downloading, Checking, Asking,
        Resting, Holding, At, Goto, locks, flags, fields, world, ghosts, locals
<1>1. CASE \E a \in Alias : Select(c, a)
  BY <1>1 DEF Select, Continue, Settle, Leave, Forget, Home, Acquire
<1>2. CASE SelectCheck(c)
  BY <1>2 DEF SelectCheck, Continue, Settle, Leave, Forget, Home, Acquire
<1>3. CASE SelectAccept(c)
  BY <1>3 DEF SelectAccept, Continue, Settle, Leave, Forget, Home, Acquire
<1>4. CASE SelectReject(c)
  BY <1>4 DEF SelectReject, Continue, Settle, Leave, Forget, Home, Acquire
<1>5. CASE SelectWorker(c)
  BY <1>5 DEF SelectWorker, Continue, Settle, Leave, Forget, Home, Acquire
<1>6. CASE Progress(c)
  BY <1>6 DEF Progress, Continue, Settle, Leave, Forget, Home, Acquire
<1>7. CASE Fetched(c)
  BY <1>7 DEF Fetched, Continue, Settle, Leave, Forget, Home, Acquire
<1>8. CASE DrafterDone(c)
  BY <1>8 DEF DrafterDone, Continue, Settle, Leave, Forget, Home, Acquire
<1>9. CASE SelectRecheck(c)
  BY <1>9 DEF SelectRecheck, Continue, Settle, Leave, Forget, Home, Acquire
<1>10. CASE \E kind \in {"astart", "astop", "fstop"} : ServerAction(c, kind)
  BY <1>10 DEF ServerAction, Continue, Settle, Leave, Forget, Home, Acquire
<1>11. CASE ActionRefused(c)
  BY <1>11 DEF ActionRefused, Continue, Settle, Leave, Forget, Home, Acquire
<1>12. CASE ActionStopped(c)
  BY <1>12 DEF ActionStopped, Continue, Settle, Leave, Forget, Home, Acquire
<1>13. CASE ActionStop(c)
  BY <1>13 DEF ActionStop, Continue, Settle, Leave, Forget, Home, Acquire
<1>14. CASE ActionStart(c)
  BY <1>14 DEF ActionStart, Continue, Settle, Leave, Forget, Home, Acquire
<1>15. CASE StopRecheck(c)
  BY <1>15 DEF StopRecheck, Continue, Settle, Leave, Forget, Home, Acquire
<1>16. CASE StartCurrent(c)
  BY <1>16 DEF StartCurrent, Continue, Settle, Leave, Forget, Home, Acquire
<1>17. CASE Vision(c)
  BY <1>17 DEF Vision, Continue, Settle, Leave, Forget, Home, Acquire
<1>18. CASE ProjectorDone(c)
  BY <1>18 DEF ProjectorDone, Continue, Settle, Leave, Forget, Home, Acquire
<1>19. CASE CancelCheck(c)
  BY <1>19 DEF CancelCheck, Continue, Settle, Leave, Forget, Home, Acquire
<1>20. CASE CancelSet(c)
  BY <1>20 DEF CancelSet, Continue, Settle, Leave, Forget, Home, Acquire
<1>21. CASE DirCheck(c)
  BY <1>21 DEF DirCheck, Continue, Settle, Leave, Forget, Home, Acquire
<1>22. CASE DirSet(c)
  BY <1>22 DEF DirSet, Continue, Settle, Leave, Forget, Home, Acquire
<1>23. CASE DecisionCheck(c)
  BY <1>23 DEF DecisionCheck, Continue, Settle, Leave, Forget, Home, Acquire
<1>24. CASE DecisionCapture(c)
  BY <1>24 DEF DecisionCapture, Continue, Settle, Leave, Forget, Home, Acquire
<1>25. CASE DecisionPost(c)
  BY <1>25 DEF DecisionPost, Continue, Settle, Leave, Forget, Home, Acquire
<1>26. CASE DecisionVerify(c)
  BY <1>26 DEF DecisionVerify, Continue, Settle, Leave, Forget, Home, Acquire
<1>27. CASE DecisionReturn(c)
  BY <1>27 DEF DecisionReturn, Continue, Settle, Leave, Forget, Home, Acquire
<1> QED
  BY <1>1, <1>2, <1>3, <1>4, <1>5, <1>6, <1>7, <1>8, <1>9, <1>10, <1>11, <1>12, <1>13,
     <1>14, <1>15, <1>16, <1>17, <1>18, <1>19, <1>20, <1>21, <1>22, <1>23, <1>24, <1>25,
     <1>26, <1>27
     DEF ClientStep, SelectStep, ActionStep, OtherStep

LEMMA OtherSafe ==
  ASSUME Inv, MainStep \/ Signal \/ WatchStep \/ CooldownOver \/ World \/ UNCHANGED vars
  PROVE  Safe'
<1> USE MainIsNoClient
    DEF Inv, Typed, TypeOK, Safe, PlockOwned, Emptied, OnlyProcLives, NothingRuns, Alive,
        MainShape, ClosingFirst, NoSuccessor, Exiting, Holding, Starting, Halting, Goto, At,
        locals, locks, flags, fields, world, ghosts
<1>1. CASE Boot
  BY <1>1 DEF Boot
<1>2. CASE BootLoaded
  BY <1>2 DEF BootLoaded
<1>3. CASE BootFailed
  BY <1>3 DEF BootFailed, LeaveMain
<1>4. CASE Signal
  BY <1>4 DEF Signal, LeaveMain
<1>5. CASE Shutdown
  BY <1>5 DEF Shutdown
<1>6. CASE Exit
  BY <1>6 DEF Exit, Continue
<1>7. CASE WatchLook
  BY <1>7 DEF WatchLook, Forget, Acquire
<1>8. CASE WatchSkip
  BY <1>8 DEF WatchSkip, Forget, Acquire
<1>9. CASE WatchGrab
  BY <1>9 DEF WatchGrab, Forget, Acquire
<1>10. CASE CooldownOver
  BY <1>10 DEF CooldownOver
<1>11. CASE \E p \in Pids : LoadDone(p)
  BY <1>11 DEF LoadDone
<1>12. CASE \E p \in Pids : Die(p)
  BY <1>12 DEF Die
<1>13. CASE BeginRequest
  BY <1>13 DEF BeginRequest
<1>14. CASE EndRequest
  BY <1>14 DEF EndRequest
<1>15. CASE UNCHANGED vars
  BY <1>15 DEF vars
<1> QED
  BY <1>1, <1>2, <1>3, <1>4, <1>5, <1>6, <1>7, <1>8, <1>9, <1>10, <1>11, <1>12, <1>13,
     <1>14, <1>15
     DEF MainStep, WatchStep, World

-----------------------------------------------------------------------------
LEMMA NextInv == Inv /\ [Next]_vars => Inv'
<1> SUFFICES ASSUME Inv, [Next]_vars PROVE Inv'
  OBVIOUS
<1>1. ASSUME NEW t \in Threads, ThreadStep(t) PROVE Inv'
  BY <1>1, ThreadTyped, StartSafe, OutcomeSafe DEF ThreadStep, Inv
<1>2. ASSUME NEW c \in Clients, ClientStep(c) PROVE Inv'
  BY <1>2, ClientTyped, ClientSafe DEF Inv
<1>3. CASE MainStep \/ Signal \/ WatchStep \/ CooldownOver \/ World \/ UNCHANGED vars
  BY <1>3, OtherTyped, OtherSafe DEF Inv
<1> QED
  BY <1>1, <1>2, <1>3 DEF Next, Ended

LEMMA InvHolds == Spec => []Inv
  BY InitInv, NextInv, PTL DEF Spec

(* Every variable keeps its type.                                          *)
THEOREM TypeCorrect == Spec => []TypeOK
<1>1. Inv => TypeOK
  BY DEF Inv, Typed
<1> QED
  BY <1>1, InvHolds, PTL

(* Every start() and stop() of every thread takes its turn under plock, so *)
(* the process in self.proc is the only one that may run: a load never     *)
(* leaves its predecessor behind.                                          *)
THEOREM SingleModel == Spec => []OnlyProcLives
<1>1. Inv => OnlyProcLives
  BY DEF Inv, Safe
<1> QED
  BY <1>1, InvHolds, PTL

(* shutdown() wins: closing is set before the main thread waits for plock, *)
(* and every start() looks at it again under plock.                        *)
THEOREM ShutdownIsFinal == Spec => []NoModelAfterShutdown
<1>1. Inv => NoModelAfterShutdown
  BY DEF Inv, Safe, NoSuccessor, NoModelAfterShutdown, NothingRuns
<1> QED
  BY <1>1, InvHolds, PTL

-----------------------------------------------------------------------------
(***************************************************************************)
(* Replies and old models.  A switch and a plain stop spare a running      *)
(* reply: SparesActiveReply.  It rests on OnlyProcLives: a thread that     *)
(* finds self.proc idle or gone knows that no server has a request,        *)
(* because there is no other server.  And a switch that fails ends no      *)
(* process but its own: FailedSwitchKeepsOldModel, because identities that *)
(* a worker remembers are not given to new processes.                      *)
(***************************************************************************)

(* A request is served by a process that has come up.                      *)
BusyIsServed == busy => Serving

(* The positions that only one kind of operation comes to.                 *)
OpShape == \A c \in Clients :
  /\ pc[c] = "project" => op[c] = "vision"
  /\ pc[c] = "arun" => op[c] = "astart"
  /\ pc[c] = "acheck" => op[c] \in {"astart", "astop", "fstop"}
  /\ pc[c] = "arecheck" => op[c] \in {"astop", "fstop"}

Reply == BusyIsServed /\ OpShape /\ SparesActiveReply

Careful(t) == t \in Clients /\ op[t] \in {"select", "astop"}

Special == {"project", "arun", "acheck", "arecheck"}

LEMMA InitReply == Init => Reply
<1> SUFFICES ASSUME Init PROVE Reply
  OBVIOUS
<1>. QED
  BY MainIsNoClient
     DEF Init, Reply, BusyIsServed, OpShape, SparesActiveReply, Committed, Starting, Halting

(* A thread moves and the servers stay as they are.  It may only become    *)
(* committed if it is careless, or if no request is running.               *)
LEMMA MoveReply ==
  ASSUME TypeOK, Reply, NEW t \in Threads, NEW place \in Places \ Special,
         pc' = [pc EXCEPT ![t] = place], op' = [op EXCEPT ![t] = op'[t]],
         place \in Committed /\ busy /\ t \in Clients /\ op'[t] \in {"select", "astop"}
           => Careful(t) /\ pc[t] \in Committed,
         \/ late' = late
         \/ place \notin Committed /\ late' = late \ {t},
         UNCHANGED <<status, busy>>
  PROVE  Reply'
<1>1. BusyIsServed'
  BY DEF Reply, BusyIsServed, Serving
<1>2. \A u \in Threads : u # t => pc'[u] = pc[u] /\ op'[u] = op[u]
  BY DEF TypeOK
<1>3. pc'[t] = place
  BY DEF TypeOK
<1>4. OpShape'
  BY <1>2, <1>3, MainIsNoClient DEF Reply, OpShape, Special
<1>5. ASSUME NEW c \in Clients, op'[c] \in {"select", "astop"}, pc'[c] \in Committed, busy
      PROVE  c \in late'
  <2>1. CASE c = t
    BY <1>3, <1>5, <2>1 DEF Reply, SparesActiveReply, Careful
  <2>2. CASE c # t
    <3>1. op[c] \in {"select", "astop"} /\ pc[c] \in Committed
      BY <1>2, <1>5, <2>2, MainIsNoClient
    <3>2. c \in late
      BY <1>5, <3>1 DEF Reply, SparesActiveReply
    <3>. QED BY <3>2, <2>2
  <2>. QED BY <2>1, <2>2
<1>6. SparesActiveReply'
  BY <1>5 DEF SparesActiveReply
<1>. QED BY <1>1, <1>4, <1>6 DEF Reply

(* Without a running request nothing is spared.                            *)
LEMMA QuietReply ==
  ASSUME OpShape', ~ busy' PROVE Reply'
  BY DEF Reply, BusyIsServed, SparesActiveReply

(* A kill ends the request that was running; without a process it changes  *)
(* nothing.                                                                *)
LEMMA KillReply ==
  ASSUME Inv, Reply, NEW t \in Threads, NEW from \in Committed, NEW to \in Committed,
         Kill(t, from, to)
  PROVE  Reply'
<1>1. TypeOK
  BY DEF Inv, Typed
<1>2. to \in Places \ Special /\ op' = op /\ pc' = [pc EXCEPT ![t] = to] /\ pc[t] = from
  BY DEF Kill, Goto, At, Places, Committed, Starting, Halting, Special
<1>3. CASE Running
  <2>1. ~ busy'
    BY <1>3, <1>1 DEF Kill
  <2>2. OpShape'
    BY <1>1, <1>2, MainIsNoClient DEF Reply, OpShape, TypeOK, Special
  <2>. QED BY <2>1, <2>2, QuietReply
<1>4. CASE ~ Running
  <2>1. UNCHANGED <<status, busy, late>>
    BY <1>4 DEF Kill
  <2>2. op' = [op EXCEPT ![t] = op'[t]]
    BY <1>1, <1>2 DEF TypeOK
  <2>. QED BY <1>1, <1>2, <2>1, <2>2, MoveReply DEF Careful
<1>. QED BY <1>3, <1>4

LEMMA SpawnReply ==
  ASSUME Inv, Reply, NEW t \in Threads, StartSpawn(t) PROVE Reply'
<1>1. TypeOK
  BY DEF Inv, Typed
<1>2. PICK p \in Pids : ~ Alive(p) /\ status' = [status EXCEPT ![p] = "loading"]
  BY DEF StartSpawn, Free
<1>3. BusyIsServed'
  BY <1>1, <1>2 DEF Reply, BusyIsServed, Serving, Alive, StartSpawn, TypeOK
<1>4. pc' = [pc EXCEPT ![t] = "wait"] /\ pc[t] = "spawn" /\ UNCHANGED <<op, busy, late>>
  BY DEF StartSpawn, Goto, At, ghosts
<1>5. OpShape'
  <2>1. pc'[t] = "wait" /\ \A u \in Threads : u # t => pc'[u] = pc[u]
    BY <1>1, <1>4 DEF TypeOK
  <2>. QED BY <1>4, <2>1, MainIsNoClient DEF Reply, OpShape
<1>6. SparesActiveReply'
  BY <1>1, <1>4, MainIsNoClient DEF Reply, SparesActiveReply, TypeOK, Committed, Starting
<1>. QED BY <1>3, <1>5, <1>6 DEF Reply

(* A careful thread that finds the server idle, or gone, knows that no     *)
(* request is running.                                                     *)
LEMMA LookIsSure ==
  ASSUME Inv, Reply, ~ Running \/ IdlePhase PROVE ~ busy
<1>1. CASE IdlePhase
  BY <1>1 DEF IdlePhase
<1>2. CASE ~ Running /\ busy
  <2>1. PICK p \in Pids : status[p] = "up"
    BY <1>2 DEF Reply, BusyIsServed, Serving
  <2>2. p = proc /\ p # None
    BY <2>1, NoneIsNothing DEF Inv, Safe, OnlyProcLives, Alive
  <2>. QED BY <1>2, <2>1, <2>2 DEF Running, Alive
<1>. QED BY <1>1, <1>2

LEMMA StartReply ==
  ASSUME Inv, Reply, NEW t \in Threads, StartStep(t) PROVE Reply'
<1>1. TypeOK
  BY DEF Inv, Typed
<1>2. CASE Kill(t, "kill", "clear") \/ Kill(t, "hkill", "hclear")
  BY <1>2, KillReply DEF Committed, Starting, Halting
<1>3. CASE StartSpawn(t)
  BY <1>3, SpawnReply
<1>4. CASE \/ StartCheck(t) \/ StartEnter(t) \/ StartClear(t) \/ StartRaise(t) \/ WaitPoll(t)
           \/ WaitProbe(t) \/ HaltEnter(t) \/ HaltClear(t)
  <2>1. /\ UNCHANGED <<op, status, busy, late>> /\ pc[t] \in Committed
        /\ \E place \in Committed : pc' = [pc EXCEPT ![t] = place]
    BY <1>4 DEF StartCheck, StartEnter, StartClear, StartRaise, WaitPoll, WaitProbe, HaltEnter,
                HaltClear, Goto, At, Committed, Starting, Halting, world, ghosts
  <2>2. Committed \subseteq Places \ Special
    BY DEF Places, Committed, Starting, Halting, Special
  <2>3. op' = [op EXCEPT ![t] = op'[t]]
    BY <1>1, <2>1 DEF TypeOK
  <2>. QED BY <1>1, <2>1, <2>2, <2>3, MoveReply DEF Careful
<1>. QED BY <1>2, <1>3, <1>4 DEF StartStep

(* A thread that leaves what it did, or goes on without being committed.   *)
LEMMA LeaveReply ==
  ASSUME Inv, Reply, NEW t \in Threads, NEW place \in {"idle", "off", "watch"}, Leave(t, place)
  PROVE  Reply'
<1>1. TypeOK
  BY DEF Inv, Typed
<1>2. /\ place \in Places \ Special /\ place \notin Committed
      /\ pc' = [pc EXCEPT ![t] = place] /\ late' = late \ {t} /\ UNCHANGED <<status, busy>>
  BY DEF Leave, Forget, Goto, Places, Resting, Special, Committed, Starting, Halting, world
<1>3. op' = [op EXCEPT ![t] = op'[t]]
  BY <1>1 DEF Leave, Forget, TypeOK
<1>. QED BY <1>1, <1>2, <1>3, MoveReply

LEMMA OutcomeReply ==
  ASSUME Inv, Reply, NEW t \in Threads, Outcome(t) PROVE Reply'
<1>1. TypeOK
  BY DEF Inv, Typed
<1>2. CASE RestartRaised(t)
  BY <1>2, LeaveReply DEF RestartRaised
<1>3. CASE Release(t)
  BY <1>3, LeaveReply DEF Release, Home
<1>4. CASE Loaded(t) \/ SelectFailed(t) \/ ActionFailed(t) \/ RestartFailed(t) \/ Halted(t)
  <2>1. /\ UNCHANGED <<op, status, busy, late>> /\ pc[t] \in Committed
        /\ \E place \in {"release", "halt"} : pc' = [pc EXCEPT ![t] = place]
    BY <1>4 DEF Loaded, SelectFailed, ActionFailed, RestartFailed, Halted, Settle, Continue,
                Goto, At, Committed, Starting, Halting, world, ghosts
  <2>2. {"release", "halt"} \subseteq Places \ Special
    BY DEF Places, Checking, Committed, Starting, Halting, Special
  <2>3. op' = [op EXCEPT ![t] = op'[t]]
    BY <1>1, <2>1 DEF TypeOK
  <2>. QED BY <1>1, <2>1, <2>2, <2>3, MoveReply DEF Careful
<1>. QED BY <1>2, <1>3, <1>4 DEF Outcome

-----------------------------------------------------------------------------
(* The control API.                                                        *)

(* Steps to a place that is neither committed nor special.                 *)
Harmless(t, place) ==
  /\ place \in Places \ (Special \cup Committed)
  /\ pc' = [pc EXCEPT ![t] = place] /\ op' = [op EXCEPT ![t] = op'[t]]
  /\ UNCHANGED <<status, busy, late>>

LEMMA HarmlessReply ==
  ASSUME TypeOK, Reply, NEW t \in Threads, NEW place, Harmless(t, place) PROVE Reply'
  BY MoveReply DEF Harmless

LEMMA SelectReply ==
  ASSUME Inv, Reply, NEW c \in Clients, SelectStep(c) PROVE Reply'
<1> USE MainIsNoClient
<1>1. TypeOK
  BY DEF Inv, Typed
<1>2. op = [op EXCEPT ![c] = op[c]] /\ pc = [pc EXCEPT ![c] = pc[c]]
  BY <1>1 DEF TypeOK
<1>3. CASE \E a \in Alias : Select(c, a)
  <2>1. Harmless(c, "check")
    BY <1>1, <1>3 DEF Select, Acquire, Harmless, Goto, TypeOK, Places, Checking, Special,
                      Committed, Starting, Halting, world, ghosts
  <2>. QED BY <1>1, <2>1, HarmlessReply
<1>4. CASE SelectCheck(c)
  <2>1. CASE Leave(c, "idle")
    BY <2>1, LeaveReply
  <2>2. CASE Continue(c, "begin")
    <3>1. Harmless(c, "begin")
      BY <1>2, <2>2 DEF Continue, Harmless, Goto, Places, Checking, Special, Committed, Starting,
                        Halting, world, ghosts
    <3>. QED BY <1>1, <3>1, HarmlessReply
  <2>. QED BY <1>4, <2>1, <2>2 DEF SelectCheck
<1>5. CASE SelectReject(c)
  BY <1>5, LeaveReply DEF SelectReject
<1>6. CASE SelectAccept(c) \/ SelectWorker(c) \/ Fetched(c) \/ DrafterDone(c)
  <2>1. \E place \in {"worker", "drafter", "recheck", "fetch", "release"} : Harmless(c, place)
    BY <1>2, <1>6 DEF SelectAccept, SelectWorker, Fetched, DrafterDone, Settle, Continue,
                      Harmless, Goto, Places, Checking, Downloading, Special, Committed, Starting,
                      Halting, world, ghosts
  <2>. QED BY <1>1, <2>1, HarmlessReply
<1>7. CASE Progress(c)
  BY <1>7 DEF Progress, locals, world, ghosts, Reply, BusyIsServed, OpShape, SparesActiveReply,
              Serving
<1>8. CASE SelectRecheck(c)
  <2>1. CASE Running /\ ~ IdlePhase
    <3>1. Harmless(c, "release")
      BY <1>2, <1>8, <2>1 DEF SelectRecheck, Settle, Harmless, Goto, Places, Checking, Special,
                        Committed, Starting, Halting, world, ghosts
    <3>. QED BY <1>1, <3>1, HarmlessReply
  <2>2. CASE ~ (Running /\ ~ IdlePhase)
    <3>1. ~ busy
      BY <2>2, LookIsSure
    <3>2. pc' = [pc EXCEPT ![c] = "start"] /\ UNCHANGED <<op, status, busy, late>>
      BY <1>8, <2>2 DEF SelectRecheck, Goto, world, ghosts
    <3>3. "start" \in Places \ Special
      BY DEF Places, Committed, Starting, Special
    <3>. QED BY <1>1, <1>2, <3>1, <3>2, <3>3, MoveReply
  <2>. QED BY <2>1, <2>2
<1>. QED BY <1>3, <1>4, <1>5, <1>6, <1>7, <1>8 DEF SelectStep

(* Steps into the special positions keep the shape.                        *)
LEMMA EnterReply ==
  ASSUME TypeOK, Reply, NEW c \in Clients, NEW place \in Special,
         pc' = [pc EXCEPT ![c] = place], op' = [op EXCEPT ![c] = op'[c]],
         UNCHANGED <<status, busy, late>>,
         place = "project" => op'[c] = "vision",
         place = "arun" => op'[c] = "astart",
         place = "acheck" => op'[c] \in {"astart", "astop", "fstop"},
         place = "arecheck" => op'[c] \in {"astop", "fstop"}
  PROVE  Reply'
<1>1. \A u \in Clients : u # c => pc'[u] = pc[u] /\ op'[u] = op[u]
  BY MainIsNoClient DEF TypeOK
<1>2. pc'[c] = place /\ place \notin Committed
  BY MainIsNoClient DEF TypeOK, Special, Committed, Starting, Halting
<1>3. OpShape'
  BY <1>1, <1>2 DEF Reply, OpShape, Special
<1>4. SparesActiveReply'
  BY <1>1, <1>2 DEF Reply, SparesActiveReply
<1>5. BusyIsServed'
  BY DEF Reply, BusyIsServed, Serving
<1>. QED BY <1>3, <1>4, <1>5 DEF Reply

LEMMA ActionReply ==
  ASSUME Inv, Reply, NEW c \in Clients, ActionStep(c) PROVE Reply'
<1> USE MainIsNoClient
<1>1. TypeOK
  BY DEF Inv, Typed
<1>2. op = [op EXCEPT ![c] = op[c]] /\ pc = [pc EXCEPT ![c] = pc[c]]
  BY <1>1 DEF TypeOK
<1>3. ASSUME NEW kind \in {"astart", "astop", "fstop"}, ServerAction(c, kind) PROVE Reply'
  <2>1. /\ pc' = [pc EXCEPT ![c] = "acheck"] /\ op' = [op EXCEPT ![c] = op'[c]]
        /\ op'[c] \in {"astart", "astop", "fstop"} /\ UNCHANGED <<status, busy, late>>
    BY <1>1, <1>3 DEF ServerAction, Acquire, Goto, TypeOK, world, ghosts
  <2>. QED BY <1>1, <2>1, EnterReply DEF Special
<1>4. CASE ActionRefused(c) \/ ActionStopped(c)
  BY <1>4, LeaveReply DEF ActionRefused, ActionStopped
<1>5. CASE ActionStop(c)
  <2>1. /\ pc' = [pc EXCEPT ![c] = "arecheck"] /\ op' = op /\ op[c] \in {"astop", "fstop"}
        /\ UNCHANGED <<status, busy, late>>
    BY <1>5 DEF ActionStop, Stops, Goto, world, ghosts
  <2>. QED BY <1>1, <1>2, <2>1, EnterReply DEF Special
<1>6. CASE ActionStart(c)
  <2>1. /\ pc' = [pc EXCEPT ![c] = "arun"] /\ op' = op /\ op[c] = "astart"
        /\ UNCHANGED <<status, busy, late>>
    BY <1>6 DEF ActionStart, Goto, world, ghosts
  <2>. QED BY <1>1, <1>2, <2>1, EnterReply DEF Special
<1>7. CASE StopRecheck(c)
  <2>1. CASE op[c] = "astop" /\ Running /\ ~ IdlePhase
    <3>1. Harmless(c, "release")
      BY <1>2, <1>7, <2>1 DEF StopRecheck, Settle, Harmless, Goto, Places, Checking, Special,
                        Committed, Starting, Halting, world, ghosts
    <3>. QED BY <1>1, <3>1, HarmlessReply
  <2>2. CASE ~ (op[c] = "astop" /\ Running /\ ~ IdlePhase)
    <3>1. ~ busy \/ op[c] # "astop"
      BY <2>2, LookIsSure
    <3>2. pc' = [pc EXCEPT ![c] = "halt"] /\ UNCHANGED <<op, status, busy, late>>
      BY <1>7, <2>2 DEF StopRecheck, Continue, Goto, world, ghosts
    <3>3. "halt" \in Places \ Special /\ op[c] # "select"
      BY <1>7 DEF Places, Committed, Halting, Special, StopRecheck, At, Reply, OpShape
    <3>. QED BY <1>1, <1>2, <3>1, <3>2, <3>3, MoveReply
  <2>. QED BY <2>1, <2>2
<1>8. CASE StartCurrent(c)
  <2>1. /\ pc' = [pc EXCEPT ![c] = "start"] /\ op' = op /\ op[c] = "astart"
        /\ UNCHANGED <<status, busy, late>>
    BY <1>8 DEF StartCurrent, Goto, At, world, ghosts, Reply, OpShape
  <2>2. "start" \in Places \ Special
    BY DEF Places, Committed, Starting, Special
  <2>. QED BY <1>1, <1>2, <2>1, <2>2, MoveReply
<1>. QED BY <1>3, <1>4, <1>5, <1>6, <1>7, <1>8 DEF ActionStep

LEMMA OtherReply ==
  ASSUME Inv, Reply, NEW c \in Clients, OtherStep(c) PROVE Reply'
<1> USE MainIsNoClient
<1>1. TypeOK
  BY DEF Inv, Typed
<1>2. op = [op EXCEPT ![c] = op[c]] /\ pc = [pc EXCEPT ![c] = pc[c]]
  BY <1>1 DEF TypeOK
<1>3. CASE Vision(c)
  <2>1. /\ pc' = [pc EXCEPT ![c] = "project"] /\ op' = [op EXCEPT ![c] = op'[c]]
        /\ op'[c] = "vision" /\ UNCHANGED <<status, busy, late>>
    BY <1>1, <1>3 DEF Vision, Acquire, Goto, TypeOK, world, ghosts
  <2>. QED BY <1>1, <2>1, EnterReply DEF Special
<1>4. CASE ProjectorDone(c)
  <2>1. /\ pc' = [pc EXCEPT ![c] = "start"] /\ op' = op /\ op[c] = "vision"
        /\ UNCHANGED <<status, busy, late>>
    BY <1>4 DEF ProjectorDone, Goto, At, world, ghosts, Reply, OpShape
  <2>2. "start" \in Places \ Special
    BY DEF Places, Committed, Starting, Special
  <2>. QED BY <1>1, <1>2, <2>1, <2>2, MoveReply
<1>5. CASE \/ CancelCheck(c) \/ CancelSet(c) \/ DirCheck(c) \/ DirSet(c) \/ DecisionCheck(c)
           \/ DecisionCapture(c) \/ DecisionPost(c) \/ DecisionVerify(c) \/ DecisionReturn(c)
  <2>1. /\ UNCHANGED <<status, busy, late>>
        /\ op' = [op EXCEPT ![c] = op'[c]]
    BY <1>1, <1>2, <1>5
       DEF CancelCheck, CancelSet, DirCheck, DirSet, DecisionCheck, DecisionCapture,
           DecisionPost, DecisionVerify, DecisionReturn, Continue, Forget, TypeOK, world, ghosts
  <2>2. \E place \in Asking \cup {"idle"} : pc' = [pc EXCEPT ![c] = place]
    BY <1>5 DEF CancelCheck, CancelSet, DirCheck, DirSet, DecisionCheck, DecisionCapture,
                DecisionPost, DecisionVerify, DecisionReturn, Continue, Forget, Goto, Asking
  <2>3. Asking \cup {"idle"} \subseteq Places \ (Special \cup Committed)
    BY DEF Places, Asking, Resting, Special, Committed, Starting, Halting
  <2>. QED BY <1>1, <2>1, <2>2, <2>3, HarmlessReply DEF Harmless
<1>. QED BY <1>3, <1>4, <1>5 DEF OtherStep

-----------------------------------------------------------------------------
(* The main thread, the watchdog and the processes.                        *)
LEMMA RestReply ==
  ASSUME Inv, Reply, MainStep \/ Signal \/ WatchStep \/ CooldownOver \/ World \/ UNCHANGED vars
  PROVE  Reply'
<1> USE MainIsNoClient
<1>1. TypeOK
  BY DEF Inv, Typed
<1>2. Watchdog \notin Clients /\ Main \notin Clients
  BY ThreadAssumption
<1>3. CASE MainStep \/ Signal \/ WatchStep \/ CooldownOver \/ UNCHANGED vars
  <2>1. UNCHANGED <<status, busy, late>>
    BY <1>3 DEF MainStep, Boot, BootLoaded, BootFailed, LeaveMain, Shutdown, Exit, Signal,
                WatchStep, WatchLook, WatchSkip, WatchGrab, CooldownOver, Continue, Forget,
                Acquire, world, ghosts, vars
  <2>2. \A c \in Clients : pc'[c] = pc[c] /\ op'[c] = op[c]
    BY <1>1, <1>2, <1>3
       DEF MainStep, Boot, BootLoaded, BootFailed, LeaveMain, Shutdown, Exit, Signal,
           WatchStep, WatchLook, WatchSkip, WatchGrab, CooldownOver, Continue, Forget, Goto,
           Acquire, TypeOK, locals, vars
  <2>. QED BY <2>1, <2>2 DEF Reply, BusyIsServed, Serving, OpShape, SparesActiveReply
<1>4. CASE \E p \in Pids : LoadDone(p)
  BY <1>1, <1>4 DEF LoadDone, locals, ghosts, Reply, BusyIsServed, Serving, OpShape,
                    SparesActiveReply, TypeOK
<1>5. CASE (\E p \in Pids : Die(p)) \/ EndRequest
  <2>1. ~ busy' /\ UNCHANGED <<pc, op>>
    BY <1>5 DEF Die, EndRequest, locals
  <2>. QED BY <2>1, QuietReply DEF Reply, OpShape
<1>6. CASE BeginRequest
  BY <1>6 DEF BeginRequest, locals, Reply, BusyIsServed, Serving, OpShape, SparesActiveReply
<1>. QED BY <1>3, <1>4, <1>5, <1>6 DEF World

LEMMA NextReply == Inv /\ Reply /\ [Next]_vars => Reply'
<1> SUFFICES ASSUME Inv, Reply, [Next]_vars PROVE Reply'
  OBVIOUS
<1>1. ASSUME NEW t \in Threads, ThreadStep(t) PROVE Reply'
  BY <1>1, StartReply, OutcomeReply DEF ThreadStep
<1>2. ASSUME NEW c \in Clients, ClientStep(c) PROVE Reply'
  BY <1>2, SelectReply, ActionReply, OtherReply DEF ClientStep
<1>3. CASE MainStep \/ Signal \/ WatchStep \/ CooldownOver \/ World \/ UNCHANGED vars
  BY <1>3, RestReply
<1> QED
  BY <1>1, <1>2, <1>3 DEF Next, Ended

(* Whatever threads, crashes and requests do in between, a switch and a    *)
(* plain stop end no reply that was running when they last looked.         *)
THEOREM RepliesSpared == Spec => []SparesActiveReply
<1>1. Reply => SparesActiveReply
  BY DEF Reply
<1>. QED BY <1>1, InitReply, NextReply, InvHolds, PTL DEF Spec

-----------------------------------------------------------------------------
(* A failed switch.  The worker that goes to stop the model has compared   *)
(* self.proc with the process it began with; while it waits for plock and  *)
(* inside it, self.proc never becomes that process again, because an       *)
(* identity a worker remembers is not reused.                              *)
Stopping == {"halt", "hkill"}

SparesOld ==
  \A c \in Clients : op[c] = "select" /\ pc[c] \in Stopping /\ Running => proc # prev[c]

LEMMA InitOld == Init => SparesOld
  BY MainIsNoClient DEF Init, SparesOld, Stopping

(* One thread moves, self.proc stays and no process comes to life.         *)
LEMMA MoveOld ==
  ASSUME TypeOK, SparesOld, NEW t \in Threads, NEW place,
         pc' = [pc EXCEPT ![t] = place], op' = [op EXCEPT ![t] = op'[t]],
         prev' = [prev EXCEPT ![t] = prev'[t]], proc' = proc,
         \A p \in Pids : Alive(p)' => Alive(p),
         t \in Clients /\ place \in Stopping /\ op'[t] = "select" =>
           \/ op[t] = "select" /\ pc[t] \in Stopping /\ prev'[t] = prev[t]
           \/ proc # prev'[t]
  PROVE  SparesOld'
<1>1. \A u \in Threads : u # t => pc'[u] = pc[u] /\ op'[u] = op[u] /\ prev'[u] = prev[u]
  BY DEF TypeOK
<1>2. pc'[t] = place
  BY DEF TypeOK
<1>3. Running' => Running
  BY DEF Running, TypeOK
<1>4. ASSUME NEW c \in Clients, op'[c] = "select", pc'[c] \in Stopping, Running'
      PROVE  proc # prev'[c]
  <2>1. CASE c = t
    BY <1>2, <1>3, <1>4, <2>1 DEF SparesOld
  <2>2. CASE c # t
    BY <1>1, <1>3, <1>4, <2>2, MainIsNoClient DEF SparesOld
  <2>. QED BY <2>1, <2>2
<1>. QED BY <1>4 DEF SparesOld

(* Without a process there is no old model to end.                         *)
LEMMA GoneOld == ASSUME proc' = None PROVE SparesOld'
  BY DEF SparesOld, Running

LEMMA StartOld ==
  ASSUME Inv, SparesOld, NEW t \in Threads, StartStep(t) PROVE SparesOld'
<1>1. TypeOK
  BY DEF Inv, Typed
<1>2. op = [op EXCEPT ![t] = op[t]] /\ prev = [prev EXCEPT ![t] = prev[t]]
  BY <1>1 DEF TypeOK
<1>3. CASE Kill(t, "kill", "clear") \/ Kill(t, "hkill", "hclear")
  <2>1. /\ UNCHANGED <<op, prev, proc>>
        /\ \E place \in {"clear", "hclear"} : pc' = [pc EXCEPT ![t] = place]
    BY <1>3 DEF Kill, Goto, fields
  <2>2. \A p \in Pids : Alive(p)' => Alive(p)
    BY <1>1, <1>3 DEF Kill, Alive, TypeOK
  <2>. QED BY <1>1, <1>2, <2>1, <2>2, MoveOld DEF Stopping
<1>4. CASE StartClear(t) \/ HaltClear(t)
  BY <1>4, GoneOld DEF StartClear, HaltClear
<1>5. CASE StartSpawn(t)
  <2>1. PICK p \in Pids : Free(p) /\ proc' = p
    BY <1>5 DEF StartSpawn
  <2>2. UNCHANGED <<op, prev>> /\ \A u \in Threads : pc'[u] \in Stopping => pc'[u] = pc[u]
    BY <1>1, <1>5 DEF StartSpawn, Goto, TypeOK, Stopping
  <2>. QED BY <2>1, <2>2, MainIsNoClient DEF SparesOld, Free
<1>6. CASE \/ StartCheck(t) \/ StartEnter(t) \/ StartRaise(t) \/ WaitPoll(t) \/ WaitProbe(t)
           \/ HaltEnter(t)
  <2>1. UNCHANGED <<op, prev, proc, status>>
    BY <1>6 DEF StartCheck, StartEnter, StartRaise, WaitPoll, WaitProbe, HaltEnter, world, fields
  <2>2. \E place \in Places : /\ pc' = [pc EXCEPT ![t] = place]
                              /\ place \in Stopping => pc[t] \in Stopping
    BY <1>6 DEF StartCheck, StartEnter, StartRaise, WaitPoll, WaitProbe, HaltEnter, Goto, At,
                Places, Committed, Starting, Halting, Stopping
  <2>3. \A p \in Pids : Alive(p)' => Alive(p)
    BY <2>1 DEF Alive
  <2>. QED BY <1>1, <1>2, <2>1, <2>2, <2>3, MoveOld
<1>. QED BY <1>3, <1>4, <1>5, <1>6 DEF StartStep

(* A thread that does not go to stop the model.                            *)
Away(t) ==
  /\ \E place \in Places \ Stopping : pc' = [pc EXCEPT ![t] = place]
  /\ op' = [op EXCEPT ![t] = op'[t]] /\ prev' = [prev EXCEPT ![t] = prev'[t]]
  /\ UNCHANGED <<proc, status>>

LEMMA AwayOld ==
  ASSUME TypeOK, SparesOld, NEW t \in Threads, Away(t) PROVE SparesOld'
  BY MoveOld DEF Away, Alive

LEMMA LeaveOld ==
  ASSUME TypeOK, SparesOld, NEW t \in Threads, NEW place \in Resting, Leave(t, place)
  PROVE  SparesOld'
<1>1. Away(t)
  BY DEF Leave, Forget, Goto, Away, TypeOK, Places, Resting, Stopping, world
<1>. QED BY <1>1, AwayOld

LEMMA OutcomeOld ==
  ASSUME Inv, SparesOld, NEW t \in Threads, Outcome(t) PROVE SparesOld'
<1>1. TypeOK
  BY DEF Inv, Typed
<1>2. op = [op EXCEPT ![t] = op[t]] /\ prev = [prev EXCEPT ![t] = prev[t]]
  BY <1>1 DEF TypeOK
<1>3. CASE RestartRaised(t)
  BY <1>1, <1>3, LeaveOld DEF RestartRaised, Resting
<1>4. CASE Release(t)
  BY <1>1, <1>4, LeaveOld DEF Release, Home, Resting
<1>5. CASE Loaded(t) \/ RestartFailed(t) \/ Halted(t)
  <2>1. Away(t)
    BY <1>2, <1>5 DEF Loaded, RestartFailed, Halted, Settle, Goto, Away, Places, Checking,
                      Stopping, world
  <2>. QED BY <1>1, <2>1, AwayOld
<1>6. CASE SelectFailed(t) \/ ActionFailed(t)
  <2>1. UNCHANGED <<op, prev, proc, status>>
    BY <1>6 DEF SelectFailed, ActionFailed, Settle, Continue, fields, world
  <2>2. \E place \in {"halt", "release"} :
          /\ pc' = [pc EXCEPT ![t] = place]
          /\ place = "halt" /\ op[t] = "select" => proc # prev[t]
    BY <1>6 DEF SelectFailed, ActionFailed, Settle, Continue, Goto
  <2>. QED BY <1>1, <1>2, <2>1, <2>2, MoveOld DEF Stopping, Alive
<1>. QED BY <1>3, <1>4, <1>5, <1>6 DEF Outcome

LEMMA SelectOld ==
  ASSUME Inv, SparesOld, NEW c \in Clients, SelectStep(c) PROVE SparesOld'
<1> USE MainIsNoClient
<1>1. TypeOK
  BY DEF Inv, Typed
<1>2. op = [op EXCEPT ![c] = op[c]] /\ prev = [prev EXCEPT ![c] = prev[c]]
  BY <1>1 DEF TypeOK
<1>3. CASE \E a \in Alias : Select(c, a)
  <2>1. Away(c)
    BY <1>1, <1>2, <1>3 DEF Select, Acquire, Away, Goto, TypeOK, Places, Checking, Stopping,
                            fields, world
  <2>. QED BY <1>1, <2>1, AwayOld
<1>4. CASE SelectReject(c) \/ (SelectCheck(c) /\ Leave(c, "idle"))
  BY <1>1, <1>4, LeaveOld DEF SelectReject, Resting
<1>5. CASE SelectCheck(c) /\ Continue(c, "begin")
  <2>1. Away(c)
    BY <1>2, <1>5 DEF Continue, Away, Goto, Places, Checking, Stopping, fields, world
  <2>. QED BY <1>1, <2>1, AwayOld
<1>6. CASE SelectAccept(c) \/ SelectWorker(c) \/ Fetched(c) \/ DrafterDone(c) \/ SelectRecheck(c)
  <2>1. UNCHANGED <<op, proc, status>> /\ prev' = [prev EXCEPT ![c] = prev'[c]]
    BY <1>1, <1>2, <1>6 DEF SelectAccept, SelectWorker, Fetched, DrafterDone, SelectRecheck,
                            Settle, Continue, TypeOK, fields, world
  <2>2. \E place \in {"worker", "drafter", "recheck", "fetch", "release", "start"} :
          pc' = [pc EXCEPT ![c] = place]
    BY <1>6 DEF SelectAccept, SelectWorker, Fetched, DrafterDone, SelectRecheck, Settle,
                Continue, Goto
  <2>3. {"worker", "drafter", "recheck", "fetch", "release", "start"} \subseteq Places \ Stopping
    BY DEF Places, Checking, Downloading, Committed, Starting, Stopping
  <2>. QED BY <1>1, <1>2, <2>1, <2>2, <2>3, AwayOld DEF Away
<1>7. CASE Progress(c)
  BY <1>7 DEF Progress, locals, world, SparesOld, Running, Alive
<1>. QED BY <1>3, <1>4, <1>5, <1>6, <1>7 DEF SelectStep, SelectCheck

LEMMA ActionOld ==
  ASSUME Inv, Reply, SparesOld, NEW c \in Clients, ActionStep(c) PROVE SparesOld'
<1> USE MainIsNoClient
<1>1. TypeOK
  BY DEF Inv, Typed
<1>2. op = [op EXCEPT ![c] = op[c]] /\ prev = [prev EXCEPT ![c] = prev[c]]
  BY <1>1 DEF TypeOK
<1>3. CASE ActionRefused(c) \/ ActionStopped(c)
  BY <1>1, <1>3, LeaveOld DEF ActionRefused, ActionStopped, Resting
<1>4. CASE StopRecheck(c)
  <2>1. UNCHANGED <<op, prev, proc, status>> /\ op[c] # "select"
    BY <1>4 DEF StopRecheck, Settle, Continue, At, Reply, OpShape, fields, world
  <2>2. \E place \in {"halt", "release"} : pc' = [pc EXCEPT ![c] = place]
    BY <1>4 DEF StopRecheck, Settle, Continue, Goto
  <2>. QED BY <1>1, <1>2, <2>1, <2>2, MoveOld DEF Alive
<1>5. CASE \/ \E kind \in {"astart", "astop", "fstop"} : ServerAction(c, kind)
           \/ ActionStop(c) \/ ActionStart(c) \/ StartCurrent(c)
  <2>1. UNCHANGED <<prev, proc, status>> /\ op' = [op EXCEPT ![c] = op'[c]]
    BY <1>1, <1>2, <1>5 DEF ServerAction, Acquire, ActionStop, ActionStart, StartCurrent, TypeOK,
                            fields, world
  <2>2. \E place \in {"acheck", "arecheck", "arun", "start"} : pc' = [pc EXCEPT ![c] = place]
    BY <1>5 DEF ServerAction, Acquire, ActionStop, ActionStart, StartCurrent, Goto
  <2>3. {"acheck", "arecheck", "arun", "start"} \subseteq Places \ Stopping
    BY DEF Places, Checking, Committed, Starting, Stopping
  <2>. QED BY <1>1, <1>2, <2>1, <2>2, <2>3, AwayOld DEF Away
<1>. QED BY <1>3, <1>4, <1>5 DEF ActionStep

LEMMA OtherOld ==
  ASSUME Inv, SparesOld, NEW c \in Clients, OtherStep(c) PROVE SparesOld'
<1> USE MainIsNoClient
<1>1. TypeOK
  BY DEF Inv, Typed
<1>2. /\ UNCHANGED <<proc, status>>
      /\ op' = [op EXCEPT ![c] = op'[c]] /\ prev' = [prev EXCEPT ![c] = prev'[c]]
  BY <1>1 DEF OtherStep, Vision, Acquire, ProjectorDone, CancelCheck, CancelSet, DirCheck,
              DirSet, DecisionCheck, DecisionCapture, DecisionPost, DecisionVerify,
              DecisionReturn, Continue, Forget, TypeOK, fields, world
<1>3. \E place \in Asking \cup {"idle", "project", "start"} : pc' = [pc EXCEPT ![c] = place]
  BY DEF OtherStep, Vision, Acquire, ProjectorDone, CancelCheck, CancelSet, DirCheck, DirSet,
         DecisionCheck, DecisionCapture, DecisionPost, DecisionVerify, DecisionReturn, Continue,
         Forget, Goto, Asking
<1>4. Asking \cup {"idle", "project", "start"} \subseteq Places \ Stopping
  BY DEF Places, Asking, Resting, Downloading, Committed, Starting, Stopping
<1>. QED BY <1>1, <1>2, <1>3, <1>4, AwayOld DEF Away

LEMMA RestOld ==
  ASSUME Inv, SparesOld,
  MainStep \/ Signal \/ WatchStep \/ CooldownOver \/ World \/ UNCHANGED vars
  PROVE  SparesOld'
<1> USE MainIsNoClient
<1>1. TypeOK
  BY DEF Inv, Typed
<1>2. Watchdog \notin Clients /\ Main \notin Clients
  BY ThreadAssumption
<1>3. CASE MainStep \/ Signal \/ WatchStep \/ CooldownOver \/ UNCHANGED vars
  <2>1. UNCHANGED <<status, proc>>
    BY <1>3 DEF MainStep, Boot, BootLoaded, BootFailed, LeaveMain, Shutdown, Exit, Signal,
                WatchStep, WatchLook, WatchSkip, WatchGrab, CooldownOver, Continue, Forget,
                Acquire, world, fields, vars
  <2>2. \A c \in Clients : pc'[c] = pc[c] /\ op'[c] = op[c] /\ prev'[c] = prev[c]
    BY <1>1, <1>2, <1>3
       DEF MainStep, Boot, BootLoaded, BootFailed, LeaveMain, Shutdown, Exit, Signal,
           WatchStep, WatchLook, WatchSkip, WatchGrab, CooldownOver, Continue, Forget, Goto,
           Acquire, TypeOK, locals, vars
  <2>. QED BY <2>1, <2>2 DEF SparesOld, Running, Alive
<1>4. CASE World
  <2>1. UNCHANGED <<pc, op, prev, proc>>
    BY <1>4 DEF World, LoadDone, Die, BeginRequest, EndRequest, locals, fields
  <2>2. \A p \in Pids : Alive(p)' => Alive(p)
    BY <1>1, <1>4 DEF World, LoadDone, Die, BeginRequest, EndRequest, Alive, TypeOK
  <2>. QED BY <1>1, <2>1, <2>2 DEF SparesOld, Running, TypeOK
<1>. QED BY <1>3, <1>4

LEMMA NextOld == Inv /\ Reply /\ SparesOld /\ [Next]_vars => SparesOld'
<1> SUFFICES ASSUME Inv, Reply, SparesOld, [Next]_vars PROVE SparesOld'
  OBVIOUS
<1>1. ASSUME NEW t \in Threads, ThreadStep(t) PROVE SparesOld'
  BY <1>1, StartOld, OutcomeOld DEF ThreadStep
<1>2. ASSUME NEW c \in Clients, ClientStep(c) PROVE SparesOld'
  BY <1>2, SelectOld, ActionOld, OtherOld DEF ClientStep
<1>3. CASE MainStep \/ Signal \/ WatchStep \/ CooldownOver \/ World \/ UNCHANGED vars
  BY <1>3, RestOld
<1> QED
  BY <1>1, <1>2, <1>3 DEF Next, Ended

(* A switch that fails before it stopped the old model leaves that model   *)
(* running: the process a failed switch ends is never the one it began     *)
(* with, whatever the other threads do while it waits for plock.           *)
THEOREM OldModelKept == Spec => FailedSwitchKeepsOldModel
<1>1. SparesOld => \A c \in Clients :
        op[c] = "select" /\ pc[c] = "hkill" /\ pc'[c] = "hclear" /\ Running => proc # prev[c]
  BY DEF SparesOld, Stopping
<1>. QED BY <1>1, InitReply, NextReply, InvHolds, InitOld, NextOld, PTL
         DEF Spec, FailedSwitchKeepsOldModel

-----------------------------------------------------------------------------
(* self.lock.  A thread other than the main one holds it exactly while it  *)
(* is inside an operation.                                                 *)
Locked == Downloading \cup Committed \cup Checking

LockHeld == lock # Main /\ \A t \in Threads : t # Main => (pc[t] \in Locked <=> lock = t)

LEMMA LockedIsApart == Locked \subseteq Places /\ Locked \cap (Asking \cup Resting) = {}
  BY DEF Locked, Places, Downloading, Committed, Starting, Halting, Checking, Asking, Resting

LEMMA InitLock == Init => LockHeld
  BY MainIsNoClient, NoneIsNothing, LockedIsApart DEF Init, LockHeld, Resting

(* The three ways a step treats the lock: a thread moves inside its        *)
(* operation or outside of any, takes the lock, or gives it back.          *)
LEMMA StayLock ==
  ASSUME TypeOK, LockHeld, NEW t \in Threads, NEW place,
         pc' = [pc EXCEPT ![t] = place], lock' = lock,
         t = Main \/ (place \in Locked <=> pc[t] \in Locked)
  PROVE  LockHeld'
  BY DEF LockHeld, TypeOK

LEMMA TakeLock ==
  ASSUME TypeOK, LockHeld, NEW t \in Threads, t # Main, NEW kind, NEW a, NEW place \in Locked,
         Acquire(t, kind, a, place)
  PROVE  LockHeld'
  BY NoneIsNothing DEF LockHeld, TypeOK, Acquire, Goto

LEMMA LeaveLock ==
  ASSUME Inv, LockHeld, NEW t \in Threads, NEW place \in Resting, pc[t] \in Locked,
         t # Main, Leave(t, place)
  PROVE  LockHeld'
  BY NoneIsNothing, MainIsNoClient, LockedIsApart
     DEF LockHeld, Inv, Typed, TypeOK, Leave, Forget, Goto

(* The main thread is in none of the places of an API operation.           *)
LEMMA MainIsApart ==
  ASSUME MainShape
  PROVE  /\ pc[Main] \notin Downloading \cup Checking \cup Asking
         /\ op[Main] \notin OpKinds \cup {"watch"}
         /\ pc[Main] \in {"halt", "hkill", "hclear", "halted"} => op[Main] = "exit"
         /\ pc[Main] \in Starting => op[Main] = "main"
  BY DEF MainShape, Downloading, Checking, Asking, Starting, Halting, OpKinds

LEMMA ThreadLock ==
  ASSUME Inv, LockHeld, NEW t \in Threads, ThreadStep(t) PROVE LockHeld'
<1>1. TypeOK /\ MainShape
  BY DEF Inv, Typed, Safe
<1>2. CASE RestartRaised(t)
  <2>1. t # Main /\ pc[t] \in Locked
    BY <1>1, <1>2, MainIsApart DEF RestartRaised, At, Locked, Committed, Starting
  <2>. QED BY <1>2, <2>1, LeaveLock DEF RestartRaised, Resting
<1>3. CASE Release(t)
  <2>1. t # Main /\ pc[t] \in Locked
    BY <1>1, <1>3, MainIsApart DEF Release, At, Locked, Checking
  <2>. QED BY <1>3, <2>1, LeaveLock DEF Release, Home, Resting
<1>4. CASE StartStep(t) \/ Loaded(t) \/ SelectFailed(t) \/ ActionFailed(t) \/ RestartFailed(t)
           \/ Halted(t)
  <2>1. lock' = lock /\ pc[t] \in Locked
    BY <1>4 DEF StartStep, StartCheck, StartEnter, Kill, StartClear, StartSpawn, StartRaise,
                WaitPoll, WaitProbe, HaltEnter, HaltClear, Loaded, SelectFailed, ActionFailed,
                RestartFailed, Halted, Settle, Continue, At, Locked, Committed, Starting,
                Halting, locks
  <2>2. \E place \in Locked : pc' = [pc EXCEPT ![t] = place]
    BY <1>4 DEF StartStep, StartCheck, StartEnter, Kill, StartClear, StartSpawn, StartRaise,
                WaitPoll, WaitProbe, HaltEnter, HaltClear, Loaded, SelectFailed, ActionFailed,
                RestartFailed, Halted, Settle, Continue, Goto, Locked, Committed, Starting,
                Halting, Checking
  <2>. QED BY <1>1, <2>1, <2>2, StayLock
<1>. QED BY <1>2, <1>3, <1>4 DEF ThreadStep, Outcome

LEMMA SelectLock ==
  ASSUME Inv, LockHeld, NEW c \in Clients, SelectStep(c) PROVE LockHeld'
<1> USE MainIsNoClient
<1>1. TypeOK
  BY DEF Inv, Typed
<1>2. CASE \E a \in Alias : Select(c, a)
  BY <1>1, <1>2, TakeLock DEF Select, Locked, Checking
<1>3. CASE Leave(c, "idle") /\ (SelectCheck(c) \/ SelectReject(c))
  BY <1>3, LeaveLock DEF SelectCheck, SelectReject, At, Locked, Checking, Resting
<1>4. CASE \/ SelectCheck(c) /\ Continue(c, "begin")
           \/ SelectAccept(c) \/ SelectWorker(c) \/ Fetched(c) \/ DrafterDone(c)
           \/ SelectRecheck(c)
  <2>1. lock' = lock /\ pc[c] \in Locked
    BY <1>4 DEF SelectCheck, SelectAccept, SelectWorker, Fetched, DrafterDone, SelectRecheck,
                Settle, Continue, At, Locked, Checking, Downloading, locks
  <2>2. \E place \in Locked : pc' = [pc EXCEPT ![c] = place]
    BY <1>4 DEF SelectAccept, SelectWorker, Fetched, DrafterDone, SelectRecheck, Settle,
                Continue, Goto, Locked, Checking, Downloading, Committed, Starting
  <2>. QED BY <1>1, <2>1, <2>2, StayLock
<1>5. CASE Progress(c)
  BY <1>5 DEF Progress, LockHeld, locals, locks
<1>. QED BY <1>2, <1>3, <1>4, <1>5 DEF SelectStep, SelectCheck, SelectReject

LEMMA ActionLock ==
  ASSUME Inv, LockHeld, NEW c \in Clients, ActionStep(c) PROVE LockHeld'
<1> USE MainIsNoClient
<1>1. TypeOK
  BY DEF Inv, Typed
<1>2. CASE \E kind \in {"astart", "astop", "fstop"} : ServerAction(c, kind)
  BY <1>1, <1>2, TakeLock DEF ServerAction, Locked, Checking
<1>3. CASE ActionRefused(c) \/ ActionStopped(c)
  BY <1>3, LeaveLock DEF ActionRefused, ActionStopped, At, Locked, Checking, Resting
<1>4. CASE ActionStop(c) \/ ActionStart(c) \/ StopRecheck(c) \/ StartCurrent(c)
  <2>1. lock' = lock /\ pc[c] \in Locked
    BY <1>4 DEF ActionStop, ActionStart, StopRecheck, StartCurrent, Settle, Continue, At,
                Locked, Checking, locks
  <2>2. \E place \in Locked : pc' = [pc EXCEPT ![c] = place]
    BY <1>4 DEF ActionStop, ActionStart, StopRecheck, StartCurrent, Settle, Continue, Goto,
                Locked, Checking, Committed, Starting, Halting
  <2>. QED BY <1>1, <2>1, <2>2, StayLock
<1>. QED BY <1>2, <1>3, <1>4 DEF ActionStep

LEMMA OtherLock ==
  ASSUME Inv, LockHeld, NEW c \in Clients, OtherStep(c) PROVE LockHeld'
<1> USE MainIsNoClient
<1>1. TypeOK
  BY DEF Inv, Typed
<1>2. CASE Vision(c)
  BY <1>1, <1>2, TakeLock DEF Vision, Locked, Downloading
<1>3. CASE ProjectorDone(c)
  <2>1. lock' = lock /\ pc[c] \in Locked /\ pc' = [pc EXCEPT ![c] = "start"]
    BY <1>3 DEF ProjectorDone, At, Goto, Locked, Downloading, locks
  <2>. QED BY <1>1, <2>1, StayLock DEF Locked, Committed, Starting
<1>4. CASE \/ CancelCheck(c) \/ CancelSet(c) \/ DirCheck(c) \/ DirSet(c) \/ DecisionCheck(c)
           \/ DecisionCapture(c) \/ DecisionPost(c) \/ DecisionVerify(c) \/ DecisionReturn(c)
  <2>1. lock' = lock /\ pc[c] \in Asking \cup Resting
    BY <1>4 DEF CancelCheck, CancelSet, DirCheck, DirSet, DecisionCheck, DecisionCapture,
                DecisionPost, DecisionVerify, DecisionReturn, Continue, At, Asking, Resting, locks
  <2>2. \E place \in Asking \cup Resting : pc' = [pc EXCEPT ![c] = place]
    BY <1>4 DEF CancelCheck, CancelSet, DirCheck, DirSet, DecisionCheck, DecisionCapture,
                DecisionPost, DecisionVerify, DecisionReturn, Continue, Forget, Goto, Asking,
                Resting
  <2>. QED BY <1>1, <2>1, <2>2, LockedIsApart, StayLock
<1>. QED BY <1>2, <1>3, <1>4 DEF OtherStep

(* The watchdog is started when the main thread begins to serve.           *)
DogWaits == pc[Main] = "boot" \/ op[Main] = "main" => pc[Watchdog] = "off"

LEMMA StayAsleep ==
  ASSUME TypeOK, DogWaits, NEW t \in Threads, NEW place,
         pc' = [pc EXCEPT ![t] = place], op'[Main] = op[Main],
         t = Main => place # "boot" \/ pc[Main] = "boot",
         t = Watchdog => pc[t] # "off"
  PROVE  DogWaits'
  BY MainIsNoClient DEF DogWaits, TypeOK

LEMMA ThreadAsleep ==
  ASSUME Inv, DogWaits, NEW t \in Threads, ThreadStep(t) PROVE DogWaits'
<1>1. TypeOK /\ MainShape
  BY DEF Inv, Typed, Safe
<1>2. CASE RestartRaised(t) \/ Release(t)
  <2>1. t # Main /\ pc[t] # "off"
    BY <1>1, <1>2, MainIsApart DEF RestartRaised, Release, At, Checking, OpKinds
  <2>3. \E place : pc' = [pc EXCEPT ![t] = place]
    BY <1>2 DEF RestartRaised, Release, Leave, Forget, Goto
  <2>2. op'[Main] = op[Main]
    BY <1>1, <1>2, <2>1, MainIsNoClient DEF RestartRaised, Release, Leave, Forget, TypeOK
  <2>. QED BY <1>1, <2>1, <2>2, <2>3, StayAsleep
<1>3. CASE StartStep(t) \/ Loaded(t) \/ SelectFailed(t) \/ ActionFailed(t) \/ RestartFailed(t)
           \/ Halted(t)
  <2>1. op' = op /\ pc[t] # "off"
    BY <1>3 DEF StartStep, StartCheck, StartEnter, Kill, StartClear, StartSpawn, StartRaise,
                WaitPoll, WaitProbe, HaltEnter, HaltClear, Loaded, SelectFailed, ActionFailed,
                RestartFailed, Halted, Settle, Continue, At
  <2>2. \E place \in Locked : pc' = [pc EXCEPT ![t] = place]
    BY <1>3 DEF StartStep, StartCheck, StartEnter, Kill, StartClear, StartSpawn, StartRaise,
                WaitPoll, WaitProbe, HaltEnter, HaltClear, Loaded, SelectFailed, ActionFailed,
                RestartFailed, Halted, Settle, Continue, Goto, Locked, Committed, Starting,
                Halting, Checking
  <2>3. "boot" \notin Locked
    BY LockedIsApart DEF Resting
  <2>. QED BY <1>1, <2>1, <2>2, <2>3, StayAsleep
<1>. QED BY <1>2, <1>3 DEF ThreadStep, Outcome

LEMMA ClientAsleep ==
  ASSUME Inv, DogWaits, NEW c \in Clients, ClientStep(c) PROVE DogWaits'
<1> USE MainIsNoClient
<1>1. TypeOK
  BY DEF Inv, Typed
<1>2. c # Main /\ c # Watchdog
  BY ThreadAssumption
<1>3. CASE SelectStep(c)
  BY <1>1, <1>2, <1>3
     DEF SelectStep, Select, SelectCheck, SelectAccept, SelectReject, SelectWorker, Progress,
         Fetched, DrafterDone, SelectRecheck, Acquire, Settle, Continue, Leave, Forget, Goto,
         locals, DogWaits, TypeOK
<1>4. CASE ActionStep(c)
  BY <1>1, <1>2, <1>4
     DEF ActionStep, ServerAction, ActionRefused, ActionStopped, ActionStop, ActionStart,
         StopRecheck, StartCurrent, Acquire, Settle, Continue, Leave, Forget, Goto, DogWaits,
         TypeOK
<1>5. CASE OtherStep(c)
  BY <1>1, <1>2, <1>5
     DEF OtherStep, Vision, ProjectorDone, CancelCheck, CancelSet, DirCheck, DirSet,
         DecisionCheck, DecisionCapture, DecisionPost, DecisionVerify, DecisionReturn, Acquire,
         Continue, Forget, Goto, DogWaits, TypeOK
<1>. QED BY <1>3, <1>4, <1>5 DEF ClientStep

(* What the two ends of the initial load write.                            *)
LEMMA BootMoves ==
  ASSUME TypeOK, MainShape, Boot \/ BootLoaded
  PROVE  \/ /\ pc'[Main] = "serving" /\ pc'[Watchdog] = "watch" /\ op'[Main] # "main"
            /\ \A t \in Threads : t # Main /\ t # Watchdog => pc'[t] = pc[t]
         \/ /\ pc'[Main] = "start" /\ InitialModel # None
            /\ \A t \in Threads : t # Main => pc'[t] = pc[t]
<1> USE MainIsNoClient
<1>1. CASE BootLoaded
  <2>1. pc' = [pc EXCEPT ![Main] = "serving", ![Watchdog] = "watch"] /\ op'[Main] = "none"
    BY <1>1 DEF BootLoaded, TypeOK
  <2>. QED BY <2>1 DEF TypeOK
<1>2. CASE Boot /\ InitialModel = None
  <2>1. pc' = [pc EXCEPT ![Main] = "serving", ![Watchdog] = "watch"] /\ op' = op
    BY <1>2 DEF Boot
  <2>2. op[Main] # "main"
    BY <1>2 DEF Boot, At, MainShape, Starting
  <2>. QED BY <2>1, <2>2 DEF TypeOK
<1>3. CASE Boot /\ InitialModel # None
  <2>1. pc' = [pc EXCEPT ![Main] = "start"]
    BY <1>3 DEF Boot, Goto
  <2>. QED BY <1>3, <2>1 DEF TypeOK
<1>. QED BY <1>1, <1>2, <1>3

LEMMA RestAsleep ==
  ASSUME Inv, DogWaits,
         MainStep \/ Signal \/ WatchStep \/ CooldownOver \/ World \/ UNCHANGED vars
  PROVE  DogWaits'
<1> USE MainIsNoClient
<1>1. TypeOK
  BY DEF Inv, Typed
<1>2. CASE Boot \/ BootLoaded
  <2>1. pc[Main] = "boot" \/ op[Main] = "main"
    BY <1>2 DEF Boot, BootLoaded, At
  <2>2. MainShape
    BY DEF Inv, Safe
  <2>. QED BY <1>1, <1>2, <2>1, <2>2, BootMoves DEF DogWaits
<1>3. CASE BootFailed \/ Shutdown \/ Exit \/ Signal
  BY <1>1, <1>3 DEF BootFailed, Shutdown, Exit, Signal, LeaveMain, Continue, Goto, DogWaits,
                    TypeOK
<1>4. CASE WatchStep
  BY <1>1, <1>4 DEF WatchStep, WatchLook, WatchSkip, WatchGrab, Acquire, Forget, Goto, At,
                    DogWaits, TypeOK
<1>5. CASE CooldownOver \/ World \/ UNCHANGED vars
  BY <1>5 DEF CooldownOver, World, LoadDone, Die, BeginRequest, EndRequest, vars, locals,
              DogWaits
<1>. QED BY <1>2, <1>3, <1>4, <1>5 DEF MainStep

LEMMA RestLock ==
  ASSUME Inv, LockHeld, DogWaits,
         MainStep \/ Signal \/ WatchStep \/ CooldownOver \/ World \/ UNCHANGED vars
  PROVE  LockHeld'
<1> USE MainIsNoClient
<1>1. TypeOK /\ MainShape
  BY DEF Inv, Typed, Safe
<1>2. CASE WatchGrab
  BY <1>1, <1>2, TakeLock DEF WatchGrab, Locked, Committed, Starting
<1>3. CASE WatchLook \/ WatchSkip
  <2>1. lock' = lock /\ pc[Watchdog] \in Resting
        /\ \E place \in Resting : pc' = [pc EXCEPT ![Watchdog] = place]
    BY <1>3 DEF WatchLook, WatchSkip, Forget, Goto, At, Resting, locks
  <2>. QED BY <1>1, <2>1, LockedIsApart, StayLock
<1>4. CASE Boot \/ BootLoaded
  <2>1. lock' = lock
    BY <1>4 DEF Boot, BootLoaded, locks
  <2>2. pc[Watchdog] = "off" /\ {"off", "watch"} \cap Locked = {}
    BY <1>4, LockedIsApart DEF Boot, BootLoaded, At, DogWaits, Resting
  <2>3. \A t \in Threads : t # Main => pc'[t] = pc[t] \/ (pc'[t] = "watch" /\ t = Watchdog)
    BY <1>1, <1>4, BootMoves
  <2>. QED BY <2>1, <2>2, <2>3 DEF LockHeld
<1>5. CASE BootFailed \/ Shutdown \/ Exit \/ Signal
  <2>1. lock' = lock /\ \E place : pc' = [pc EXCEPT ![Main] = place]
    BY <1>5 DEF BootFailed, Shutdown, Exit, Signal, LeaveMain, Continue, Goto, locks
  <2>. QED BY <1>1, <2>1, StayLock
<1>6. CASE CooldownOver \/ World \/ UNCHANGED vars
  BY <1>6 DEF CooldownOver, World, LoadDone, Die, BeginRequest, EndRequest, vars, locals, locks,
              LockHeld
<1>. QED BY <1>2, <1>3, <1>4, <1>5, <1>6 DEF MainStep, WatchStep

Owner == LockHeld /\ DogWaits

LEMMA InitOwner == Init => Owner
  BY InitLock, MainIsNoClient DEF Init, Owner, DogWaits

LEMMA NextOwner == Inv /\ Owner /\ [Next]_vars => Owner'
<1> SUFFICES ASSUME Inv, LockHeld, DogWaits, [Next]_vars PROVE LockHeld' /\ DogWaits'
  BY DEF Owner
<1>1. ASSUME NEW t \in Threads, ThreadStep(t) PROVE LockHeld' /\ DogWaits'
  BY <1>1, ThreadLock, ThreadAsleep
<1>2. ASSUME NEW c \in Clients, ClientStep(c) PROVE LockHeld' /\ DogWaits'
  BY <1>2, SelectLock, ActionLock, OtherLock, ClientAsleep DEF ClientStep
<1>3. CASE MainStep \/ Signal \/ WatchStep \/ CooldownOver \/ World \/ UNCHANGED vars
  BY <1>3, RestLock, RestAsleep
<1> QED
  BY <1>1, <1>2, <1>3 DEF Next, Ended

LEMMA OwnerHolds == Spec => []Owner
  BY InitOwner, NextOwner, InvHolds, PTL DEF Spec

-----------------------------------------------------------------------------
(* A model that is being stopped or replaced is not called ready.          *)

Shut == Committed \cup {"arecheck", "arun"}

NotReady ==
  op[Main] # "main" /\ \A t \in Threads : t # Main /\ pc[t] \in Shut => st # "ready"

LEMMA ShutIsLocked == Shut \subseteq Locked
  BY DEF Shut, Locked, Checking

LEMMA InitReady == Init => NotReady
  BY MainIsNoClient DEF Init, NotReady, Shut, Committed, Starting, Halting

(* A step that does not call the model ready, or comes after such a one.   *)
LEMMA KeepReady ==
  ASSUME TypeOK, NotReady, NEW t \in Threads, NEW place,
         pc' = [pc EXCEPT ![t] = place], op'[Main] = op[Main],
         \/ st' # "ready"
         \/ st' = st /\ (t = Main \/ (place \in Shut => pc[t] \in Shut))
  PROVE  NotReady'
  BY DEF NotReady, TypeOK

(* The holder of the lock calls the model ready: nobody else stops one.    *)
LEMMA SetReady ==
  ASSUME TypeOK, NotReady, LockHeld, NEW t \in Threads, t # Main, pc[t] \in Locked,
         NEW place, place \notin Shut, pc' = [pc EXCEPT ![t] = place], op'[Main] = op[Main]
  PROVE  NotReady'
  BY ShutIsLocked DEF NotReady, LockHeld, TypeOK

(* Nobody but the main thread writes its operation, and steps of others    *)
(* move one thread.                                                        *)
LEMMA ThreadReady ==
  ASSUME Inv, LockHeld, NotReady, NEW t \in Threads, ThreadStep(t) PROVE NotReady'
<1>1. TypeOK /\ MainShape
  BY DEF Inv, Typed, Safe
<1>2. CASE StartStep(t)
  <2>1. op' = op /\ st' = st /\ pc[t] \in Shut
    BY <1>2 DEF StartStep, StartCheck, StartEnter, Kill, StartClear, StartSpawn, StartRaise,
                WaitPoll, WaitProbe, HaltEnter, HaltClear, At, Shut, Committed, Starting,
                Halting, fields
  <2>2. \E place : pc' = [pc EXCEPT ![t] = place]
    BY <1>2 DEF StartStep, StartCheck, StartEnter, Kill, StartClear, StartSpawn, StartRaise,
                WaitPoll, WaitProbe, HaltEnter, HaltClear, Goto
  <2>. QED BY <1>1, <2>1, <2>2, KeepReady
<1>3. CASE Loaded(t)
  <2>1. t # Main /\ pc[t] \in Locked
    BY <1>1, <1>3, MainIsApart DEF Loaded, At, Locked, Committed, Starting
  <2>2. op' = op /\ pc' = [pc EXCEPT ![t] = "release"] /\ "release" \notin Shut
    BY <1>3 DEF Loaded, Settle, Goto, Shut, Committed, Starting, Halting
  <2>. QED BY <1>1, <2>1, <2>2, SetReady
<1>4. CASE SelectFailed(t) \/ ActionFailed(t) \/ RestartFailed(t) \/ Halted(t)
  <2>1. op' = op /\ (st' = st \/ st' # "ready") /\ pc[t] \in Shut
    BY <1>4 DEF SelectFailed, ActionFailed, RestartFailed, Halted, Settle, Continue, At, Shut,
                Committed, Starting, Halting, fields
  <2>2. \E place : pc' = [pc EXCEPT ![t] = place]
    BY <1>4 DEF SelectFailed, ActionFailed, RestartFailed, Halted, Settle, Continue, Goto
  <2>. QED BY <1>1, <2>1, <2>2, KeepReady
<1>5. CASE RestartRaised(t) \/ Release(t)
  <2>1. t # Main /\ st' = st
    BY <1>1, <1>5, MainIsApart DEF RestartRaised, Release, At, Checking, OpKinds
  <2>2. \E place \in Resting : pc' = [pc EXCEPT ![t] = place]
    BY <1>5 DEF RestartRaised, Release, Leave, Forget, Goto, Home, Resting
  <2>3. op'[Main] = op[Main]
    BY <1>1, <1>5, <2>1, MainIsNoClient DEF RestartRaised, Release, Leave, Forget, TypeOK
  <2>4. Shut \cap Resting = {}
    BY ShutIsLocked, LockedIsApart
  <2>. QED BY <1>1, <2>1, <2>2, <2>3, <2>4, KeepReady
<1>. QED BY <1>2, <1>3, <1>4, <1>5 DEF ThreadStep, Outcome

LEMMA ClientReady ==
  ASSUME Inv, Reply, LockHeld, NotReady, NEW c \in Clients, ClientStep(c) PROVE NotReady'
<1> USE MainIsNoClient
<1>1. TypeOK
  BY DEF Inv, Typed
<1>2. CASE SelectCheck(c) \/ StopRecheck(c)
  <2>1. pc[c] \in Locked /\ (pc[c] = "arecheck" <=> StopRecheck(c))
    BY <1>2 DEF SelectCheck, StopRecheck, At, Locked, Checking
  <2>2. op'[Main] = op[Main]
    BY <1>1, <1>2 DEF SelectCheck, StopRecheck, Settle, Continue, Leave, Forget, TypeOK
  <2>3. CASE StopRecheck(c) /\ st' = st
    <3>1. \E place : pc' = [pc EXCEPT ![c] = place]
      BY <2>3 DEF StopRecheck, Settle, Continue, Goto
    <3>. QED BY <1>1, <2>1, <2>2, <2>3, <3>1, KeepReady DEF Shut
  <2>4. CASE SelectCheck(c) \/ (StopRecheck(c) /\ st' # st)
    <3>1. \E place \in {"idle", "begin", "release"} : pc' = [pc EXCEPT ![c] = place]
      BY <2>4 DEF SelectCheck, StopRecheck, Settle, Continue, Leave, Forget, Goto, fields
    <3>2. {"idle", "begin", "release"} \cap Shut = {}
      BY DEF Shut, Committed, Starting, Halting
    <3>. QED BY <1>1, <2>1, <2>2, <3>1, <3>2, SetReady
  <2>. QED BY <1>2, <2>3, <2>4
<1>3. CASE SelectStep(c) /\ ~ SelectCheck(c) /\ ~ Progress(c)
  <2>1. op'[Main] = op[Main]
    BY <1>1, <1>3 DEF SelectStep, Select, SelectAccept, SelectReject, SelectWorker, Fetched,
                      DrafterDone, SelectRecheck, Acquire, Settle, Continue, Leave, Forget,
                      TypeOK
  <2>2. \E place : /\ pc' = [pc EXCEPT ![c] = place]
                   /\ st' # "ready" \/ (st' = st /\ place \notin Shut)
    BY <1>3 DEF SelectStep, Select, SelectAccept, SelectReject, SelectWorker, Fetched,
                DrafterDone, SelectRecheck, Acquire, Settle, Continue, Leave, Forget, Goto,
                fields, Shut, Committed, Starting, Halting
  <2>. QED BY <1>1, <2>1, <2>2, KeepReady
<1>4. CASE Progress(c)
  BY <1>4 DEF Progress, locals, NotReady
<1>5. CASE ActionStep(c) /\ ~ StopRecheck(c)
  <2>1. op'[Main] = op[Main]
    BY <1>1, <1>5 DEF ActionStep, ServerAction, ActionRefused, ActionStopped, ActionStop,
                      ActionStart, StartCurrent, Acquire, Leave, Forget, TypeOK
  <2>2. \E place : /\ pc' = [pc EXCEPT ![c] = place]
                   /\ \/ st' # "ready"
                      \/ st' = st /\ (place \in Shut => pc[c] \in Shut)
    BY <1>5 DEF ActionStep, ServerAction, ActionRefused, ActionStopped, ActionStop, ActionStart,
                StartCurrent, Acquire, Leave, Forget, Goto, At, fields, Shut, Committed,
                Starting, Halting
  <2>. QED BY <1>1, <2>1, <2>2, KeepReady
<1>6. CASE OtherStep(c)
  <2>1. op'[Main] = op[Main]
    BY <1>1, <1>6 DEF OtherStep, Vision, ProjectorDone, CancelCheck, CancelSet, DirCheck, DirSet,
                      DecisionCheck, DecisionCapture, DecisionPost, DecisionVerify,
                      DecisionReturn, Acquire, Continue, Forget, TypeOK
  <2>2. \E place : /\ pc' = [pc EXCEPT ![c] = place]
                   /\ st' # "ready" \/ (st' = st /\ place \notin Shut)
    BY <1>6 DEF OtherStep, Vision, ProjectorDone, CancelCheck, CancelSet, DirCheck, DirSet,
                DecisionCheck, DecisionCapture, DecisionPost, DecisionVerify, DecisionReturn,
                Acquire, Continue, Forget, Goto, fields, Shut, Committed, Starting, Halting
  <2>. QED BY <1>1, <2>1, <2>2, KeepReady
<1>. QED BY <1>2, <1>3, <1>4, <1>5, <1>6 DEF ClientStep, SelectStep, ActionStep

LEMMA RestReady ==
  ASSUME InitialModel = None, Inv, NotReady,
         MainStep \/ Signal \/ WatchStep \/ CooldownOver \/ World \/ UNCHANGED vars
  PROVE  NotReady'
<1> USE MainIsNoClient
<1>1. TypeOK /\ MainShape
  BY DEF Inv, Typed, Safe
<1>2. CASE Boot
  <2>1. st' = "idle" /\ op' = op
    BY <1>2 DEF Boot
  <2>. QED BY <2>1 DEF NotReady
<1>3. CASE BootFailed \/ Shutdown \/ Exit \/ Signal
  <2>1. st' = st /\ op'[Main] # "main"
    BY <1>1, <1>3 DEF BootFailed, Shutdown, Exit, Signal, LeaveMain, Continue, NotReady, TypeOK,
                      fields
  <2>2. \A t \in Threads : t # Main => pc'[t] = pc[t]
    BY <1>1, <1>3 DEF BootFailed, Shutdown, Exit, Signal, LeaveMain, Continue, Goto, TypeOK
  <2>. QED BY <2>1, <2>2 DEF NotReady
<1>4. CASE BootLoaded
  BY <1>4 DEF BootLoaded, NotReady
<1>5. CASE WatchStep
  <2>1. op'[Main] = op[Main]
    BY <1>1, <1>5 DEF WatchStep, WatchLook, WatchSkip, WatchGrab, Acquire, Forget, TypeOK
  <2>2. \E place : /\ pc' = [pc EXCEPT ![Watchdog] = place]
                   /\ st' # "ready" \/ (st' = st /\ place \notin Shut)
    BY <1>5 DEF WatchStep, WatchLook, WatchSkip, WatchGrab, Acquire, Forget, Goto, fields, Shut,
                Committed, Starting, Halting
  <2>. QED BY <1>1, <2>1, <2>2, KeepReady
<1>6. CASE CooldownOver \/ World \/ UNCHANGED vars
  BY <1>6 DEF CooldownOver, World, LoadDone, Die, BeginRequest, EndRequest, vars, locals,
              fields, NotReady
<1>. QED BY <1>2, <1>3, <1>4, <1>5, <1>6 DEF MainStep

LEMMA NextReady ==
  InitialModel = None => (Inv /\ Reply /\ Owner /\ NotReady /\ [Next]_vars => NotReady')
<1> SUFFICES ASSUME InitialModel = None, Inv, Reply, LockHeld, NotReady, [Next]_vars
             PROVE  NotReady'
  BY DEF Owner
<1>1. ASSUME NEW t \in Threads, ThreadStep(t) PROVE NotReady'
  BY <1>1, ThreadReady
<1>2. ASSUME NEW c \in Clients, ClientStep(c) PROVE NotReady'
  BY <1>2, ClientReady
<1>3. CASE MainStep \/ Signal \/ WatchStep \/ CooldownOver \/ World \/ UNCHANGED vars
  BY <1>3, RestReady
<1> QED
  BY <1>1, <1>2, <1>3 DEF Next, Ended

LEMMA ReadyHolds == ASSUME InitialModel = None PROVE Spec => []NotReady
<1>1. Inv /\ Reply /\ Owner /\ NotReady /\ [Next]_vars => NotReady'
  BY NextReady
<1>. QED BY <1>1, InitReady, InitReply, NextReply, OwnerHolds, InvHolds, PTL DEF Spec

(* No crash is reported while an operation starts, replaces or stops a     *)
(* model, whatever requests, crashes and restarts come in between, except  *)
(* during the stop of shutdown().  (The initial load takes no lock and its *)
(* outcome is not guarded by one.)                                         *)
THEOREM OperationIsNoCrash ==
  ASSUME InitialModel = None PROVE Spec => []OperationIsNotACrash
<1>1. MainShape /\ NotReady => OperationIsNotACrash
  BY MainIsApart DEF NotReady, OperationIsNotACrash, Failure, Shut, Committed, Halting
<1>2. Inv => MainShape
  BY DEF Inv, Safe
<1>. QED BY <1>1, <1>2, ReadyHolds, InvHolds, PTL

-----------------------------------------------------------------------------
(* Cancelled downloads.                                                    *)

Cancelled(t) == t # Main /\ (pc[t] = "release" \/ (pc[t] \in {"fetch", "drafter"} /\ cancel))

ToldReleases ==
  /\ \A t \in told : Cancelled(t)
  /\ \A t \in Threads : pc[t] # "project"

LEMMA InitTold == Init => ToldReleases
  BY DEF Init, ToldReleases

(* One thread moves and the cancel event is left alone: if the thread was  *)
(* told to stop, it goes to give the lock back.                            *)
LEMMA MoveTold ==
  ASSUME TypeOK, ToldReleases, NEW t \in Threads, NEW place, place # "project",
         pc' = [pc EXCEPT ![t] = place], cancel' = cancel,
         told' = told \/ told' = told \ {t},
         t \in told /\ t \in told' => place = "release"
  PROVE  ToldReleases'
  BY DEF ToldReleases, Cancelled, TypeOK

LEMMA ThreadTold ==
  ASSUME Inv, ToldReleases, NEW t \in Threads, ThreadStep(t) PROVE ToldReleases'
<1>1. TypeOK
  BY DEF Inv, Typed
<1>2. CASE StartStep(t) \/ Loaded(t) \/ SelectFailed(t) \/ ActionFailed(t) \/ RestartFailed(t)
           \/ Halted(t)
  <2>1. cancel' = cancel /\ told' = told /\ pc[t] \notin {"release", "fetch", "drafter"}
    BY <1>2 DEF StartStep, StartCheck, StartEnter, Kill, StartClear, StartSpawn, StartRaise,
                WaitPoll, WaitProbe, HaltEnter, HaltClear, Loaded, SelectFailed, ActionFailed,
                RestartFailed, Halted, Settle, Continue, At, flags, ghosts
  <2>2. \E place : place # "project" /\ pc' = [pc EXCEPT ![t] = place]
    BY <1>2 DEF StartStep, StartCheck, StartEnter, Kill, StartClear, StartSpawn, StartRaise,
                WaitPoll, WaitProbe, HaltEnter, HaltClear, Loaded, SelectFailed, ActionFailed,
                RestartFailed, Halted, Settle, Continue, Goto
  <2>3. t \notin told
    BY <2>1 DEF ToldReleases, Cancelled
  <2>. QED BY <1>1, <2>1, <2>2, <2>3, MoveTold
<1>3. CASE RestartRaised(t) \/ Release(t)
  <2>1. cancel' = cancel /\ told' = told \ {t}
    BY <1>3 DEF RestartRaised, Release, Leave, flags
  <2>2. \E place : place # "project" /\ pc' = [pc EXCEPT ![t] = place]
    BY <1>3 DEF RestartRaised, Release, Leave, Forget, Goto, Home
  <2>. QED BY <1>1, <2>1, <2>2, MoveTold
<1>. QED BY <1>2, <1>3 DEF ThreadStep, Outcome

LEMMA ClientTold ==
  ASSUME "vision" \notin Ops, Inv, LockHeld, ToldReleases, NEW c \in Clients, ClientStep(c)
  PROVE  ToldReleases'
<1> USE MainIsNoClient
<1>1. TypeOK /\ MainShape
  BY DEF Inv, Typed, Safe
<1>2. CASE Progress(c)
  BY <1>2 DEF Progress, locals, flags, ghosts, ToldReleases, Cancelled
<1>3. CASE SelectAccept(c)
  <2>1. told = {}
    <3>1. pc[c] = "begin" /\ lock = c
      BY <1>3 DEF SelectAccept, At, LockHeld, Locked, Checking
    <3>2. ASSUME NEW t \in told PROVE FALSE
      <4>1. t \in Threads /\ t # Main /\ pc[t] \in {"release", "fetch", "drafter"}
        BY <1>1, <3>2 DEF ToldReleases, Cancelled, TypeOK
      <4>2. lock = t
        BY <4>1 DEF LockHeld, Locked, Checking, Downloading
      <4>. QED BY <3>1, <4>1, <4>2
    <3>. QED BY <3>2
  <2>2. told' = {} /\ pc' = [pc EXCEPT ![c] = "worker"]
    BY <1>3, <2>1 DEF SelectAccept, Goto, ghosts
  <2>. QED BY <1>1, <2>2 DEF ToldReleases, TypeOK
<1>4. CASE CancelSet(c)
  <2>1. cancel' /\ pc' = [pc EXCEPT ![c] = "idle"] /\ pc[c] = "cancel"
        /\ told' = told \cup {t \in Threads : pc[t] \in Downloading}
    BY <1>4 DEF CancelSet, At, Goto
  <2>2. ASSUME NEW t \in told' PROVE Cancelled(t)'
    <3>1. t \in Threads /\ t # c
      BY <1>1, <2>1, <2>2 DEF ToldReleases, Cancelled, TypeOK, Downloading
    <3>2. pc'[t] = pc[t]
      BY <1>1, <2>1, <3>1 DEF TypeOK
    <3>3. t # Main
      BY <1>1, <2>1, <2>2, MainIsApart DEF ToldReleases, Cancelled
    <3>. QED BY <2>1, <2>2, <3>1, <3>2, <3>3 DEF ToldReleases, Cancelled, Downloading
  <2>3. \A t \in Threads : pc'[t] # "project"
    BY <1>1, <2>1 DEF ToldReleases, TypeOK
  <2>. QED BY <2>2, <2>3 DEF ToldReleases
<1>5. CASE Fetched(c) \/ DrafterDone(c)
  <2>1. told' = told /\ cancel' = cancel /\ pc[c] \in {"fetch", "drafter"}
    BY <1>5 DEF Fetched, DrafterDone, Settle, Continue, At, flags, ghosts
  <2>2. \E place \in {"release", "drafter", "recheck"} :
          pc' = [pc EXCEPT ![c] = place] /\ (cancel => place = "release")
    BY <1>5 DEF Fetched, DrafterDone, Settle, Continue, Goto
  <2>3. c \in told => cancel
    BY <2>1 DEF ToldReleases, Cancelled
  <2>. QED BY <1>1, <2>1, <2>2, <2>3, MoveTold
<1>6. CASE \/ (\E a \in Alias : Select(c, a)) \/ SelectCheck(c) \/ SelectReject(c)
           \/ SelectWorker(c) \/ SelectRecheck(c) \/ ActionStep(c)
           \/ CancelCheck(c) \/ DirCheck(c) \/ DirSet(c) \/ DecisionCheck(c)
           \/ DecisionCapture(c) \/ DecisionPost(c) \/ DecisionVerify(c) \/ DecisionReturn(c)
  <2>1. /\ cancel' = cancel /\ (told' = told \/ told' = told \ {c})
        /\ pc[c] \notin {"release", "fetch", "drafter"}
    BY <1>6 DEF Select, SelectCheck, SelectReject, SelectWorker, SelectRecheck, ActionStep,
                ServerAction, ActionRefused, ActionStopped, ActionStop, ActionStart, StopRecheck,
                StartCurrent, CancelCheck, DirCheck, DirSet, DecisionCheck, DecisionCapture,
                DecisionPost, DecisionVerify, DecisionReturn, Settle, Continue, Leave, At, flags,
                ghosts
  <2>2. \E place : place # "project" /\ pc' = [pc EXCEPT ![c] = place]
    BY <1>6 DEF Select, SelectCheck, SelectReject, SelectWorker, SelectRecheck, ActionStep,
                ServerAction, ActionRefused, ActionStopped, ActionStop, ActionStart, StopRecheck,
                StartCurrent, CancelCheck, DirCheck, DirSet, DecisionCheck, DecisionCapture,
                DecisionPost, DecisionVerify, DecisionReturn, Acquire, Settle, Continue, Leave,
                Forget, Goto
  <2>3. c \notin told
    BY <2>1 DEF ToldReleases, Cancelled
  <2>. QED BY <1>1, <2>1, <2>2, <2>3, MoveTold
<1>7. CASE Vision(c) \/ ProjectorDone(c)
  BY <1>7 DEF Vision, ProjectorDone, At, ToldReleases
<1>. QED BY <1>2, <1>3, <1>4, <1>5, <1>6, <1>7 DEF ClientStep, SelectStep, OtherStep

LEMMA RestTold ==
  ASSUME Inv, DogWaits, ToldReleases,
         MainStep \/ Signal \/ WatchStep \/ CooldownOver \/ World \/ UNCHANGED vars
  PROVE  ToldReleases'
<1> USE MainIsNoClient
<1>1. TypeOK /\ MainShape
  BY DEF Inv, Typed, Safe
<1>2. CASE Boot \/ BootLoaded
  <2>1. told' = told /\ cancel' = cancel
    BY <1>2 DEF Boot, BootLoaded, flags, ghosts
  <2>2. pc[Watchdog] = "off" /\ pc'[Main] # "project"
    BY <1>1, <1>2, BootMoves DEF Boot, BootLoaded, At, DogWaits
  <2>3. \A t \in Threads : t # Main => pc'[t] = pc[t] \/ (pc'[t] = "watch" /\ t = Watchdog)
    BY <1>1, <1>2, BootMoves
  <2>4. told \subseteq Threads \ {Watchdog}
    BY <1>1, <2>2 DEF ToldReleases, Cancelled, TypeOK
  <2>. QED BY <2>1, <2>2, <2>3, <2>4 DEF ToldReleases, Cancelled
<1>3. CASE Shutdown
  <2>1. told' = told /\ cancel' /\ pc' = [pc EXCEPT ![Main] = "halt"]
    BY <1>3 DEF Shutdown, Goto, ghosts
  <2>. QED BY <1>1, <2>1 DEF ToldReleases, Cancelled, TypeOK
<1>4. CASE BootFailed \/ Exit \/ Signal
  <2>1. told' = told /\ cancel' = cancel
        /\ \E place : place # "project" /\ pc' = [pc EXCEPT ![Main] = place]
    BY <1>4 DEF BootFailed, Exit, Signal, LeaveMain, Continue, Goto, flags, ghosts
  <2>2. Main \notin told
    BY DEF ToldReleases, Cancelled
  <2>. QED BY <1>1, <2>1, <2>2, MoveTold
<1>5. CASE WatchStep
  <2>1. told' = told /\ cancel' = cancel /\ pc[Watchdog] \in {"watch", "grab"}
        /\ \E place : place # "project" /\ pc' = [pc EXCEPT ![Watchdog] = place]
    BY <1>5 DEF WatchStep, WatchLook, WatchSkip, WatchGrab, Acquire, Forget, Goto, At, flags,
                ghosts
  <2>2. Watchdog \notin told
    BY <2>1 DEF ToldReleases, Cancelled
  <2>. QED BY <1>1, <2>1, <2>2, MoveTold
<1>6. CASE CooldownOver \/ World \/ UNCHANGED vars
  BY <1>6 DEF CooldownOver, World, LoadDone, Die, BeginRequest, EndRequest, vars, locals, flags,
              ghosts, ToldReleases, Cancelled
<1>. QED BY <1>2, <1>3, <1>4, <1>5, <1>6 DEF MainStep

LEMMA NextTold ==
  "vision" \notin Ops => (Inv /\ Owner /\ ToldReleases /\ [Next]_vars => ToldReleases')
<1> SUFFICES ASSUME "vision" \notin Ops, Inv, LockHeld, DogWaits, ToldReleases, [Next]_vars
             PROVE  ToldReleases'
  BY DEF Owner
<1>1. ASSUME NEW t \in Threads, ThreadStep(t) PROVE ToldReleases'
  BY <1>1, ThreadTold
<1>2. ASSUME NEW c \in Clients, ClientStep(c) PROVE ToldReleases'
  BY <1>2, ClientTold
<1>3. CASE MainStep \/ Signal \/ WatchStep \/ CooldownOver \/ World \/ UNCHANGED vars
  BY <1>3, RestTold
<1> QED
  BY <1>1, <1>2, <1>3 DEF Next, Ended

(* A cancel that was accepted while an operation downloaded stops it       *)
(* before it loads the model.  The projector of a vision install is        *)
(* fetched without looking at the event: without that operation.           *)
THEOREM CancelIsHeard ==
  ASSUME "vision" \notin Ops PROVE Spec => []CancelStopsDownload
<1>1. ToldReleases => CancelStopsDownload
  BY DEF ToldReleases, Cancelled, CancelStopsDownload, Committed, Starting, Halting
<1>2. Inv /\ Owner /\ ToldReleases /\ [Next]_vars => ToldReleases'
  BY NextTold
<1>. QED BY <1>1, <1>2, InitTold, OwnerHolds, InvHolds, PTL DEF Spec

-----------------------------------------------------------------------------
(* Whose process runs.  A step of a thread writes only that thread's       *)
(* local variables.                                                        *)

Only(t) ==
  \A u \in Threads : u # t =>
    /\ pc'[u] = pc[u] /\ op'[u] = op[u] /\ tgt'[u] = tgt[u] /\ mine'[u] = mine[u]
    /\ prev'[u] = prev[u] /\ answer'[u] = answer[u]

LEMMA ThreadOnly == ASSUME TypeOK, NEW t \in Threads, ThreadStep(t) PROVE Only(t)
<1>1. CASE StartStep(t)
  BY <1>1 DEF StartStep, StartCheck, StartEnter, Kill, StartClear, StartSpawn, StartRaise,
              WaitPoll, WaitProbe, HaltEnter, HaltClear, Goto, Only, TypeOK
<1>2. CASE Outcome(t)
  BY <1>2 DEF Outcome, Loaded, SelectFailed, ActionFailed, RestartFailed, RestartRaised, Halted,
              Release, Settle, Continue, Leave, Forget, Goto, Only, TypeOK
<1>. QED BY <1>1, <1>2 DEF ThreadStep

LEMMA ClientOnly == ASSUME TypeOK, NEW c \in Clients, ClientStep(c) PROVE Only(c)
<1> USE MainIsNoClient DEF Only, TypeOK, Acquire, Settle, Continue, Leave, Forget, Goto
<1>1. CASE SelectStep(c)
  BY <1>1 DEF SelectStep, Select, SelectCheck, SelectAccept, SelectReject, SelectWorker,
              Progress, Fetched, DrafterDone, SelectRecheck, locals
<1>2. CASE ActionStep(c)
  BY <1>2 DEF ActionStep, ServerAction, ActionRefused, ActionStopped, ActionStop, ActionStart,
              StopRecheck, StartCurrent
<1>3. CASE OtherStep(c)
  BY <1>3 DEF OtherStep, Vision, ProjectorDone, CancelCheck, CancelSet, DirCheck, DirSet,
              DecisionCheck, DecisionCapture, DecisionPost, DecisionVerify, DecisionReturn
<1>. QED BY <1>1, <1>2, <1>3 DEF ClientStep

(* What an operation can be, and which ones can raise.                     *)
ClientOps ==
  /\ \A c \in Clients : op[c] \in OpKinds \cup {"none"}
  /\ \A t \in Threads : t # Main =>
       /\ op[t] \in {"vision", "watch"} => op[t] \in Ops
       /\ pc[t] = "raised" => op[t] \in Raising
  /\ pc[Watchdog] = "grab" => "watch" \in Ops

LEMMA InitOps == Init => ClientOps
  BY MainIsNoClient DEF Init, ClientOps, OpKinds

LEMMA ClientKeepsOps ==
  ASSUME TypeOK, ClientOps, NEW c \in Clients, ClientStep(c) PROVE ClientOps'
<1> USE MainIsNoClient
<1>1. Only(c) /\ c # Watchdog
  BY ClientOnly, ThreadAssumption
<1>2. /\ op'[c] \in OpKinds \cup {"none"}
      /\ op'[c] = "vision" => "vision" \in Ops
      /\ pc'[c] = "raised" => op'[c] \in Raising
  <2> USE DEF TypeOK, ClientOps, OpKinds, Acquire, Settle, Continue, Leave, Forget, Goto, At
  <2>1. CASE SelectStep(c)
    BY <2>1 DEF SelectStep, Select, SelectCheck, SelectAccept, SelectReject, SelectWorker,
                Progress, Fetched, DrafterDone, SelectRecheck, locals
  <2>2. CASE ActionStep(c)
    BY <2>2 DEF ActionStep, ServerAction, ActionRefused, ActionStopped, ActionStop, ActionStart,
                StopRecheck, StartCurrent
  <2>3. CASE OtherStep(c)
    BY <2>3 DEF OtherStep, Vision, ProjectorDone, CancelCheck, CancelSet, DirCheck, DirSet,
                DecisionCheck, DecisionCapture, DecisionPost, DecisionVerify, DecisionReturn
  <2>. QED BY <2>1, <2>2, <2>3 DEF ClientStep
<1>. QED BY <1>1, <1>2 DEF Only, ClientOps, OpKinds

LEMMA ThreadKeepsOps ==
  ASSUME TypeOK, ClientOps, NEW t \in Threads, ThreadStep(t) PROVE ClientOps'
<1> USE MainIsNoClient
<1>1. Only(t)
  BY ThreadOnly
<1>2. /\ op'[t] \in {op[t], "none"} /\ pc'[t] # "grab"
      /\ pc'[t] = "raised" => op'[t] = op[t] /\ op[t] \in Raising
  <2> USE DEF TypeOK, Settle, Continue, Leave, Forget, Goto, Home
  <2>1. CASE StartStep(t)
    BY <2>1 DEF StartStep, StartCheck, StartEnter, Kill, StartClear, StartSpawn, StartRaise,
                WaitPoll, WaitProbe, HaltEnter, HaltClear
  <2>2. CASE Outcome(t)
    BY <2>2 DEF Outcome, Loaded, SelectFailed, ActionFailed, RestartFailed, RestartRaised,
                Halted, Release
  <2>. QED BY <2>1, <2>2 DEF ThreadStep
<1>. QED BY <1>1, <1>2 DEF Only, ClientOps

(* The main thread and the watchdog write no local variable of a request.  *)
LEMMA RestSpares ==
  ASSUME TypeOK, MainStep \/ Signal \/ WatchStep \/ CooldownOver \/ World \/ UNCHANGED vars
  PROVE  \A c \in Clients :
           /\ pc'[c] = pc[c] /\ op'[c] = op[c] /\ tgt'[c] = tgt[c] /\ mine'[c] = mine[c]
           /\ prev'[c] = prev[c] /\ answer'[c] = answer[c]
<1> USE MainIsNoClient
<1>1. Watchdog \notin Clients /\ Main \notin Clients
  BY ThreadAssumption
<1>2. CASE CooldownOver \/ World \/ UNCHANGED vars
  BY <1>2 DEF CooldownOver, World, LoadDone, Die, BeginRequest, EndRequest, vars, locals
<1>3. CASE Boot \/ BootLoaded
  BY <1>1, <1>3 DEF Boot, BootLoaded, Goto, TypeOK
<1>4. CASE BootFailed \/ Shutdown \/ Exit \/ Signal
  BY <1>1, <1>4 DEF BootFailed, Shutdown, Exit, Signal, LeaveMain, Continue, Goto, TypeOK
<1>5. CASE WatchStep
  BY <1>1, <1>5 DEF WatchStep, WatchLook, WatchSkip, WatchGrab, Acquire, Forget, Goto, TypeOK
<1>. QED BY <1>2, <1>3, <1>4, <1>5 DEF MainStep

LEMMA NextOps == TypeOK /\ ClientOps /\ [Next]_vars => ClientOps'
<1> SUFFICES ASSUME TypeOK, ClientOps, [Next]_vars PROVE ClientOps'
  OBVIOUS
<1>1. ASSUME NEW t \in Threads, ThreadStep(t) PROVE ClientOps'
  BY <1>1, ThreadKeepsOps
<1>2. ASSUME NEW c \in Clients, ClientStep(c) PROVE ClientOps'
  BY <1>2, ClientKeepsOps
<1>3. CASE MainStep \/ Signal \/ WatchStep \/ CooldownOver \/ World \/ UNCHANGED vars
  <2>1. \A c \in Clients : op'[c] = op[c] /\ pc'[c] = pc[c]
    BY <1>3, RestSpares
  <2>2. /\ op'[Watchdog] \in {"vision", "watch"} => op'[Watchdog] \in Ops
        /\ pc'[Watchdog] = "raised" => op'[Watchdog] \in Raising
        /\ pc'[Watchdog] = "grab" => "watch" \in Ops
    <3> USE MainIsNoClient
    <3>1. CASE Boot \/ BootLoaded
      BY <3>1 DEF Boot, BootLoaded, Goto, TypeOK, ClientOps
    <3>2. CASE BootFailed \/ Shutdown \/ Exit \/ Signal
      BY <3>2 DEF BootFailed, Shutdown, Exit, Signal, LeaveMain, Continue, Goto, TypeOK, ClientOps
    <3>3. CASE WatchStep
      BY <3>3 DEF WatchStep, WatchLook, WatchSkip, WatchGrab, Acquire, Forget, Goto, At, TypeOK,
                  ClientOps
    <3>4. CASE CooldownOver \/ World \/ UNCHANGED vars
      BY <3>4 DEF CooldownOver, World, LoadDone, Die, BeginRequest, EndRequest, vars, locals,
                  ClientOps
    <3>. QED BY <1>3, <3>1, <3>2, <3>3, <3>4 DEF MainStep
  <2>. QED BY <2>1, <2>2 DEF ClientOps, Threads
<1> QED
  BY <1>1, <1>2, <1>3 DEF Next, Ended

-----------------------------------------------------------------------------
(* A request between its spawn and the end of its operation remembers the  *)
(* process it spawned, and self.proc is that process or None.              *)

AfterSpawn == {"wait", "probe", "loaded", "failed", "halt", "hkill", "hclear", "halted",
               "release"}

Sound(c) ==
  /\ pc[c] \notin AfterSpawn \cup {"post", "verify", "decided"} => mine[c] = None
  /\ pc[c] \in {"wait", "probe", "loaded"} => mine[c] # None
  /\ pc[c] \in AfterSpawn /\ mine[c] # None => proc \in {mine[c], None} /\ mine[c] # prev[c]
  /\ pc[c] \in {"wait", "probe", "loaded"} /\ proc = None => closing
  /\ pc[c] \in {"loaded", "release"} /\ mine[c] # None /\ proc # None => current = tgt[c]
  /\ pc[c] = "halted" => proc = None
  /\ pc[c] \in Locked /\ op[c] = "vision" => tgt[c] = current

Spawned == \A c \in Clients : Sound(c)

LEMMA AfterIsLocked == AfterSpawn \subseteq Locked
  BY DEF AfterSpawn, Locked, Committed, Starting, Halting, Checking

LEMMA InitSpawned == Init => Spawned
<1> SUFFICES ASSUME Init, NEW c \in Clients PROVE Sound(c)
  BY DEF Spawned
<1>1. pc[c] = "idle" /\ mine[c] = None /\ op[c] = "none"
  BY MainIsNoClient, ThreadAssumption DEF Init
<1>. QED BY <1>1 DEF Sound, AfterSpawn

(* A request that does not move stays sound if it holds no lock, or if     *)
(* nothing it looks at changes.                                            *)
LEMMA StaysSound ==
  ASSUME NEW c \in Clients, Sound(c),
         pc'[c] = pc[c], op'[c] = op[c], tgt'[c] = tgt[c], mine'[c] = mine[c], prev'[c] = prev[c],
         \/ pc[c] \notin Locked
         \/ proc' = proc /\ current' = current /\ (closing => closing')
         \/ proc' = None /\ current' = current /\ closing'
  PROVE  Sound(c)'
<1>1. CASE pc[c] \notin Locked
  BY <1>1, AfterIsLocked DEF Sound, AfterSpawn
<1>2. CASE pc[c] \in Locked
  BY <1>2 DEF Sound, AfterSpawn
<1>. QED BY <1>1, <1>2

LEMMA StartSound ==
  ASSUME Inv, NEW c \in Clients, Sound(c), StartStep(c) PROVE Sound(c)'
<1> USE MainIsNoClient, NoneIsNothing DEF Sound, AfterSpawn, Locked, Downloading, Committed,
                                          Starting, Halting, Checking, At, Goto, TypeOK
<1>0. TypeOK
  BY DEF Inv, Typed
<1>1. CASE StartCheck(c) \/ StartEnter(c) \/ StartRaise(c)
  BY <1>0, <1>1 DEF StartCheck, StartEnter, StartRaise, fields, flags
<1>2. CASE Kill(c, "kill", "clear") \/ Kill(c, "hkill", "hclear")
  BY <1>0, <1>2 DEF Kill, fields, flags
<1>3. CASE StartClear(c) \/ HaltClear(c)
  BY <1>0, <1>3 DEF StartClear, HaltClear, flags
<1>4. CASE StartSpawn(c)
  BY <1>0, <1>4 DEF StartSpawn, Free, flags
<1>5. CASE WaitPoll(c) \/ WaitProbe(c) \/ HaltEnter(c)
  BY <1>0, <1>5 DEF WaitPoll, WaitProbe, HaltEnter, fields, flags
<1>. QED BY <1>1, <1>2, <1>3, <1>4, <1>5 DEF StartStep

LEMMA OutcomeSound ==
  ASSUME Inv, ClientOps, NEW c \in Clients, Sound(c), Outcome(c) PROVE Sound(c)'
<1> USE MainIsNoClient, NoneIsNothing DEF Sound, AfterSpawn, Locked, Downloading, Committed,
                                          Starting, Halting, Checking, At, Goto, TypeOK, Settle,
                                          Continue
<1>0. TypeOK
  BY DEF Inv, Typed
<1>1. CASE Loaded(c)
  BY <1>0, <1>1 DEF Loaded, flags
<1>2. CASE SelectFailed(c)
  BY <1>0, <1>2 DEF SelectFailed, flags, fields
<1>3. CASE ActionFailed(c)
  BY <1>0, <1>3 DEF ActionFailed, flags, fields
<1>4. CASE RestartFailed(c)
  BY <1>0, <1>4 DEF RestartFailed, flags, ClientOps, OpKinds
<1>5. CASE RestartRaised(c) \/ Release(c)
  BY <1>0, <1>5, ThreadAssumption DEF RestartRaised, Release, Leave, Forget, Home, flags
<1>6. CASE Halted(c)
  BY <1>0, <1>6 DEF Halted, flags
<1>. QED BY <1>1, <1>2, <1>3, <1>4, <1>5, <1>6 DEF Outcome

LEMMA ClientSound ==
  ASSUME Inv, Reply, NEW c \in Clients, Sound(c), ClientStep(c) PROVE Sound(c)'
<1> USE MainIsNoClient, NoneIsNothing DEF Sound, AfterSpawn, Locked, Downloading, Committed,
                                          Starting, Halting, Checking, At, Goto, TypeOK, Settle,
                                          Continue,
     Acquire, Leave, Forget, flags, fields
<1>0. TypeOK
  BY DEF Inv, Typed
<1>1. CASE (\E a \in Alias : Select(c, a)) \/ SelectCheck(c) \/ SelectReject(c) \/ SelectAccept(c)
  BY <1>0, <1>1 DEF Select, SelectCheck, SelectReject, SelectAccept
<1>2. CASE SelectWorker(c) \/ Fetched(c) \/ DrafterDone(c) \/ SelectRecheck(c)
  BY <1>0, <1>2 DEF SelectWorker, Fetched, DrafterDone, SelectRecheck
<1>3. CASE Progress(c)
  BY <1>0, <1>3 DEF Progress, locals
<1>4. CASE ActionStep(c) /\ ~ StartCurrent(c)
  BY <1>0, <1>4 DEF ActionStep, ServerAction, ActionRefused, ActionStopped, ActionStop,
                    ActionStart,
              StopRecheck
<1>5. CASE StartCurrent(c)
  BY <1>0, <1>5 DEF StartCurrent, Reply, OpShape
<1>6. CASE OtherStep(c)
  BY <1>0, <1>6 DEF OtherStep, Vision, ProjectorDone, CancelCheck, CancelSet, DirCheck, DirSet,
              DecisionCheck, DecisionCapture, DecisionPost, DecisionVerify, DecisionReturn
<1>. QED BY <1>1, <1>2, <1>3, <1>4, <1>5, <1>6 DEF ClientStep, SelectStep

(* Without the initial load and the watchdog, every start is a request's.  *)
OnlyRequests == InitialModel = None /\ "watch" \notin Ops

DogIdle == pc[Watchdog] \in {"off", "watch"}

LEMMA InitIdle == Init => DogIdle
  BY MainIsNoClient DEF Init, DogIdle

LEMMA DogRuns == ASSUME Inv, DogIdle, ThreadStep(Watchdog) PROVE FALSE
  BY DEF DogIdle, ThreadStep, StartStep, StartCheck, StartEnter, Kill, StartClear, StartSpawn,
         StartRaise, WaitPoll, WaitProbe, HaltEnter, HaltClear, Outcome, Loaded, SelectFailed,
         ActionFailed, RestartFailed, RestartRaised, Halted, Release, At

LEMMA NextIdle ==
  OnlyRequests => (Inv /\ DogIdle /\ [Next]_vars => DogIdle')
<1> SUFFICES ASSUME OnlyRequests, Inv, DogIdle, [Next]_vars PROVE DogIdle'
  OBVIOUS
<1> USE MainIsNoClient
<1>1. TypeOK /\ MainShape /\ \A c \in Clients : c # Watchdog
  BY ThreadAssumption DEF Inv, Typed, Safe
<1>2. ASSUME NEW t \in Threads, ThreadStep(t) PROVE DogIdle'
  BY <1>1, <1>2, ThreadOnly, DogRuns DEF Only, DogIdle
<1>3. ASSUME NEW c \in Clients, ClientStep(c) PROVE DogIdle'
  BY <1>1, <1>3, ClientOnly DEF Only, DogIdle
<1>4. CASE Boot \/ BootLoaded
  BY <1>1, <1>4, BootMoves DEF DogIdle
<1>5. CASE BootFailed \/ Shutdown \/ Exit \/ Signal
  BY <1>1, <1>5 DEF BootFailed, Shutdown, Exit, Signal, LeaveMain, Continue, Goto, TypeOK, DogIdle
<1>6. CASE WatchStep
  BY <1>6 DEF WatchStep, WatchLook, WatchSkip, WatchGrab, At, OnlyRequests, DogIdle
<1>7. CASE CooldownOver \/ World \/ UNCHANGED vars
  BY <1>7 DEF CooldownOver, World, LoadDone, Die, BeginRequest, EndRequest, vars, locals, DogIdle
<1> QED
  BY <1>2, <1>3, <1>4, <1>5, <1>6, <1>7 DEF Next, MainStep, Ended

(* The main thread then only stops the model.                              *)
LEMMA MainOnlyHalts ==
  ASSUME Inv, NotReady, ThreadStep(Main)
  PROVE  HaltEnter(Main) \/ Kill(Main, "hkill", "hclear") \/ HaltClear(Main)
<1>1. MainShape
  BY DEF Inv, Safe
<1>2. pc[Main] \notin Starting \cup {"release"} /\ op[Main] \notin OpKinds \cup {"watch"}
      /\ (pc[Main] \in Halting => op[Main] = "exit")
  BY <1>1, MainIsApart DEF NotReady, Checking, Halting
<1>. QED BY <1>2 DEF ThreadStep, StartStep, StartCheck, StartEnter, Kill, StartClear, StartSpawn,
         StartRaise, WaitPoll, WaitProbe, HaltEnter, HaltClear, Outcome, Loaded, SelectFailed,
         ActionFailed, RestartFailed, RestartRaised, Halted, Release, At, Starting, Halting,
         OpKinds

(* What other requests see of the step of one of them.                     *)
LEMMA ThreadFrame ==
  ASSUME NEW t \in Threads, ThreadStep(t)
  PROVE  \/ proc' = proc /\ current' = current /\ closing' = closing
         \/ pc[t] \in Locked
<1>1. CASE StartStep(t)
  BY <1>1 DEF StartStep, StartCheck, StartEnter, Kill, StartClear, StartSpawn, StartRaise,
              WaitPoll,
         WaitProbe, HaltEnter, HaltClear, At, Locked, Committed, Starting, Halting
<1>2. CASE Outcome(t)
  BY <1>2 DEF Outcome, Loaded, SelectFailed, ActionFailed, RestartFailed, RestartRaised, Halted,
         Release, Settle, Continue, Leave, fields, flags
<1>. QED BY <1>1, <1>2 DEF ThreadStep

LEMMA ClientFrame ==
  ASSUME NEW c \in Clients, ClientStep(c)
  PROVE  proc' = proc /\ current' = current /\ closing' = closing
<1> USE DEF Acquire, Settle, Continue, Leave, fields, flags
<1>1. CASE SelectStep(c)
  BY <1>1 DEF SelectStep, Select, SelectCheck, SelectAccept, SelectReject, SelectWorker,
              Progress, Fetched, DrafterDone, SelectRecheck
<1>2. CASE ActionStep(c)
  BY <1>2 DEF ActionStep, ServerAction, ActionRefused, ActionStopped, ActionStop, ActionStart,
              StopRecheck, StartCurrent
<1>3. CASE OtherStep(c)
  BY <1>3 DEF OtherStep, Vision, ProjectorDone, CancelCheck, CancelSet, DirCheck, DirSet,
              DecisionCheck, DecisionCapture, DecisionPost, DecisionVerify, DecisionReturn
<1>. QED BY <1>1, <1>2, <1>3 DEF ClientStep

LEMMA RestFrame ==
  ASSUME MainStep \/ Signal \/ WatchStep \/ CooldownOver \/ World \/ UNCHANGED vars
  PROVE  proc' = proc /\ current' = current /\ (closing => closing')
  BY DEF MainStep, Boot, BootLoaded, BootFailed, LeaveMain, Shutdown, Exit, Signal, WatchStep,
         WatchLook, WatchSkip, WatchGrab, CooldownOver, World, LoadDone, Die, BeginRequest,
         EndRequest, Continue, Forget, Acquire, fields, flags, vars

LEMMA NextSpawned ==
  ASSUME Inv, Reply, LockHeld, NotReady, ClientOps, DogIdle, Spawned, [Next]_vars
  PROVE  Spawned'
<1> USE MainIsNoClient
<1>1. TypeOK /\ ClosingFirst
  BY DEF Inv, Typed, Safe
<1>2. ASSUME NEW t \in Clients, ThreadStep(t) PROVE Spawned'
  <2>1. ASSUME NEW c \in Clients, c # t PROVE Sound(c)'
    <3>1. pc[t] \in Locked => pc[c] \notin Locked
      BY <2>1 DEF LockHeld
    <3>. QED BY <1>1, <1>2, <2>1, <3>1, ThreadOnly, ThreadFrame, StaysSound DEF Only, Spawned
  <2>2. Sound(t)'
    BY <1>2, StartSound, OutcomeSound DEF ThreadStep, Spawned
  <2>. QED BY <2>1, <2>2 DEF Spawned
<1>3. CASE ThreadStep(Main)
  <2>1. \/ proc' = proc /\ current' = current /\ closing' = closing
        \/ proc' = None /\ current' = current /\ closing' /\ closing
    <3>1. CASE HaltEnter(Main) \/ Kill(Main, "hkill", "hclear")
      BY <3>1 DEF HaltEnter, Kill, fields, flags
    <3>2. CASE HaltClear(Main)
      <4>1. op[Main] = "exit" /\ pc[Main] = "hclear"
        BY <3>2, MainIsApart DEF HaltClear, At, Inv, Safe
      <4>. QED BY <1>1, <3>2, <4>1 DEF HaltClear, ClosingFirst, Exiting, Halting, flags
    <3>. QED BY <1>3, <3>1, <3>2, MainOnlyHalts
  <2>2. ASSUME NEW c \in Clients PROVE Sound(c)'
    BY <1>1, <1>3, <2>1, ThreadOnly, StaysSound DEF Only, Spawned
  <2>. QED BY <2>2 DEF Spawned
<1>4. CASE ThreadStep(Watchdog)
  BY <1>4, DogRuns
<1>5. ASSUME NEW t \in Clients, ClientStep(t) PROVE Spawned'
  <2>1. ASSUME NEW c \in Clients, c # t PROVE Sound(c)'
    BY <1>1, <1>5, <2>1, ClientOnly, ClientFrame, StaysSound DEF Only, Spawned
  <2>2. Sound(t)'
    BY <1>5, ClientSound DEF Spawned
  <2>. QED BY <2>1, <2>2 DEF Spawned
<1>6. CASE MainStep \/ Signal \/ WatchStep \/ CooldownOver \/ World \/ UNCHANGED vars
  <2>1. ASSUME NEW c \in Clients PROVE Sound(c)'
    BY <1>1, <1>6, RestSpares, RestFrame, StaysSound DEF Spawned
  <2>. QED BY <2>1 DEF Spawned
<1> QED
  BY <1>2, <1>3, <1>4, <1>5, <1>6 DEF Next, Ended, Threads

-----------------------------------------------------------------------------
(* The alias the running model answers to: the one a request is loading,   *)
(* from its spawn to the release of the lock, else self.current.           *)

Called == IF lock \in Clients /\ mine[lock] # None THEN tgt[lock] ELSE current

ReadyHasProcess == st = "ready" /\ ~closing => proc # None
RunsCalled == Running => model[proc] = Called
AnswerCalled ==
  proc # None => \A c \in Clients : pc[c] = "verify" /\ mine[c] = proc => answer[c] = Called

Named == ReadyHasProcess /\ RunsCalled /\ AnswerCalled /\ DecisionFromNamedModel

LEMMA InitNamed == Init => Named
  BY MainIsNoClient DEF Init, Named, ReadyHasProcess, RunsCalled, AnswerCalled,
                        DecisionFromNamedModel,
         Running

(* While a process is there, no step of a request but its spawn changes    *)
(* the name.                                                               *)
LEMMA ThreadCalled ==
  ASSUME Inv, LockHeld, Spawned, NEW t \in Clients, ThreadStep(t), ~ StartSpawn(t),
         proc # None, proc' = proc
  PROVE  Called' = Called
<1> USE MainIsNoClient, NoneIsNothing
<1>1. TypeOK /\ Sound(t)
  BY DEF Inv, Typed, Spawned
<1>2. CASE RestartRaised(t) \/ Release(t)
  <2>1. pc[t] \in {"raised", "release"} /\ lock = t /\ lock' = None /\ current' = current
    BY <1>2 DEF RestartRaised, Release, At, Leave, LockHeld, Locked, Committed, Starting, Checking
  <2>2. mine[t] # None => current = tgt[t]
    BY <1>1, <2>1 DEF Sound, AfterSpawn
  <2>. QED BY <1>1, <2>1, <2>2 DEF Called
<1>3. CASE StartStep(t) \/ Loaded(t) \/ SelectFailed(t) \/ ActionFailed(t) \/ RestartFailed(t)
           \/ Halted(t)
  <2>1. lock' = lock /\ pc[t] \in Locked /\ tgt' = tgt /\ mine' = mine
    BY <1>3 DEF StartStep, StartCheck, StartEnter, Kill, StartClear, StartRaise,
                WaitPoll, WaitProbe, HaltEnter, HaltClear, Loaded, SelectFailed, ActionFailed,
                RestartFailed, Halted, Settle, Continue, At, Locked, Committed, Starting,
                Halting, locks
  <2>2. lock = t
    BY <2>1 DEF LockHeld
  <2>3. current' = current \/ (current' = tgt[t] /\ mine[t] # None)
    BY <1>1, <1>3 DEF StartStep, StartCheck, StartEnter, Kill, StartClear, StartRaise,
                WaitPoll, WaitProbe, HaltEnter, HaltClear, Loaded, SelectFailed, ActionFailed,
                RestartFailed, Halted, Settle, Continue, At, fields, Sound
  <2>. QED BY <2>1, <2>2, <2>3 DEF Called
<1>. QED BY <1>2, <1>3 DEF ThreadStep, Outcome

LEMMA ClientLocks ==
  ASSUME Inv, LockHeld, Spawned, NEW c \in Clients, ClientStep(c)
  PROVE  \/ lock' = lock /\ pc[c] \notin Locked
         \/ lock = None /\ lock' = c /\ mine[c] = None /\ mine'[c] = None
         \/ lock' \in {c, None} /\ pc[c] \in Locked /\ mine[c] = None /\ mine'[c] = None
         \/ lock' = lock /\ UNCHANGED <<mine, tgt>>
<1> USE MainIsNoClient DEF At, AfterSpawn, Sound, Acquire, Settle, Continue, Leave, Forget,
                           locks, Locked, Downloading, Checking, TypeOK
<1>1. TypeOK /\ Sound(c)
  BY DEF Inv, Typed, Spawned
<1>2. CASE SelectStep(c) /\ ~ Progress(c)
  BY <1>1, <1>2 DEF SelectStep, Select, SelectCheck, SelectAccept, SelectReject, SelectWorker,
              Fetched, DrafterDone, SelectRecheck
<1>3. CASE Progress(c)
  BY <1>3 DEF Progress, locals
<1>4. CASE ActionStep(c)
  <2>1. CASE \E kind \in {"astart", "astop", "fstop"} : ServerAction(c, kind)
    BY <1>1, <2>1 DEF ServerAction
  <2>2. CASE ~ \E kind \in {"astart", "astop", "fstop"} : ServerAction(c, kind)
    <3>1. pc[c] \in {"acheck", "arecheck", "arun"}
      BY <1>4, <2>2 DEF ActionStep, ActionRefused, ActionStopped, ActionStop, ActionStart,
                        StopRecheck, StartCurrent
    <3>2. CASE ActionRefused(c) \/ ActionStopped(c)
      BY <1>1, <3>1, <3>2 DEF ActionRefused, ActionStopped
    <3>3. CASE ActionStop(c) \/ ActionStart(c) \/ StopRecheck(c)
      BY <3>3 DEF ActionStop, ActionStart, StopRecheck
    <3>4. CASE StartCurrent(c)
      <4>1. lock' = lock /\ mine' = mine
        BY <3>4 DEF StartCurrent
      <4>2. mine[c] = None /\ pc[c] \in Locked
        BY <1>1, <3>1
      <4>3. lock = c
        BY <4>2 DEF LockHeld
      <4>. QED BY <4>1, <4>2, <4>3
    <3>. QED BY <1>4, <2>2, <3>2, <3>3, <3>4 DEF ActionStep
  <2>. QED BY <2>1, <2>2
<1>5. CASE Vision(c)
  BY <1>1, <1>5 DEF Vision
<1>6. CASE ProjectorDone(c) \/ CancelCheck(c) \/ CancelSet(c) \/ DirCheck(c) \/ DirSet(c)
  BY <1>6 DEF ProjectorDone, CancelCheck, CancelSet, DirCheck, DirSet
<1>7. CASE \/ DecisionCheck(c) \/ DecisionCapture(c) \/ DecisionPost(c) \/ DecisionVerify(c)
           \/ DecisionReturn(c)
  <2>1. lock' = lock
    BY <1>7 DEF DecisionCheck, DecisionCapture, DecisionPost, DecisionVerify, DecisionReturn
  <2>2. pc[c] \notin Locked
    BY <1>7 DEF DecisionCheck, DecisionCapture, DecisionPost, DecisionVerify, DecisionReturn,
       Committed, Starting, Halting
  <2>. QED BY <2>1, <2>2
<1>. QED BY <1>2, <1>3, <1>4, <1>5, <1>6, <1>7 DEF ClientStep, OtherStep, SelectStep

LEMMA ClientCalled ==
  ASSUME Inv, LockHeld, Spawned, NEW c \in Clients, ClientStep(c)
  PROVE  Called' = Called
<1>1. Only(c) /\ current' = current
  BY ClientOnly, ClientFrame DEF Inv, Typed
<1>2. pc[c] \in Locked <=> lock = c
  BY MainIsNoClient DEF LockHeld
<1>. QED BY <1>1, <1>2, ClientLocks, MainIsNoClient, NoneIsNothing DEF Only, Called

(* What keeps the names right.                                             *)
LEMMA KeepNamed ==
  ASSUME Named, closing => closing',
         proc # None /\ proc' = proc => Called' = Called,
         \/ proc' = proc /\ (Running' => Running /\ model'[proc] = model[proc])
         \/ proc' = None /\ (st' # "ready" \/ closing'),
         st' = "ready" => st = "ready" \/ proc # None \/ closing,
         \A c \in Clients : pc'[c] = "verify" =>
           \/ pc[c] = "verify" /\ mine'[c] = mine[c] /\ answer'[c] = answer[c]
           \/ answer'[c] = Called,
         \A c \in Clients : pc'[c] = "decided" =>
           \/ pc[c] = "decided" /\ tgt'[c] = tgt[c] /\ answer'[c] = answer[c]
           \/ closing \/ answer'[c] = tgt'[c]
  PROVE  Named'
<1>1. ReadyHasProcess'
  BY DEF Named, ReadyHasProcess
<1>2. RunsCalled'
  BY DEF Named, RunsCalled, Running
<1>3. AnswerCalled'
  BY DEF Named, AnswerCalled
<1>4. DecisionFromNamedModel'
  BY DEF Named, DecisionFromNamedModel
<1>. QED BY <1>1, <1>2, <1>3, <1>4 DEF Named

(* A ready model is not being replaced: its name is self.current.          *)
LEMMA ReadyIsCurrent ==
  ASSUME LockHeld, NotReady, Spawned, st = "ready", proc # None PROVE Called = current
<1>1. CASE lock \in Clients /\ mine[lock] # None
  <2>1. pc[lock] \in Locked /\ pc[lock] \notin Committed
    BY <1>1, MainIsNoClient DEF LockHeld, NotReady, Shut
  <2>2. pc[lock] = "release"
    BY <1>1, <2>1, LockedIsApart DEF Spawned, Sound, AfterSpawn, Committed, Starting, Halting,
                                     Asking
  <2>. QED BY <1>1, <2>2 DEF Spawned, Sound, Called
<1>. QED BY <1>1 DEF Called

LEMMA SpawnNamed ==
  ASSUME Inv, LockHeld, NotReady, Spawned, Named, NEW t \in Clients, StartSpawn(t) PROVE Named'
<1> USE MainIsNoClient, NoneIsNothing
<1>1. TypeOK
  BY DEF Inv, Typed
<1>2. PICK p \in Pids : /\ Free(p) /\ proc' = p
                        /\ model' = [model EXCEPT ![p] = tgt[t]]
                        /\ mine' = [mine EXCEPT ![t] = p]
  BY DEF StartSpawn
<1>3. lock = t /\ lock' = lock /\ tgt' = tgt /\ answer' = answer /\ closing' = closing
      /\ pc' = [pc EXCEPT ![t] = "wait"]
  BY DEF StartSpawn, At, Goto, LockHeld, Locked, Committed, Starting, flags
<1>4. Called' = tgt[t]
  BY <1>1, <1>2, <1>3 DEF Called, TypeOK
<1>5. RunsCalled'
  BY <1>1, <1>2, <1>4 DEF RunsCalled, TypeOK
<1>6. \A c \in Clients : pc'[c] \in {"verify", "decided"} => pc'[c] = pc[c] /\ mine[c] # p
  BY <1>1, <1>2, <1>3 DEF TypeOK, Free
<1>7. AnswerCalled'
  BY <1>1, <1>2, <1>3, <1>6 DEF AnswerCalled, TypeOK
<1>8. ReadyHasProcess' /\ DecisionFromNamedModel'
  BY <1>1, <1>2, <1>3, <1>6 DEF Named, ReadyHasProcess, DecisionFromNamedModel, TypeOK
<1>. QED BY <1>5, <1>7, <1>8 DEF Named

LEMMA KillKeeps ==
  ASSUME TypeOK, NEW t \in Threads, NEW from, NEW to, Kill(t, from, to)
  PROVE  proc' = proc /\ ~ Running'
  BY DEF Kill, Running, Alive, TypeOK, fields

LEMMA ThreadNamed ==
  ASSUME Inv, LockHeld, NotReady, Spawned, Named, NEW t \in Clients, ThreadStep(t) PROVE Named'
<1> USE MainIsNoClient, NoneIsNothing
<1>1. TypeOK /\ Sound(t) /\ Only(t)
  BY ThreadOnly DEF Inv, Typed, Spawned
<1>2. CASE StartSpawn(t)
  BY <1>2, SpawnNamed
<1>3. CASE ~ StartSpawn(t)
  <2>1. closing' = closing
    BY <1>3 DEF ThreadStep, StartStep, StartCheck, StartEnter, Kill, StartClear, StartRaise,
                WaitPoll,
         WaitProbe, HaltEnter, HaltClear, Outcome, Loaded, SelectFailed, ActionFailed,
         RestartFailed,
         RestartRaised, Halted, Release, Settle, Continue, Leave, fields, flags
  <2>2. proc # None /\ proc' = proc => Called' = Called
    BY <1>3, ThreadCalled
  <2>3. \/ proc' = proc /\ (Running' => Running /\ model'[proc] = model[proc])
        \/ proc' = None /\ (st' # "ready" \/ closing')
    <3>1. CASE StartClear(t) \/ HaltClear(t)
      BY <1>1, <3>1 DEF StartClear, HaltClear, At, NotReady, Shut, Committed, Starting, Halting
    <3>2. CASE Kill(t, "kill", "clear") \/ Kill(t, "hkill", "hclear")
      BY <1>1, <3>2, KillKeeps
    <3>3. CASE ~ (\/ StartClear(t) \/ HaltClear(t)
                  \/ Kill(t, "kill", "clear") \/ Kill(t, "hkill", "hclear"))
      BY <1>3, <3>3 DEF ThreadStep, StartStep, StartCheck, StartEnter, StartRaise, WaitPoll,
         WaitProbe, HaltEnter, Outcome, Loaded, SelectFailed, ActionFailed, RestartFailed,
         RestartRaised, Halted, Release, Settle, Continue, Leave, fields, world, Running, Alive
    <3>. QED BY <3>1, <3>2, <3>3
  <2>4. st' = "ready" => st = "ready" \/ proc # None \/ closing
    BY <1>1, <1>3 DEF ThreadStep, StartStep, StartCheck, StartEnter, Kill, StartClear,
                      StartRaise, WaitPoll,
         WaitProbe, HaltEnter, HaltClear, Outcome, Loaded, SelectFailed, ActionFailed,
         RestartFailed,
         RestartRaised, Halted, Release, Settle, Continue, At, fields, Sound
  <2>5. pc'[t] \notin {"verify", "decided"}
    BY <1>1, <1>3 DEF ThreadStep, StartStep, StartCheck, StartEnter, Kill, StartClear,
                      StartRaise, WaitPoll,
         WaitProbe, HaltEnter, HaltClear, Outcome, Loaded, SelectFailed, ActionFailed,
         RestartFailed,
         RestartRaised, Halted, Release, Settle, Continue, Leave, Forget, Home, Goto, TypeOK
  <2>6. \A c \in Clients : pc'[c] \in {"verify", "decided"} =>
          pc'[c] = pc[c] /\ mine'[c] = mine[c] /\ answer'[c] = answer[c] /\ tgt'[c] = tgt[c]
    BY <1>1, <2>5 DEF Only
  <2>. QED BY <2>1, <2>2, <2>3, <2>4, <2>6, KeepNamed
<1>. QED BY <1>2, <1>3

LEMMA ClientNamed ==
  ASSUME Inv, LockHeld, NotReady, Spawned, Named, NEW c \in Clients, ClientStep(c) PROVE Named'
<1> USE MainIsNoClient, NoneIsNothing
<1>1. TypeOK /\ Only(c)
  BY ClientOnly DEF Inv, Typed
<1>2. closing' = closing /\ proc' = proc /\ Called' = Called
  BY ClientFrame, ClientCalled
<1>3. status' = status /\ model' = model
  <2> USE DEF Acquire, Settle, Continue, Leave, world
  <2>1. CASE SelectStep(c)
    BY <2>1 DEF SelectStep, Select, SelectCheck, SelectAccept, SelectReject, SelectWorker,
                Progress, Fetched, DrafterDone, SelectRecheck
  <2>2. CASE ActionStep(c)
    BY <2>2 DEF ActionStep, ServerAction, ActionRefused, ActionStopped, ActionStop, ActionStart,
                StopRecheck, StartCurrent
  <2>3. CASE OtherStep(c)
    BY <2>3 DEF OtherStep, Vision, ProjectorDone, CancelCheck, CancelSet, DirCheck, DirSet,
                DecisionCheck, DecisionCapture, DecisionPost, DecisionVerify, DecisionReturn
  <2>. QED BY <2>1, <2>2, <2>3 DEF ClientStep
<1>4. st' = "ready" => st = "ready" \/ proc # None
  <2> USE DEF Acquire, Settle, Continue, Leave, fields, Running
  <2>1. CASE SelectStep(c)
    BY <2>1 DEF SelectStep, Select, SelectCheck, SelectAccept, SelectReject, SelectWorker,
                Progress, Fetched, DrafterDone, SelectRecheck
  <2>2. CASE ActionStep(c)
    BY <2>2 DEF ActionStep, ServerAction, ActionRefused, ActionStopped, ActionStop, ActionStart,
                StopRecheck, StartCurrent
  <2>3. CASE OtherStep(c)
    BY <2>3 DEF OtherStep, Vision, ProjectorDone, CancelCheck, CancelSet, DirCheck, DirSet,
                DecisionCheck, DecisionCapture, DecisionPost, DecisionVerify, DecisionReturn
  <2>. QED BY <2>1, <2>2, <2>3 DEF ClientStep
<1>5. CASE DecisionPost(c)
  <2>1. pc'[c] = "verify" => answer'[c] = Called
    <3>1. ASSUME pc'[c] = "verify" PROVE answer'[c] = Called
      <4>1. PICK p \in Pids : status[p] = "up" /\ answer' = [answer EXCEPT ![c] = model[p]]
        BY <1>1, <1>5, <3>1 DEF DecisionPost, Forget, Goto, TypeOK
      <4>2. p = proc /\ Running
        BY <4>1 DEF Inv, Safe, OnlyProcLives, Alive, Running
      <4>. QED BY <1>1, <4>1, <4>2 DEF Named, RunsCalled, TypeOK
    <3>. QED BY <3>1
  <2>2. pc'[c] # "decided"
    BY <1>1, <1>5 DEF DecisionPost, Forget, Goto, TypeOK
  <2>. QED BY <1>1, <1>2, <1>3, <1>4, <2>1, <2>2, KeepNamed DEF Only, Running, Alive
<1>6. CASE DecisionVerify(c)
  <2>1. pc'[c] # "verify"
    BY <1>1, <1>6 DEF DecisionVerify, Continue, Forget, Goto, TypeOK
  <2>2. ASSUME pc'[c] = "decided", ~ closing PROVE answer'[c] = tgt'[c]
    <3>1. /\ current = tgt[c] /\ proc = mine[c] /\ st = "ready" /\ pc[c] = "verify"
          /\ tgt' = tgt /\ answer' = answer
      BY <1>1, <1>6, <2>2 DEF DecisionVerify, Unchanged, Continue, Forget, Goto, At, TypeOK
    <3>2. proc # None
      BY <2>2, <3>1 DEF Named, ReadyHasProcess
    <3>3. answer[c] = Called /\ Called = current
      BY <3>1, <3>2, ReadyIsCurrent DEF Named, AnswerCalled
    <3>. QED BY <3>1, <3>3
  <2>. QED BY <1>1, <1>2, <1>3, <1>4, <2>1, <2>2, KeepNamed DEF Only, Running, Alive
<1>7. CASE ~ DecisionPost(c) /\ ~ DecisionVerify(c)
  <2>1. pc'[c] \notin {"verify", "decided"} \/ (pc'[c] = pc[c] /\ UNCHANGED <<tgt, mine, answer>>)
    <3> USE <1>1 DEF TypeOK, Acquire, Settle, Continue, Leave, Forget, Goto
    <3>1. CASE SelectStep(c)
      BY <3>1 DEF SelectStep, Select, SelectCheck, SelectAccept, SelectReject, SelectWorker,
                  Progress, Fetched, DrafterDone, SelectRecheck, locals
    <3>2. CASE ActionStep(c)
      BY <3>2 DEF ActionStep, ServerAction, ActionRefused, ActionStopped, ActionStop, ActionStart,
                  StopRecheck, StartCurrent
    <3>3. CASE OtherStep(c)
      BY <1>7, <3>3 DEF OtherStep, Vision, ProjectorDone, CancelCheck, CancelSet, DirCheck,
                        DirSet,
                  DecisionCheck, DecisionCapture, DecisionReturn
    <3>. QED BY <3>1, <3>2, <3>3 DEF ClientStep
  <2>2. \A u \in Clients : pc'[u] \in {"verify", "decided"} =>
          pc'[u] = pc[u] /\ mine'[u] = mine[u] /\ answer'[u] = answer[u] /\ tgt'[u] = tgt[u]
    BY <1>1, <2>1 DEF Only
  <2>. QED BY <1>2, <1>3, <1>4, <2>2, KeepNamed DEF Running, Alive
<1>. QED BY <1>5, <1>6, <1>7

LEMMA RestNamed ==
  ASSUME InitialModel = None, Inv, LockHeld, NotReady, Spawned, Named,
         \/ ThreadStep(Main)
         \/ MainStep \/ Signal \/ (WatchStep /\ ~ WatchGrab) \/ CooldownOver \/ World
         \/ UNCHANGED vars
  PROVE  Named'
<1> USE MainIsNoClient, NoneIsNothing
<1>1. TypeOK /\ ClosingFirst
  BY DEF Inv, Typed, Safe
<1>2. lock' = lock /\ current' = current /\ \A c \in Clients :
           /\ pc'[c] = pc[c] /\ tgt'[c] = tgt[c] /\ mine'[c] = mine[c] /\ answer'[c] = answer[c]
  <2>1. CASE ThreadStep(Main)
    <3>1. lock' = lock /\ current' = current
      BY <2>1, MainOnlyHalts DEF HaltEnter, Kill, HaltClear, locks, fields
    <3>. QED BY <1>1, <2>1, <3>1, ThreadOnly DEF Only
  <2>2. CASE ~ ThreadStep(Main)
    <3>1. lock' = lock
      BY <2>2 DEF MainStep, Boot, BootLoaded, BootFailed, LeaveMain, Shutdown, Exit, Signal,
                  WatchStep,
         WatchLook, WatchSkip, CooldownOver, World, LoadDone, Die, BeginRequest,
         EndRequest, Continue, locks, vars
    <3>. QED BY <1>1, <2>2, <3>1, RestFrame, RestSpares
  <2>. QED BY <2>1, <2>2
<1>3. Called' = Called
  BY <1>2 DEF Called
<1>4. closing => closing'
  <2>1. CASE ThreadStep(Main)
    BY <2>1, MainOnlyHalts DEF HaltEnter, Kill, HaltClear, flags
  <2>. QED BY <2>1, RestFrame
<1>5. \/ proc' = proc /\ (Running' => Running /\ model'[proc] = model[proc])
      \/ proc' = None /\ closing'
  <2>1. CASE HaltClear(Main)
    <3>1. op[Main] = "exit" /\ pc[Main] = "hclear"
      BY <2>1, MainIsApart DEF HaltClear, At, Inv, Safe
    <3>. QED BY <1>1, <2>1, <3>1 DEF HaltClear, ClosingFirst, Exiting, Halting, flags
  <2>2. CASE HaltEnter(Main)
    BY <2>2 DEF HaltEnter, fields, world, Running, Alive
  <2>3. CASE Kill(Main, "hkill", "hclear")
    BY <1>1, <2>3, KillKeeps
  <2>4. CASE \/ MainStep \/ Signal \/ WatchStep \/ CooldownOver \/ BeginRequest \/ EndRequest
             \/ UNCHANGED vars
    <3>1. UNCHANGED <<proc, status, model>>
      BY <2>4 DEF MainStep, Boot, BootLoaded, BootFailed, LeaveMain, Shutdown, Exit, Signal,
                  WatchStep,
         WatchLook, WatchSkip, WatchGrab, CooldownOver, BeginRequest, EndRequest, Continue,
         Forget, Acquire, fields, world,
         vars
    <3>. QED BY <3>1 DEF Running, Alive
  <2>5. ASSUME NEW p \in Pids, LoadDone(p)
        PROVE  proc' = proc /\ (Running' => Running /\ model'[proc] = model[proc])
    BY <1>1, <2>5 DEF LoadDone, fields, Running, Alive, TypeOK
  <2>6. ASSUME NEW p \in Pids, Die(p)
        PROVE  proc' = proc /\ (Running' => Running /\ model'[proc] = model[proc])
    BY <1>1, <2>6 DEF Die, fields, Running, Alive, TypeOK
  <2>. QED BY <2>1, <2>2, <2>3, <2>4, <2>5, <2>6, MainOnlyHalts DEF World
<1>6. st' = "ready" => st = "ready"
  <2>1. CASE ThreadStep(Main)
    BY <2>1, MainOnlyHalts DEF HaltEnter, Kill, HaltClear, fields
  <2>2. CASE BootLoaded
    BY <2>2 DEF BootLoaded, NotReady
  <2>3. CASE ~ ThreadStep(Main) /\ ~ BootLoaded
    BY <2>3 DEF MainStep, Boot, BootFailed, LeaveMain, Shutdown, Exit, Signal, WatchStep,
         WatchLook, WatchSkip, CooldownOver, World, LoadDone, Die, BeginRequest,
         EndRequest, Continue, fields, vars
  <2>. QED BY <2>1, <2>2, <2>3
<1>. QED BY <1>2, <1>3, <1>4, <1>5, <1>6, KeepNamed

Attributed == ClientOps /\ DogIdle /\ Spawned /\ Named

LEMMA NextAttributed ==
  OnlyRequests =>
    (Inv /\ Reply /\ Owner /\ NotReady /\ Attributed /\ [Next]_vars => Attributed')
<1> SUFFICES ASSUME OnlyRequests, Inv, Reply, LockHeld, NotReady, ClientOps, DogIdle, Spawned,
Named,
                    [Next]_vars
             PROVE  Named'
  BY NextOps, NextIdle, NextSpawned DEF Owner, Attributed, Inv, Typed
<1>1. ASSUME NEW t \in Clients, ThreadStep(t) PROVE Named'
  BY <1>1, ThreadNamed
<1>2. ASSUME NEW c \in Clients, ClientStep(c) PROVE Named'
  BY <1>2, ClientNamed
<1>3. CASE ThreadStep(Watchdog)
  BY <1>3, DogRuns
<1>4. ~ WatchGrab
  BY DEF WatchGrab, At, DogIdle
<1>5. CASE \/ ThreadStep(Main) \/ MainStep \/ Signal \/ WatchStep \/ CooldownOver \/ World
           \/ UNCHANGED vars
  BY <1>4, <1>5, RestNamed DEF OnlyRequests
<1> QED
  BY <1>1, <1>2, <1>3, <1>5 DEF Next, Ended, Threads

LEMMA AttributedHolds == ASSUME OnlyRequests PROVE Spec => []Attributed
<1>1. Inv /\ Reply /\ Owner /\ NotReady /\ Attributed /\ [Next]_vars => Attributed'
  BY NextAttributed
<1>2. Init => Attributed
  BY InitOps, InitIdle, InitSpawned, InitNamed DEF Attributed
<1>3. Spec => []NotReady
  BY ReadyHolds DEF OnlyRequests
<1>. QED BY <1>1, <1>2, <1>3, InitReply, NextReply, OwnerHolds, InvHolds, PTL DEF Spec

(* A decision is reported under the name of the model that made it,        *)
(* whatever switches, stops and crashes come between the question and the  *)
(* answer, up to the shutdown.                                             *)
THEOREM DecisionIsNamed ==
  ASSUME OnlyRequests PROVE Spec => []DecisionFromNamedModel
<1>1. Attributed => DecisionFromNamedModel
  BY DEF Attributed, Named
<1>. QED BY <1>1, AttributedHolds, PTL

-----------------------------------------------------------------------------
(* A busy state belongs to the holder of the lock, which settles it before *)
(* it gives the lock back, or to the main thread, which loads or exits.    *)

Settled == {"check", "begin", "acheck", "release"}

BusyOwned ==
  /\ lock = None => st \notin BusyStates
  /\ \A t \in Threads : t # Main /\ pc[t] \in Settled => st \notin BusyStates

MainLoads == pc[Main] \in Starting \cup {"exit", "exited"} \cup Halting

(* Operations without an `except` for what start() may raise.              *)
Unguarded == {"vision", "watch"}

LEMMA InitBusy == Init => BusyOwned
  BY DEF Init, BusyOwned, BusyStates

LEMMA SettledIsLocked == Settled \subseteq Locked
  BY DEF Settled, Locked, Checking

(* The holder of the lock is at work: it may leave any state.              *)
LEMMA HolderBusy ==
  ASSUME LockHeld', NEW t \in Threads, t # Main, lock' = t, pc'[t] \notin Settled
  PROVE  BusyOwned'
  BY MainIsNoClient, NoneIsNothing, SettledIsLocked DEF LockHeld, BusyOwned

LEMMA CalmBusy == ASSUME st' \notin BusyStates PROVE BusyOwned'
  BY DEF BusyOwned

LEMMA ThreadBusy ==
  ASSUME Unguarded \cap Ops \cap Raising = {}, Inv, LockHeld, LockHeld', ClientOps, BusyOwned,
         NEW t \in Threads, t # Main, ThreadStep(t)
  PROVE  BusyOwned'
<1> USE MainIsNoClient
<1>1. TypeOK
  BY DEF Inv, Typed
<1>2. CASE RestartRaised(t)
  BY <1>2 DEF RestartRaised, At, ClientOps, Unguarded
<1>3. CASE Release(t)
  <2>1. st' = st /\ pc[t] \in Settled
    BY <1>3 DEF Release, At, Settled
  <2>. QED BY <2>1, CalmBusy DEF BusyOwned
<1>4. CASE StartStep(t) \/ ((SelectFailed(t) \/ ActionFailed(t)) /\ pc'[t] = "halt")
  <2>1. lock' = lock /\ pc[t] \in Locked /\ pc'[t] \notin Settled
    BY <1>1, <1>4 DEF StartStep, StartCheck, StartEnter, Kill, StartClear, StartSpawn, StartRaise,
                      WaitPoll, WaitProbe, HaltEnter, HaltClear, SelectFailed, ActionFailed,
                      Settle, Continue, At, Goto, TypeOK, Locked, Committed, Starting, Halting,
                      locks, Settled
  <2>. QED BY <2>1, HolderBusy DEF LockHeld
<1>5. CASE \/ Loaded(t) \/ RestartFailed(t) \/ Halted(t)
           \/ ((SelectFailed(t) \/ ActionFailed(t)) /\ pc'[t] # "halt")
  <2>1. st' \notin BusyStates
    BY <1>1, <1>5 DEF Loaded, RestartFailed, Halted, SelectFailed, ActionFailed, Settle, Continue,
                      Goto, TypeOK, BusyStates
  <2>. QED BY <2>1, CalmBusy
<1>. QED BY <1>2, <1>3, <1>4, <1>5 DEF ThreadStep, Outcome

LEMMA ClientBusy ==
  ASSUME Inv, LockHeld, LockHeld', BusyOwned, NEW c \in Clients, ClientStep(c)
  PROVE  BusyOwned'
<1> USE MainIsNoClient
<1>1. TypeOK /\ Only(c)
  BY ClientOnly DEF Inv, Typed
<1>2. CASE \/ (\E a \in Alias : Select(c, a)) \/ Vision(c)
           \/ (\E kind \in {"astart", "astop", "fstop"} : ServerAction(c, kind))
  <2>1. lock = None /\ st' = st
    BY <1>2 DEF Select, Vision, ServerAction, Acquire, fields
  <2>. QED BY <2>1, CalmBusy DEF BusyOwned
<1>3. CASE SelectCheck(c) \/ SelectReject(c) \/ ActionRefused(c) \/ ActionStopped(c)
  <2>1. pc[c] \in Settled /\ st' \in {st, "ready", "stopped"}
    BY <1>3 DEF SelectCheck, SelectReject, ActionRefused, ActionStopped, Continue, At, Settled,
                fields
  <2>. QED BY <2>1, CalmBusy DEF BusyOwned, BusyStates
<1>4. CASE \/ SelectAccept(c) \/ SelectWorker(c) \/ Fetched(c) \/ DrafterDone(c)
           \/ SelectRecheck(c) \/ ActionStop(c) \/ ActionStart(c) \/ StopRecheck(c)
           \/ StartCurrent(c) \/ ProjectorDone(c)
  <2>1. lock' = lock /\ pc[c] \in Locked
    BY <1>4 DEF SelectAccept, SelectWorker, Fetched, DrafterDone, SelectRecheck, ActionStop,
                ActionStart, StopRecheck, StartCurrent, ProjectorDone, Settle, Continue, At,
                Locked, Checking, Downloading, locks
  <2>2. pc'[c] \notin Settled \/ st' \notin BusyStates
    BY <1>1, <1>4 DEF SelectAccept, SelectWorker, Fetched, DrafterDone, SelectRecheck,
                      ActionStop, ActionStart, StopRecheck, StartCurrent, ProjectorDone, Settle,
                      Continue, Goto, TypeOK, Settled, BusyStates
  <2>. QED BY <2>1, <2>2, HolderBusy, CalmBusy DEF LockHeld
<1>5. CASE Progress(c)
  <2>1. lock' = lock /\ pc' = pc /\ pc[c] \in Locked /\ pc[c] \notin Settled
    BY <1>5 DEF Progress, Locked, Downloading, Settled, locals, locks
  <2>. QED BY <2>1, HolderBusy DEF LockHeld
<1>6. CASE \/ CancelCheck(c) \/ CancelSet(c) \/ DirCheck(c) \/ DirSet(c) \/ DecisionCheck(c)
           \/ DecisionCapture(c) \/ DecisionPost(c) \/ DecisionVerify(c) \/ DecisionReturn(c)
  <2>1. st' = st /\ lock' = lock
    BY <1>6 DEF CancelCheck, CancelSet, DirCheck, DirSet, DecisionCheck, DecisionCapture,
                DecisionPost, DecisionVerify, DecisionReturn, Continue, fields, locks
  <2>2. pc'[c] \notin Settled
    BY <1>1, <1>6 DEF CancelCheck, CancelSet, DirCheck, DirSet, DecisionCheck, DecisionCapture,
                      DecisionPost, DecisionVerify, DecisionReturn, Continue, Forget, Goto,
                      TypeOK, Settled
  <2>. QED BY <1>1, <2>1, <2>2 DEF Only, BusyOwned
<1>. QED BY <1>2, <1>3, <1>4, <1>5, <1>6 DEF ClientStep, SelectStep, ActionStep, OtherStep

LEMMA RestBusy ==
  ASSUME Inv, LockHeld, LockHeld', BusyOwned, ~ MainLoads,
         MainStep \/ Signal \/ WatchStep \/ CooldownOver \/ World \/ UNCHANGED vars
  PROVE  MainLoads' \/ BusyOwned'
<1> USE MainIsNoClient
<1>1. TypeOK
  BY DEF Inv, Typed
<1>2. CASE Boot \/ BootLoaded
  <2>1. st' \in {"idle", "ready"} \/ pc' = [pc EXCEPT ![Main] = "start"]
    BY <1>2 DEF Boot, BootLoaded, Goto
  <2>. QED BY <1>1, <2>1, CalmBusy DEF BusyStates, MainLoads, Starting, TypeOK
<1>3. CASE BootFailed \/ Shutdown \/ Exit \/ Signal
  <2>1. \E place \in {"exit", "halt", "exited"} : pc' = [pc EXCEPT ![Main] = place]
    BY <1>3 DEF BootFailed, Shutdown, Exit, Signal, LeaveMain, Continue, Goto
  <2>. QED BY <1>1, <2>1 DEF MainLoads, Halting, TypeOK
<1>4. CASE WatchLook \/ WatchSkip
  <2>1. st' = st /\ lock' = lock
        /\ \E place \in {"grab", "watch"} : pc' = [pc EXCEPT ![Watchdog] = place]
    BY <1>4 DEF WatchLook, WatchSkip, Forget, Goto, fields, locks
  <2>. QED BY <1>1, <2>1 DEF BusyOwned, Settled, TypeOK
<1>5. CASE WatchGrab
  <2>1. lock' = Watchdog /\ pc'[Watchdog] = "start"
    BY <1>1, <1>5 DEF WatchGrab, Acquire, Goto, TypeOK
  <2>. QED BY <2>1, HolderBusy DEF Settled
<1>6. CASE CooldownOver \/ World \/ UNCHANGED vars
  BY <1>6 DEF CooldownOver, World, LoadDone, Die, BeginRequest, EndRequest, vars, fields, locks,
              locals, BusyOwned
<1>. QED BY <1>2, <1>3, <1>4, <1>5, <1>6 DEF MainStep, WatchStep

(* The main thread loads until it has loaded, and exits for good.          *)
LEMMA MainLoadsOn ==
  ASSUME Inv, MainLoads, [Next]_vars PROVE MainLoads' \/ st' = "ready"
<1> USE MainIsNoClient
<1>1. TypeOK /\ MainShape
  BY DEF Inv, Typed, Safe
<1>2. ASSUME NEW t \in Threads, t # Main, ThreadStep(t) PROVE MainLoads'
  BY <1>1, <1>2, ThreadOnly DEF Only, MainLoads
<1>3. CASE ThreadStep(Main)
  <2>1. StartStep(Main)
    BY <1>1, <1>3, MainIsApart DEF ThreadStep, Outcome, Loaded, SelectFailed, ActionFailed,
                                   RestartFailed,
       RestartRaised, Halted, Release, At, OpKinds, Checking, Starting, MainLoads
  <2>2. \E place \in Starting \cup Halting : pc' = [pc EXCEPT ![Main] = place]
    BY <2>1 DEF StartStep, StartCheck, StartEnter, Kill, StartClear, StartSpawn, StartRaise,
                WaitPoll,
         WaitProbe, HaltEnter, HaltClear, Goto, Starting, Halting
  <2>. QED BY <1>1, <2>2 DEF MainLoads, TypeOK
<1>4. ASSUME NEW c \in Clients, ClientStep(c) PROVE MainLoads'
  BY <1>1, <1>4, ClientOnly DEF Only, MainLoads
<1>5. CASE Boot \/ BootLoaded
  BY <1>5 DEF Boot, BootLoaded, At, MainLoads, Starting, Halting
<1>6. CASE BootFailed \/ Shutdown \/ Exit \/ Signal
  <2>1. \E place \in {"exit", "halt", "exited"} : pc' = [pc EXCEPT ![Main] = place]
    BY <1>6 DEF BootFailed, Shutdown, Exit, Signal, LeaveMain, Continue, Goto
  <2>. QED BY <1>1, <2>1 DEF MainLoads, Halting, TypeOK
<1>7. CASE WatchStep
  BY <1>1, <1>7 DEF WatchStep, WatchLook, WatchSkip, WatchGrab, Acquire, Forget, Goto, MainLoads,
                    TypeOK
<1>8. CASE CooldownOver \/ World \/ UNCHANGED vars
  BY <1>8 DEF CooldownOver, World, LoadDone, Die, BeginRequest, EndRequest, vars, locals,
              MainLoads
<1> QED
  BY <1>2, <1>3, <1>4, <1>5, <1>6, <1>7, <1>8 DEF Next, MainStep, Ended

LEMMA NextBusy ==
  Unguarded \cap Ops \cap Raising = {} =>
    (Inv /\ Owner /\ ClientOps /\ (MainLoads \/ BusyOwned) /\ [Next]_vars
       => (MainLoads \/ BusyOwned)')
<1> SUFFICES ASSUME Unguarded \cap Ops \cap Raising = {}, Inv, Owner, ClientOps,
                    MainLoads \/ BusyOwned, [Next]_vars
             PROVE  MainLoads' \/ BusyOwned'
  OBVIOUS
<1>1. LockHeld /\ LockHeld'
  BY NextOwner DEF Owner
<1>2. CASE MainLoads
  BY <1>2, MainLoadsOn, CalmBusy DEF BusyStates
<1>3. CASE BusyOwned /\ ~ MainLoads
  <2>1. ASSUME NEW t \in Threads, t # Main, ThreadStep(t) PROVE BusyOwned'
    BY <1>1, <1>3, <2>1, ThreadBusy
  <2>2. ASSUME NEW c \in Clients, ClientStep(c) PROVE BusyOwned'
    BY <1>1, <1>3, <2>2, ClientBusy
  <2>3. ~ ThreadStep(Main)
    BY <1>3, MainIsApart
       DEF Inv, Safe, MainLoads, ThreadStep, StartStep, StartCheck, StartEnter, Kill, StartClear,
           StartSpawn, StartRaise, WaitPoll, WaitProbe, HaltEnter, HaltClear, Outcome, Loaded,
           SelectFailed, ActionFailed, RestartFailed, RestartRaised, Halted, Release, At,
           Starting, Halting, Checking
  <2>4. CASE MainStep \/ Signal \/ WatchStep \/ CooldownOver \/ World \/ UNCHANGED vars
    BY <1>1, <1>3, <2>4, RestBusy
  <2>. QED BY <2>1, <2>2, <2>3, <2>4 DEF Next, Ended
<1>. QED BY <1>2, <1>3

(* A busy state has an operation, or the main thread, behind it, with the  *)
(* initial load and the watchdog too: unless start() raises in an          *)
(* operation that has no `except` for it.                                  *)
THEOREM BusyHasOwner ==
  ASSUME Unguarded \cap Ops \cap Raising = {} PROVE Spec => []BusyStateIsOwned
<1>1. MainLoads \/ BusyOwned => BusyStateIsOwned
  BY DEF MainLoads, BusyOwned, BusyStateIsOwned
<1>2. Inv /\ Owner /\ ClientOps /\ (MainLoads \/ BusyOwned) /\ [Next]_vars
        => (MainLoads \/ BusyOwned)'
  BY NextBusy
<1>3. Inv /\ ClientOps /\ [Next]_vars => ClientOps'
  BY NextOps DEF Inv, Typed
<1>. QED BY <1>1, <1>2, <1>3, InitBusy, InitOps, OwnerHolds, InvHolds, PTL DEF Spec

(* What /status says is so: the ready model is the one loaded, and a busy  *)
(* state has an operation behind it.  (The watchdog and the initial load   *)
(* choose their model without the lock, and may load another one than      *)
(* self.current names.)                                                    *)
THEOREM StatusTold ==
  ASSUME OnlyRequests, Unguarded \cap Ops \cap Raising = {} PROVE Spec => []StatusIsTrue
<1>1. Owner /\ NotReady /\ Attributed => ReadyIsLoaded
  BY ReadyIsCurrent DEF Owner, Attributed, Named, RunsCalled, ReadyIsLoaded, Running
<1>2. Spec => []NotReady
  BY ReadyHolds DEF OnlyRequests
<1>. QED BY <1>1, <1>2, BusyHasOwner, AttributedHolds, OwnerHolds, PTL DEF StatusIsTrue
===============================================================================
