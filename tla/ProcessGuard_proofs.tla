-------------------------- MODULE ProcessGuard_proofs --------------------------
(***************************************************************************)
(* Theorems about ProcessGuard, for any number of launches and guards:     *)
(* the types, that an admitted supervisor is alone with its models, and    *)
(* that it runs one of them at a time.                                     *)
(***************************************************************************)
EXTENDS ProcessGuard, TLAPS

(* The lease belongs to one launch, whatever process of it is left.        *)
OneLease == \A s, t \in Sups : HasLease(s) /\ HasLease(t) => s = t

(* A live guard is the one its supervisor started last, and a live model   *)
(* has its guard, unless the guard was killed or gave up.                  *)
Guarded ==
  /\ \A g \in Guards : GuardAlive(g) \/ ModelAlive(g) => owner[g] \in Sups
  /\ \A g \in Guards : GuardAlive(g) => proc[owner[g]] = g
  /\ \A g \in Guards : ModelAlive(g) => GuardAlive(g) \/ g \in lost
  /\ \A g \in Guards : guard[g] \in {"boot", "armed", "checked"} => ~ModelAlive(g)

IInv == TypeOK /\ OneLease /\ Guarded

LEMMA InitIInv == Init => IInv
  BY DEF Init, IInv, TypeOK, OneLease, Guarded, HasLease, Admitted, GuardAlive, ModelAlive,
         SupStates, GuardStates, ModelStates

(* A step after which no launch has the lease that did not have it before. *)
LEMMA LeaseKept ==
  ASSUME OneLease, \A s \in Sups : HasLease(s)' => HasLease(s)
  PROVE  OneLease'
  BY DEF OneLease

-----------------------------------------------------------------------------
(* The launcher and the supervisor.                                        *)

LEMMA LauncherIInv ==
  ASSUME IInv, NEW s \in Sups, Launch(s) \/ LauncherEnds(s)
  PROVE  IInv'
<1>1. TypeOK'
  BY DEF IInv, TypeOK, Launch, LauncherEnds, Become, SupStates
<1>2. OneLease'
  <2>1. \A t \in Sups : Admitted(t)' => Admitted(t)
    BY DEF IInv, TypeOK, Launch, LauncherEnds, Become, Admitted
  <2> QED BY <2>1, LeaseKept DEF IInv, HasLease, GuardAlive, ModelAlive, Launch, LauncherEnds
<1>3. Guarded'
  BY DEF IInv, Guarded, GuardAlive, ModelAlive, Launch, LauncherEnds
<1> QED BY <1>1, <1>2, <1>3 DEF IInv

LEMMA TakeLeaseIInv == ASSUME IInv, NEW s \in Sups, TakeLease(s) PROVE IInv'
<1>1. TypeOK'
  BY DEF IInv, TypeOK, TakeLease, Become, SupStates
<1>2. OneLease'
  <2>1. CASE \E t \in Sups : HasLease(t)
    <3>1. \A t \in Sups : Admitted(t)' => Admitted(t)
      BY <2>1 DEF IInv, TypeOK, TakeLease, Become, Admitted
    <3> QED BY <3>1, LeaseKept DEF IInv, HasLease, GuardAlive, ModelAlive, TakeLease
  <2>2. CASE ~ \E t \in Sups : HasLease(t)
    <3>1. \A t \in Sups : HasLease(t)' => t = s
      BY <2>2 DEF IInv, TypeOK, TakeLease, Become, HasLease, Admitted, GuardAlive, ModelAlive
    <3> QED BY <3>1 DEF OneLease
  <2> QED BY <2>1, <2>2
<1>3. Guarded'
  BY DEF IInv, Guarded, GuardAlive, ModelAlive, TakeLease
<1> QED BY <1>1, <1>2, <1>3 DEF IInv

(* The signal ends no guard that has a model.                              *)
LEMMA StopBeginIInv ==
  ASSUME IInv, NEW s \in Sups, NEW state \in {"halting", "restarting", "closing"}, StopBegin(s, state)
  PROVE  IInv'
<1>1. /\ guard' \in [Guards -> GuardStates] /\ stop' \in [Guards -> BOOLEAN]
      /\ \A g \in Guards : guard'[g] = guard[g] \/ (guard[g] = "boot" /\ guard'[g] = "dead")
  <2>1. CASE proc[s] = None
    BY <2>1 DEF IInv, TypeOK, StopBegin
  <2>2. CASE proc[s] # None
    BY <2>2 DEF IInv, TypeOK, StopBegin, Terminate, Goto, GuardStates
  <2> QED BY <2>1, <2>2
<1>2. TypeOK'
  BY <1>1 DEF IInv, TypeOK, StopBegin, Become, SupStates
<1>3. OneLease'
  <2>1. \A t \in Sups : Admitted(t)' => Admitted(t)
    BY DEF IInv, TypeOK, StopBegin, Become, Admitted
  <2> QED BY <1>1, <2>1, LeaseKept DEF IInv, HasLease, GuardAlive, ModelAlive, StopBegin
<1>4. Guarded'
  BY <1>1 DEF IInv, Guarded, GuardAlive, ModelAlive, StopBegin
<1> QED BY <1>2, <1>3, <1>4 DEF IInv

LEMMA StopEndIInv == ASSUME IInv, NEW s \in Sups, StopEnd(s) PROVE IInv'
<1>1. TypeOK'
  BY DEF IInv, TypeOK, StopEnd, Become, ClosePipes, SupStates
<1>2. OneLease'
  <2>1. \A t \in Sups : Admitted(t)' => Admitted(t)
    BY DEF IInv, TypeOK, StopEnd, Become, Admitted
  <2> QED BY <2>1, LeaseKept DEF IInv, HasLease, GuardAlive, ModelAlive, StopEnd
<1>3. \A g \in Guards : GuardAlive(g) => proc'[owner[g]] = g
  BY DEF IInv, TypeOK, Guarded, StopEnd, Stopped
<1>4. Guarded'
  BY <1>3 DEF IInv, Guarded, GuardAlive, ModelAlive, StopEnd
<1> QED BY <1>1, <1>2, <1>4 DEF IInv

(* A new guard belongs to a supervisor that has the lease already, and the *)
(* one it replaces has ended.                                              *)
LEMMA SpawnIInv == ASSUME IInv, NEW s \in Sups, Spawn(s) PROVE IInv'
<1> PICK g \in Guards :
      /\ Unused(g)
      /\ proc' = [proc EXCEPT ![s] = g] /\ owner' = [owner EXCEPT ![g] = s]
      /\ guard' = [guard EXCEPT ![g] = "boot"] /\ model' = [model EXCEPT ![g] = "none"]
      /\ stop' = [stop EXCEPT ![g] = FALSE]
      /\ pipe' = [h \in Guards |-> h = g \/ (pipe[h] /\ h # proc[s])]
      /\ lost' = lost \ {g}
  BY DEF Spawn, Goto
<1>0. Stopped(s) /\ Admitted(s) /\ sup' = [sup EXCEPT ![s] = "up"] /\ UNCHANGED launcher
  BY DEF Spawn, Admitted, Become
<1>1. TypeOK'
  BY <1>0 DEF IInv, TypeOK, SupStates, GuardStates, ModelStates
<1>2. OneLease'
  <2>1. \A t \in Sups : Admitted(t)' => Admitted(t)
    BY <1>0 DEF IInv, TypeOK, Admitted
  <2>2. \A h \in Guards : h # g => owner'[h] = owner[h] /\ guard'[h] = guard[h] /\ model'[h] = model[h]
    BY DEF IInv, TypeOK
  <2>3. owner'[g] = s
    BY DEF IInv, TypeOK
  <2>4. ASSUME NEW t \in Sups, HasLease(t)' PROVE HasLease(t)
    <3>1. CASE Admitted(t)'
      BY <2>1, <3>1 DEF HasLease
    <3>2. CASE \E h \in Guards : owner'[h] = t /\ (GuardAlive(h)' \/ ModelAlive(h)')
      <4> PICK h \in Guards : owner'[h] = t /\ (GuardAlive(h)' \/ ModelAlive(h)')
        BY <3>2
      <4>1. CASE h = g
        BY <1>0, <2>3, <4>1 DEF HasLease
      <4>2. CASE h # g
        BY <2>2, <4>2 DEF HasLease, GuardAlive, ModelAlive
      <4> QED BY <4>1, <4>2
    <3> QED BY <2>4, <3>1, <3>2 DEF HasLease
  <2> QED BY <2>4, LeaseKept DEF IInv
<1>3. Guarded'
  <2>1. owner'[g] = s /\ guard'[g] = "boot" /\ model'[g] = "none" /\ proc'[s] = g
    BY DEF IInv, TypeOK
  <2>2. ASSUME NEW h \in Guards, h # g
        PROVE  owner'[h] = owner[h] /\ guard'[h] = guard[h] /\ model'[h] = model[h] /\ (h \in lost => h \in lost')
    BY <2>2 DEF IInv, TypeOK
  <2>3. ASSUME NEW h \in Guards, h # g, GuardAlive(h) PROVE proc'[owner[h]] = h
    <3>1. owner[h] \in Sups /\ proc[owner[h]] = h
      BY <2>3 DEF IInv, Guarded
    <3>2. owner[h] # s
      BY <1>0, <2>3, <3>1 DEF Stopped
    <3> QED BY <3>1, <3>2 DEF IInv, TypeOK
  <2> QED BY <2>1, <2>2, <2>3 DEF IInv, Guarded, GuardAlive, ModelAlive
<1> QED BY <1>1, <1>2, <1>3 DEF IInv

(* What the dead supervisor leaves behind keeps its lease.                 *)
LEMMA DiesIInv == ASSUME IInv, NEW s \in Sups, Dies(s) PROVE IInv'
<1>1. TypeOK'
  BY DEF IInv, TypeOK, Dies, Become, ClosePipes, SupStates
<1>2. OneLease'
  <2>1. \A t \in Sups : Admitted(t)' => Admitted(t)
    BY DEF IInv, TypeOK, Dies, Become, Admitted
  <2> QED BY <2>1, LeaseKept DEF IInv, HasLease, GuardAlive, ModelAlive, Dies
<1>3. Guarded'
  BY DEF IInv, Guarded, GuardAlive, ModelAlive, Dies
<1> QED BY <1>1, <1>2, <1>3 DEF IInv

-----------------------------------------------------------------------------
(* Guard and model: no step of them touches owner or proc, and none brings *)
(* back a guard that has ended.                                            *)

LEMMA GuardIInv ==
  ASSUME IInv, NEW g \in Guards, GuardStep(g) \/ GiveUp(g) \/ GuardKilled(g) \/ ModelEnds(g)
  PROVE  IInv'
<1>0. UNCHANGED <<procs, owner, pipe>>
  BY DEF GuardStep, Arm, OwnerGone, CheckStop, Fork, Ask, Insist, Reap, GiveUp, GuardKilled, ModelEnds
<1>1. TypeOK'
  BY <1>0 DEF IInv, TypeOK, procs, GuardStep, Arm, OwnerGone, CheckStop, Fork, Ask, Insist, Reap,
              GiveUp, GuardKilled, ModelEnds, Goto, GuardStates, ModelStates
<1>2. \A h \in Guards : h # g => guard'[h] = guard[h] /\ model'[h] = model[h]
  BY DEF IInv, TypeOK, GuardStep, Arm, OwnerGone, CheckStop, Fork, Ask, Insist, Reap,
         GiveUp, GuardKilled, ModelEnds, Goto
<1>3. /\ GuardAlive(g)' => GuardAlive(g)
      /\ ModelAlive(g)' => ModelAlive(g) \/ GuardAlive(g)
      /\ ModelAlive(g)' => GuardAlive(g)' \/ g \in lost'
      /\ guard'[g] \in {"boot", "armed", "checked"} => ~ModelAlive(g)'
  BY DEF IInv, TypeOK, Guarded, GuardStep, Arm, OwnerGone, CheckStop, Fork, Ask, Insist, Reap,
         GiveUp, GuardKilled, ModelEnds, Goto, GuardAlive, ModelAlive
<1>4. lost \subseteq lost'
  BY DEF GuardStep, Arm, OwnerGone, CheckStop, Fork, Ask, Insist, Reap, GiveUp, GuardKilled, ModelEnds
<1>5. OneLease'
  <2>1. ASSUME NEW t \in Sups, HasLease(t)' PROVE HasLease(t)
    BY <1>0, <1>2, <1>3, <2>1 DEF HasLease, Admitted, GuardAlive, ModelAlive, procs
  <2> QED BY <2>1, LeaseKept DEF IInv
<1>6. Guarded'
  BY <1>0, <1>2, <1>3, <1>4 DEF IInv, Guarded, GuardAlive, ModelAlive, procs
<1> QED BY <1>1, <1>5, <1>6 DEF IInv

LEMMA NextIInv == IInv /\ [Next]_vars => IInv'
<1> SUFFICES ASSUME IInv, [Next]_vars PROVE IInv'
  OBVIOUS
<1>1. ASSUME NEW s \in Sups, Launch(s) \/ LauncherEnds(s) PROVE IInv'
  BY <1>1, LauncherIInv
<1>2. ASSUME NEW s \in Sups, SupStep(s) PROVE IInv'
  BY <1>2, TakeLeaseIInv, StopEndIInv, SpawnIInv, DiesIInv DEF SupStep, Exit
<1>3. ASSUME NEW s \in Sups, SupKilled(s) PROVE IInv'
  BY <1>3, DiesIInv DEF SupKilled
<1>4. ASSUME NEW s \in Sups, Shutdown(s) \/ (\E state \in {"halting", "restarting"} : StopBegin(s, state))
      PROVE  IInv'
  BY <1>4, StopBeginIInv DEF Shutdown
<1>5. ASSUME NEW g \in Guards, GuardStep(g) \/ GiveUp(g) \/ GuardKilled(g) \/ ModelEnds(g) PROVE IInv'
  BY <1>5, GuardIInv
<1>6. CASE UNCHANGED vars
  BY <1>6 DEF IInv, TypeOK, OneLease, Guarded, HasLease, Admitted, GuardAlive, ModelAlive, vars, procs
<1> QED BY <1>1, <1>2, <1>3, <1>4, <1>5, <1>6 DEF Next

THEOREM Inductive == Spec => []IInv
  BY InitIInv, NextIInv, PTL DEF Spec

-----------------------------------------------------------------------------

(* Whatever is killed, an admitted supervisor is the only one, and every   *)
(* model that runs is its own.                                             *)
THEOREM SoleOwner == Spec => []SoleSupervisor
<1>1. IInv => SoleSupervisor
  BY DEF IInv, OneLease, Guarded, HasLease, SoleSupervisor
<1> QED BY <1>1, Inductive, PTL

(* Two models run at once only if one was left by a guard that was killed  *)
(* or could not end it.                                                    *)
THEOREM SingleModel == Spec => []OneModel
<1>1. ASSUME IInv, NEW g \in Guards, NEW h \in Guards,
             ModelAlive(g), ModelAlive(h), g \notin lost, h \notin lost
      PROVE  g = h
  <2>1. GuardAlive(g) /\ GuardAlive(h) /\ owner[g] \in Sups /\ owner[h] \in Sups
    BY <1>1 DEF IInv, Guarded
  <2>2. HasLease(owner[g]) /\ HasLease(owner[h])
    BY <2>1 DEF HasLease
  <2>3. owner[g] = owner[h]
    BY <1>1, <2>1, <2>2 DEF IInv, OneLease
  <2> QED BY <1>1, <2>1, <2>3 DEF IInv, Guarded
<1>2. IInv => OneModel
  BY <1>1 DEF OneModel
<1> QED BY <1>2, Inductive, PTL
=============================================================================
