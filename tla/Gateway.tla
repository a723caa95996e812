--------------------------------- MODULE Gateway ---------------------------------
(***************************************************************************)
(* The public API listener of src/localcode/ui/gateway.py: connections are *)
(* relayed to llama-server byte by byte, and the listener moves to another *)
(* port while they go on.                                                  *)
(*                                                                         *)
(* A Listener is named by its port: two cannot listen on one.  change() is *)
(* under a lock that nobody waits for, so at most one is in progress and   *)
(* its local variables are the gateway's; close() waits.  Of the bytes     *)
(* only their number matters, as the relay keeps a first-in first-out      *)
(* buffer per direction.                                                   *)
(***************************************************************************)
EXTENDS Integers, FiniteSets

CONSTANTS
  Ports,
  Conns,     \* client connections
  None,      \* port None is "auto"; also no port
  Capacity,  \* connections relayed at a time
  Buffer,    \* bytes the relay reads ahead in one direction
  MaxBytes   \* bound on what is sent in each direction

ASSUME PortAssumption == IsFiniteSet(Conns) /\ None \notin Ports

Ways == {"up", "down"}   \* from the client to the server, and back

ASSUME SizeAssumption ==
  Capacity \in Nat /\ Buffer \in Nat \ {0} /\ MaxBytes \in [Ways -> Nat]

VARIABLES
  listener, \* ModelGateway.listener
  open,     \* ports with a listening socket
  saved,    \* server-port.json
  closed,
  change,   \* how far the change in progress is; "none": the lock is free
  want,     \* its argument, until it is saved
  other,    \* the listener it has to retire: the replacement, or the previous one
  conn,     \* where a connection is
  via,      \* while it waits to be accepted, the port it came in by
  free,     \* permits left in _capacity
  sent,     \* bytes an end has sent,
  got,      \* the relay has read
  out,      \* and written to the other end
  stage     \* of a direction: "ended" by its sender, "read" by the relay to
            \* its end, the end "passed" on

gate  == <<listener, open, saved, closed, change, want, other>>
bytes == <<sent, got, out, stage>>
vars  == <<gate, conn, via, free, bytes>>

Nothing == [w \in Ways |-> 0]
AllOpen == [w \in Ways |-> "open"]

Waiting == {"none", "backlog"}
Holding == {"taken", "relay"}                  \* has a permit
Over    == {"refused", "done", "cut"}

TypeOK ==
  /\ listener \in Ports /\ open \subseteq Ports /\ saved \in Ports \cup {None}
  /\ closed \in BOOLEAN
  /\ change \in {"none", "bind", "thread", "save", "swap", "end"}
  /\ want \in Ports \cup {None} /\ other \in Ports \cup {None}
  /\ conn \in [Conns -> Waiting \cup Holding \cup Over]
  /\ via \in [Conns -> Ports \cup {None}]
  /\ free \in 0 .. Capacity
  /\ \A f \in {sent, got, out} : \A k \in Conns : \A w \in Ways : f[k][w] \in 0 .. MaxBytes[w]
  /\ stage \in [Conns -> [Ways -> {"open", "ended", "read", "passed"}]]

(* The launcher has taken the saved port, or any free one for "auto".      *)
Init ==
  /\ listener \in Ports /\ open = {listener} /\ saved \in {None, listener}
  /\ closed = FALSE
  /\ change = "none" /\ want = None /\ other = None
  /\ conn = [k \in Conns |-> "none"] /\ via = [k \in Conns |-> None]
  /\ free = Capacity
  /\ sent = [k \in Conns |-> Nothing] /\ got = sent /\ out = sent
  /\ stage = [k \in Conns |-> AllOpen]

-----------------------------------------------------------------------------
(* ModelGateway.change() and close().                                      *)

(* Mutant: the thread is stopped, but its socket is not closed.            *)
RetireUnclosed(p) ==
  /\ open' = open \ {p}
  /\ UNCHANGED <<conn, via, free, bytes>>

(* Closing a listening socket resets what waits in its backlog, and leaves *)
(* the connections it has accepted alone.                                  *)
Retire(p) ==
  /\ open' = open \ {p}
  /\ conn' = [k \in Conns |-> IF via[k] = p THEN "cut" ELSE conn[k]]
  /\ via' = [k \in Conns |-> IF via[k] = p THEN None ELSE via[k]]
  /\ UNCHANGED <<free, bytes>>

traffic == <<conn, via, free, bytes>>

ChangeBegin(p) ==
  /\ change = "none"
  /\ IF closed THEN change' = "end" /\ UNCHANGED want ELSE change' = "bind" /\ want' = p
  /\ UNCHANGED <<listener, open, saved, closed, other, traffic>>

(* The replacement listens before anything else is done.                   *)
ChangeBind ==
  /\ change = "bind"
  /\ \/ want = listener /\ change' = "save" /\ UNCHANGED <<open, want, other>>
     \/ \E p \in Ports \ open :
          /\ want \in {None, p}
          /\ open' = open \cup {p} /\ other' = p /\ change' = "thread" /\ UNCHANGED want
     \/ want # listener /\ change' = "end" /\ want' = None /\ UNCHANGED <<open, other>>
  /\ UNCHANGED <<listener, saved, closed, traffic>>

(* Mutant: the socket of a listener whose thread cannot start stays open.  *)
ChangeThreadLeaks ==
  /\ change = "thread"
  /\ \/ change' = "save" /\ UNCHANGED <<want, other>>
     \/ change' = "end" /\ want' = None /\ other' = None
  /\ UNCHANGED <<listener, open, saved, closed, traffic>>

(* Listener.start(): its thread runs, or the socket is closed again.       *)
ChangeThread ==
  /\ change = "thread"
  /\ \/ change' = "save" /\ UNCHANGED <<open, want, other, traffic>>
     \/ change' = "end" /\ want' = None /\ other' = None /\ Retire(other)
  /\ UNCHANGED <<listener, saved, closed>>

(* Mutant: the replacement is forgotten when its port cannot be saved.     *)
ChangeSaveForgets ==
  /\ change = "save" /\ want' = None
  /\ \/ saved' = want /\ change' = "swap" /\ UNCHANGED other
     \/ change' = "end" /\ other' = None /\ UNCHANGED saved
  /\ UNCHANGED <<listener, open, closed, traffic>>

ChangeSave ==
  /\ change = "save" /\ want' = None
  /\ \/ saved' = want /\ change' = "swap"
     \/ change' = "end" /\ UNCHANGED saved
  /\ UNCHANGED <<listener, open, closed, other, traffic>>

ChangeSwap ==
  /\ change = "swap" /\ change' = "end"
  /\ IF other = None THEN UNCHANGED <<listener, other>>
                     ELSE listener' = other /\ other' = listener
  /\ UNCHANGED <<open, saved, closed, want, traffic>>

(* The previous listener is retired, or the replacement in the finally.    *)
ChangeEnd ==
  /\ change = "end" /\ change' = "none" /\ other' = None
  /\ IF other # None THEN Retire(other) ELSE UNCHANGED <<open, traffic>>
  /\ UNCHANGED <<listener, saved, closed, want>>

Close ==
  /\ change = "none" /\ ~closed
  /\ closed' = TRUE
  /\ Retire(listener)
  /\ UNCHANGED <<listener, saved, change, want, other>>

-----------------------------------------------------------------------------
(* Listener: accepting, under the common limit.                            *)

To(k, place) == conn' = [conn EXCEPT ![k] = place]

(* The handler's thread ends, and its permit comes back.                   *)
Leave(k, place) == To(k, place) /\ free' = free + 1

Connect(k) ==
  /\ conn[k] = "none"
  /\ \E p \in open : via' = [via EXCEPT ![k] = p]
  /\ To(k, "backlog")
  /\ UNCHANGED <<gate, free, bytes>>

(* process_request(): a permit, or 503 at once.  A listener whose thread   *)
(* is not started yet accepts nobody.                                      *)
Accept(k) ==
  /\ conn[k] = "backlog" /\ via[k] \in open
  /\ change = "thread" => via[k] # other
  /\ IF free > 0 THEN To(k, "taken") /\ free' = free - 1
                 ELSE To(k, "refused") /\ UNCHANGED free
  /\ via' = [via EXCEPT ![k] = None]
  /\ UNCHANGED <<gate, bytes>>

(* Mutant: a thread that cannot be started keeps its permit.               *)
ServeLeaking(k) ==
  /\ conn[k] = "taken"
  /\ \/ To(k, "relay") /\ UNCHANGED free
     \/ Leave(k, "refused")
     \/ To(k, "cut") /\ UNCHANGED free
  /\ UNCHANGED <<gate, via, bytes>>

(* The handler's thread: it may not start, and the server may not answer.  *)
Serve(k) ==
  /\ conn[k] = "taken"
  /\ (To(k, "relay") /\ UNCHANGED free) \/ Leave(k, "refused") \/ Leave(k, "cut")
  /\ UNCHANGED <<gate, via, bytes>>

-----------------------------------------------------------------------------
(* relay(): one thread, two directions.                                    *)

Bump(f, k, w)   == [f EXCEPT ![k][w] = @ + 1]
Reach(k, w, to) == stage' = [stage EXCEPT ![k][w] = to]
Idle(k)         == \A w \in Ways : got[k][w] = out[k][w]             \* nothing is pending
Reading(k)      == {w \in Ways : stage[k][w] \in {"open", "ended"}}
GoesOn(k)       == Reading(k) # {} \/ ~Idle(k)                       \* the loop

(* An end sends, or shuts down its side.                                   *)
Send(k, w) ==
  /\ conn[k] = "relay" /\ stage[k][w] = "open" /\ sent[k][w] < MaxBytes[w]
  /\ sent' = Bump(sent, k, w)
  /\ UNCHANGED <<gate, conn, via, free, got, out, stage>>

Finish(k, w) ==
  /\ conn[k] = "relay" /\ stage[k][w] = "open"
  /\ Reach(k, w, "ended")
  /\ UNCHANGED <<gate, conn, via, free, sent, got, out>>

Read(k, w) ==
  /\ conn[k] = "relay" /\ w \in Reading(k) /\ got[k][w] - out[k][w] < Buffer
  /\ \/ got[k][w] < sent[k][w] /\ got' = Bump(got, k, w) /\ UNCHANGED stage
     \/ got[k][w] = sent[k][w] /\ stage[k][w] = "ended" /\ Reach(k, w, "read") /\ UNCHANGED got
  /\ UNCHANGED <<gate, conn, via, free, sent, out>>

(* The other end takes a byte when it likes: it need not read on.          *)
Write(k, w) ==
  /\ conn[k] = "relay" /\ out[k][w] < got[k][w]
  /\ out' = Bump(out, k, w)
  /\ UNCHANGED <<gate, conn, via, free, sent, got, stage>>

PassEnd(k, w) ==
  /\ conn[k] = "relay" /\ GoesOn(k) /\ stage[k][w] = "read" /\ out[k][w] = got[k][w]
  /\ Reach(k, w, "passed")
  /\ UNCHANGED <<gate, conn, via, free, sent, got, out>>

(* Both sockets are closed, and what was on its way is forgotten.          *)
Hang(k, place) ==
  /\ conn[k] = "relay" /\ Leave(k, place)
  /\ sent' = [sent EXCEPT ![k] = Nothing] /\ got' = [got EXCEPT ![k] = Nothing]
  /\ out' = [out EXCEPT ![k] = Nothing] /\ stage' = [stage EXCEPT ![k] = AllOpen]
  /\ UNCHANGED <<gate, via>>

(* Mutant: the relay ends with the last read, whatever is pending.         *)
RelayEndsEarly(k) == Reading(k) = {} /\ Hang(k, "done")

(* Both ends are through: closing the sockets passes the last end on.      *)
RelayEnds(k) == ~GoesOn(k) /\ Hang(k, "done")

(* An end resets the connection.                                           *)
Reset(k) == Hang(k, "cut")

(* Mutant: the time limit is only looked at when nothing is pending.       *)
TimeOutWhenIdle(k) == GoesOn(k) /\ Idle(k) /\ Reset(k)

(* Thirty minutes without a byte, whatever is pending.                     *)
TimeOut(k) == GoesOn(k) /\ Reset(k)

(* No end can be passed on, and nothing is read: all that came has been, or *)
(* the buffer is full because the receiver does not take it.               *)
Stalled(k) ==
  /\ \A w \in Reading(k) : \/ got[k][w] - out[k][w] = Buffer
                          \/ (got[k][w] = sent[k][w] /\ stage[k][w] = "open")
  /\ \A w \in Ways : ~(stage[k][w] = "read" /\ out[k][w] = got[k][w])

-----------------------------------------------------------------------------

ChangeStep == ChangeBind \/ ChangeThread \/ ChangeSave \/ ChangeSwap \/ ChangeEnd

(* What the relay does on its own.                                         *)
Relaying(k) == RelayEnds(k) \/ \E w \in Ways : Read(k, w) \/ PassEnd(k, w)

(* Reset(k) stands for TimeOut(k) too.                                     *)
Next ==
  \/ \E p \in Ports \cup {None} : ChangeBegin(p)
  \/ ChangeStep \/ Close
  \/ \E k \in Conns :
       \/ Connect(k) \/ Accept(k) \/ Serve(k) \/ Relaying(k) \/ Reset(k)
       \/ \E w \in Ways : Send(k, w) \/ Finish(k, w) \/ Write(k, w)

(* Threads run, and the clock of a relay that stands still does.  The two  *)
(* ends need not send, read on or leave; MaxBytes alone bounds how often   *)
(* they put the time limit off.                                            *)
Fairness ==
  \A k \in Conns :
    /\ WF_vars(Accept(k)) /\ WF_vars(Serve(k)) /\ WF_vars(Relaying(k))
    /\ WF_vars(Stalled(k) /\ TimeOut(k))

Spec == Init /\ [][Next]_vars /\ WF_vars(ChangeStep) /\ Fairness

-----------------------------------------------------------------------------
(* The API is reachable at the gateway's port until close(), also during a *)
(* change; a finished change, whether it failed at the port, at the thread *)
(* or at the file, leaves one listener, and the file agrees with it.       *)
PortAgrees ==
  /\ ~closed => listener \in open
  /\ change = "none" => /\ open = IF closed THEN {} ELSE {listener}
                        /\ saved \in {None, listener}

(* Every permit is free or belongs to one thread.                          *)
PermitsAdd == TypeOK /\ free + Cardinality({k \in Conns : conn[k] \in Holding}) = Capacity

(* The end of a direction is passed on behind its last byte, and a         *)
(* connection that nobody resets is closed when both directions are        *)
(* through, whatever listener it came in by.                               *)
EndAfterData ==
  [][\A k \in Conns : \A w \in Ways :
       (stage'[k][w] = "passed" /\ stage[k][w] # "passed") \/ (conn[k] = "relay" /\ conn'[k] = "done")
         => stage[k][w] # "open" /\ out[k][w] = sent[k][w]]_vars

(* Every connection is refused, cut, or served to its end, also those of a *)
(* retired listener and those whose receiver has stopped reading: none     *)
(* holds its permit for ever.                                              *)
ConnectionsEnd == \A k \in Conns : conn[k] = "backlog" ~> conn[k] \in Over
=============================================================================
