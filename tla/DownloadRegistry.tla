--------------------------- MODULE DownloadRegistry ---------------------------
(***************************************************************************)
(* The background downloads of src/localcode/bootstrap.py: the table       *)
(* _DOWNLOADS, the queue _DOWNLOAD_QUEUE and the daemon threads that run   *)
(* _run_download, all under _DOWNLOAD_LOCK.  One action is one section     *)
(* under that lock, or one step of a worker outside it.                    *)
(*                                                                         *)
(* A worker is born when its entry is promoted, and only later reads the   *)
(* cancel Event of its key.  cancel_download drops the entry and the Event *)
(* while the worker may still be running, and a new start for the same key *)
(* makes a new entry, a new Event and, in its turn, a new worker.          *)
(*                                                                         *)
(* An Event is known by who still refers to it.  The one in                *)
(* _DOWNLOAD_CANCEL is "current" for the workers that have read it; when a *)
(* cancellation sets and drops it, it is "set" for them; when a new start  *)
(* replaces it unset, nobody can set it any more and it is as good as no   *)
(* Event at all.                                                           *)
(***************************************************************************)
EXTENDS Naturals, Sequences, FiniteSets

CONSTANTS
  Keys,        \* downloads, by file name
  Callers,     \* threads that call cancel_download
  MaxActive,   \* _MAX_ACTIVE_DOWNLOADS
  MaxWorkers,  \* bound: workers alive and downloads waiting for one
  NoKey        \* the key of a thread that has none

ASSUME KeysAssumption == NoKey \notin Keys /\ IsFiniteSet(Keys)
ASSUME BoundsAssumption == MaxActive \in Nat \ {0} /\ MaxWorkers \in Nat \ {0}

Workers == 1 .. MaxWorkers

VARIABLES
  (* the registry *)
  entry,     \* _DOWNLOADS[key]["status"], or "none"
  queue,     \* _DOWNLOAD_QUEUE
  choices,   \* the keys of _DOWNLOAD_CHOICES
  events,    \* the keys of _DOWNLOAD_CANCEL
  (* the worker threads *)
  at,        \* where the worker is; "good" and "bad" are download_model's outcomes
  key,       \* its download
  ev,        \* the Event it has read: "none", "current" or "set"
  (* callers of cancel_download between its two sections *)
  freeing,
  (* the models folder *)
  complete   \* keys whose file is complete

registry == <<entry, queue, choices, events>>
threads  == <<at, key, ev>>
vars     == <<registry, threads, freeing, complete>>

Reporting == {"good", "bad"}

Init ==
  /\ entry = [k \in Keys |-> "none"] /\ queue = <<>> /\ choices = {} /\ events = {}
  /\ at = [w \in Workers |-> "off"] /\ key = [w \in Workers |-> NoKey]
  /\ ev = [w \in Workers |-> "none"]
  /\ freeing = {} /\ complete \in SUBSET Keys

Live    == {w \in Workers : at[w] # "off"}
Pending == {"queued", "downloading"}

-----------------------------------------------------------------------------
(* _maybe_start_next, on the table and queue that the caller's section     *)
(* leaves: pop keys until the slots are taken or the queue is empty, and   *)
(* start a worker for every popped key that is still wanted.               *)

ActiveIn(table) == Cardinality({k \in Keys : table[k] = "downloading"})

Wanted(table, wanted, q, n) ==
  {i \in 1 .. n : table[q[i]] # "none" /\ q[i] \in wanted}

(* Mutant: one more download than there are slots.                         *)
SlotsOneMore(table) == IF ActiveIn(table) > MaxActive THEN 0 ELSE MaxActive + 1 - ActiveIn(table)

Slots(table) == IF ActiveIn(table) >= MaxActive THEN 0 ELSE MaxActive - ActiveIn(table)

Popped(table, wanted, q) ==
  CHOOSE n \in 0 .. Len(q) :
    /\ Cardinality(Wanted(table, wanted, q, n)) <= Slots(table)
    /\ \/ n = Len(q)
       \/ Cardinality(Wanted(table, wanted, q, n)) = Slots(table)
    /\ \A m \in 0 .. n - 1 : Cardinality(Wanted(table, wanted, q, m)) < Slots(table)

(* A thread of its own for every position in `go`.                         *)
Hire(go, idle) == CHOOSE h \in [go -> idle] : \A i, j \in go : h[i] = h[j] => i = j

(* `idle` are the worker identities free after this step, `seen` what the  *)
(* others know of their Events.                                            *)
StartNext(table, wanted, q, idle, seen) ==
  LET n        == Popped(table, wanted, q)
      go       == Wanted(table, wanted, q, n)
      For(w)   == {i \in go : Hire(go, idle)[i] = w}
      Hired(w) == For(w) # {}
  IN /\ entry' = [k \in Keys |-> IF \E i \in go : q[i] = k THEN "downloading" ELSE table[k]]
     /\ queue' = SubSeq(q, n + 1, Len(q))
     /\ at' = [w \in Workers |-> IF Hired(w) THEN "born" ELSE IF w \in idle THEN "off" ELSE at[w]]
     /\ key' = [w \in Workers |-> IF Hired(w) THEN q[CHOOSE i \in For(w) : TRUE]
                                  ELSE IF w \in idle THEN NoKey ELSE key[w]]
     /\ ev' = [w \in Workers |-> IF Hired(w) \/ w \in idle THEN "none" ELSE seen[w]]

-----------------------------------------------------------------------------
(* start_background_download.                                              *)

Idle == Workers \ Live

StartKnown(k) ==
  /\ k \in complete
  /\ entry' = [entry EXCEPT ![k] = "done"]
  /\ UNCHANGED <<queue, choices, events, threads, freeing, complete>>

StartJoin(k) ==
  /\ k \notin complete /\ entry[k] \in Pending
  /\ UNCHANGED vars

Was(k, was, now) == [w \in Workers |-> IF key[w] = k /\ ev[w] = was THEN now ELSE ev[w]]

StartNew(k) ==
  /\ k \notin complete /\ entry[k] \notin Pending
  /\ Cardinality(Live) + Len(queue) < MaxWorkers
  /\ events' = events \cup {k}
  /\ choices' = choices \cup {k}
  /\ StartNext([entry EXCEPT ![k] = "queued"], choices \cup {k}, Append(queue, k), Idle,
               Was(k, "current", "none"))
  /\ UNCHANGED <<freeing, complete>>

(* cancel_download: list.remove takes out the first occurrence only.       *)
Without(q, k) ==
  IF \E i \in 1 .. Len(q) : q[i] = k
    THEN LET i == CHOOSE i \in 1 .. Len(q) : q[i] = k /\ \A j \in 1 .. i - 1 : q[j] # k
         IN SubSeq(q, 1, i - 1) \o SubSeq(q, i + 1, Len(q))
    ELSE q

Cancel(c, k) ==
  /\ c \notin freeing
  /\ ev' = Was(k, "current", "set")
  /\ queue' = Without(queue, k)
  /\ entry' = [entry EXCEPT ![k] = "none"]
  /\ choices' = choices \ {k} /\ events' = events \ {k}
  /\ freeing' = IF entry[k] \in Pending THEN freeing \cup {c} ELSE freeing
  /\ UNCHANGED <<at, key, complete>>

CancelFrees(c) ==
  /\ c \in freeing
  /\ freeing' = freeing \ {c}
  /\ StartNext(entry, choices, queue, Idle, ev)
  /\ UNCHANGED <<choices, events, complete>>

-----------------------------------------------------------------------------
(* _run_download.                                                          *)

Move(w, phase) == at' = [at EXCEPT ![w] = phase]

Cancelled(w) == ev[w] = "set"

Begin(w) ==
  /\ at[w] = "born" /\ Move(w, "run")
  /\ ev' = [ev EXCEPT ![w] = IF key[w] \in events THEN "current" ELSE "none"]
  /\ UNCHANGED <<registry, key, freeing, complete>>

Progress(w, phase) ==
  /\ Move(w, phase)
  /\ UNCHANGED <<registry, key, ev, freeing>>

(* download_model.  The file is there already, or the worker goes on to    *)
(* fetch it.                                                               *)
Present(w) == at[w] = "run" /\ key[w] \in complete /\ Progress(w, "good") /\ UNCHANGED complete

Absent(w) == at[w] = "run" /\ key[w] \notin complete /\ Progress(w, "fetch") /\ UNCHANGED complete

(* Cancelled, no network, no room, or another transfer holds the file's    *)
(* lock.  The three attempts count as one transfer.                        *)
Refused(w) == at[w] = "fetch" /\ Progress(w, "bad") /\ UNCHANGED complete

Transfer(w) ==
  /\ at[w] = "fetch" /\ ~Cancelled(w)
  /\ \A v \in Workers : at[v] = "transfer" => key[v] # key[w]
  /\ Progress(w, "transfer") /\ UNCHANGED complete

(* The transfer may publish the file in the instant the Event is set.      *)
Transferred(w) ==
  /\ at[w] = "transfer" /\ Progress(w, "good")
  /\ complete' = complete \cup {key[w]}

Failed(w) == at[w] = "transfer" /\ Progress(w, "bad") /\ UNCHANGED complete

Report(w, table) ==
  /\ at[w] \in Reporting /\ Move(w, "next")
  /\ entry' = table
  /\ ev' = [ev EXCEPT ![w] = "none"]
  /\ key' = [key EXCEPT ![w] = NoKey]
  /\ UNCHANGED <<queue, choices, events, freeing, complete>>

Outcome(w) == [entry EXCEPT ![key[w]] = IF at[w] = "good" THEN "done" ELSE "failed"]

(* Mutant: a cancelled worker reports its outcome all the same.            *)
MarkAnyway(w) == Report(w, IF entry[key[w]] # "none" THEN Outcome(w) ELSE entry)

(* Mutant: a failure is not written to the row.                            *)
MarkGoodOnly(w) ==
  Report(w, IF entry[key[w]] # "none" /\ ~Cancelled(w) /\ at[w] = "good" THEN Outcome(w) ELSE entry)

Mark(w) == Report(w, IF entry[key[w]] # "none" /\ ~Cancelled(w) THEN Outcome(w) ELSE entry)

(* The worker's last section; its thread ends with it.                     *)
Retire(w) ==
  /\ at[w] = "next"
  /\ StartNext(entry, choices, queue, Idle \cup {w}, ev)
  /\ UNCHANGED <<choices, events, freeing, complete>>

Work(w) ==
  \/ Begin(w) \/ Present(w) \/ Absent(w) \/ Refused(w) \/ Transfer(w) \/ Transferred(w) \/ Failed(w)
  \/ Mark(w) \/ Retire(w)

(* The file appears or goes without this registry: the supervisor selects  *)
(* it, the user deletes it.                                                *)
Elsewhere(k) ==
  /\ complete' \in {complete \cup {k}, complete \ {k}} \ {complete}
  /\ UNCHANGED <<registry, threads, freeing>>

Next ==
  \/ \E k \in Keys : StartKnown(k) \/ StartJoin(k) \/ StartNew(k) \/ Elsewhere(k)
  \/ \E c \in Callers : CancelFrees(c) \/ \E k \in Keys : Cancel(c, k)
  \/ \E w \in Workers : Work(w)

Spec == Init /\ [][Next]_vars

(* Threads run, and a transfer ends one way or the other.                  *)
FairSpec ==
  Spec /\ (\A w \in Workers : WF_vars(Work(w))) /\ \A c \in Callers : WF_vars(CancelFrees(c))

-----------------------------------------------------------------------------
(* Safety.                                                                 *)

(* No more entries are "downloading" than there are slots, although a      *)
(* cancel, a restart and a worker's end each promote on their own          *)
(* (_MAX_ACTIVE_DOWNLOADS).                                                *)
SlotLimit == ActiveIn(entry) <= MaxActive

(* A download that goes on can be seen and cancelled: the row of a worker  *)
(* whose Event is registered is never missing or "failed", however often   *)
(* the file was cancelled and started again while earlier workers were on  *)
(* their way to report under the same key (_run_download's look at the     *)
(* Event).  It presumes that the earlier ones knew of their cancellation:  *)
(* a key gets a second worker that does not when a cancel comes before the *)
(* worker has read its Event (CancelReachesWorker), or when the file turns *)
(* up complete during the transfer and is deleted again.                   *)
OneWorker ==
  \A v, w \in Workers : v # w /\ key[v] = key[w] /\ key[v] # NoKey => Cancelled(v) \/ Cancelled(w)

Shown ==
  \A w \in Workers : ev[w] = "current" => entry[key[w]] \in {"queued", "downloading", "done"}

WorkersAreShown == []OneWorker => []Shown

(* cancel_download "Sets the download's cancel Event (so the worker thread *)
(* aborts promptly)": a transfer whose row is gone has been told to stop.  *)
CancelReachesWorker ==
  \A w \in Workers : at[w] = "transfer" /\ entry[key[w]] = "none" => Cancelled(w)

QueueMoves   == \A k \in Keys : (entry[k] = "queued") ~> (entry[k] # "queued")
DownloadEnds == \A k \in Keys : (entry[k] = "downloading") ~> (entry[k] # "downloading")

(* Liveness: a queued download gets its turn, unless it is cancelled, and  *)
(* a running one ends, whatever is started, cancelled and restarted.       *)
DownloadsProceed == QueueMoves /\ DownloadEnds
=============================================================================
