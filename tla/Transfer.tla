------------------------------- MODULE Transfer -------------------------------
(***************************************************************************)
(* The resumable download of src/localcode/transfer.py.  One attempt holds *)
(* the flock of the file and works on two sidecars, the sparse .part and   *)
(* the checkpoint .resume.json; both outlive it when it fails, is          *)
(* cancelled or dies, and the next attempt goes on from them.              *)
(*                                                                         *)
(* A chunk's content is the version of the remote file it belongs to, so   *)
(* its digest is that version too.  A version with a strong entity tag has *)
(* a tag of its own; weak or missing tags are the empty one.               *)
(***************************************************************************)
EXTENDS Naturals, FiniteSets

CONSTANTS
  Chunks,    \* ranges of CHUNK_BYTES
  Versions,  \* contents of the remote file over time, all of one size
  Weak,      \* the versions without a strong entity tag
  Threads,   \* size of the pool
  Ranged,    \* whether the server honours ranges: a subset of BOOLEAN
  None, Hole, Torn

ASSUME ContentsAssumption ==
  /\ Weak \subseteq Versions /\ Versions \cap {None, Hole, Torn} = {}
  /\ None \notin {Hole, Torn} /\ Hole # Torn
ASSUME PoolAssumption == Chunks # {} /\ Threads \in Nat \ {0} /\ Ranged \subseteq BOOLEAN

VARIABLES
  (* the server *)
  remote,   \* the version it serves
  offered,  \* history: the versions it has served since the attempt began
  (* on disk *)
  part,     \* the content of each chunk of the .part file
  dirty,    \* chunks written and not fsynced since
  ckpt,     \* the .resume.json file: the tag of its identity, its digests
  dest,     \* the file at the final name
  (* the attempt that holds the flock *)
  phase,
  tag,      \* identity['etag']
  done,     \* the digests of the chunks it trusts
  cancel,   \* its cancel Event
  at,       \* where chunk(i) is
  got,      \* the version the response to a request is of
  failure   \* of the pool: None, "range", "error" or "cancel"

disk == <<part, dirty, ckpt, dest>>
pool == <<at, got, failure>>
vars == <<remote, offered, disk, phase, tag, done, cancel, pool>>

Each(x) == [c \in Chunks |-> x]
ASSUME NoFileAssumption == \A v \in Versions : None # Each(v)

Tag(v)  == IF v \in Weak THEN None ELSE v
(* No checkpoint is as good as one without a digest.                       *)
NoCkpt == [tag |-> None, done |-> Each(None)]

Present == {c \in Chunks : done[c] # None}
Active  == {c \in Chunks : at[c] \in {"writing", "synced"}}
Stopped == failure # None

Contents == Versions \cup {Hole, Torn}
Digests  == [Chunks -> Versions \cup {None}]
Phases   == {"idle", "probed", "sized", "pool", "published", "fallback", "ask", "body", "whole"}

TypeOK ==
  /\ remote \in Versions /\ offered \in SUBSET Versions
  /\ part \in [Chunks -> Contents] /\ dirty \in SUBSET Chunks
  /\ ckpt \in [tag : Versions \cup {None}, done : Digests]
  /\ dest = None \/ dest \in [Chunks -> Contents]
  /\ phase \in Phases /\ tag \in Versions \cup {None} /\ done \in Digests /\ cancel \in BOOLEAN
  /\ at \in [Chunks -> {"todo", "writing", "synced", "over"}] /\ got \in Digests
  /\ failure \in {None, "range", "error", "cancel"}

Init ==
  /\ remote \in Versions /\ offered = {}
  /\ part = Each(Hole) /\ dirty = {} /\ ckpt = NoCkpt /\ dest = None
  /\ phase = "idle" /\ tag = None /\ done = Each(None) /\ cancel = FALSE
  /\ at = Each("over") /\ got = Each(None) /\ failure = None

-----------------------------------------------------------------------------
(* An attempt ends: it returns or raises, and closes the lock.             *)
Leave ==
  /\ phase' = "idle" /\ offered' = {} /\ tag' = None /\ done' = Each(None) /\ cancel' = FALSE
  /\ at' = Each("over") /\ got' = Each(None) /\ failure' = None
  /\ UNCHANGED remote

Goto(next) == phase' = next /\ UNCHANGED <<remote, offered, tag, cancel>>

(* The probe: its answer decides between ranges and one plain request.     *)
Probe ==
  /\ phase = "idle"
  /\ tag' = Tag(remote) /\ offered' = {remote}
  /\ \/ TRUE \in Ranged /\ phase' = "probed"
     \/ FALSE \in Ranged /\ phase' = "fallback"
  /\ UNCHANGED <<remote, disk, done, cancel, pool>>

(* What a checkpoint is worth: the chunks that still have their digest.    *)
Verified == {c \in Chunks : ckpt.done[c] = part[c]}

Prepared(kept) ==
  /\ phase = "probed" /\ Goto("sized")
  /\ done' = [c \in Chunks |-> IF c \in kept THEN ckpt.done[c] ELSE None]
  /\ part' = IF kept = {} THEN Each(Hole) ELSE part
  /\ dirty' = IF kept = {} THEN Chunks ELSE dirty
  /\ UNCHANGED <<ckpt, dest, pool>>

(* Mutants: a checkpoint is believed without a look at the data; a tag     *)
(* that names no version is taken for an identity; nothing is resumed.     *)
PrepareUnread ==
  Prepared(IF tag # None /\ ckpt.tag = tag
             THEN {c \in Chunks : ckpt.done[c] # None} ELSE {})
PrepareUntagged == Prepared(IF ckpt.tag = tag THEN Verified ELSE {})
PrepareAnew == Prepared({})

Prepare ==
  Prepared(IF tag # None /\ ckpt.tag = tag THEN Verified ELSE {})

Checkpoint ==
  /\ phase = "sized" /\ Goto("pool")
  /\ ckpt' = [tag |-> tag, done |-> done]
  /\ at' = [c \in Chunks |-> IF c \in Present THEN "over" ELSE "todo"]
  /\ UNCHANGED <<part, dirty, dest, done, got, failure>>

-----------------------------------------------------------------------------
(* chunk(i), in a thread of the pool.                                      *)

InPool == phase = "pool" /\ UNCHANGED <<remote, offered, dest, phase, tag, cancel>>

(* The loop of the main thread keeps the first failure it sees; of two     *)
(* chunks that fail together either may be it.                             *)
Fail(c, kind) ==
  /\ at' = [at EXCEPT ![c] = "over"]
  /\ failure' \in IF failure = None THEN {kind} ELSE {failure, kind}
  /\ UNCHANGED <<part, dirty, ckpt, done, got>>

Asks(c) ==
  /\ InPool /\ at[c] = "todo" /\ ~Stopped /\ ~cancel
  /\ Cardinality(Active) < Threads

Answered(c, v) ==
  /\ at' = [at EXCEPT ![c] = "writing"] /\ got' = [got EXCEPT ![c] = v]
  /\ part' = [part EXCEPT ![c] = Torn] /\ dirty' = dirty \cup {c}
  /\ UNCHANGED <<ckpt, done, failure>>

(* A range of the version of the probe, and its first bytes are written.   *)
ChunkAsk(c) == Asks(c) /\ (tag = None \/ Tag(remote) = tag) /\ Answered(c, remote)

(* The remote file has changed, or the server has gone back on ranges.     *)
ChunkRefused(c) ==
  /\ Asks(c) /\ ((tag # None /\ Tag(remote) # tag) \/ FALSE \in Ranged)
  /\ Fail(c, "range")

ChunkError(c) ==
  \/ Asks(c) /\ Fail(c, "error")
  \/ InPool /\ c \in Active /\ Fail(c, "error")

(* Between two reads: the Event is set, or another chunk has failed.       *)
ChunkGivesUp(c) ==
  /\ InPool /\ at[c] = "writing" /\ (cancel \/ Stopped)
  /\ IF cancel THEN Fail(c, "cancel")
               ELSE at' = [at EXCEPT ![c] = "over"]
                    /\ UNCHANGED <<part, dirty, ckpt, done, got, failure>>

Filled(c) ==
  /\ InPool /\ at[c] = "writing" /\ at' = [at EXCEPT ![c] = "synced"]
  /\ part' = [part EXCEPT ![c] = got[c]]
  /\ UNCHANGED <<ckpt, done, got, failure>>

(* Mutant: the chunk is not fsynced.                                       *)
ChunkUnsynced(c) == Filled(c) /\ UNCHANGED dirty

(* The last bytes and the fsync, which is of the whole file.               *)
ChunkSync(c) == Filled(c) /\ dirty' = {}

(* Under the mutex: the digest, and the state file replaced by a new one.  *)
ChunkRecord(c) ==
  /\ InPool /\ at[c] = "synced" /\ at' = [at EXCEPT ![c] = "over"]
  /\ done' = [done EXCEPT ![c] = got[c]]
  /\ ckpt' = [tag |-> tag, done |-> done']
  /\ UNCHANGED <<part, dirty, got, failure>>

Chunk(c) ==
  \/ ChunkAsk(c) \/ ChunkRefused(c) \/ ChunkError(c) \/ ChunkGivesUp(c)
  \/ ChunkSync(c) \/ ChunkRecord(c)

-----------------------------------------------------------------------------
(* The pool is left when every chunk has returned.                         *)
PoolIsOver ==
  /\ phase = "pool" /\ Active = {}
  /\ Stopped \/ cancel \/ \A c \in Chunks : at[c] = "over"

PoolFails ==
  /\ PoolIsOver /\ (cancel \/ failure = "error" \/ (failure = None /\ Present # Chunks))
  /\ Leave /\ UNCHANGED disk

FallBack ==
  /\ PoolIsOver /\ ~cancel /\ failure = "range"
  /\ Goto("fallback") /\ UNCHANGED <<disk, done, pool>>

Replaced == dest' = part /\ part' = Each(Hole) /\ dirty' = {}

Publish ==
  /\ PoolIsOver /\ ~cancel /\ failure = None /\ Present = Chunks
  /\ Replaced /\ Goto("published")
  /\ UNCHANGED <<ckpt, done, pool>>

Unlink ==
  /\ phase = "published" /\ Leave
  /\ ckpt' = NoCkpt /\ UNCHANGED <<part, dirty, dest>>

-----------------------------------------------------------------------------
(* sequential(): one response, from the start.                             *)
SeqForget ==
  /\ phase = "fallback" /\ Goto("ask")
  /\ ckpt' = NoCkpt
  /\ UNCHANGED <<part, dirty, dest, done, pool>>

SeqAsk ==
  /\ phase = "ask" /\ ~cancel /\ Goto("body")
  /\ got' = Each(remote) /\ part' = Each(Torn) /\ dirty' = Chunks
  /\ UNCHANGED <<ckpt, dest, done, at, failure>>

SeqRead(synced) ==
  /\ phase = "body" /\ ~cancel /\ Goto("whole")
  /\ part' = got /\ dirty' = IF synced THEN {} ELSE dirty
  /\ UNCHANGED <<ckpt, dest, done, pool>>

(* Mutant: the file is not fsynced before it is renamed.                   *)
SeqDoneUnsynced == SeqRead(FALSE)

(* All of Content-Length has arrived, and is fsynced.                      *)
SeqDone == SeqRead(TRUE)

SeqPublish ==
  /\ phase = "whole" /\ ~cancel
  /\ Replaced /\ Leave /\ UNCHANGED ckpt

(* No answer, a body cut short, or cancelled.                              *)
SeqFails == phase \in {"ask", "body", "whole"} /\ Leave /\ UNCHANGED disk

-----------------------------------------------------------------------------
(* The world.                                                              *)

Cancel ==
  /\ phase # "idle" /\ ~cancel /\ cancel' = TRUE
  /\ UNCHANGED <<remote, offered, disk, phase, tag, done, pool>>

(* An I/O error ends the attempt, or the process dies, or the machine:     *)
(* what was not fsynced may then be lost.                                  *)
Crash ==
  /\ phase # "idle" /\ Leave /\ UNCHANGED <<ckpt, dest>>
  /\ \/ UNCHANGED <<part, dirty>>
     \/ /\ dirty' = {}
        /\ \E lost \in SUBSET dirty : part' = [c \in Chunks |-> IF c \in lost THEN Torn ELSE part[c]]

(* The remote file is replaced.  During an attempt a change from or to a   *)
(* version without a strong tag would go unseen, and is left out.          *)
RemoteChanges ==
  /\ remote' \in Versions \ {remote}
  /\ phase = "idle" \/ (remote \notin Weak /\ remote' \notin Weak)
  /\ offered' = IF phase = "idle" THEN {} ELSE offered \cup {remote'}
  /\ UNCHANGED <<disk, phase, tag, done, cancel, pool>>

Attempt ==
  \/ Probe \/ Prepare \/ Checkpoint \/ (\E c \in Chunks : Chunk(c))
  \/ PoolFails \/ FallBack \/ Publish \/ Unlink
  \/ SeqForget \/ SeqAsk \/ SeqDone \/ SeqPublish \/ SeqFails

Next == Attempt \/ Cancel \/ Crash \/ RemoteChanges

Spec == Init /\ [][Next]_vars

(* An attempt goes on until it ends, and a download is tried again; and    *)
(* however often attempts fail or die, the steps of a resumable one each   *)
(* succeed now and then.                                                   *)
FairSpec ==
  /\ Spec /\ WF_vars(Attempt) /\ SF_vars(Prepare) /\ SF_vars(Checkpoint) /\ SF_vars(Publish)
  /\ \A c \in Chunks : SF_vars(ChunkAsk(c)) /\ SF_vars(ChunkSync(c)) /\ SF_vars(ChunkRecord(c))

-----------------------------------------------------------------------------
(* Properties.                                                             *)

(* "Only fsynced, checksummed chunks are checkpointed": a digest that the  *)
(* attempt trusts is of data that is on disk, of the probed version.       *)
TrustedIsOnDisk ==
  phase \in {"sized", "pool"} => \A c \in Present :
    part[c] = done[c] /\ c \notin dirty /\ (tag # None => done[c] = tag)

(* A file is renamed to its final name only when all of it is on disk.     *)
PublishedIsDurable == [][dest' # dest => dirty = {}]_vars

(* "Completed range chunks survive failures, cancellation and process      *)
(* restarts" (bootstrap.py): a checkpointed chunk of the version being     *)
(* served is lost only to a publication or to the fallback.                *)
Kept(c) == ckpt.tag = remote /\ ckpt.done[c] = remote /\ part[c] = remote

WorkIsKept ==
  [][\A c \in Chunks :
       /\ Kept(c) /\ remote' = remote /\ phase' # "published"
       /\ phase \notin {"fallback", "published"} /\ (phase = "idle" \/ tag = Tag(remote))
       => Kept(c)']_vars

(* The final name only ever holds one whole version, offered during the    *)
(* attempt: the download implements its abstract specification.            *)
WholeVersion ==
  IF dest = None THEN None
  ELSE IF \E v \in Versions : dest = Each(v) THEN CHOOSE v \in Versions : dest = Each(v)
  ELSE Torn

Promise == INSTANCE AtomicDownload WITH dest <- WholeVersion

IsAtomic == Promise!Spec

(* Once the remote file stays as it is, under a strong tag, nobody cancels *)
(* any more and no attempt falls back to one stream (which keeps nothing), *)
(* the download ends, although attempts go on dying.                       *)
ResumeCompletes ==
  \A v \in Versions \ Weak :
    <>[](remote = v /\ ~cancel /\ phase # "fallback") => <>(dest = Each(v))
=============================================================================
