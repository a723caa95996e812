--------------------------- MODULE Transfer_proofs ---------------------------
(***************************************************************************)
(* Machine-checked theorems about Transfer, for every set of chunks and    *)
(* versions, strong or weak, and every number of threads:                  *)
(*                                                                         *)
(*   TypeCorrect   TypeOK is an invariant;                                 *)
(*   TrustIsSound  TrustedIsOnDisk is an invariant;                        *)
(*   DurablePublication  no step breaks PublishedIsDurable;                *)
(*   WorkSurvives  no step breaks WorkIsKept;                              *)
(*   DownloadIsAtomic  every behaviour is one of AtomicDownload.           *)
(*                                                                         *)
(* TrustedIsOnDisk speaks of one attempt, and is not inductive: what the   *)
(* next attempt trusts comes from the sidecars, at a time when it is not   *)
(* running.  CkptSound says what they are worth at any time, OnDuty what a *)
(* thread of the pool may be doing.                                        *)
(***************************************************************************)
EXTENDS Transfer, TLAPS

Strong == (Versions \ Weak) \cup {None}

(* A digest that matches its data is of data on disk, of the tag's version. *)
CkptSound ==
  /\ ckpt.tag \in Strong
  /\ \A c \in Chunks : ckpt.done[c] # None =>
       /\ part[c] = ckpt.done[c] => c \notin dirty
       /\ ckpt.tag # None => ckpt.done[c] = ckpt.tag

(* What the attempt trusts is all that the checkpoint had to offer.        *)
AllTrusted ==
  /\ tag \in Strong
  /\ phase = "sized" /\ tag # None /\ ckpt.tag = tag =>
       \A c \in Chunks : ckpt.done[c] = part[c] => done[c] = ckpt.done[c]

OnDuty ==
  phase = "pool" =>
    /\ ckpt.tag = tag /\ ckpt.done = done
    /\ \A c \in Chunks :
         /\ at[c] # "over" => done[c] = None
         /\ at[c] \in {"writing", "synced"} => got[c] \in Versions /\ (tag # None => got[c] = tag)
         /\ at[c] = "synced" => part[c] = got[c] /\ c \notin dirty

(* The fallback has dropped the checkpoint and takes one version.          *)
OneBody ==
  /\ phase \in {"ask", "body", "whole"} => ckpt = NoCkpt
  /\ phase = "body" => \A c \in Chunks : got[c] \in Versions
  /\ phase = "whole" => dirty = {}

Inv == TypeOK /\ CkptSound /\ AllTrusted /\ TrustedIsOnDisk /\ OnDuty /\ OneBody

-----------------------------------------------------------------------------
(* Every action keeps the invariant.                                       *)

LEMMA ProbeKeeps == ASSUME Inv, Probe PROVE Inv'
<1>1. TypeOK'
  BY DEF Inv, TypeOK, disk, pool, Phases, Tag, Probe
<1>2. CkptSound'
  BY DEF Inv, CkptSound, disk, Probe
<1>3. AllTrusted'
  BY DEF Inv, AllTrusted, TypeOK, Strong, Tag, Probe
<1>4. TrustedIsOnDisk'
  BY DEF TrustedIsOnDisk, Probe
<1>5. OnDuty'
  BY DEF OnDuty, Probe
<1>6. OneBody'
  BY DEF OneBody, Probe
<1>7. QED  BY <1>1, <1>2, <1>3, <1>4, <1>5, <1>6 DEF Inv

LEMMA PrepareKeeps == ASSUME Inv, Prepare PROVE Inv'
<1>1. TypeOK'
  BY DEF Inv, TypeOK, pool, Each, Contents, Digests, Phases, Goto, Prepared, Prepare
<1>2. CkptSound'
  BY ContentsAssumption DEF Inv, CkptSound, TypeOK, Each, Digests, Prepared, Prepare
<1>3. AllTrusted'
  BY ContentsAssumption DEF Inv, AllTrusted, CkptSound, Each, Strong, Goto, Verified,
     Prepared, Prepare
<1>4. TrustedIsOnDisk'
  BY DEF Inv, TrustedIsOnDisk, CkptSound, Present, Goto, Verified, Prepared, Prepare
<1>5. OnDuty'
  BY DEF OnDuty, Goto, Prepared, Prepare
<1>6. OneBody'
  BY DEF OneBody, Goto, Prepared, Prepare
<1>7. QED  BY <1>1, <1>2, <1>3, <1>4, <1>5, <1>6 DEF Inv

LEMMA CheckpointKeeps == ASSUME Inv, Checkpoint PROVE Inv'
<1>1. TypeOK'
  BY DEF Inv, TypeOK, Phases, Goto, Checkpoint
<1>2. CkptSound'
  BY DEF Inv, CkptSound, AllTrusted, TrustedIsOnDisk, Present, Checkpoint
<1>3. AllTrusted'
  BY DEF Inv, AllTrusted, Goto, Checkpoint
<1>4. TrustedIsOnDisk'
  BY DEF Inv, TrustedIsOnDisk, Present, Goto, Checkpoint
<1>5. OnDuty'
  BY DEF OnDuty, Present, Goto, Checkpoint
<1>6. OneBody'
  BY DEF OneBody, Goto, Checkpoint
<1>7. QED  BY <1>1, <1>2, <1>3, <1>4, <1>5, <1>6 DEF Inv

LEMMA PoolFailsKeeps == ASSUME Inv, PoolFails PROVE Inv'
<1>1. TypeOK'
  BY DEF Inv, TypeOK, disk, Each, Digests, Phases, Leave, PoolFails
<1>2. CkptSound'
  BY DEF Inv, CkptSound, disk, PoolFails
<1>3. AllTrusted'
  BY DEF AllTrusted, Strong, Leave, PoolFails
<1>4. TrustedIsOnDisk'
  BY DEF TrustedIsOnDisk, Leave, PoolFails
<1>5. OnDuty'
  BY DEF OnDuty, Leave, PoolFails
<1>6. OneBody'
  BY DEF OneBody, Leave, PoolFails
<1>7. QED  BY <1>1, <1>2, <1>3, <1>4, <1>5, <1>6 DEF Inv

LEMMA FallBackKeeps == ASSUME Inv, FallBack PROVE Inv'
<1>1. TypeOK'
  BY DEF Inv, TypeOK, disk, pool, Phases, Goto, FallBack
<1>2. CkptSound'
  BY DEF Inv, CkptSound, disk, FallBack
<1>3. AllTrusted'
  BY DEF Inv, AllTrusted, Goto, FallBack
<1>4. TrustedIsOnDisk'
  BY DEF TrustedIsOnDisk, Goto, FallBack
<1>5. OnDuty'
  BY DEF OnDuty, Goto, FallBack
<1>6. OneBody'
  BY DEF OneBody, Goto, FallBack
<1>7. QED  BY <1>1, <1>2, <1>3, <1>4, <1>5, <1>6 DEF Inv

LEMMA PublishKeeps == ASSUME Inv, Publish PROVE Inv'
<1>1. TypeOK'
  BY DEF Inv, TypeOK, pool, Each, Contents, Phases, Goto, Replaced, Publish
<1>2. CkptSound'
  BY DEF Inv, CkptSound, Replaced, Publish
<1>3. AllTrusted'
  BY DEF Inv, AllTrusted, Goto, Publish
<1>4. TrustedIsOnDisk'
  BY DEF TrustedIsOnDisk, Goto, Publish
<1>5. OnDuty'
  BY DEF OnDuty, Goto, Publish
<1>6. OneBody'
  BY DEF OneBody, Goto, Publish
<1>7. QED  BY <1>1, <1>2, <1>3, <1>4, <1>5, <1>6 DEF Inv

LEMMA UnlinkKeeps == ASSUME Inv, Unlink PROVE Inv'
<1>1. TypeOK'
  BY DEF Inv, TypeOK, Each, Digests, Phases, NoCkpt, Leave, Unlink
<1>2. CkptSound'
  BY DEF CkptSound, Each, NoCkpt, Strong, Unlink
<1>3. AllTrusted'
  BY DEF AllTrusted, Strong, Leave, Unlink
<1>4. TrustedIsOnDisk'
  BY DEF TrustedIsOnDisk, Leave, Unlink
<1>5. OnDuty'
  BY DEF OnDuty, Leave, Unlink
<1>6. OneBody'
  BY DEF OneBody, Leave, Unlink
<1>7. QED  BY <1>1, <1>2, <1>3, <1>4, <1>5, <1>6 DEF Inv

LEMMA SeqForgetKeeps == ASSUME Inv, SeqForget PROVE Inv'
<1>1. TypeOK'
  BY DEF Inv, TypeOK, pool, Each, Digests, Phases, NoCkpt, Goto, SeqForget
<1>2. CkptSound'
  BY DEF CkptSound, Each, NoCkpt, Strong, SeqForget
<1>3. AllTrusted'
  BY DEF Inv, AllTrusted, Goto, SeqForget
<1>4. TrustedIsOnDisk'
  BY DEF TrustedIsOnDisk, Goto, SeqForget
<1>5. OnDuty'
  BY DEF OnDuty, Goto, SeqForget
<1>6. OneBody'
  BY DEF OneBody, Goto, SeqForget
<1>7. QED  BY <1>1, <1>2, <1>3, <1>4, <1>5, <1>6 DEF Inv

LEMMA SeqAskKeeps == ASSUME Inv, SeqAsk PROVE Inv'
<1>1. TypeOK'
  BY DEF Inv, TypeOK, Each, Contents, Digests, Phases, Goto, SeqAsk
<1>2. CkptSound'
  BY DEF Inv, CkptSound, OneBody, Each, NoCkpt, SeqAsk
<1>3. AllTrusted'
  BY DEF Inv, AllTrusted, Goto, SeqAsk
<1>4. TrustedIsOnDisk'
  BY DEF TrustedIsOnDisk, Goto, SeqAsk
<1>5. OnDuty'
  BY DEF OnDuty, Goto, SeqAsk
<1>6. OneBody'
  BY DEF Inv, OneBody, TypeOK, Each, Goto, SeqAsk
<1>7. QED  BY <1>1, <1>2, <1>3, <1>4, <1>5, <1>6 DEF Inv

LEMMA SeqDoneKeeps == ASSUME Inv, SeqDone PROVE Inv'
<1>1. TypeOK'
  BY DEF Inv, TypeOK, OneBody, pool, Contents, Digests, Phases, Goto, SeqRead, SeqDone
<1>2. CkptSound'
  BY DEF Inv, CkptSound, SeqRead, SeqDone
<1>3. AllTrusted'
  BY DEF Inv, AllTrusted, Goto, SeqRead, SeqDone
<1>4. TrustedIsOnDisk'
  BY DEF TrustedIsOnDisk, Goto, SeqRead, SeqDone
<1>5. OnDuty'
  BY DEF OnDuty, Goto, SeqRead, SeqDone
<1>6. OneBody'
  BY DEF Inv, OneBody, Goto, SeqRead, SeqDone
<1>7. QED  BY <1>1, <1>2, <1>3, <1>4, <1>5, <1>6 DEF Inv

LEMMA SeqPublishKeeps == ASSUME Inv, SeqPublish PROVE Inv'
<1>1. TypeOK'
  BY DEF Inv, TypeOK, Each, Contents, Digests, Phases, Leave, Replaced, SeqPublish
<1>2. CkptSound'
  BY DEF Inv, CkptSound, Replaced, SeqPublish
<1>3. AllTrusted'
  BY DEF AllTrusted, Strong, Leave, SeqPublish
<1>4. TrustedIsOnDisk'
  BY DEF TrustedIsOnDisk, Leave, SeqPublish
<1>5. OnDuty'
  BY DEF OnDuty, Leave, SeqPublish
<1>6. OneBody'
  BY DEF OneBody, Leave, SeqPublish
<1>7. QED  BY <1>1, <1>2, <1>3, <1>4, <1>5, <1>6 DEF Inv

LEMMA SeqFailsKeeps == ASSUME Inv, SeqFails PROVE Inv'
<1>1. TypeOK'
  BY DEF Inv, TypeOK, disk, Each, Digests, Phases, Leave, SeqFails
<1>2. CkptSound'
  BY DEF Inv, CkptSound, disk, SeqFails
<1>3. AllTrusted'
  BY DEF AllTrusted, Strong, Leave, SeqFails
<1>4. TrustedIsOnDisk'
  BY DEF TrustedIsOnDisk, Leave, SeqFails
<1>5. OnDuty'
  BY DEF OnDuty, Leave, SeqFails
<1>6. OneBody'
  BY DEF OneBody, Leave, SeqFails
<1>7. QED  BY <1>1, <1>2, <1>3, <1>4, <1>5, <1>6 DEF Inv

LEMMA CancelKeeps == ASSUME Inv, Cancel PROVE Inv'
<1>1. TypeOK'
  BY DEF Inv, TypeOK, disk, pool, Cancel
<1>2. CkptSound'
  BY DEF Inv, CkptSound, disk, Cancel
<1>3. AllTrusted'
  BY DEF Inv, AllTrusted, disk, Cancel
<1>4. TrustedIsOnDisk'
  BY DEF Inv, TrustedIsOnDisk, disk, Present, Cancel
<1>5. OnDuty'
  BY DEF Inv, OnDuty, disk, pool, Cancel
<1>6. OneBody'
  BY DEF Inv, OneBody, disk, pool, Cancel
<1>7. QED  BY <1>1, <1>2, <1>3, <1>4, <1>5, <1>6 DEF Inv

LEMMA CrashKeeps == ASSUME Inv, Crash PROVE Inv'
<1>1. TypeOK'
  BY DEF Inv, TypeOK, Each, Contents, Digests, Phases, Leave, Crash
<1>2. CkptSound'
  BY DEF Inv, CkptSound, Crash
<1>3. AllTrusted'
  BY DEF AllTrusted, Strong, Leave, Crash
<1>4. TrustedIsOnDisk'
  BY DEF TrustedIsOnDisk, Leave, Crash
<1>5. OnDuty'
  BY DEF OnDuty, Leave, Crash
<1>6. OneBody'
  BY DEF OneBody, Leave, Crash
<1>7. QED  BY <1>1, <1>2, <1>3, <1>4, <1>5, <1>6 DEF Inv

LEMMA RemoteChangesKeeps == ASSUME Inv, RemoteChanges PROVE Inv'
<1>1. TypeOK'
  BY DEF Inv, TypeOK, disk, pool, RemoteChanges
<1>2. CkptSound'
  BY DEF Inv, CkptSound, disk, RemoteChanges
<1>3. AllTrusted'
  BY DEF Inv, AllTrusted, disk, RemoteChanges
<1>4. TrustedIsOnDisk'
  BY DEF Inv, TrustedIsOnDisk, disk, Present, RemoteChanges
<1>5. OnDuty'
  BY DEF Inv, OnDuty, disk, pool, RemoteChanges
<1>6. OneBody'
  BY DEF Inv, OneBody, disk, pool, RemoteChanges
<1>7. QED  BY <1>1, <1>2, <1>3, <1>4, <1>5, <1>6 DEF Inv

LEMMA ChunkAskKeeps == ASSUME Inv, NEW c \in Chunks, ChunkAsk(c) PROVE Inv'
<1>1. TypeOK'
  BY DEF Inv, TypeOK, Contents, Digests, InPool, Asks, Answered, ChunkAsk
<1>2. CkptSound'
  BY DEF Inv, CkptSound, OnDuty, InPool, Asks, Answered, ChunkAsk
<1>3. AllTrusted'
  BY DEF Inv, AllTrusted, InPool, Asks, ChunkAsk
<1>4. TrustedIsOnDisk'
  BY DEF Inv, TrustedIsOnDisk, OnDuty, Present, InPool, Asks, Answered, ChunkAsk
<1>5. OnDuty'
  BY DEF Inv, OnDuty, TypeOK, Digests, InPool, Asks, Tag, Answered, ChunkAsk
<1>6. OneBody'
  BY DEF OneBody, InPool, Asks, ChunkAsk
<1>7. QED  BY <1>1, <1>2, <1>3, <1>4, <1>5, <1>6 DEF Inv

LEMMA ChunkRefusedKeeps == ASSUME Inv, NEW c \in Chunks, ChunkRefused(c) PROVE Inv'
<1>1. TypeOK'
  BY DEF Inv, TypeOK, InPool, Asks, Fail, ChunkRefused
<1>2. CkptSound'
  BY DEF Inv, CkptSound, Fail, ChunkRefused
<1>3. AllTrusted'
  BY DEF Inv, AllTrusted, InPool, Asks, ChunkRefused
<1>4. TrustedIsOnDisk'
  BY DEF Inv, TrustedIsOnDisk, Present, InPool, Asks, Fail, ChunkRefused
<1>5. OnDuty'
  BY DEF Inv, OnDuty, InPool, Asks, Fail, ChunkRefused
<1>6. OneBody'
  BY DEF OneBody, InPool, Asks, ChunkRefused
<1>7. QED  BY <1>1, <1>2, <1>3, <1>4, <1>5, <1>6 DEF Inv

LEMMA ChunkErrorKeeps == ASSUME Inv, NEW c \in Chunks, ChunkError(c) PROVE Inv'
<1>1. TypeOK'
  BY DEF Inv, TypeOK, InPool, Asks, Fail, ChunkError
<1>2. CkptSound'
  BY DEF Inv, CkptSound, Fail, ChunkError
<1>3. AllTrusted'
  BY DEF Inv, AllTrusted, InPool, Asks, ChunkError
<1>4. TrustedIsOnDisk'
  BY DEF Inv, TrustedIsOnDisk, Present, InPool, Asks, Fail, ChunkError
<1>5. OnDuty'
  BY DEF Inv, OnDuty, TypeOK, InPool, Asks, Fail, ChunkError
<1>6. OneBody'
  BY DEF OneBody, InPool, Asks, ChunkError
<1>7. QED  BY <1>1, <1>2, <1>3, <1>4, <1>5, <1>6 DEF Inv

LEMMA ChunkGivesUpKeeps == ASSUME Inv, NEW c \in Chunks, ChunkGivesUp(c) PROVE Inv'
<1>1. TypeOK'
  BY DEF Inv, TypeOK, InPool, Fail, ChunkGivesUp
<1>2. CkptSound'
  BY DEF Inv, CkptSound, Fail, ChunkGivesUp
<1>3. AllTrusted'
  BY DEF Inv, AllTrusted, InPool, ChunkGivesUp
<1>4. TrustedIsOnDisk'
  BY DEF Inv, TrustedIsOnDisk, Present, InPool, Fail, ChunkGivesUp
<1>5. OnDuty'
  BY DEF Inv, OnDuty, TypeOK, InPool, Fail, ChunkGivesUp
<1>6. OneBody'
  BY DEF OneBody, InPool, ChunkGivesUp
<1>7. QED  BY <1>1, <1>2, <1>3, <1>4, <1>5, <1>6 DEF Inv

LEMMA ChunkSyncKeeps == ASSUME Inv, NEW c \in Chunks, ChunkSync(c) PROVE Inv'
<1>1. TypeOK'
  BY DEF Inv, TypeOK, OnDuty, Contents, InPool, Filled, ChunkSync
<1>2. CkptSound'
  BY DEF Inv, CkptSound, Filled, ChunkSync
<1>3. AllTrusted'
  BY DEF Inv, AllTrusted, InPool, Filled, ChunkSync
<1>4. TrustedIsOnDisk'
  BY DEF Inv, TrustedIsOnDisk, OnDuty, Present, InPool, Filled, ChunkSync
<1>5. OnDuty'
  BY DEF Inv, OnDuty, TypeOK, InPool, Filled, ChunkSync
<1>6. OneBody'
  BY DEF OneBody, InPool, Filled, ChunkSync
<1>7. QED  BY <1>1, <1>2, <1>3, <1>4, <1>5, <1>6 DEF Inv

LEMMA ChunkRecordKeeps == ASSUME Inv, NEW c \in Chunks, ChunkRecord(c) PROVE Inv'
<1>1. TypeOK'
  BY DEF Inv, TypeOK, Digests, InPool, ChunkRecord
<1>2. CkptSound'
  BY DEF Inv, CkptSound, OnDuty, InPool, ChunkRecord
<1>3. AllTrusted'
  BY DEF Inv, AllTrusted, InPool, ChunkRecord
<1>4. TrustedIsOnDisk'
  BY DEF Inv, TrustedIsOnDisk, OnDuty, Present, InPool, ChunkRecord
<1>5. OnDuty'
  BY DEF Inv, OnDuty, TypeOK, InPool, ChunkRecord
<1>6. OneBody'
  BY DEF OneBody, InPool, ChunkRecord
<1>7. QED  BY <1>1, <1>2, <1>3, <1>4, <1>5, <1>6 DEF Inv

-----------------------------------------------------------------------------
(* Spec keeps the invariant.                                               *)

LEMMA InitInv == ASSUME Init PROVE Inv
<1>1. TypeOK
  BY DEF Init, TypeOK, NoCkpt, Each, Contents, Digests, Phases
<1>2. CkptSound
  BY DEF Init, CkptSound, Strong, NoCkpt, Each
<1>3. AllTrusted /\ TrustedIsOnDisk /\ OnDuty /\ OneBody
  BY DEF Init, AllTrusted, TrustedIsOnDisk, OnDuty, OneBody, Strong
<1>4. QED  BY <1>1, <1>2, <1>3 DEF Inv

LEMMA StutterKeeps == ASSUME Inv, UNCHANGED vars PROVE Inv'
  BY DEF vars, disk, pool, Inv, TypeOK, CkptSound, AllTrusted, TrustedIsOnDisk, OnDuty, OneBody,
         Present, NoCkpt

LEMMA StepKeeps == ASSUME Inv, [Next]_vars PROVE Inv'
<1>1. CASE \E c \in Chunks : Chunk(c)
  <2>1. PICK c \in Chunks : Chunk(c)  BY <1>1
  <2>2. QED
    BY <2>1, ChunkAskKeeps, ChunkRefusedKeeps, ChunkErrorKeeps, ChunkGivesUpKeeps, ChunkSyncKeeps,
       ChunkRecordKeeps DEF Chunk
<1>2. CASE Probe \/ Prepare \/ Checkpoint
  BY <1>2, ProbeKeeps, PrepareKeeps, CheckpointKeeps
<1>3. CASE PoolFails \/ FallBack \/ Publish \/ Unlink
  BY <1>3, PoolFailsKeeps, FallBackKeeps, PublishKeeps, UnlinkKeeps
<1>4. CASE SeqForget \/ SeqAsk \/ SeqDone \/ SeqPublish \/ SeqFails
  BY <1>4, SeqForgetKeeps, SeqAskKeeps, SeqDoneKeeps, SeqPublishKeeps, SeqFailsKeeps
<1>5. CASE Cancel \/ Crash \/ RemoteChanges
  BY <1>5, CancelKeeps, CrashKeeps, RemoteChangesKeeps
<1>6. CASE UNCHANGED vars
  BY <1>6, StutterKeeps
<1>7. QED  BY <1>1, <1>2, <1>3, <1>4, <1>5, <1>6 DEF Next, Attempt

LEMMA Invariance == Spec => []Inv
<1>1. Init => Inv  BY InitInv
<1>2. Inv /\ [Next]_vars => Inv'  BY StepKeeps
<1>3. QED  BY <1>1, <1>2, PTL DEF Spec

-----------------------------------------------------------------------------
(* The theorems.                                                           *)

(* Every variable keeps its type, for any set of chunks and versions.      *)
THEOREM TypeCorrect == Spec => []TypeOK
<1>1. Inv => TypeOK  BY DEF Inv
<1>2. QED  BY <1>1, Invariance, PTL

(* What an attempt trusts is data on disk of the version it probed, after  *)
(* any history of failures and crashes (chunk, checkpoint, the resume of   *)
(* download).                                                              *)
THEOREM TrustIsSound == Spec => []TrustedIsOnDisk
<1>1. Inv => TrustedIsOnDisk  BY DEF Inv
<1>2. QED  BY <1>1, Invariance, PTL

(* Only Publish and SeqPublish write the final name, both when all of the  *)
(* file is on disk.                                                        *)
LEMMA DurableStep == ASSUME Inv, [Next]_vars PROVE dest' # dest => dirty = {}
<1>1. CASE Publish
  BY <1>1 DEF Publish, PoolIsOver, Present, Inv, TypeOK, TrustedIsOnDisk
<1>2. CASE SeqPublish
  BY <1>2 DEF SeqPublish, Inv, OneBody
<1>3. CASE \E c \in Chunks : Chunk(c)
  BY <1>3 DEF Chunk, ChunkAsk, ChunkRefused, ChunkError, ChunkGivesUp, ChunkSync, ChunkRecord,
              Asks, Filled, InPool
<1>4. CASE ~Publish /\ ~SeqPublish /\ ~\E c \in Chunks : Chunk(c)
  BY <1>4 DEF Next, Attempt, vars, disk, Probe, Prepare, Prepared, Checkpoint, PoolFails, FallBack,
              Unlink, SeqForget, SeqAsk, SeqDone, SeqRead, SeqFails, Cancel, Crash, RemoteChanges
<1>5. QED  BY <1>1, <1>2, <1>3, <1>4

(* The final name is only written when all of the file has been fsynced    *)
(* (the two calls of part.replace).                                        *)
THEOREM DurablePublication == Spec => PublishedIsDurable
<1>1. Inv /\ [Next]_vars => [dest' # dest => dirty = {}]_vars  BY DurableStep
<1>2. QED  BY <1>1, Invariance, PTL DEF Spec, PublishedIsDurable

-----------------------------------------------------------------------------
(* Work that has been checkpointed.                                        *)

Threatened(c) ==
  /\ Kept(c) /\ remote' = remote /\ phase' # "published"
  /\ phase \notin {"fallback", "published"} /\ (phase = "idle" \/ tag = Tag(remote))

(* The version served is a strong one, for its tag is in the checkpoint.   *)
LEMMA KeptIsStrong ==
  ASSUME Inv, NEW c \in Chunks, Kept(c)
  PROVE  remote \notin Weak /\ remote # None /\ Tag(remote) = remote /\ ckpt.done[c] # None
  BY ContentsAssumption DEF Kept, Inv, TypeOK, CkptSound, Strong, Tag

(* A chunk that is kept is of no concern to the pool's threads.            *)
LEMMA PoolKeepsWork ==
  ASSUME Inv, NEW c \in Chunks, Threatened(c), NEW d \in Chunks, Chunk(d)
  PROVE  Kept(c)'
<1>1. ckpt.done = done /\ ckpt.tag = tag /\ done[c] # None /\ at[c] = "over" /\ phase = "pool"
  BY KeptIsStrong DEF Threatened, Inv, TypeOK, OnDuty, Chunk, ChunkAsk, ChunkRefused, ChunkError,
     ChunkGivesUp, ChunkSync, ChunkRecord, Asks, Filled, InPool
<1>2. CASE at[d] = "over"
  BY <1>2 DEF Chunk, ChunkAsk, ChunkRefused, ChunkError, ChunkGivesUp, ChunkSync, ChunkRecord,
     Asks, Filled, Active
<1>3. CASE d # c
  <2>1. part'[c] = part[c] /\ remote' = remote
    BY <1>3 DEF Threatened, Inv, TypeOK, Chunk, ChunkAsk, ChunkRefused, ChunkError, ChunkGivesUp,
       ChunkSync, ChunkRecord, Asks, Answered, Filled, Fail, InPool
  <2>2. ckpt'.tag = ckpt.tag /\ ckpt'.done[c] = ckpt.done[c]
    <3>1. CASE ChunkRecord(d)
      BY <1>1, <1>3, <3>1 DEF ChunkRecord, Inv, TypeOK, Digests
    <3>2. CASE ~ChunkRecord(d)
      BY <3>2 DEF Chunk, ChunkAsk, ChunkRefused, ChunkError, ChunkGivesUp, ChunkSync, Asks,
         Answered, Filled, Fail
    <3>3. QED  BY <3>1, <3>2
  <2>3. QED  BY <2>1, <2>2 DEF Threatened, Kept
<1>4. QED  BY <1>1, <1>2, <1>3

LEMMA WorkStep == ASSUME Inv, [Next]_vars, NEW c \in Chunks, Threatened(c) PROVE Kept(c)'
<1>1. CASE \E d \in Chunks : Chunk(d)
  BY <1>1, PoolKeepsWork
<1>2. CASE Prepare
  BY <1>2, KeptIsStrong DEF Threatened, Kept, Prepare, Prepared, Verified, Goto
<1>3. CASE Checkpoint
  <2>1. ckpt.tag = tag /\ tag # None /\ done[c] = ckpt.done[c]
    BY <1>3, KeptIsStrong DEF Threatened, Kept, Checkpoint, Inv, AllTrusted
  <2>2. QED  BY <1>3, <2>1 DEF Threatened, Kept, Checkpoint, Goto
<1>4. CASE SeqAsk \/ SeqDone \/ SeqPublish
  BY <1>4, KeptIsStrong DEF Threatened, Kept, SeqAsk, SeqDone, SeqRead, SeqPublish, Inv, OneBody,
     NoCkpt, Each
<1>5. CASE Crash
  BY <1>5, KeptIsStrong DEF Threatened, Kept, Crash, Inv, TypeOK, CkptSound
<1>6. CASE Publish \/ Unlink \/ SeqForget
  BY <1>6 DEF Threatened, Publish, Unlink, SeqForget, Goto
<1>7. CASE Probe \/ PoolFails \/ FallBack \/ SeqFails \/ Cancel \/ RemoteChanges \/ UNCHANGED vars
  BY <1>7 DEF Threatened, Kept, vars, disk, Probe, PoolFails, FallBack, SeqFails, Cancel, RemoteChanges
<1>8. QED  BY <1>1, <1>2, <1>3, <1>4, <1>5, <1>6, <1>7 DEF Next, Attempt

(* A checkpointed chunk of the version being served survives failures,     *)
(* cancellation and crashes; only a publication or the fallback ends it.   *)
THEOREM WorkSurvives == Spec => WorkIsKept
<1>1. Inv /\ [Next]_vars => [\A c \in Chunks : Threatened(c) => Kept(c)']_vars  BY WorkStep
<1>2. QED  BY <1>1, Invariance, PTL DEF Spec, WorkIsKept, Threatened

-----------------------------------------------------------------------------
(***************************************************************************)
(* Transfer implements AtomicDownload: what appears at the final name is   *)
(* always one whole version that was on offer during the attempt.  Inv     *)
(* knows that the chunks are of the version of the tag when there is one.  *)
(* OneVersion adds that this version was on offer, and what takes the      *)
(* tag's place when there is none: the remote file does not change.        *)
(***************************************************************************)

(* The history of an attempt, and what its identity says of it.            *)
OnOffer ==
  /\ phase = "idle" => offered = {}
  /\ phase # "idle" =>
       /\ remote \in offered
       /\ tag # None => tag \in offered
       /\ tag = None => remote \in Weak

(* Without a tag everything fetched is of the version that stays.          *)
Untagged ==
  phase \in {"sized", "pool"} /\ tag = None => \A c \in Chunks :
    /\ done[c] # None => done[c] = remote
    /\ phase = "pool" /\ at[c] \in {"writing", "synced"} => got[c] = remote

OneStream ==
  /\ phase = "body" => \E v \in offered : got = Each(v)
  /\ phase = "whole" => \E v \in offered : part = Each(v)

OneVersion == OnOffer /\ Untagged /\ OneStream

LEMMA NoneIsNoVersion == None \notin Versions /\ Weak \subseteq Versions
  BY ContentsAssumption

LEMMA TagIsVersion ==
  ASSUME TypeOK
  PROVE  /\ Tag(remote) # None => Tag(remote) = remote
         /\ Tag(remote) = None => remote \in Weak
  BY NoneIsNoVersion DEF TypeOK, Tag

LEMMA InitOne == Init => OneVersion
  BY DEF Init, OneVersion, OnOffer, Untagged, OneStream

LEMMA LeaveOne == ASSUME Leave PROVE OneVersion'
  BY DEF Leave, OneVersion, OnOffer, Untagged, OneStream

LEMMA ChunkOne ==
  ASSUME Inv, OneVersion, NEW c \in Chunks, Chunk(c) PROVE OneVersion'
<1>1. phase = "pool" /\ UNCHANGED <<remote, offered, phase, tag>>
  BY DEF Chunk, ChunkAsk, ChunkRefused, ChunkError, ChunkGivesUp, ChunkSync, ChunkRecord, Asks,
         Filled, InPool
<1>2. OnOffer' /\ OneStream'
  BY <1>1 DEF OneVersion, OnOffer, OneStream
<1>3. Untagged'
  BY <1>1 DEF OneVersion, Untagged, Inv, TypeOK, Digests, Chunk, ChunkAsk, ChunkRefused,
              ChunkError, ChunkGivesUp, ChunkSync, ChunkRecord, Asks, Answered, Filled, Fail, InPool
<1>. QED BY <1>2, <1>3 DEF OneVersion

LEMMA StepOne == ASSUME Inv, OneVersion, [Next]_vars PROVE OneVersion'
<1> USE NoneIsNoVersion DEF OneVersion, OnOffer, Untagged, OneStream
<1>1. CASE Probe
  BY <1>1, TagIsVersion DEF Probe, Inv
<1>2. CASE Prepare
  <2>1. phase = "probed" /\ phase' = "sized" /\ UNCHANGED <<remote, offered, tag>>
    BY <1>2 DEF Prepare, Prepared, Goto
  <2>2. tag = None => \A c \in Chunks : done'[c] = None
    BY <1>2 DEF Prepare, Prepared
  <2>. QED BY <2>1, <2>2
<1>3. CASE Checkpoint
  <2>1. phase = "sized" /\ phase' = "pool" /\ UNCHANGED <<remote, offered, tag, done>>
    BY <1>3 DEF Checkpoint, Goto
  <2>2. \A c \in Chunks : at'[c] \notin {"writing", "synced"}
    BY <1>3 DEF Checkpoint
  <2>. QED BY <2>1, <2>2
<1>4. CASE \E c \in Chunks : Chunk(c)
  BY <1>4, ChunkOne
<1>5. CASE PoolFails \/ Unlink \/ SeqPublish \/ SeqFails \/ Crash
  BY <1>5, LeaveOne DEF PoolFails, Unlink, SeqPublish, SeqFails, Crash
<1>6. CASE FallBack \/ Publish \/ SeqForget
  BY <1>6 DEF FallBack, Publish, PoolIsOver, SeqForget, Goto
<1>10. CASE Cancel \/ UNCHANGED vars
  <2>1. UNCHANGED <<remote, offered, disk, phase, tag, done, pool>>
    BY <1>10 DEF Cancel, vars
  <2>. QED BY <2>1 DEF disk, pool
<1>7. CASE SeqAsk
  BY <1>7 DEF SeqAsk, Goto
<1>8. CASE SeqDone
  BY <1>8 DEF SeqDone, SeqRead, Goto, pool
<1>9. CASE RemoteChanges
  BY <1>9 DEF RemoteChanges, disk, pool
<1>. QED
  BY <1>1, <1>2, <1>3, <1>4, <1>5, <1>6, <1>7, <1>8, <1>9, <1>10 DEF Next, Attempt

-----------------------------------------------------------------------------
(* The steps of Transfer are steps of AtomicDownload.                      *)

LEMMA WholeWill == ASSUME NEW v \in Versions, dest' = Each(v) PROVE WholeVersion' = v
<1>1. dest' # None
  BY NoFileAssumption
<1>2. \A w \in Versions : dest' = Each(w) => w = v
  BY PoolAssumption DEF Each
<1>. QED BY <1>1, <1>2 DEF WholeVersion, Each

LEMMA WholeStays == ASSUME dest' = dest PROVE WholeVersion' = WholeVersion
  BY DEF WholeVersion, Each

(* All chunks are trusted: they are of one version, which was on offer.    *)
LEMMA PublishIsWhole ==
  ASSUME Inv, OneVersion, Publish PROVE \E v \in offered : part = Each(v)
<1>1. phase = "pool" /\ \A c \in Chunks : done[c] # None /\ part[c] = done[c]
  BY DEF Publish, PoolIsOver, Present, Inv, TrustedIsOnDisk
<1>2. part = [c \in Chunks |-> part[c]]
  BY DEF Inv, TypeOK
<1>3. CASE tag # None
  <2>1. part = Each(tag)
    BY <1>1, <1>2, <1>3 DEF Inv, TrustedIsOnDisk, Present, Each
  <2>. QED BY <1>1, <1>3, <2>1 DEF OneVersion, OnOffer
<1>4. CASE tag = None
  <2>1. part = Each(remote)
    BY <1>1, <1>2, <1>4 DEF OneVersion, Untagged, Each
  <2>. QED BY <1>1, <2>1 DEF OneVersion, OnOffer
<1>. QED BY <1>3, <1>4

LEMMA StepPromise ==
  ASSUME Inv, OneVersion, [Next]_vars PROVE [Promise!Next]_Promise!vars
<1> USE DEF Promise!Next, Promise!vars, Promise!Change, Promise!Begin, Promise!Publish, Promise!End
<1>1. offered \subseteq Versions
  BY DEF Inv, TypeOK
<1>2. CASE Probe
  <2>1. WholeVersion' = WholeVersion
    BY <1>2, WholeStays DEF Probe, disk
  <2>. QED BY <1>2, <2>1 DEF Probe, OneVersion, OnOffer
<1>3. CASE PoolFails \/ Unlink \/ SeqFails \/ Crash
  <2>1. WholeVersion' = WholeVersion
    BY <1>3, WholeStays DEF PoolFails, Unlink, SeqFails, Crash, disk
  <2>. QED BY <1>3, <2>1 DEF PoolFails, Unlink, SeqFails, Crash, Leave
<1>4. CASE Publish
  <2>1. PICK v \in offered : part = Each(v)
    BY <1>4, PublishIsWhole
  <2>2. WholeVersion' = v
    BY <1>1, <1>4, <2>1, WholeWill DEF Publish, Replaced
  <2>. QED BY <1>4, <2>2 DEF Publish, Goto
<1>5. CASE SeqPublish
  <2>1. PICK v \in offered : part = Each(v)
    BY <1>5 DEF SeqPublish, OneVersion, OneStream
  <2>2. WholeVersion' = v
    BY <1>1, <1>5, <2>1, WholeWill DEF SeqPublish, Replaced
  <2>. QED BY <1>5, <2>2 DEF SeqPublish, Leave
<1>6. CASE RemoteChanges
  <2>1. WholeVersion' = WholeVersion
    BY <1>6, WholeStays DEF RemoteChanges, disk
  <2>2. phase = "idle" <=> offered = {}
    BY DEF OneVersion, OnOffer
  <2>. QED BY <1>6, <2>1, <2>2 DEF RemoteChanges
<1>7. CASE \/ Prepare \/ Checkpoint \/ (\E c \in Chunks : Chunk(c)) \/ FallBack \/ SeqForget
           \/ SeqAsk \/ SeqDone \/ Cancel \/ UNCHANGED vars
  <2>1. UNCHANGED <<remote, offered, dest>>
    BY <1>7 DEF Prepare, Prepared, Checkpoint, Chunk, ChunkAsk, ChunkRefused, ChunkError,
                ChunkGivesUp, ChunkSync, ChunkRecord, Asks, Filled, InPool, FallBack, SeqForget,
                SeqAsk, SeqDone, SeqRead, Cancel, Goto, disk, vars
  <2>. QED BY <2>1, WholeStays
<1>. QED
  BY <1>2, <1>3, <1>4, <1>5, <1>6, <1>7 DEF Next, Attempt

LEMMA InitPromise == Init => Promise!Init
  BY DEF Init, Promise!Init, WholeVersion

(* Whatever fails, is cancelled, dies and goes on, and however the remote  *)
(* file changes, the final name only ever gets one whole version that was  *)
(* on offer during the attempt that put it there.                          *)
THEOREM DownloadIsAtomic == Spec => IsAtomic
<1>1. Init => Inv
  BY InitInv
<1>2. Inv /\ OneVersion /\ [Next]_vars => Inv' /\ OneVersion'
  BY StepKeeps, StepOne
<1>3. Inv /\ OneVersion /\ [Next]_vars => [Promise!Next]_Promise!vars
  BY StepPromise
<1>. QED
  BY <1>1, <1>2, <1>3, InitOne, InitPromise, PTL DEF Spec, IsAtomic, Promise!Spec
===============================================================================
