---------------------------- MODULE AtomicDownload ----------------------------
(***************************************************************************)
(* What a download promises (src/localcode/transfer.py): the file at the   *)
(* final name is always one whole version of the remote file, one that the *)
(* server offered during the attempt that put it there.                    *)
(***************************************************************************)
CONSTANTS Versions, None

VARIABLES
  remote,   \* the version the server offers
  offered,  \* the versions it has offered since the attempt began
  dest      \* the file at the final name

vars == <<remote, offered, dest>>

Init == remote \in Versions /\ offered = {} /\ dest = None

Change ==
  /\ remote' \in Versions /\ offered' = (IF offered = {} THEN {} ELSE offered \cup {remote'})
  /\ UNCHANGED dest

Begin == offered = {} /\ offered' = {remote} /\ UNCHANGED <<remote, dest>>

Publish == dest' \in offered /\ offered' \in {offered, {}} /\ UNCHANGED remote

(* The attempt fails, is cancelled, dies, or has published.                *)
End == offered' = {} /\ UNCHANGED <<remote, dest>>

Next == Change \/ Begin \/ Publish \/ End

Spec == Init /\ [][Next]_vars
=============================================================================
