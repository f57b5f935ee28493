----------------------------- MODULE MCBroadcast -----------------------------
(***************************************************************************)
(* Instances of Broadcast for TLC.  Workers, requests and recipients are   *)
(* interchangeable, so the runs of safety properties use their symmetry.   *)
(***************************************************************************)
EXTENDS Broadcast, TLC

Symmetry == Permutations(Workers) \cup Permutations(Callers) \cup Permutations(Recipients)

(* Requests in the order the comments and the API's documentation give     *)
(* them: only a paused broadcast is resumed; one process, never stopped.   *)
PoliteNext ==
  \/ \E w \in Workers : WorkerStep(w)
  \/ \E c \in Callers :
       \/ CallerStep(c) \/ CreateBroadcast(c) \/ PauseLookup(c) \/ CancelJob(c)
       \/ status = "paused" /\ ResumeStatus(c)

PoliteSpec == Init /\ [][PoliteNext]_vars
=============================================================================
