--------------------------- MODULE BroadcastProofs ---------------------------
(***************************************************************************)
(* Proofs about Broadcast, for any sets of workers, requests and           *)
(* recipients and any bounds.                                              *)
(***************************************************************************)
EXTENDS Broadcast, TLAPS, FiniteSetTheorems

-----------------------------------------------------------------------------
(* Type correctness.                                                       *)

LEMMA InitTypeOK == Init => TypeOK
<1> SUFFICES ASSUME Init PROVE TypeOK
  OBVIOUS
<1> USE DEF Init, NoTally, Idle
<1>1. call \in [Callers -> Request]
  BY DEF Request, Stages
<1>2. tally \in [Workers -> [sent : Nat, failed : Nat]]
  OBVIOUS
<1>3. sentBy \in [Workers -> [Recipients -> Nat]]
  OBVIOUS
<1>4. lost \in [Workers -> [Recipients -> Nat]]
  OBVIOUS
<1>5. pc \in [Workers -> Running \cup {"unborn", "done", "dead"}]
  OBVIOUS
<1> QED
  BY <1>1, <1>2, <1>3, <1>4, <1>5 DEF TypeOK

(* What a statement or a label does to the variables it writes.            *)
LEMMA FaultsType == ASSUME TypeOK, NoFault \/ Fault PROVE faults' \in Nat
BY DEF TypeOK, NoFault, Fault

LEMMA ChunkType == \A chunk \in GetPendingRecipients : chunk \in SUBSET Recipients
BY DEF GetPendingRecipients, Pending

LEMMA CountedType ==
  ASSUME NEW t \in [sent : Nat, failed : Nat], NEW outcome
  PROVE  Counted(t, outcome) \in [sent : Nat, failed : Nat]
BY DEF Counted

LEMMA AddOneType ==
  ASSUME NEW S, NEW f \in [S -> Nat], NEW x
  PROVE  [f EXCEPT ![x] = @ + 1] \in [S -> Nat]
<1>1. CASE x \in S
  BY <1>1
<1>2. CASE x \notin S
  BY <1>2
<1> QED
  BY <1>1, <1>2

LEMMA UpdateType ==
  ASSUME NEW S, NEW T, NEW f \in [S -> T], NEW x, NEW y \in T
  PROVE  [f EXCEPT ![x] = y] \in [S -> T]
OBVIOUS

LEMMA OneMoreType ==
  ASSUME NEW f \in [Workers -> [Recipients -> Nat]], NEW w \in Workers, NEW r
  PROVE  OneMore(f, w, r) \in [Workers -> [Recipients -> Nat]]
<1>1. [f[w] EXCEPT ![r] = @ + 1] \in [Recipients -> Nat]
  BY AddOneType
<1>2. [f EXCEPT ![w] = [f[w] EXCEPT ![r] = @ + 1]] \in [Workers -> [Recipients -> Nat]]
  BY <1>1, UpdateType
<1> QED
  BY <1>2 DEF OneMore

LEMMA WorkerTypeOK ==
  ASSUME TypeOK, NEW w \in Workers, WorkerStep(w)
  PROVE  TypeOK'
<1> USE DEF TypeOK, Goto, db, ctl, wire, DbOk, DbErr, NoFault
<1>1. CASE MarkStarted(w)
  BY <1>1, FaultsType DEF MarkStarted, Running
<1>2. CASE FetchChunk(w)
  <2>1. PICK chunk \in SUBSET Recipients :
          /\ todo' = todo \/ todo' = [todo EXCEPT ![w] = chunk]
          /\ \E label \in {"exit", "final", "each"} : pc' = [pc EXCEPT ![w] = label]
    BY <1>2, ChunkType DEF FetchChunk, FetchOk
  <2>2. todo' \in [Workers -> SUBSET Recipients]
    <3>1. todo \in [Workers -> SUBSET Recipients]
      OBVIOUS
    <3>2. [todo EXCEPT ![w] = chunk] \in [Workers -> SUBSET Recipients]
      BY <3>1, UpdateType
    <3> QED
      BY <2>1, <3>1, <3>2
  <2>3. pc' \in [Workers -> Running \cup {"unborn", "done", "dead"}]
    BY <2>1 DEF Running
  <2>4. UNCHANGED <<status, row, progress, activeJobs, cancelled, call, cur, tally,
                    groupPaused, sentBy, lost, late, crashes>>
    BY <1>2 DEF FetchChunk
  <2>5. faults' \in Nat
    BY <1>2, FaultsType DEF FetchChunk, FetchOk
  <2> QED
    BY <2>2, <2>3, <2>4, <2>5
<1>3. CASE NextRecipient(w)
  <2>1. todo' \in [Workers -> SUBSET Recipients]
    BY <1>3 DEF NextRecipient
  <2>2. cur' \in [Workers -> Recipients \cup {NoOne}]
    BY <1>3 DEF NextRecipient
  <2>3. pc' \in [Workers -> Running \cup {"unborn", "done", "dead"}]
    BY <1>3 DEF NextRecipient, AfterChunk, Running
  <2> QED
    BY <1>3, <2>1, <2>2, <2>3 DEF NextRecipient
<1>4. CASE SelectInstance(w)
  <2>1. pc' \in [Workers -> Running \cup {"unborn", "done", "dead"}]
    BY <1>4 DEF SelectInstance, Running
  <2> QED
    BY <1>4, <2>1, FaultsType DEF SelectInstance
<1>5. CASE FailNoInstance(w)
  <2>1. row' \in [Recipients -> {"absent", "pending", "sent", "failed"}]
    BY <1>5 DEF FailNoInstance
  <2>2. tally' \in [Workers -> [sent : Nat, failed : Nat]]
    BY <1>5, CountedType DEF FailNoInstance
  <2>3. cur' \in [Workers -> Recipients \cup {NoOne}]
    BY <1>5 DEF FailNoInstance
  <2>4. pc' \in [Workers -> Running \cup {"unborn", "done", "dead"}]
    BY <1>5 DEF FailNoInstance, Running
  <2> QED
    BY <1>5, <2>1, <2>2, <2>3, <2>4, FaultsType DEF FailNoInstance
<1>6. CASE SendTextMessage(w)
  <2>1. sentBy' \in [Workers -> [Recipients -> Nat]]
    <3>1. sentBy \in [Workers -> [Recipients -> Nat]] /\ cur[w] \in Recipients \cup {NoOne}
      OBVIOUS
    <3>2. OneMore(sentBy, w, cur[w]) \in [Workers -> [Recipients -> Nat]]
      BY <3>1, OneMoreType
    <3> QED
      BY <1>6, <3>1, <3>2 DEF SendTextMessage
  <2>2. late' \in [Workers -> Nat]
    <3>1. late' = late \/ late' = [late EXCEPT ![w] = @ + 1]
      BY <1>6 DEF SendTextMessage
    <3>2. [late EXCEPT ![w] = @ + 1] \in [Workers -> Nat]
      BY AddOneType
    <3> QED
      BY <3>1, <3>2
  <2>3. pc' \in [Workers -> Running \cup {"unborn", "done", "dead"}]
    BY <1>6 DEF SendTextMessage, AfterSendError, Running
  <2> QED
    BY <1>6, <2>1, <2>2, <2>3 DEF SendTextMessage
<1>7. CASE RecordOutcome(w)
  <2>1. row' \in [Recipients -> {"absent", "pending", "sent", "failed"}]
    BY <1>7 DEF RecordOutcome
  <2>2. lost' \in [Workers -> [Recipients -> Nat]]
    <3>1. lost \in [Workers -> [Recipients -> Nat]] /\ cur[w] \in Recipients \cup {NoOne}
      OBVIOUS
    <3>2. OneMore(lost, w, cur[w]) \in [Workers -> [Recipients -> Nat]]
      BY <3>1, OneMoreType
    <3> QED
      BY <1>7, <3>1, <3>2 DEF RecordOutcome
  <2>3. tally' \in [Workers -> [sent : Nat, failed : Nat]]
    BY <1>7, CountedType DEF RecordOutcome
  <2>4. cur' \in [Workers -> Recipients \cup {NoOne}]
    BY <1>7 DEF RecordOutcome
  <2>5. pc' \in [Workers -> Running \cup {"unborn", "done", "dead"}]
    BY <1>7 DEF RecordOutcome, Running
  <2> QED
    BY <1>7, <2>1, <2>2, <2>3, <2>4, <2>5, FaultsType DEF RecordOutcome
<1>8. CASE UpdateProgress(w)
  BY <1>8, FaultsType DEF UpdateProgress, SaveProgress, Running
<1>9. CASE FinalProgress(w)
  BY <1>9, FaultsType DEF FinalProgress, SaveProgress, Running
<1>10. CASE MarkCompleted(w)
  BY <1>10, FaultsType DEF MarkCompleted, Running
<1>11. CASE Exit(w)
  <2>1. tally' \in [Workers -> [sent : Nat, failed : Nat]]
    BY <1>11 DEF Exit, NoTally
  <2>2. todo' \in [Workers -> SUBSET Recipients]
    BY <1>11 DEF Exit
  <2> QED
    BY <1>11, <2>1, <2>2 DEF Exit
<1> QED
  BY <1>1, <1>2, <1>3, <1>4, <1>5, <1>6, <1>7, <1>8, <1>9, <1>10, <1>11
  DEF WorkerStep

LEMMA CallType ==
  ASSUME TypeOK, NEW c \in Callers,
         \/ Return(c)
         \/ \E label \in Stages : call[c].at \in Stages /\ Then(c, label)
         \/ \E req \in Request : call' = [call EXCEPT ![c] = req]
  PROVE  call' \in [Callers -> Request]
<1>1. call \in [Callers -> Request] /\ call[c] \in Request
  BY DEF TypeOK
<1>2. CASE Return(c)
  BY <1>1, <1>2 DEF Return, Idle, Request, Stages
<1>3. ASSUME NEW label \in Stages, call[c].at \in Stages, Then(c, label)
      PROVE  call' \in [Callers -> Request]
  <2>1. [call[c] EXCEPT !.at = label] \in Request
    BY <1>1, <1>3 DEF Request, Stages
  <2>2. call' = [call EXCEPT ![c] = [call[c] EXCEPT !.at = label]]
    BY <1>3 DEF Then
  <2> QED
    BY <1>1, <2>1, <2>2, UpdateType
<1>4. ASSUME NEW req \in Request, call' = [call EXCEPT ![c] = req]
      PROVE  call' \in [Callers -> Request]
  BY <1>1, <1>4
<1> QED
  BY <1>2, <1>3, <1>4

LEMMA CallerTypeOK ==
  ASSUME TypeOK, NEW c \in Callers, CallerStep(c) \/ NewCall(c)
  PROVE  TypeOK'
<1> USE DEF TypeOK, At, Goto, db, ctl, local, wire
<1>1. CASE CreateBroadcast(c)
  BY <1>1, CallType DEF CreateBroadcast, Stages
<1>2. CASE CreateRecipients(c)
  <2>1. row' \in [Recipients -> {"absent", "pending", "sent", "failed"}]
    BY <1>2 DEF CreateRecipients
  <2> QED
    BY <1>2, <2>1, CallType, FaultsType DEF CreateRecipients, Stages
<1>3. CASE StartBroadcast(c)
  <2>1. pc' \in [Workers -> Running \cup {"unborn", "done", "dead"}]
    BY <1>3 DEF StartBroadcast, Running
  <2> QED
    BY <1>3, <2>1, CallType DEF StartBroadcast
<1>4. CASE PauseLookup(c)
  <2>1. [at |-> IF activeJobs = NoOne THEN "pauseStatus" ELSE "pauseCancel",
         job |-> activeJobs] \in Request
    BY BroadcastAssumption DEF Request, Stages
  <2> QED
    BY <1>4, <2>1, CallType DEF PauseLookup
<1>5. CASE PauseCancel(c)
  <2>1. call[c].job \in Workers
    BY <1>5 DEF PauseCancel, Request, Stages
  <2>2. [at |-> "pauseDelete", job |-> NoOne] \in Request
    BY DEF Request, Stages
  <2> QED
    BY <1>5, <2>1, <2>2, CallType DEF PauseCancel
<1>6. CASE PauseDelete(c)
  BY <1>6, CallType DEF PauseDelete, Stages
<1>7. CASE PauseStatus(c)
  BY <1>7, CallType, FaultsType DEF PauseStatus
<1>8. CASE CancelJob(c)
  BY <1>8, CallType DEF CancelJob, RegisteredJob, Stages
<1>9. CASE CancelStatus(c)
  BY <1>9, CallType, FaultsType DEF CancelStatus
<1>10. CASE ResumeStatus(c)
  BY <1>10, CallType, FaultsType DEF ResumeStatus, Stages
<1> QED
  BY <1>1, <1>2, <1>3, <1>4, <1>5, <1>6, <1>7, <1>8, <1>9, <1>10
  DEF CallerStep, NewCall

LEMMA ProcessDiesTypeOK == ASSUME TypeOK, ProcessDies, crashes' \in Nat PROVE TypeOK'
<1> USE DEF ProcessDies, TypeOK, db, wire
<1>1. call' \in [Callers -> Request]
  BY DEF Idle, Request, Stages
<1>2. pc' \in [Workers -> Running \cup {"unborn", "done", "dead"}]
  BY DEF Live
<1>3. tally' \in [Workers -> [sent : Nat, failed : Nat]]
  BY DEF NoTally
<1> QED
  BY <1>1, <1>2, <1>3

LEMMA TypeStep == TypeOK /\ [Next]_vars => TypeOK'
<1> SUFFICES ASSUME TypeOK, [Next]_vars PROVE TypeOK'
  OBVIOUS
<1>1. ASSUME NEW w \in Workers, WorkerStep(w) PROVE TypeOK'
  BY <1>1, WorkerTypeOK
<1>2. ASSUME NEW c \in Callers, CallerStep(c) \/ NewCall(c) PROVE TypeOK'
  BY <1>2, CallerTypeOK
<1>3. ASSUME NEW c \in Callers, MapRace(c) PROVE TypeOK'
  BY <1>3, ProcessDiesTypeOK DEF MapRace, TypeOK
<1>4. CASE Crash
  BY <1>4, ProcessDiesTypeOK DEF Crash, TypeOK
<1>5. ASSUME NEW b \in BOOLEAN, SetGroupPaused(b) PROVE TypeOK'
  BY <1>5 DEF SetGroupPaused, TypeOK, db, ctl, local, wire
<1>6. CASE UNCHANGED vars
  BY <1>6 DEF vars, TypeOK, db, ctl, wire
<1> QED
  BY <1>1, <1>2, <1>3, <1>4, <1>5, <1>6 DEF Next

(***************************************************************************)
(* Every variable of Broadcast keeps its type.                             *)
(***************************************************************************)
THEOREM TypeCorrect == Spec => []TypeOK
BY InitTypeOK, TypeStep, PTL DEF Spec

-----------------------------------------------------------------------------
(* The inductive invariant.                                                *)

Holding == {"select", "noInstance", "send", "recordSent", "recordFailed"}

(* Rows are created once, by the request that created the broadcast.       *)
CreationInv ==
  /\ status = "none" => \A c \in Callers : call[c].at # "createRows"
  /\ \A c, d \in Callers :
       call[c].at = "createRows" /\ call[d].at = "createRows" => c = d
  /\ (status = "none" \/ \E c \in Callers : call[c].at = "createRows")
       => \A r \in Recipients : row[r] = "absent"

(* Workers only touch rows that exist, and hold one recipient at a time.   *)
HoldingInv ==
  /\ \A w \in Workers : \A r \in todo[w] : row[r] # "absent"
  /\ \A w \in Workers : pc[w] \in Holding =>
       cur[w] \in Recipients /\ row[cur[w]] # "absent" /\ cur[w] \notin todo[w]
  /\ \A w \in Workers, r \in Recipients : row[r] = "absent" => sentBy[w][r] = 0

(* Excess(w, r): w has sent to r more often than updates were lost.  Never *)
(* for a recipient still ahead of w; while r is pending, only until w has  *)
(* recorded it, or for a w that no longer gets a statement through.        *)
Excess(w, r) == sentBy[w][r] > lost[w][r]

AheadInv ==
  \A w \in Workers, r \in Recipients :
    \/ r \in todo[w]
    \/ pc[w] \in {"select", "noInstance", "send"} /\ cur[w] = r
    \/ pc[w] = "unborn"
    => ~Excess(w, r)

PendingInv ==
  \A w \in Workers, r \in Recipients :
    row[r] = "pending" /\ Excess(w, r) /\ Live(w) /\ w \notin cancelled
      => pc[w] \in {"recordSent", "recordFailed"} /\ cur[w] = r

AcknowledgedInv ==
  \A w \in Workers : pc[w] = "recordSent" => sentBy[w][cur[w]] > 0

LateInv ==
  \A w \in Workers :
    late[w] > 0 => late[w] = 1 /\ w \in cancelled /\ pc[w] \notin {"select", "send"}

(* What OneMore computes.                                                  *)
LEMMA OneMoreValue ==
  ASSUME NEW f \in [Workers -> [Recipients -> Nat]],
         NEW w \in Workers, NEW r \in Recipients,
         NEW v \in Workers, NEW q \in Recipients
  PROVE  OneMore(f, w, r)[v][q] = IF v = w /\ q = r THEN f[v][q] + 1 ELSE f[v][q]
<1>1. CASE v = w
  BY <1>1 DEF OneMore
<1>2. CASE v # w
  BY <1>2 DEF OneMore
<1> QED
  BY <1>1, <1>2

(* What each kind of worker step changes.  The effects name the values of  *)
(* the functions at each worker, so that no invariant's proof opens one.   *)

Moves(w) ==
  \/ MarkStarted(w) \/ SelectInstance(w) \/ UpdateProgress(w)
  \/ FinalProgress(w) \/ MarkCompleted(w) \/ Exit(w)

(* These steps take the worker elsewhere and may drop its chunk.           *)
Moved(w) ==
  /\ UNCHANGED <<row, cur, sentBy, lost, late, cancelled>>
  /\ \A v \in Workers \ {w} : pc'[v] = pc[v] /\ todo'[v] = todo[v]
  /\ todo'[w] = todo[w] \/ todo'[w] = {}
  /\ \/ pc[w] = "select" /\ pc'[w] \in {"send", "noInstance"}
     \/ /\ pc[w] \in Running \ {"recordSent", "recordFailed"}
        /\ pc'[w] \notin Holding \cup {"unborn"}

LEMMA MoveEffect ==
  ASSUME TypeOK, NEW w \in Workers, Moves(w)
  PROVE  Moved(w)
<1> USE DEF TypeOK, Goto, db, ctl, wire, Moved, Holding, Running
<1>1. CASE MarkStarted(w)
  BY <1>1 DEF MarkStarted
<1>2. CASE SelectInstance(w)
  BY <1>2 DEF SelectInstance
<1>3. CASE UpdateProgress(w)
  BY <1>3 DEF UpdateProgress
<1>4. CASE FinalProgress(w)
  BY <1>4 DEF FinalProgress
<1>5. CASE MarkCompleted(w)
  BY <1>5 DEF MarkCompleted
<1>6. CASE Exit(w)
  BY <1>6 DEF Exit
<1> QED
  BY <1>1, <1>2, <1>3, <1>4, <1>5, <1>6 DEF Moves

(* A recipient without an instance fails, or a statement does.             *)
Failed(w) ==
  /\ UNCHANGED <<todo, sentBy, lost, late, cancelled>>
  /\ \A v \in Workers \ {w} : pc'[v] = pc[v] /\ cur'[v] = cur[v]
  /\ pc[w] = "noInstance" /\ pc'[w] = "each"
  /\ \A r \in Recipients : row'[r] = row[r] \/ (r = cur[w] /\ row'[r] = "failed")

LEMMA FailEffect ==
  ASSUME TypeOK, HoldingInv, NEW w \in Workers, FailNoInstance(w)
  PROVE  Failed(w)
<1>1. cur[w] \in Recipients
  BY DEF HoldingInv, Holding, FailNoInstance
<1>2. /\ UNCHANGED <<todo, sentBy, lost, late, cancelled>>
      /\ pc[w] = "noInstance" /\ pc' = [pc EXCEPT ![w] = "each"]
      /\ cur' = [cur EXCEPT ![w] = NoOne]
      /\ row' = row \/ row' = [row EXCEPT ![cur[w]] = "failed"]
  BY DEF FailNoInstance, ctl, wire, Goto
<1>3. \A r \in Recipients : row'[r] = row[r] \/ (r = cur[w] /\ row'[r] = "failed")
  <2>1. row \in [Recipients -> {"absent", "pending", "sent", "failed"}]
    BY DEF TypeOK
  <2>2. row' = row \/ row' = [row EXCEPT ![cur[w]] = "failed"]
    BY <1>2
  <2> QED
    BY <1>1, <2>1, <2>2
<1> QED
  BY <1>2, <1>3 DEF Failed, TypeOK

(* The query fills the worker's chunk with pending rows, or it ends.       *)
Fetched(w) ==
  /\ UNCHANGED <<row, cur, sentBy, lost, late, cancelled>>
  /\ \A v \in Workers \ {w} : pc'[v] = pc[v] /\ todo'[v] = todo[v]
  /\ pc[w] = "loop"
  /\ \/ todo'[w] = todo[w] /\ pc'[w] \in {"exit", "final"}
     \/ w \notin cancelled /\ todo'[w] \subseteq Pending /\ pc'[w] \in {"each", "final"}

LEMMA FetchEffect ==
  ASSUME TypeOK, NEW w \in Workers, FetchChunk(w)
  PROVE  Fetched(w)
<1>1. \A chunk \in GetPendingRecipients : chunk \in SUBSET Pending
  BY DEF GetPendingRecipients
<1> QED
  BY <1>1 DEF FetchChunk, FetchOk, DbOk, DbErr, db, ctl, wire, Goto, TypeOK, Fetched

(* The worker takes a recipient from its chunk, or leaves the chunk.       *)
Took(w) ==
  /\ UNCHANGED <<row, sentBy, lost, late, cancelled>>
  /\ \A v \in Workers \ {w} : pc'[v] = pc[v] /\ todo'[v] = todo[v] /\ cur'[v] = cur[v]
  /\ pc[w] = "each"
  /\ \/ todo'[w] = todo[w] /\ cur'[w] = cur[w] /\ pc'[w] \in {"exit", "loop"}
     \/ /\ w \notin cancelled
        /\ cur'[w] \in todo[w] /\ cur'[w] \in Recipients
        /\ todo'[w] = todo[w] \ {cur'[w]}
        /\ pc'[w] = "select"

LEMMA NextEffect ==
  ASSUME TypeOK, NEW w \in Workers, NextRecipient(w)
  PROVE  Took(w)
BY DEF NextRecipient, AfterChunk, TypeOK, db, ctl, wire, Goto, Took

(* A send adds at most one message, to the recipient in hand.              *)
Sent(w) ==
  /\ UNCHANGED <<row, todo, cur, lost, cancelled>>
  /\ \A v \in Workers \ {w} : pc'[v] = pc[v]
  /\ pc[w] = "send"
  /\ pc'[w] \in {"recordSent", "recordFailed"}
  /\ cur[w] \in Recipients
  /\ \A v \in Workers, q \in Recipients :
       \/ sentBy'[v][q] = sentBy[v][q]
       \/ v = w /\ q = cur[w] /\ sentBy'[v][q] = sentBy[v][q] + 1
  /\ \A v \in Workers :
       \/ late'[v] = late[v]
       \/ v = w /\ w \in cancelled /\ late'[v] = late[v] + 1
  /\ pc'[w] = "recordSent" => sentBy'[w][cur[w]] = sentBy[w][cur[w]] + 1

LEMMA SendEffect ==
  ASSUME TypeOK, HoldingInv, NEW w \in Workers, SendTextMessage(w)
  PROVE  Sent(w)
<1>1. cur[w] \in Recipients
  BY DEF HoldingInv, Holding, SendTextMessage
<1>2. sentBy \in [Workers -> [Recipients -> Nat]]
  BY DEF TypeOK
<1>3. \A v \in Workers, q \in Recipients :
        OneMore(sentBy, w, cur[w])[v][q] = IF v = w /\ q = cur[w] THEN sentBy[v][q] + 1 ELSE sentBy[v][q]
  BY <1>1, <1>2, OneMoreValue
<1>4. \/ sentBy' = OneMore(sentBy, w, cur[w])
      \/ sentBy' = sentBy /\ pc' = [pc EXCEPT ![w] = "recordFailed"]
  BY DEF SendTextMessage, AfterSendError, Goto
<1>5. \/ pc' = [pc EXCEPT ![w] = "recordSent"]
      \/ pc' = [pc EXCEPT ![w] = "recordFailed"]
  BY DEF SendTextMessage, AfterSendError, Goto
<1>6. /\ UNCHANGED <<row, todo, cur, lost, cancelled>>
      /\ pc[w] = "send"
  BY DEF SendTextMessage, db, ctl
<1>7. pc \in [Workers -> Running \cup {"unborn", "done", "dead"}]
  BY DEF TypeOK
<1>8. /\ \A v \in Workers \ {w} : pc'[v] = pc[v]
      /\ pc'[w] \in {"recordSent", "recordFailed"}
  BY <1>5, <1>7
<1>9. \A v \in Workers :
         \/ late'[v] = late[v]
         \/ v = w /\ w \in cancelled /\ late'[v] = late[v] + 1
  <2>1. late' = late \/ (w \in cancelled /\ late' = [late EXCEPT ![w] = @ + 1])
    BY DEF SendTextMessage
  <2> QED
    BY <2>1 DEF TypeOK
<1>10. CASE sentBy' = OneMore(sentBy, w, cur[w])
  BY <1>1, <1>3, <1>6, <1>8, <1>9, <1>10 DEF Sent
<1>11. CASE sentBy' = sentBy /\ pc' = [pc EXCEPT ![w] = "recordFailed"]
  BY <1>1, <1>6, <1>7, <1>8, <1>9, <1>11 DEF Sent
<1> QED
  BY <1>4, <1>10, <1>11

(* Recording settles the row, or counts the lost update, or the worker was *)
(* cancelled.                                                              *)
Recorded(w) ==
  /\ UNCHANGED <<todo, sentBy, late, cancelled>>
  /\ \A v \in Workers \ {w} : pc'[v] = pc[v] /\ cur'[v] = cur[v]
  /\ pc[w] \in {"recordSent", "recordFailed"}
  /\ pc'[w] = "progress"
  /\ cur[w] \in Recipients
  /\ \/ /\ \A q \in Recipients \ {cur[w]} : row'[q] = row[q]
        /\ row'[cur[w]] \in {"sent", "failed"}
        /\ UNCHANGED lost
     \/ UNCHANGED <<row, lost>> /\ w \in cancelled
     \/ /\ UNCHANGED row
        /\ \A v \in Workers, q \in Recipients :
             lost'[v][q] = IF v = w /\ q = cur[w] THEN lost[v][q] + 1 ELSE lost[v][q]

LEMMA RecordEffect ==
  ASSUME TypeOK, HoldingInv, NEW w \in Workers, RecordOutcome(w)
  PROVE  Recorded(w)
<1>1. cur[w] \in Recipients
  BY DEF HoldingInv, Holding, RecordOutcome
<1>2. lost \in [Workers -> [Recipients -> Nat]]
  BY DEF TypeOK
<1>3. \A v \in Workers, q \in Recipients :
        OneMore(lost, w, cur[w])[v][q] = IF v = w /\ q = cur[w] THEN lost[v][q] + 1 ELSE lost[v][q]
  BY <1>1, <1>2, OneMoreValue
<1>4. \/ /\ \A q \in Recipients \ {cur[w]} : row'[q] = row[q]
         /\ row'[cur[w]] \in {"sent", "failed"}
         /\ UNCHANGED lost
      \/ UNCHANGED <<row, lost>> /\ w \in cancelled
      \/ UNCHANGED row /\ lost' = OneMore(lost, w, cur[w])
  <2>1. \/ /\ \E outcome \in {"sent", "failed"} : row' = [row EXCEPT ![cur[w]] = outcome]
           /\ UNCHANGED lost
        \/ UNCHANGED <<row, lost>> /\ w \in cancelled
        \/ UNCHANGED row /\ lost' = OneMore(lost, w, cur[w])
    BY DEF RecordOutcome, DbOk, DbErr
  <2>2. row \in [Recipients -> {"absent", "pending", "sent", "failed"}]
    BY DEF TypeOK
  <2> QED
    BY <1>1, <2>1, <2>2
<1>5. /\ UNCHANGED <<todo, sentBy, late, cancelled>>
      /\ pc[w] \in {"recordSent", "recordFailed"}
      /\ \A v \in Workers \ {w} : pc'[v] = pc[v] /\ cur'[v] = cur[v]
      /\ pc'[w] = "progress"
  BY DEF RecordOutcome, Goto, ctl, TypeOK
<1>6. CASE UNCHANGED row /\ lost' = OneMore(lost, w, cur[w])
  BY <1>1, <1>3, <1>5, <1>6 DEF Recorded
<1> QED
  BY <1>1, <1>4, <1>5, <1>6 DEF Recorded

LEMMA WorkerCreationInv ==
  ASSUME TypeOK, CreationInv, HoldingInv, NEW w \in Workers, WorkerStep(w)
  PROVE  CreationInv'
<1>1. call' = call /\ (status' = status \/ status' # "none")
  BY DEF WorkerStep, MarkStarted, FetchChunk, NextRecipient, SelectInstance,
     FailNoInstance, SendTextMessage, RecordOutcome, UpdateProgress,
     FinalProgress, MarkCompleted, Exit, db, ctl
<1>2. row' = row \/ \E r \in Recipients : row[r] # "absent"
  <2>1. CASE FailNoInstance(w) \/ RecordOutcome(w)
    BY <2>1 DEF FailNoInstance, RecordOutcome, HoldingInv, Holding
  <2>2. CASE ~(FailNoInstance(w) \/ RecordOutcome(w))
    BY <2>2 DEF WorkerStep, MarkStarted, FetchChunk, NextRecipient, SelectInstance,
       SendTextMessage, UpdateProgress, FinalProgress, MarkCompleted, Exit, db
  <2> QED
    BY <2>1, <2>2
<1> QED
  BY <1>1, <1>2 DEF CreationInv

LEMMA CountsAreNat ==
  ASSUME TypeOK, NEW v \in Workers, NEW r \in Recipients
  PROVE  sentBy[v][r] \in Nat /\ lost[v][r] \in Nat /\ late[v] \in Nat
BY DEF TypeOK

LEMMA WorkerHoldingInv ==
  ASSUME TypeOK, HoldingInv, NEW w \in Workers, WorkerStep(w)
  PROVE  HoldingInv'
<1> SUFFICES ASSUME NEW v \in Workers
             PROVE  /\ \A r \in todo'[v] : row'[r] # "absent"
                    /\ pc'[v] \in Holding =>
                         cur'[v] \in Recipients /\ row'[cur'[v]] # "absent" /\ cur'[v] \notin todo'[v]
                    /\ \A r \in Recipients : row'[r] = "absent" => sentBy'[v][r] = 0
  BY DEF HoldingInv
<1>1. CASE Moves(w)
  <2>1. Moved(w)
    BY <1>1, MoveEffect
  <2> QED
    BY <2>1 DEF Moved, HoldingInv, Holding, Pending
<1>2. CASE FetchChunk(w)
  <2>1. Fetched(w)
    BY <1>2, FetchEffect
  <2> QED
    BY <2>1 DEF Fetched, HoldingInv, Holding, Pending
<1>3. CASE NextRecipient(w)
  <2>1. Took(w)
    BY <1>3, NextEffect
  <2> QED
    BY <2>1 DEF Took, HoldingInv, Holding, Pending
<1>4. CASE FailNoInstance(w)
  <2>1. Failed(w)
    BY <1>4, FailEffect
  <2>2. CASE v = w
    BY <2>1, <2>2 DEF Failed, HoldingInv, Holding, TypeOK
  <2>3. CASE v # w
    BY <2>1, <2>3 DEF Failed, HoldingInv, Holding, TypeOK
  <2> QED
    BY <2>2, <2>3
<1>5. CASE SendTextMessage(w)
  <2>1. Sent(w)
    BY <1>5, SendEffect
  <2> QED
    BY <2>1 DEF Sent, HoldingInv, Holding, Pending
<1>6. CASE RecordOutcome(w)
  <2>1. Recorded(w)
    BY <1>6, RecordEffect
  <2>2. CASE v = w
    BY <2>1, <2>2 DEF Recorded, HoldingInv, Holding, TypeOK
  <2>3. CASE v # w
    BY <2>1, <2>3 DEF Recorded, HoldingInv, Holding, TypeOK
  <2> QED
    BY <2>2, <2>3
<1> QED
  BY <1>1, <1>2, <1>3, <1>4, <1>5, <1>6 DEF WorkerStep, Moves

LEMMA WorkerAheadInv ==
  ASSUME TypeOK, HoldingInv, AheadInv, PendingInv, NEW w \in Workers, WorkerStep(w)
  PROVE  AheadInv'
<1> SUFFICES ASSUME NEW v \in Workers, NEW r \in Recipients,
                      \/ r \in todo'[v]
                      \/ pc'[v] \in {"select", "noInstance", "send"} /\ cur'[v] = r
                      \/ pc'[v] = "unborn"
             PROVE  ~(sentBy'[v][r] > lost'[v][r])
  BY DEF AheadInv, Excess
<1>0. sentBy[v][r] \in Nat /\ lost[v][r] \in Nat /\ late[v] \in Nat
  BY CountsAreNat
<1>1. CASE Moves(w)
  <2>1. Moved(w)
    BY <1>1, MoveEffect
  <2> QED
    BY <1>0, <2>1 DEF Moved, AheadInv, HoldingInv, Holding, Excess
<1>2. CASE FetchChunk(w)
  <2>1. Fetched(w)
    BY <1>2, FetchEffect
  <2> QED
    BY <1>0, <2>1 DEF Fetched, AheadInv, PendingInv, Excess, Live, Running, Pending
<1>3. CASE NextRecipient(w)
  <2>1. Took(w)
    BY <1>3, NextEffect
  <2> QED
    BY <1>0, <2>1 DEF Took, AheadInv, HoldingInv, Holding, Excess
<1>4. CASE FailNoInstance(w)
  <2>1. Failed(w)
    BY <1>4, FailEffect
  <2> QED
    BY <1>0, <2>1 DEF Failed, AheadInv, HoldingInv, Holding, Excess
<1>5. CASE SendTextMessage(w)
  <2>1. Sent(w)
    BY <1>5, SendEffect
  <2> QED
    BY <1>0, <2>1 DEF Sent, AheadInv, HoldingInv, Holding, Excess
<1>6. CASE RecordOutcome(w)
  <2>1. Recorded(w)
    BY <1>6, RecordEffect
  <2> QED
    BY <1>0, <2>1 DEF Recorded, AheadInv, HoldingInv, Holding, Excess
<1> QED
  BY <1>1, <1>2, <1>3, <1>4, <1>5, <1>6 DEF WorkerStep, Moves

LEMMA WorkerPendingInv ==
  ASSUME TypeOK, OncePerWorker, HoldingInv, AheadInv, PendingInv, NEW w \in Workers, WorkerStep(w)
  PROVE  PendingInv'
<1> SUFFICES ASSUME NEW v \in Workers, NEW r \in Recipients,
                      row'[r] = "pending", sentBy'[v][r] > lost'[v][r],
                      pc'[v] \in Running, v \notin cancelled'
             PROVE  pc'[v] \in {"recordSent", "recordFailed"} /\ cur'[v] = r
  BY DEF PendingInv, Excess, Live
<1>0. sentBy[v][r] \in Nat /\ lost[v][r] \in Nat /\ late[v] \in Nat
  BY CountsAreNat
<1>1. CASE Moves(w)
  <2>1. Moved(w)
    BY <1>1, MoveEffect
  <2> QED
    BY <1>0, <2>1 DEF Moved, PendingInv, HoldingInv, Holding, Excess, Running, Live
<1>2. CASE FetchChunk(w)
  <2>1. Fetched(w)
    BY <1>2, FetchEffect
  <2> QED
    BY <1>0, <2>1 DEF Fetched, PendingInv, HoldingInv, Holding, Excess, Running, Live
<1>3. CASE NextRecipient(w)
  <2>1. Took(w)
    BY <1>3, NextEffect
  <2> QED
    BY <1>0, <2>1 DEF Took, PendingInv, HoldingInv, Holding, Excess, Running, Live
<1>4. CASE FailNoInstance(w)
  <2>1. Failed(w)
    BY <1>4, FailEffect
  <2> QED
    BY <1>0, <2>1 DEF Failed, PendingInv, HoldingInv, Holding, Excess, Running, Live
<1>5. CASE SendTextMessage(w)
  <2>1. Sent(w)
    BY <1>5, SendEffect
  <2> QED
    BY <1>0, <2>1 DEF Sent, PendingInv, HoldingInv, Holding, Excess, Running, Live
<1>6. CASE RecordOutcome(w)
  <2>1. Recorded(w)
    BY <1>6, RecordEffect
  <2>2. CASE v = w
    <3>1. CASE r = cur[w]
      <4>1. sentBy[w][r] <= 1 + lost[w][r]
        BY <2>2 DEF OncePerWorker
      <4> QED
        BY <1>0, <2>1, <2>2, <3>1, <4>1 DEF Recorded
    <3>2. CASE r # cur[w]
      <4>1. row[r] = "pending" /\ sentBy[w][r] > lost[w][r] /\ Live(w) /\ w \notin cancelled
        BY <2>1, <2>2, <3>2 DEF Recorded, Live, Running
      <4> QED
        BY <2>2, <3>2, <4>1 DEF PendingInv, Excess
    <3> QED
      BY <3>1, <3>2
  <2>3. CASE v # w
    BY <1>0, <2>1, <2>3 DEF Recorded, PendingInv, Excess, Live, Running
  <2> QED
    BY <2>2, <2>3
<1> QED
  BY <1>1, <1>2, <1>3, <1>4, <1>5, <1>6 DEF WorkerStep, Moves

LEMMA WorkerOncePerWorker ==
  ASSUME TypeOK, OncePerWorker, HoldingInv, AheadInv, NEW w \in Workers, WorkerStep(w)
  PROVE  OncePerWorker'
<1> SUFFICES ASSUME NEW v \in Workers, NEW r \in Recipients
             PROVE  sentBy'[v][r] <= 1 + lost'[v][r]
  BY DEF OncePerWorker
<1>0. sentBy[v][r] \in Nat /\ lost[v][r] \in Nat /\ late[v] \in Nat
  BY CountsAreNat
<1>1. CASE Moves(w)
  <2>1. Moved(w)
    BY <1>1, MoveEffect
  <2> QED
    BY <1>0, <2>1 DEF Moved, OncePerWorker
<1>2. CASE FetchChunk(w)
  <2>1. Fetched(w)
    BY <1>2, FetchEffect
  <2> QED
    BY <1>0, <2>1 DEF Fetched, OncePerWorker
<1>3. CASE NextRecipient(w)
  <2>1. Took(w)
    BY <1>3, NextEffect
  <2> QED
    BY <1>0, <2>1 DEF Took, OncePerWorker
<1>4. CASE FailNoInstance(w)
  <2>1. Failed(w)
    BY <1>4, FailEffect
  <2> QED
    BY <1>0, <2>1 DEF Failed, OncePerWorker
<1>5. CASE SendTextMessage(w)
  <2>1. Sent(w)
    BY <1>5, SendEffect
  <2> QED
    BY <1>0, <2>1 DEF Sent, AheadInv, Excess, OncePerWorker
<1>6. CASE RecordOutcome(w)
  <2>1. Recorded(w)
    BY <1>6, RecordEffect
  <2> QED
    BY <1>0, <2>1 DEF Recorded, OncePerWorker
<1> QED
  BY <1>1, <1>2, <1>3, <1>4, <1>5, <1>6 DEF WorkerStep, Moves

LEMMA WorkerAcknowledgedInv ==
  ASSUME TypeOK, HoldingInv, AcknowledgedInv, NEW w \in Workers, WorkerStep(w)
  PROVE  AcknowledgedInv'
<1>1. CASE Moves(w)
  <2>1. Moved(w)
    BY <1>1, MoveEffect
  <2> QED
    BY <2>1 DEF Moved, AcknowledgedInv, HoldingInv, Holding
<1>2. CASE FetchChunk(w)
  <2>1. Fetched(w)
    BY <1>2, FetchEffect
  <2> QED
    BY <2>1 DEF Fetched, AcknowledgedInv, HoldingInv, Holding
<1>3. CASE NextRecipient(w)
  <2>1. Took(w)
    BY <1>3, NextEffect
  <2> QED
    BY <2>1 DEF Took, AcknowledgedInv, HoldingInv, Holding
<1>4. CASE FailNoInstance(w)
  <2>1. Failed(w)
    BY <1>4, FailEffect
  <2> QED
    BY <2>1 DEF Failed, AcknowledgedInv, HoldingInv, Holding
<1>5. CASE SendTextMessage(w)
  <2>1. Sent(w)
    BY <1>5, SendEffect
  <2> SUFFICES ASSUME NEW v \in Workers, pc'[v] = "recordSent"
               PROVE  sentBy'[v][cur'[v]] > 0
    BY DEF AcknowledgedInv
  <2>2. CASE v = w
    BY <2>1, <2>2, CountsAreNat DEF Sent
  <2>3. CASE v # w
    <3>1. cur[v] \in Recipients /\ sentBy[v][cur[v]] > 0
      BY <2>1, <2>3 DEF Sent, AcknowledgedInv, HoldingInv, Holding
    <3> QED
      BY <2>1, <2>3, <3>1 DEF Sent
  <2> QED
    BY <2>2, <2>3
<1>6. CASE RecordOutcome(w)
  <2>1. Recorded(w)
    BY <1>6, RecordEffect
  <2> QED
    BY <2>1 DEF Recorded, AcknowledgedInv, HoldingInv, Holding
<1> QED
  BY <1>1, <1>2, <1>3, <1>4, <1>5, <1>6 DEF WorkerStep, Moves

LEMMA WorkerLateInv ==
  ASSUME TypeOK, HoldingInv, LateInv, NEW w \in Workers, WorkerStep(w)
  PROVE  LateInv'
<1> SUFFICES ASSUME NEW v \in Workers, late'[v] > 0
             PROVE  late'[v] = 1 /\ v \in cancelled' /\ pc'[v] \notin {"select", "send"}
  BY DEF LateInv
<1>0. late[v] \in Nat
  BY DEF TypeOK
<1>1. CASE Moves(w)
  <2>1. Moved(w)
    BY <1>1, MoveEffect
  <2> QED
    BY <1>0, <2>1 DEF Moved, LateInv, Holding
<1>2. CASE FetchChunk(w)
  <2>1. Fetched(w)
    BY <1>2, FetchEffect
  <2> QED
    BY <1>0, <2>1 DEF Fetched, LateInv, Holding
<1>3. CASE NextRecipient(w)
  <2>1. Took(w)
    BY <1>3, NextEffect
  <2> QED
    BY <1>0, <2>1 DEF Took, LateInv, Holding
<1>4. CASE FailNoInstance(w)
  <2>1. Failed(w)
    BY <1>4, FailEffect
  <2> QED
    BY <1>0, <2>1 DEF Failed, LateInv, Holding
<1>5. CASE SendTextMessage(w)
  <2>1. Sent(w)
    BY <1>5, SendEffect
  <2> QED
    BY <1>0, <2>1 DEF Sent, LateInv, Holding
<1>6. CASE RecordOutcome(w)
  <2>1. Recorded(w)
    BY <1>6, RecordEffect
  <2> QED
    BY <1>0, <2>1 DEF Recorded, LateInv, Holding
<1> QED
  BY <1>1, <1>2, <1>3, <1>4, <1>5, <1>6 DEF WorkerStep, Moves

-----------------------------------------------------------------------------
(* The requests and the environment.                                       *)

WorkInv ==
  /\ HoldingInv /\ AheadInv /\ PendingInv /\ AcknowledgedInv /\ LateInv
  /\ OncePerWorker

IInv == TypeOK /\ CreationInv /\ WorkInv

(* A step that may cancel workers and touches nothing else of theirs.      *)
Quiet ==
  /\ UNCHANGED <<row, pc, todo, cur, sentBy, lost, late>>
  /\ cancelled \subseteq cancelled'

LEMMA QuietKeepsWorkInv == ASSUME WorkInv, Quiet PROVE WorkInv'
<1> USE DEF WorkInv, Quiet
<1>1. HoldingInv'
  BY DEF HoldingInv, Holding
<1>2. AheadInv'
  BY DEF AheadInv, Excess
<1>3. PendingInv'
  BY DEF PendingInv, Excess, Live
<1>4. AcknowledgedInv' /\ OncePerWorker'
  BY DEF AcknowledgedInv, OncePerWorker
<1>5. LateInv'
  BY DEF LateInv
<1> QED
  BY <1>1, <1>2, <1>3, <1>4, <1>5

LEMMA CreateRecipientsKeepsWorkInv ==
  ASSUME IInv, NEW c \in Callers, CreateRecipients(c)
  PROVE  WorkInv'
<1> USE DEF IInv, WorkInv
<1>1. /\ UNCHANGED <<pc, todo, cur, sentBy, lost, late, cancelled>>
      /\ row' = row \/ row' = [r \in Recipients |-> "pending"]
  BY DEF CreateRecipients, local, wire
<1>2. CASE row' = row
  BY <1>1, <1>2, QuietKeepsWorkInv DEF Quiet
<1>3. CASE row' = [r \in Recipients |-> "pending"]
  <2>1. \A r \in Recipients : row[r] = "absent"
    BY DEF CreationInv, CreateRecipients, At
  <2>2. \A w \in Workers, r \in Recipients : ~Excess(w, r)
    BY <2>1 DEF HoldingInv, Excess, TypeOK
  <2>3. HoldingInv'
    BY <1>1, <1>3, <2>1 DEF HoldingInv, Holding, TypeOK
  <2>4. AheadInv'
    BY <1>1 DEF AheadInv, Excess
  <2>5. PendingInv'
    BY <1>1, <2>2 DEF PendingInv, Excess
  <2>6. AcknowledgedInv' /\ OncePerWorker' /\ LateInv'
    BY <1>1 DEF AcknowledgedInv, OncePerWorker, LateInv
  <2> QED
    BY <2>3, <2>4, <2>5, <2>6
<1> QED
  BY <1>1, <1>2, <1>3

LEMMA StartBroadcastKeepsWorkInv ==
  ASSUME IInv, NEW c \in Callers, StartBroadcast(c)
  PROVE  WorkInv'
<1> USE DEF IInv, WorkInv
<1>1. UNCHANGED <<row, todo, cur, sentBy, lost, late, cancelled>>
  BY DEF StartBroadcast, db, wire
<1>2. PICK w \in Workers : pc[w] = "unborn" /\ pc' = [pc EXCEPT ![w] = "start"]
  BY DEF StartBroadcast, Goto
<1>3. pc'[w] = "start" /\ \A v \in Workers \ {w} : pc'[v] = pc[v]
  BY <1>2 DEF TypeOK
<1>4. HoldingInv'
  BY <1>1, <1>3 DEF HoldingInv, Holding
<1>5. AheadInv'
  BY <1>1, <1>3 DEF AheadInv, Excess
<1>6. PendingInv'
  BY <1>1, <1>2, <1>3 DEF PendingInv, AheadInv, Excess, Live
<1>7. AcknowledgedInv' /\ OncePerWorker'
  BY <1>1, <1>3 DEF AcknowledgedInv, OncePerWorker
<1>8. LateInv'
  BY <1>1, <1>3 DEF LateInv
<1> QED
  BY <1>4, <1>5, <1>6, <1>7, <1>8

LEMMA ProcessDiesKeepsInv ==
  ASSUME IInv, ProcessDies
  PROVE  CreationInv' /\ WorkInv'
<1> USE DEF IInv, WorkInv
<1>1. UNCHANGED <<status, row, sentBy, lost, late, cancelled>>
  BY DEF ProcessDies, db, wire
<1>2. \A w \in Workers : todo'[w] = {} /\ pc'[w] \notin Running
  BY DEF ProcessDies, Live, Running
<1>3. \A w \in Workers : pc'[w] = "unborn" => pc[w] = "unborn"
  BY DEF ProcessDies, TypeOK
<1>4. \A c \in Callers : call'[c].at # "createRows"
  BY DEF ProcessDies, Idle
<1>5. CreationInv'
  BY <1>1, <1>4 DEF CreationInv
<1>6. HoldingInv'
  BY <1>1, <1>2 DEF HoldingInv, Holding, Running
<1>7. AheadInv'
  BY <1>1, <1>2, <1>3 DEF AheadInv, Excess, Running
<1>8. PendingInv' /\ AcknowledgedInv' /\ OncePerWorker'
  BY <1>1, <1>2 DEF PendingInv, AcknowledgedInv, OncePerWorker, Live, Running
<1>9. LateInv'
  BY <1>1, <1>2 DEF LateInv, Running
<1> QED
  BY <1>5, <1>6, <1>7, <1>8, <1>9

LEMMA CallerCreationInv ==
  ASSUME IInv, NEW c \in Callers, CallerStep(c) \/ NewCall(c)
  PROVE  CreationInv'
<1> USE DEF IInv, TypeOK, CreationInv, At, Then, Return, Idle, db
<1>1. CASE CreateBroadcast(c)
  BY <1>1 DEF CreateBroadcast
<1>2. CASE CreateRecipients(c)
  <2>1. /\ call[c].at = "createRows" /\ status' = status
        /\ \A d \in Callers \ {c} : call'[d] = call[d]
        /\ call'[c].at \in {"start", "idle"}
    BY <1>2 DEF CreateRecipients, Request
  <2>2. \A d \in Callers : call'[d].at # "createRows"
    BY <2>1
  <2> QED
    BY <2>1, <2>2
<1>3. CASE StartBroadcast(c)
  BY <1>3 DEF StartBroadcast
<1>4. CASE PauseLookup(c)
  BY <1>4 DEF PauseLookup
<1>5. CASE PauseCancel(c)
  BY <1>5 DEF PauseCancel
<1>6. CASE PauseDelete(c)
  BY <1>6 DEF PauseDelete
<1>7. CASE PauseStatus(c)
  BY <1>7 DEF PauseStatus
<1>8. CASE CancelJob(c)
  BY <1>8 DEF CancelJob
<1>9. CASE CancelStatus(c)
  BY <1>9 DEF CancelStatus
<1>10. CASE ResumeStatus(c)
  <2>1. /\ call[c].at = "idle" /\ status # "none" /\ status' # "none" /\ row' = row
        /\ \A d \in Callers \ {c} : call'[d] = call[d]
        /\ call'[c].at \in {"start", "idle"}
    BY <1>10 DEF ResumeStatus, Request
  <2>2. \A d \in Callers : call'[d].at = "createRows" => call[d].at = "createRows"
    BY <2>1
  <2>3. (\E d \in Callers : call'[d].at = "createRows")
          => \A r \in Recipients : row'[r] = "absent"
    BY <2>1, <2>2
  <2> QED
    BY <2>1, <2>2, <2>3
<1> QED
  BY <1>1, <1>2, <1>3, <1>4, <1>5, <1>6, <1>7, <1>8, <1>9, <1>10
  DEF CallerStep, NewCall

LEMMA CallerWorkInv ==
  ASSUME IInv, NEW c \in Callers, CallerStep(c) \/ NewCall(c)
  PROVE  WorkInv'
<1>1. CASE CreateRecipients(c)
  BY <1>1, CreateRecipientsKeepsWorkInv
<1>2. CASE StartBroadcast(c)
  BY <1>2, StartBroadcastKeepsWorkInv
<1>3. CASE ~CreateRecipients(c) /\ ~StartBroadcast(c)
  <2>1. Quiet
    BY <1>3 DEF Quiet, CallerStep, NewCall, CreateBroadcast, PauseLookup,
       PauseCancel, PauseDelete, PauseStatus, CancelJob, CancelStatus,
       ResumeStatus, db, local, wire
  <2> QED
    BY <2>1, QuietKeepsWorkInv DEF IInv
<1> QED
  BY <1>1, <1>2, <1>3

(* The invariant is inductive.                                             *)
LEMMA InitIInv == Init => IInv
<1> SUFFICES ASSUME Init PROVE IInv
  OBVIOUS
<1>1. TypeOK
  BY InitTypeOK
<1>2. CreationInv
  BY DEF Init, Idle, CreationInv
<1>3. WorkInv
  BY DEF Init, WorkInv, HoldingInv, Holding, AheadInv, PendingInv, Excess,
     AcknowledgedInv, LateInv, OncePerWorker
<1> QED
  BY <1>1, <1>2, <1>3 DEF IInv

LEMMA StepIInv == IInv /\ [Next]_vars => IInv'
<1> SUFFICES ASSUME IInv, [Next]_vars PROVE IInv'
  OBVIOUS
<1>1. TypeOK'
  BY TypeStep DEF IInv
<1>2. ASSUME NEW w \in Workers, WorkerStep(w) PROVE CreationInv' /\ WorkInv'
  BY <1>2, WorkerCreationInv, WorkerHoldingInv, WorkerAheadInv, WorkerPendingInv,
     WorkerOncePerWorker, WorkerAcknowledgedInv, WorkerLateInv
  DEF IInv, WorkInv
<1>3. ASSUME NEW c \in Callers, CallerStep(c) \/ NewCall(c) PROVE CreationInv' /\ WorkInv'
  BY <1>3, CallerCreationInv, CallerWorkInv
<1>4. ASSUME NEW c \in Callers, MapRace(c) PROVE CreationInv' /\ WorkInv'
  BY <1>4, ProcessDiesKeepsInv DEF MapRace
<1>5. CASE Crash
  <2>1. ProcessDies
    BY <1>5 DEF Crash
  <2> QED
    BY <1>1, <2>1, ProcessDiesKeepsInv DEF IInv
<1>6. CASE (\E b \in BOOLEAN : SetGroupPaused(b)) \/ UNCHANGED vars
  <2>1. Quiet /\ UNCHANGED <<status, call>>
    BY <1>6 DEF SetGroupPaused, Quiet, vars, db, ctl, local, wire
  <2>2. WorkInv'
    BY <2>1, QuietKeepsWorkInv DEF IInv
  <2>3. CreationInv'
    BY <2>1 DEF IInv, CreationInv, Quiet
  <2> QED
    BY <1>1, <2>2, <2>3 DEF IInv
<1> QED
  BY <1>1, <1>2, <1>3, <1>4, <1>5, <1>6 DEF Next, IInv

(***************************************************************************)
(* What every reachable state of the dispatcher satisfies: rows are        *)
(* created once, a worker works on rows that exist, and it has sent to no  *)
(* recipient still ahead of it more often than an update was lost.         *)
(***************************************************************************)
THEOREM InductiveInvariant == Spec => []IInv
BY InitIInv, StepIInv, PTL DEF Spec

(***************************************************************************)
(* However many workers, requests, faults and crashes: a worker sends a    *)
(* recipient's message once, and once more for every row update lost.      *)
(***************************************************************************)
THEOREM OncePerWorkerHolds == Spec => []OncePerWorker
<1>1. IInv => OncePerWorker
  BY DEF IInv, WorkInv
<1> QED
  BY <1>1, InductiveInvariant, PTL

(***************************************************************************)
(* A cancelled worker lets at most the message it had in hand go out,      *)
(* whatever ChunkSize is.                                                  *)
(***************************************************************************)
THEOREM OneSendAfterCancelHolds == Spec => []OneSendAfterCancel
<1>1. IInv => OneSendAfterCancel
  <2> SUFFICES ASSUME IInv, NEW w \in Workers PROVE late[w] <= 1
    BY DEF OneSendAfterCancel
  <2>1. late[w] \in Nat /\ (late[w] > 0 => late[w] = 1)
    BY DEF IInv, WorkInv, LateInv, TypeOK
  <2> QED
    BY <2>1
<1> QED
  BY <1>1, InductiveInvariant, PTL

-----------------------------------------------------------------------------
(* The dispatcher implements the recipient ledger.                         *)

LEMMA LedgerInit == Init => Ledger!Init
BY DEF Init, Ledger!Init, delivered

LEMMA LedgerSend ==
  ASSUME IInv, NEW w \in Workers, SendTextMessage(w)
  PROVE  [Ledger!Next]_(Ledger!vars)
<1>1. Sent(w)
  BY SendEffect DEF IInv, WorkInv
<1>2. cur[w] \in Recipients /\ row[cur[w]] # "absent"
  BY DEF IInv, WorkInv, HoldingInv, Holding, SendTextMessage
<1>3. \A v \in Workers, q \in Recipients : sentBy[v][q] \in Nat
  BY DEF IInv, TypeOK
<1>4. \A v \in Workers, q \in Recipients :
        /\ sentBy[v][q] > 0 => sentBy'[v][q] > 0
        /\ sentBy'[v][q] > 0 => sentBy[v][q] > 0 \/ q = cur[w]
  BY <1>1, <1>3 DEF Sent
<1>5. delivered' = delivered \/ delivered' = delivered \cup {cur[w]}
  <2>1. delivered \subseteq delivered'
    BY <1>4 DEF delivered
  <2>2. delivered' \subseteq delivered \cup {cur[w]}
    BY <1>4 DEF delivered
  <2> QED
    BY <2>1, <2>2
<1> QED
  BY <1>1, <1>2, <1>5 DEF Sent, Ledger!Next, Ledger!Deliver, Ledger!vars

LEMMA LedgerSettle ==
  ASSUME IInv, NEW w \in Workers, FailNoInstance(w) \/ RecordOutcome(w)
  PROVE  [Ledger!Next]_(Ledger!vars)
<1>1. UNCHANGED delivered
  BY DEF FailNoInstance, RecordOutcome, wire, delivered
<1>2. cur[w] \in Recipients /\ row[cur[w]] # "absent"
  BY DEF IInv, WorkInv, HoldingInv, Holding, FailNoInstance, RecordOutcome
<1>3. pc[w] = "recordSent" => cur[w] \in delivered
  BY <1>2 DEF IInv, WorkInv, AcknowledgedInv, delivered
<1>4. \/ UNCHANGED row
      \/ row' = [row EXCEPT ![cur[w]] = "failed"]
      \/ pc[w] = "recordSent" /\ row' = [row EXCEPT ![cur[w]] = "sent"]
  BY DEF FailNoInstance, RecordOutcome
<1> QED
  BY <1>1, <1>2, <1>3, <1>4 DEF Ledger!Next, Ledger!Settle, Ledger!vars

LEMMA LedgerAccept ==
  ASSUME IInv, NEW c \in Callers, CreateRecipients(c)
  PROVE  [Ledger!Next]_(Ledger!vars)
<1>1. UNCHANGED delivered
  BY DEF CreateRecipients, wire, delivered
<1>2. \A r \in Recipients : row[r] = "absent"
  BY DEF IInv, CreationInv, CreateRecipients, At
<1> QED
  BY <1>1, <1>2 DEF CreateRecipients, Ledger!Next, Ledger!Accept, Ledger!vars

LEMMA LedgerStep == IInv /\ [Next]_vars => [Ledger!Next]_(Ledger!vars)
<1> SUFFICES ASSUME IInv, [Next]_vars PROVE [Ledger!Next]_(Ledger!vars)
  OBVIOUS
<1>1. UNCHANGED <<row, sentBy>> => UNCHANGED Ledger!vars
  BY DEF Ledger!vars, delivered
<1>2. ASSUME NEW w \in Workers, WorkerStep(w) PROVE [Ledger!Next]_(Ledger!vars)
  <2>1. CASE SendTextMessage(w) \/ FailNoInstance(w) \/ RecordOutcome(w)
    BY <2>1, LedgerSend, LedgerSettle
  <2>2. CASE ~(SendTextMessage(w) \/ FailNoInstance(w) \/ RecordOutcome(w))
    <3>1. UNCHANGED <<row, sentBy>>
      BY <1>2, <2>2 DEF WorkerStep, MarkStarted, FetchChunk, NextRecipient,
         SelectInstance, UpdateProgress, FinalProgress, SaveProgress,
         MarkCompleted, Exit, db, wire
    <3> QED
      BY <1>1, <3>1
  <2> QED
    BY <2>1, <2>2
<1>3. ASSUME NEW c \in Callers, CallerStep(c) \/ NewCall(c)
      PROVE  [Ledger!Next]_(Ledger!vars)
  <2>1. CASE CreateRecipients(c)
    BY <2>1, LedgerAccept
  <2>2. CASE ~CreateRecipients(c)
    <3>1. UNCHANGED <<row, sentBy>>
      BY <1>3, <2>2 DEF CallerStep, NewCall, CreateBroadcast, StartBroadcast,
         PauseLookup, PauseCancel, PauseDelete, PauseStatus, CancelJob,
         CancelStatus, ResumeStatus, db, wire
    <3> QED
      BY <1>1, <3>1
  <2> QED
    BY <2>1, <2>2
<1>4. CASE \/ \E c \in Callers : MapRace(c)
           \/ \E b \in BOOLEAN : SetGroupPaused(b)
           \/ Crash
           \/ UNCHANGED vars
  <2>1. UNCHANGED <<row, sentBy>>
    BY <1>4 DEF MapRace, Crash, ProcessDies, SetGroupPaused, vars, db, wire
  <2> QED
    BY <1>1, <2>1
<1> QED
  BY <1>2, <1>3, <1>4 DEF Next

(***************************************************************************)
(* Rows are accepted together, settle for good, and say 'sent' only of a   *)
(* recipient some message went out to, in every run of the dispatcher.     *)
(***************************************************************************)
THEOREM ImplementsLedger == Spec => LedgerSpec
<1>1. Init => Ledger!Init
  BY LedgerInit
<1>2. IInv /\ [Next]_vars => [Ledger!Next]_(Ledger!vars)
  BY LedgerStep
<1> QED
  BY <1>1, <1>2, InductiveInvariant, PTL DEF Spec, LedgerSpec, Ledger!Spec

-----------------------------------------------------------------------------
(* What a worker does to the rows, for the invariants that count them.     *)

Settled == {r \in Recipients : row[r] \in {"sent", "failed"}}

(* No statement fails but a cancelled worker's.                            *)
LEMMA Faultless ==
  ASSUME MaxFaults = 0, TypeOK
  PROVE  ~Fault /\ \A w \in Workers : DbErr(w) => w \in cancelled
BY DEF TypeOK, Fault, DbErr

LEMMA WorkerRows ==
  ASSUME TypeOK, HoldingInv, NEW w \in Workers, WorkerStep(w)
  PROVE  /\ Pending' \subseteq Pending /\ Settled \subseteq Settled'
         /\ UNCHANGED <<cancelled, call>>
         /\ Live(w)
         /\ \A v \in Workers \ {w} : pc'[v] = pc[v]
<1>1. UNCHANGED <<cancelled, call>> /\ \A v \in Workers \ {w} : pc'[v] = pc[v]
  BY DEF WorkerStep, MarkStarted, FetchChunk, FetchOk, NextRecipient, SelectInstance,
     FailNoInstance, SendTextMessage, RecordOutcome, UpdateProgress, FinalProgress,
     MarkCompleted, Exit, Goto, ctl, TypeOK
<1>2. Live(w)
  BY DEF Live, Running, WorkerStep, MarkStarted, FetchChunk, NextRecipient, SelectInstance,
     FailNoInstance, SendTextMessage, RecordOutcome, UpdateProgress, FinalProgress,
     MarkCompleted, Exit
<1>3. \A r \in Recipients : row'[r] = row[r] \/ row'[r] \in {"sent", "failed"}
  <2>1. CASE FailNoInstance(w)
    BY <2>1, FailEffect DEF Failed
  <2>2. CASE RecordOutcome(w)
    BY <2>2, RecordEffect DEF Recorded
  <2>3. CASE ~(FailNoInstance(w) \/ RecordOutcome(w))
    BY <2>3 DEF WorkerStep, MarkStarted, FetchChunk, NextRecipient, SelectInstance,
       SendTextMessage, UpdateProgress, FinalProgress, MarkCompleted, Exit, db
  <2> QED
    BY <2>1, <2>2, <2>3
<1> QED
  BY <1>1, <1>2, <1>3 DEF Pending, Settled

-----------------------------------------------------------------------------
(* A broadcast that is completed has no recipient left, when statements do *)
(* not fail and requests come one at a time.                               *)

OneAtATime == \A c, d \in Callers : c = d

(* No worker runs before the rows exist.                                   *)
AloneInv ==
  /\ status = "none" => \A c \in Callers : call[c].at = "idle"
  /\ status = "none" \/ (\E c \in Callers : call[c].at = "createRows")
       => (\A w \in Workers : ~Live(w)) /\ status \in {"none", "pending"}

DrainInv ==
  /\ CompletedMeansDrained
  /\ \A w \in Workers :
       pc[w] \in {"final", "complete"} /\ w \notin cancelled => Pending = {}

(* Who leaves the loop has seen an empty chunk, which is all that is left. *)
LEMMA WorkerDrains ==
  ASSUME MaxFaults = 0, TypeOK, NEW w \in Workers, WorkerStep(w), w \notin cancelled,
         pc'[w] \in {"final", "complete"}
  PROVE  pc[w] = "final" \/ (Pending = {} /\ UNCHANGED row)
<1>1. CASE FetchChunk(w)
  <2>1. \A chunk \in GetPendingRecipients : chunk = {} => Pending = {}
    <3>1. Cardinality({}) = 0 /\ ChunkSize > 0
      BY FS_EmptySet, BroadcastAssumption
    <3> QED
      BY <3>1 DEF GetPendingRecipients
  <2>2. FetchOk(w)
    BY <1>1, Faultless DEF FetchChunk
  <2>3. PICK chunk \in GetPendingRecipients : Goto(w, IF chunk = {} THEN "final" ELSE "each")
    BY <2>2 DEF FetchOk
  <2>4. chunk = {}
    BY <2>3 DEF Goto, TypeOK
  <2> QED
    BY <1>1, <2>1, <2>4 DEF FetchChunk, db
<1>2. CASE FinalProgress(w)
  BY <1>2 DEF FinalProgress
<1>3. CASE ~FetchChunk(w) /\ ~FinalProgress(w)
  BY <1>3 DEF WorkerStep, MarkStarted, NextRecipient, AfterChunk, SelectInstance,
     FailNoInstance, SendTextMessage, AfterSendError, RecordOutcome, UpdateProgress,
     MarkCompleted, Exit, Goto, TypeOK
<1> QED
  BY <1>1, <1>2, <1>3

LEMMA WorkerDrainInv ==
  ASSUME MaxFaults = 0, TypeOK, HoldingInv, AloneInv, DrainInv,
         NEW w \in Workers, WorkerStep(w)
  PROVE  AloneInv' /\ DrainInv'
<1>1. /\ Pending' \subseteq Pending /\ UNCHANGED <<cancelled, call>> /\ Live(w)
      /\ \A v \in Workers \ {w} : pc'[v] = pc[v]
  BY WorkerRows
<1>2. \/ UNCHANGED status
      \/ status' = "processing"
      \/ status' = "completed" /\ pc[w] = "complete" /\ w \notin cancelled
  BY DEF WorkerStep, MarkStarted, FetchChunk, NextRecipient, SelectInstance,
     FailNoInstance, SendTextMessage, RecordOutcome, UpdateProgress, FinalProgress,
     MarkCompleted, Exit, DbOk, db
<1>3. AloneInv'
  BY <1>1, <1>2 DEF AloneInv
<1>4. status' = "completed" => Pending' = {}
  BY <1>1, <1>2 DEF DrainInv, CompletedMeansDrained
<1>5. ASSUME NEW v \in Workers, pc'[v] \in {"final", "complete"}, v \notin cancelled'
      PROVE  Pending' = {}
  <2>1. CASE v = w
    <3>1. Pending = {}
      BY <1>1, <1>5, <2>1, WorkerDrains DEF DrainInv
    <3> QED
      BY <1>1, <3>1
  <2>2. CASE v # w
    BY <1>1, <1>5, <2>2 DEF DrainInv
  <2> QED
    BY <2>1, <2>2
<1> QED
  BY <1>3, <1>4, <1>5 DEF DrainInv, CompletedMeansDrained

LEMMA CallerDrainInv ==
  ASSUME MaxFaults = 0, OneAtATime, TypeOK, CreationInv, AloneInv, DrainInv,
         NEW c \in Callers, CallerStep(c) \/ NewCall(c)
  PROVE  AloneInv' /\ DrainInv'
<1> USE DEF At, Then, Return, Idle, db, local
<1>0. \A d \in Callers : d = c
  BY DEF OneAtATime
<1>a. call \in [Callers -> Request] /\ \A req \in Request : req = [req EXCEPT !.at = req.at]
  BY DEF TypeOK, Request
<1>1. CASE CreateBroadcast(c)
  <2>1. /\ status = "none" /\ status' = "pending" /\ UNCHANGED <<row, pc, cancelled>>
    BY <1>1 DEF CreateBroadcast
  <2> QED
    BY <2>1 DEF AloneInv, DrainInv, CompletedMeansDrained, Pending, Live
<1>2. CASE CreateRecipients(c)
  <2>1. /\ status = "pending" /\ UNCHANGED <<status, pc>> /\ call'[c].at # "createRows"
        /\ \A w \in Workers : ~Live(w)
    BY <1>2, <1>a DEF CreateRecipients, AloneInv, CreationInv, Request
  <2> QED
    BY <1>0, <2>1 DEF AloneInv, DrainInv, CompletedMeansDrained, Live, Running
<1>3. CASE StartBroadcast(c)
  <2>1. PICK w \in Workers : pc[w] = "unborn" /\ pc' = [pc EXCEPT ![w] = "start"]
    BY <1>3 DEF StartBroadcast, Goto
  <2>2. /\ call[c].at = "start" /\ call'[c].at = "idle"
        /\ UNCHANGED <<status, row, cancelled>>
    BY <1>3, <1>a DEF StartBroadcast
  <2>3. \A v \in Workers : pc'[v] \in {"final", "complete"} => pc'[v] = pc[v]
    BY <2>1 DEF TypeOK
  <2> QED
    BY <1>0, <2>2, <2>3 DEF AloneInv, DrainInv, CompletedMeansDrained, Pending
<1>4. CASE ~CreateBroadcast(c) /\ ~CreateRecipients(c) /\ ~StartBroadcast(c)
  <2>1. /\ UNCHANGED <<row, pc>> /\ cancelled \subseteq cancelled'
        /\ status # "none" /\ status' # "none"
        /\ status' = "completed" => status = "completed"
    BY <1>4 DEF CallerStep, NewCall, PauseLookup, PauseCancel, PauseDelete, PauseStatus,
       CancelJob, CancelStatus, ResumeStatus, AloneInv
  <2>2. call[c].at # "createRows" /\ call'[c].at # "createRows"
    BY <1>4, <1>a DEF CallerStep, NewCall, PauseLookup, PauseCancel, PauseDelete, PauseStatus,
       CancelJob, CancelStatus, ResumeStatus
  <2> QED
    BY <1>0, <2>1, <2>2 DEF AloneInv, DrainInv, CompletedMeansDrained, Pending
<1> QED
  BY <1>1, <1>2, <1>3, <1>4 DEF CallerStep, NewCall

LEMMA EndDrainInv ==
  ASSUME AloneInv, DrainInv, ProcessDies
  PROVE  AloneInv' /\ DrainInv'
<1>1. /\ UNCHANGED <<status, row, cancelled>>
      /\ \A w \in Workers : pc'[w] \notin Running
      /\ \A c \in Callers : call'[c].at = "idle"
  BY DEF ProcessDies, Live, Running, Idle, db
<1> QED
  BY <1>1 DEF AloneInv, DrainInv, CompletedMeansDrained, Pending, Live, Running

LEMMA DrainStep ==
  ASSUME MaxFaults = 0, OneAtATime
  PROVE  IInv /\ AloneInv /\ DrainInv /\ [Next]_vars => AloneInv' /\ DrainInv'
<1> SUFFICES ASSUME IInv, AloneInv, DrainInv, [Next]_vars
             PROVE  AloneInv' /\ DrainInv'
  OBVIOUS
<1> USE DEF IInv, WorkInv
<1>1. ASSUME NEW w \in Workers, WorkerStep(w) PROVE AloneInv' /\ DrainInv'
  BY <1>1, WorkerDrainInv
<1>2. ASSUME NEW c \in Callers, CallerStep(c) \/ NewCall(c) PROVE AloneInv' /\ DrainInv'
  BY <1>2, CallerDrainInv
<1>3. CASE (\E c \in Callers : MapRace(c)) \/ Crash
  BY <1>3, EndDrainInv DEF MapRace, Crash
<1>4. CASE (\E b \in BOOLEAN : SetGroupPaused(b)) \/ UNCHANGED vars
  <2>1. UNCHANGED <<status, row, pc, cancelled, call>>
    BY <1>4 DEF SetGroupPaused, vars, db, ctl, local
  <2> QED
    BY <2>1 DEF AloneInv, DrainInv, CompletedMeansDrained, Pending, Live
<1> QED
  BY <1>1, <1>2, <1>3, <1>4 DEF Next

(***************************************************************************)
(* Without failing statements, and with requests that come one at a time,  *)
(* a completed broadcast has no recipient that waits: however many workers *)
(* are started and cancelled, whatever the chunk size, and wherever the    *)
(* process crashes (dispatcher.go, the loop of processBroadcast).          *)
(***************************************************************************)
THEOREM CompletedMeansDrainedHolds ==
  ASSUME MaxFaults = 0, OneAtATime
  PROVE  Spec => []CompletedMeansDrained
<1>1. Init => AloneInv /\ DrainInv
  BY DEF Init, Idle, AloneInv, DrainInv, CompletedMeansDrained, Live, Running
<1>2. IInv /\ AloneInv /\ DrainInv /\ [Next]_vars => AloneInv' /\ DrainInv'
  BY DrainStep
<1>3. DrainInv => CompletedMeansDrained
  BY DEF DrainInv
<1> QED
  BY <1>1, <1>2, <1>3, InductiveInvariant, PTL DEF Spec

-----------------------------------------------------------------------------
(* The progress columns count no recipient twice.                          *)

InHand(w) == IF pc[w] \in Holding THEN {cur[w]} ELSE {}

(* The settled recipients that a worker is not about to count.             *)
Worked(w) == Settled \ (todo[w] \cup InHand(w))

Total(t) == t.sent + t.failed

TallyInv ==
  /\ \A w \in Workers \ cancelled : Total(tally[w]) <= Cardinality(Worked(w))
  /\ ProgressWithinTotal

LEMMA FewerCounted ==
  ASSUME NEW S \in SUBSET Recipients, NEW T \in SUBSET S
  PROVE  /\ IsFiniteSet(S) /\ IsFiniteSet(T)
         /\ Cardinality(S) \in Nat /\ Cardinality(T) \in Nat /\ Cardinality(T) <= Cardinality(S)
<1>1. IsFiniteSet(S)
  BY BroadcastAssumption, FS_Subset
<1>2. IsFiniteSet(T) /\ Cardinality(T) <= Cardinality(S)
  BY <1>1, FS_Subset
<1> QED
  BY <1>1, <1>2, FS_CardinalityType

LEMMA OneMoreCounted ==
  ASSUME NEW S \in SUBSET Recipients, NEW T \in SUBSET S, NEW r \in S, r \notin T
  PROVE  Cardinality(T) + 1 <= Cardinality(S)
<1>1. IsFiniteSet(T) /\ T \cup {r} \in SUBSET S
  BY FewerCounted
<1>2. Cardinality(T \cup {r}) = Cardinality(T) + 1
  BY <1>1, FS_AddElement
<1> QED
  BY <1>1, <1>2, FewerCounted

LEMMA CountedTotal ==
  ASSUME NEW t \in [sent : Nat, failed : Nat], NEW outcome \in {"sent", "failed"}
  PROVE  Total(Counted(t, outcome)) = Total(t) + 1 /\ Total(t) \in Nat
BY DEF Counted, Total

(* Taking and dropping recipients leaves what has been worked off; to      *)
(* record one is to count it.                                              *)
LEMMA WorkerWorked ==
  ASSUME MaxFaults = 0, TypeOK, HoldingInv, NEW w \in Workers, WorkerStep(w), w \notin cancelled
  PROVE  /\ Worked(w) \subseteq Worked(w)'
         /\ \/ tally'[w] = tally[w]
            \/ Total(tally'[w]) = 0
            \/ /\ pc[w] \in {"noInstance", "recordSent", "recordFailed"}
               /\ Total(tally'[w]) = Total(tally[w]) + 1
               /\ cur[w] \in Worked(w)' /\ cur[w] \notin Worked(w)
<1> USE DEF Worked, InHand, Settled
<1>1. CASE Moves(w)
  <2>1. Moved(w)
    BY <1>1, MoveEffect
  <2>2. tally'[w] = tally[w] \/ Total(tally'[w]) = 0
    BY <1>1 DEF Moves, MarkStarted, SelectInstance, UpdateProgress, FinalProgress,
       MarkCompleted, Exit, NoTally, Total, TypeOK
  <2>3. Worked(w) \subseteq Worked(w)'
    BY <2>1 DEF Moved, Holding, Running
  <2> QED
    BY <2>2, <2>3
<1>2. CASE FetchChunk(w)
  <2>1. Fetched(w)
    BY <1>2, FetchEffect
  <2> QED
    BY <1>2, <2>1 DEF FetchChunk, Fetched, Holding, Pending
<1>3. CASE NextRecipient(w)
  <2>1. Took(w)
    BY <1>3, NextEffect
  <2> QED
    BY <1>3, <2>1 DEF NextRecipient, Took, Holding
<1>4. CASE SendTextMessage(w)
  <2>1. Sent(w)
    BY <1>4, SendEffect
  <2> QED
    BY <1>4, <2>1 DEF SendTextMessage, Sent, Holding
<1>5. CASE FailNoInstance(w)
  <2>1. /\ pc[w] = "noInstance" /\ pc'[w] \notin Holding /\ UNCHANGED todo
        /\ row' = [row EXCEPT ![cur[w]] = "failed"]
        /\ tally'[w] = Counted(tally[w], "failed")
    BY <1>5, Faultless DEF FailNoInstance, Goto, TypeOK, Holding
  <2>2. cur[w] \in Recipients /\ cur[w] \notin todo[w]
    BY <2>1 DEF HoldingInv, Holding
  <2>3. \A r \in Recipients : row'[r] = IF r = cur[w] THEN "failed" ELSE row[r]
    BY <2>1 DEF TypeOK
  <2>4. Total(tally'[w]) = Total(tally[w]) + 1
    BY <2>1, CountedTotal DEF TypeOK
  <2> QED
    BY <2>1, <2>2, <2>3, <2>4 DEF Holding
<1>6. CASE RecordOutcome(w)
  <2>1. PICK outcome \in {"sent", "failed"} :
          /\ pc[w] \in {"recordSent", "recordFailed"} /\ pc'[w] \notin Holding /\ UNCHANGED todo
          /\ row' = [row EXCEPT ![cur[w]] = outcome]
          /\ tally'[w] = Counted(tally[w], outcome)
    BY <1>6, Faultless DEF RecordOutcome, Goto, TypeOK, Holding
  <2>2. cur[w] \in Recipients /\ cur[w] \notin todo[w]
    BY <2>1 DEF HoldingInv, Holding
  <2>3. \A r \in Recipients : row'[r] = IF r = cur[w] THEN outcome ELSE row[r]
    BY <2>1 DEF TypeOK
  <2>4. Total(tally'[w]) = Total(tally[w]) + 1
    BY <2>1, CountedTotal DEF TypeOK
  <2> QED
    BY <2>1, <2>2, <2>3, <2>4 DEF Holding
<1> QED
  BY <1>1, <1>2, <1>3, <1>4, <1>5, <1>6 DEF WorkerStep, Moves

(* The other workers' chunks and hands stay as they are.                   *)
LEMMA OthersWorked ==
  ASSUME TypeOK, HoldingInv, NEW w \in Workers, WorkerStep(w), NEW v \in Workers \ {w}
  PROVE  Worked(v) \subseteq Worked(v)' /\ tally'[v] = tally[v]
<1>1. UNCHANGED <<todo[v], cur[v], tally[v], pc[v]>>
  BY DEF WorkerStep, MarkStarted, FetchChunk, FetchOk, NextRecipient, SelectInstance,
     FailNoInstance, SendTextMessage, RecordOutcome, UpdateProgress, FinalProgress,
     MarkCompleted, Exit, Goto, TypeOK
<1>2. Settled \subseteq Settled'
  BY WorkerRows
<1> QED
  BY <1>1, <1>2 DEF Worked, InHand

LEMMA WorkerTallyInv ==
  ASSUME MaxFaults = 0, TypeOK, TypeOK', HoldingInv, TallyInv, NEW w \in Workers, WorkerStep(w)
  PROVE  TallyInv'
<1>1. UNCHANGED cancelled
  BY WorkerRows
<1>2. ASSUME NEW v \in Workers \ cancelled PROVE Total(tally'[v]) <= Cardinality(Worked(v)')
  <2>0. /\ Worked(v) \in SUBSET Recipients /\ Worked(v)' \in SUBSET Recipients
        /\ Total(tally[v]) \in Nat /\ Total(tally[v]) <= Cardinality(Worked(v))
    BY <1>2, CountedTotal DEF Worked, Settled, TallyInv, TypeOK
  <2>1. Worked(v) \subseteq Worked(v)'
    BY <1>2, WorkerWorked, OthersWorked
  <2>2. /\ Cardinality(Worked(v)) \in Nat /\ Cardinality(Worked(v)') \in Nat
        /\ Cardinality(Worked(v)) <= Cardinality(Worked(v)')
    BY <2>0, <2>1, FewerCounted
  <2>3. CASE tally'[v] = tally[v] \/ Total(tally'[v]) = 0
    BY <2>0, <2>2, <2>3
  <2>4. CASE tally'[v] # tally[v] /\ Total(tally'[v]) # 0
    <3>1. v = w
      BY <2>4, OthersWorked
    <3>2. /\ Total(tally'[v]) = Total(tally[v]) + 1
          /\ cur[v] \in Worked(v)' /\ cur[v] \notin Worked(v)
      BY <1>2, <2>4, <3>1, WorkerWorked
    <3>3. Cardinality(Worked(v)) + 1 <= Cardinality(Worked(v)')
      BY <2>0, <2>1, <3>2, OneMoreCounted
    <3> QED
      BY <2>0, <2>2, <3>2, <3>3
  <2> QED
    BY <2>3, <2>4
<1>3. ProgressWithinTotal'
  <2>1. UNCHANGED progress \/ (w \notin cancelled /\ progress' = tally[w])
    BY DEF WorkerStep, MarkStarted, FetchChunk, NextRecipient, SelectInstance,
       FailNoInstance, SendTextMessage, RecordOutcome, UpdateProgress, FinalProgress,
       SaveProgress, DbOk, MarkCompleted, Exit, db
  <2>2. CASE w \notin cancelled /\ progress' = tally[w]
    <3>1. Worked(w) \in SUBSET Recipients
      BY DEF Worked, Settled
    <3>2. /\ Cardinality(Worked(w)) \in Nat /\ Cardinality(Recipients) \in Nat
          /\ Cardinality(Worked(w)) <= Cardinality(Recipients)
      BY <3>1, FewerCounted
    <3>3. Total(tally[w]) \in Nat /\ Total(tally[w]) <= Cardinality(Worked(w))
      BY <2>2, CountedTotal DEF TallyInv, TypeOK
    <3> QED
      BY <2>2, <3>2, <3>3 DEF ProgressWithinTotal, Total
  <2> QED
    BY <2>1, <2>2 DEF TallyInv, ProgressWithinTotal
<1> QED
  BY <1>1, <1>2, <1>3 DEF TallyInv

(* Requests change no tally, and make rows of recipients that have none.   *)
LEMMA CallerTallyInv ==
  ASSUME IInv, TallyInv, NEW c \in Callers, CallerStep(c) \/ NewCall(c)
  PROVE  TallyInv'
<1>1. /\ UNCHANGED <<progress, todo, cur, tally>>
      /\ cancelled \subseteq cancelled'
  BY DEF CallerStep, NewCall, CreateBroadcast, CreateRecipients, StartBroadcast, PauseLookup,
     PauseCancel, PauseDelete, PauseStatus, CancelJob, CancelStatus, ResumeStatus, db, local
<1>2. Settled \subseteq Settled'
  <2>1. CASE CreateRecipients(c)
    BY <2>1 DEF CreateRecipients, At, IInv, CreationInv, Settled
  <2>2. CASE ~CreateRecipients(c)
    BY <2>2 DEF CallerStep, NewCall, CreateBroadcast, StartBroadcast, PauseLookup, PauseCancel,
       PauseDelete, PauseStatus, CancelJob, CancelStatus, ResumeStatus, db, Settled
  <2> QED
    BY <2>1, <2>2
<1>3. \A w \in Workers : pc'[w] \in Holding => pc'[w] = pc[w]
  <2>1. UNCHANGED pc \/ \E w \in Workers : pc' = [pc EXCEPT ![w] = "start"]
    BY DEF CallerStep, NewCall, CreateBroadcast, CreateRecipients, StartBroadcast, PauseLookup,
       PauseCancel, PauseDelete, PauseStatus, CancelJob, CancelStatus, ResumeStatus, local, Goto
  <2> QED
    BY <2>1 DEF IInv, TypeOK, Holding
<1>4. ASSUME NEW w \in Workers \ cancelled PROVE Total(tally[w]) <= Cardinality(Worked(w)')
  <2>1. Worked(w) \subseteq Worked(w)' /\ Worked(w)' \in SUBSET Recipients
    BY <1>1, <1>2, <1>3 DEF Worked, InHand, Settled
  <2>2. /\ Cardinality(Worked(w)) \in Nat /\ Cardinality(Worked(w)') \in Nat
        /\ Cardinality(Worked(w)) <= Cardinality(Worked(w)')
    BY <2>1, FewerCounted
  <2>3. Total(tally[w]) \in Nat /\ Total(tally[w]) <= Cardinality(Worked(w))
    BY CountedTotal DEF TallyInv, IInv, TypeOK
  <2> QED
    BY <2>2, <2>3
<1> QED
  BY <1>1, <1>4 DEF TallyInv, ProgressWithinTotal

LEMMA EndTallyInv == ASSUME TallyInv, ProcessDies PROVE TallyInv'
<1>1. UNCHANGED progress /\ \A w \in Workers : Total(tally'[w]) = 0
  BY DEF ProcessDies, NoTally, Total, db
<1>2. \A w \in Workers : Worked(w)' \in SUBSET Recipients
  BY DEF Worked, Settled
<1>3. \A w \in Workers : Cardinality(Worked(w)') \in Nat
  BY <1>2, FewerCounted
<1> QED
  BY <1>1, <1>3 DEF TallyInv, ProgressWithinTotal

LEMMA TallyStep ==
  ASSUME MaxFaults = 0
  PROVE  IInv /\ TallyInv /\ [Next]_vars => TallyInv'
<1> SUFFICES ASSUME IInv, TallyInv, [Next]_vars PROVE TallyInv'
  OBVIOUS
<1> USE DEF IInv, WorkInv
<1>0. TypeOK'
  BY TypeStep
<1>1. ASSUME NEW w \in Workers, WorkerStep(w) PROVE TallyInv'
  BY <1>0, <1>1, WorkerTallyInv
<1>2. ASSUME NEW c \in Callers, CallerStep(c) \/ NewCall(c) PROVE TallyInv'
  BY <1>2, CallerTallyInv
<1>3. CASE (\E c \in Callers : MapRace(c)) \/ Crash
  BY <1>3, EndTallyInv DEF MapRace, Crash
<1>4. CASE (\E b \in BOOLEAN : SetGroupPaused(b)) \/ UNCHANGED vars
  <2>1. UNCHANGED <<row, progress, pc, todo, cur, tally, cancelled>>
    BY <1>4 DEF SetGroupPaused, vars, db, ctl, local
  <2> QED
    BY <2>1 DEF TallyInv, ProgressWithinTotal, Worked, Settled, InHand
<1> QED
  BY <1>1, <1>2, <1>3, <1>4 DEF Next

(***************************************************************************)
(* Without failing statements the progress columns never count more than   *)
(* there are recipients, however many requests and workers overlap.        *)
(***************************************************************************)
THEOREM ProgressWithinTotalHolds ==
  ASSUME MaxFaults = 0
  PROVE  Spec => []ProgressWithinTotal
<1>1. Init => TallyInv
  <2> SUFFICES ASSUME Init PROVE TallyInv
    OBVIOUS
  <2>1. progress.sent + progress.failed = 0 /\ \A w \in Workers : Total(tally[w]) = 0
    BY DEF Init, NoTally, Total
  <2>2. \A w \in Workers : Worked(w) \in SUBSET Recipients
    BY DEF Worked, Settled
  <2>3. Cardinality(Recipients) \in Nat /\ \A w \in Workers : Cardinality(Worked(w)) \in Nat
    BY <2>2, FewerCounted
  <2> QED
    BY <2>1, <2>3 DEF TallyInv, ProgressWithinTotal
<1>2. IInv /\ TallyInv /\ [Next]_vars => TallyInv'
  BY TallyStep
<1>3. TallyInv => ProgressWithinTotal
  BY DEF TallyInv
<1> QED
  BY <1>1, <1>2, <1>3, InductiveInvariant, PTL DEF Spec

-----------------------------------------------------------------------------
(* What a pause or a cancel stops, when requests come one at a time and    *)
(* only one worker is ever started.                                        *)

OneWorker == \A v, w \in Workers : v = w

StopInv ==
  \A w \in Workers : Live(w) =>
    /\ activeJobs = w \/ w \in cancelled
    /\ status \in {"paused", "cancelled"} => w \in cancelled
    /\ \A c \in Callers :
         /\ call[c].at \notin {"createRows", "start"}
         /\ call[c].at = "pauseCancel" => call[c].job = w
         /\ call[c].at \in {"pauseDelete", "pauseStatus", "cancelStatus"} => w \in cancelled

(* A request that is about to start a worker follows no pause or cancel.   *)
StartingInv ==
  \A c \in Callers :
    call[c].at \in {"createRows", "start"} => status \in {"pending", "processing"}

LEMMA WorkerStopInv ==
  ASSUME OneWorker, TypeOK, StopInv, StartingInv, NEW w \in Workers, WorkerStep(w)
  PROVE  StopInv' /\ StartingInv'
<1>1. /\ Live(w) /\ \A v \in Workers : v = w
      /\ UNCHANGED <<cancelled, call>>
  BY DEF OneWorker, Live, Running, WorkerStep, MarkStarted, FetchChunk, FetchOk, NextRecipient,
     SelectInstance, FailNoInstance, SendTextMessage, RecordOutcome, UpdateProgress,
     FinalProgress, MarkCompleted, Exit, ctl
<1>2. status' = status \/ status' \in {"processing", "completed"}
  BY DEF WorkerStep, MarkStarted, FetchChunk, NextRecipient, SelectInstance,
     FailNoInstance, SendTextMessage, RecordOutcome, UpdateProgress, FinalProgress,
     MarkCompleted, Exit, db
<1>3. UNCHANGED activeJobs \/ pc'[w] = "done"
  BY DEF WorkerStep, MarkStarted, FetchChunk, NextRecipient, SelectInstance,
     FailNoInstance, SendTextMessage, RecordOutcome, UpdateProgress, FinalProgress,
     MarkCompleted, Exit, Goto, ctl, TypeOK
<1>4. \A c \in Callers : call[c].at \notin {"createRows", "start"}
  BY <1>1 DEF StopInv
<1>5. StopInv'
  <2>1. CASE pc'[w] = "done"
    BY <1>1, <2>1 DEF StopInv, Live, Running
  <2>2. CASE pc'[w] # "done"
    BY <1>1, <1>2, <1>3, <2>2 DEF StopInv
  <2> QED
    BY <2>1, <2>2
<1> QED
  BY <1>1, <1>4, <1>5 DEF StartingInv

(* A request that may start a worker finds the only one unborn.            *)
LEMMA StartFindsNoneLive ==
  ASSUME OneAtATime, OneWorker, NEW c \in Callers, call[c].at = "idle", StartsLeft
  PROVE  \A w \in Workers : ~Live(w)
<1>1. {d \in Callers : call[d].at \in {"createRows", "start"}} = {}
  BY DEF OneAtATime
<1>2. Cardinality({}) = 0
  BY FS_EmptySet
<1>3. ~(0 < 0)
  OBVIOUS
<1>4. {w \in Workers : pc[w] = "unborn"} # {}
  BY <1>1, <1>2, <1>3, Zenon DEF StartsLeft
<1> QED
  BY <1>4 DEF OneWorker, Live, Running

LEMMA CallerStopInv ==
  ASSUME OneAtATime, OneWorker, TypeOK, StopInv, StartingInv, NEW c \in Callers,
         CallerStep(c) \/ NewCall(c)
  PROVE  StopInv' /\ StartingInv'
<1> USE DEF At, Then, Return, Idle, db, local, NoFault
<1>0. \A d \in Callers : d = c
  BY DEF OneAtATime
<1>a. call \in [Callers -> Request] /\ call[c] \in Request
  BY DEF TypeOK
<1>1. CASE CreateBroadcast(c) \/ ResumeStatus(c)
  <2>1. /\ UNCHANGED <<pc, cancelled, activeJobs>>
        /\ \/ status' \in {"pending", "processing"}
           \/ UNCHANGED <<status, call>>
    BY <1>1 DEF CreateBroadcast, ResumeStatus
  <2>2. \A w \in Workers : ~Live(w)
    BY <1>1, StartFindsNoneLive DEF CreateBroadcast, ResumeStatus
  <2> QED
    BY <1>0, <2>1, <2>2 DEF StopInv, StartingInv, Live
<1>2. CASE CreateRecipients(c)
  <2>1. /\ UNCHANGED <<pc, cancelled, activeJobs, status>>
        /\ call[c].at = "createRows"
    BY <1>2 DEF CreateRecipients
  <2>2. status \in {"pending", "processing"} /\ \A w \in Workers : ~Live(w)
    BY <2>1 DEF StopInv, StartingInv
  <2> QED
    BY <1>0, <2>1, <2>2 DEF StopInv, StartingInv, Live
<1>3. CASE StartBroadcast(c)
  <2>1. PICK w \in Workers : /\ pc[w] = "unborn" /\ activeJobs' = w
                             /\ pc' = [pc EXCEPT ![w] = "start"]
    BY <1>3 DEF StartBroadcast, Goto
  <2>2. /\ call[c].at = "start" /\ call'[c].at = "idle" /\ UNCHANGED <<status, cancelled>>
    BY <1>3, <1>a DEF StartBroadcast
  <2>3. status \in {"pending", "processing"} /\ \A v \in Workers : v = w
    BY <2>2 DEF StartingInv, OneWorker
  <2> QED
    BY <1>0, <2>1, <2>2, <2>3 DEF StopInv, StartingInv
<1>4. CASE PauseLookup(c)
  <2>1. /\ UNCHANGED <<pc, cancelled, activeJobs, status>>
        /\ call'[c] = [at |-> IF activeJobs = NoOne THEN "pauseStatus" ELSE "pauseCancel",
                       job |-> activeJobs]
    BY <1>4, <1>a DEF PauseLookup
  <2>2. activeJobs = NoOne => \A w \in Workers : Live(w) => w \in cancelled
    BY BroadcastAssumption DEF StopInv
  <2>3. \A w \in Workers : Live(w) /\ activeJobs # NoOne => activeJobs = w
    BY DEF TypeOK, OneWorker
  <2> QED
    BY <1>0, <2>1, <2>2, <2>3 DEF StopInv, StartingInv, Live
<1>5. CASE PauseCancel(c)
  <2>1. /\ UNCHANGED <<pc, activeJobs, status>> /\ cancelled' = cancelled \cup {call[c].job}
        /\ call[c].at = "pauseCancel" /\ call'[c] = [at |-> "pauseDelete", job |-> NoOne]
    BY <1>5, <1>a DEF PauseCancel
  <2> QED
    BY <1>0, <2>1 DEF StopInv, StartingInv, Live
<1>6. CASE PauseDelete(c)
  <2>1. /\ UNCHANGED <<pc, cancelled, status>>
        /\ call[c].at = "pauseDelete" /\ call'[c].at = "pauseStatus"
    BY <1>6, <1>a DEF PauseDelete, Request
  <2> QED
    BY <1>0, <2>1 DEF StopInv, StartingInv, Live
<1>7. CASE PauseStatus(c) \/ CancelStatus(c)
  <2>1. /\ UNCHANGED <<pc, cancelled, activeJobs>>
        /\ call[c].at \in {"pauseStatus", "cancelStatus"} /\ call'[c].at = "idle"
    BY <1>7, <1>a DEF PauseStatus, CancelStatus
  <2> QED
    BY <1>0, <2>1 DEF StopInv, StartingInv, Live
<1>8. CASE CancelJob(c)
  <2>1. /\ UNCHANGED <<pc, status>> /\ cancelled' = cancelled \cup RegisteredJob
        /\ call'[c].at = "cancelStatus"
    BY <1>8, <1>a DEF CancelJob, Request
  <2>2. \A w \in Workers : Live(w) => w \in cancelled'
    BY <2>1, BroadcastAssumption DEF StopInv, RegisteredJob
  <2> QED
    BY <1>0, <2>1, <2>2 DEF StopInv, StartingInv, Live
<1> QED
  BY <1>1, <1>2, <1>3, <1>4, <1>5, <1>6, <1>7, <1>8 DEF CallerStep, NewCall

LEMMA EndStopInv == ASSUME ProcessDies PROVE StopInv' /\ StartingInv'
<1>1. /\ \A w \in Workers : pc'[w] \notin Running
      /\ \A c \in Callers : call'[c].at = "idle"
  BY DEF ProcessDies, Live, Running, Idle
<1> QED
  BY <1>1 DEF StopInv, StartingInv, Live

LEMMA StopStep ==
  ASSUME OneAtATime, OneWorker
  PROVE  IInv /\ StopInv /\ StartingInv /\ [Next]_vars => StopInv' /\ StartingInv'
<1> SUFFICES ASSUME IInv, StopInv, StartingInv, [Next]_vars
             PROVE  StopInv' /\ StartingInv'
  OBVIOUS
<1> USE DEF IInv
<1>1. ASSUME NEW w \in Workers, WorkerStep(w) PROVE StopInv' /\ StartingInv'
  BY <1>1, WorkerStopInv
<1>2. ASSUME NEW c \in Callers, CallerStep(c) \/ NewCall(c) PROVE StopInv' /\ StartingInv'
  BY <1>2, CallerStopInv
<1>3. CASE (\E c \in Callers : MapRace(c)) \/ Crash
  BY <1>3, EndStopInv DEF MapRace, Crash
<1>4. CASE (\E b \in BOOLEAN : SetGroupPaused(b)) \/ UNCHANGED vars
  <2>1. UNCHANGED <<status, pc, cancelled, call, activeJobs>>
    BY <1>4 DEF SetGroupPaused, vars, db, ctl, local
  <2> QED
    BY <2>1 DEF StopInv, StartingInv, Live
<1> QED
  BY <1>1, <1>2, <1>3, <1>4 DEF Next

(***************************************************************************)
(* Of a broadcast that is started once, with requests that come one at a   *)
(* time, no worker goes on uncancelled behind a pause or a cancel that has *)
(* answered: whichever statements fail and wherever the process crashes    *)
(* (dispatcher.go, PauseBroadcast and CancelBroadcast).                    *)
(***************************************************************************)
THEOREM StoppedMeansStoppedHolds ==
  ASSUME OneAtATime, OneWorker
  PROVE  Spec => []StoppedMeansStopped
<1>1. Init => StopInv /\ StartingInv
  BY DEF Init, Idle, StopInv, StartingInv, Live, Running
<1>2. IInv /\ StopInv /\ StartingInv /\ [Next]_vars => StopInv' /\ StartingInv'
  BY StopStep
<1>3. StopInv => StoppedMeansStopped
  BY DEF StopInv, StoppedMeansStopped
<1> QED
  BY <1>1, <1>2, <1>3, InductiveInvariant, PTL DEF Spec

-----------------------------------------------------------------------------
(* What the progress columns of a completed broadcast add up to, when it   *)
(* runs undisturbed: one worker, requests one at a time, no statement      *)
(* fails and no crash.                                                     *)

(* The rows are made before a request can ask for a worker.                *)
RowsInv ==
  \/ status = "none"
  \/ \E c \in Callers : call[c].at = "createRows"
  \/ \A r \in Recipients : row[r] # "absent"

(* A worker has counted every settled recipient, and those it holds wait.  *)
CountsAll(w) ==
  /\ todo[w] \cup InHand(w) \subseteq Pending
  /\ Total(tally[w]) = Cardinality(Settled)

SumInv ==
  /\ \A w \in Workers \ cancelled :
       /\ pc[w] \in Running \cup {"unborn"} => CountsAll(w)
       /\ pc[w] = "unborn" => tally[w] = NoTally
       /\ pc[w] = "complete" => progress = tally[w]
  /\ status = "completed" =>
       /\ \A w \in Workers : pc[w] \in {"exit", "done", "dead"}
       /\ Total(progress) = Cardinality(Recipients)

LEMMA WorkerSettles ==
  ASSUME MaxFaults = 0, TypeOK, HoldingInv, NEW w \in Workers, WorkerStep(w), w \notin cancelled,
         todo[w] \cup InHand(w) \subseteq Pending, pc'[w] # "done"
  PROVE  /\ todo'[w] \cup InHand(w)' \subseteq Pending'
         /\ \/ Settled' = Settled /\ tally'[w] = tally[w]
            \/ \E r \in Recipients \ Settled :
                 Settled' = Settled \cup {r} /\ Total(tally'[w]) = Total(tally[w]) + 1
<1> USE DEF InHand, Settled, Pending
<1>1. CASE Moves(w)
  <2>1. Moved(w)
    BY <1>1, MoveEffect
  <2>2. tally'[w] = tally[w]
    BY <1>1 DEF Moves, MarkStarted, SelectInstance, UpdateProgress, FinalProgress,
       MarkCompleted, Exit, Goto, TypeOK
  <2> QED
    BY <2>1, <2>2 DEF Moved, Holding
<1>2. CASE FetchChunk(w)
  <2>1. Fetched(w)
    BY <1>2, FetchEffect
  <2> QED
    BY <1>2, <2>1 DEF FetchChunk, Fetched, Holding
<1>3. CASE NextRecipient(w)
  <2>1. Took(w)
    BY <1>3, NextEffect
  <2> QED
    BY <1>3, <2>1 DEF NextRecipient, Took, Holding
<1>4. CASE SendTextMessage(w)
  <2>1. Sent(w)
    BY <1>4, SendEffect
  <2> QED
    BY <1>4, <2>1 DEF SendTextMessage, Sent, Holding
<1>5. CASE FailNoInstance(w) \/ RecordOutcome(w)
  <2>1. PICK outcome \in {"sent", "failed"} :
          /\ pc[w] \in Holding /\ pc'[w] \notin Holding /\ UNCHANGED todo
          /\ row' = [row EXCEPT ![cur[w]] = outcome]
          /\ tally'[w] = Counted(tally[w], outcome)
    BY <1>5, Faultless DEF FailNoInstance, RecordOutcome, Goto, TypeOK, Holding
  <2>2. cur[w] \in Pending /\ cur[w] \notin todo[w]
    BY <2>1 DEF HoldingInv
  <2>3. \A r \in Recipients : row'[r] = IF r = cur[w] THEN outcome ELSE row[r]
    BY <2>1 DEF TypeOK
  <2>4. Total(tally'[w]) = Total(tally[w]) + 1
    BY <2>1, CountedTotal DEF TypeOK
  <2>5. Settled' = Settled \cup {cur[w]} /\ cur[w] \in Recipients \ Settled
    BY <2>2, <2>3
  <2>6. todo'[w] \cup InHand(w)' \subseteq Pending'
    BY <2>1, <2>2, <2>3
  <2> QED
    BY <2>4, <2>5, <2>6
<1> QED
  BY <1>1, <1>2, <1>3, <1>4, <1>5 DEF WorkerStep, Moves

LEMMA WorkerCountsAll ==
  ASSUME MaxFaults = 0, TypeOK, HoldingInv, NEW w \in Workers, WorkerStep(w), w \notin cancelled,
         CountsAll(w), pc'[w] # "done"
  PROVE  CountsAll(w)'
<1>1. CASE Settled' = Settled /\ tally'[w] = tally[w]
  BY <1>1, WorkerSettles DEF CountsAll
<1>2. CASE \E r \in Recipients \ Settled :
             Settled' = Settled \cup {r} /\ Total(tally'[w]) = Total(tally[w]) + 1
  <2>1. PICK r \in Recipients \ Settled :
             Settled' = Settled \cup {r} /\ Total(tally'[w]) = Total(tally[w]) + 1
    BY <1>2
  <2>2. IsFiniteSet(Settled)
    BY FewerCounted DEF Settled
  <2>3. Cardinality(Settled') = Cardinality(Settled) + 1
    BY <2>1, <2>2, FS_AddElement
  <2> QED
    BY <2>1, <2>3, WorkerSettles DEF CountsAll
<1> QED
  BY <1>1, <1>2, WorkerSettles DEF CountsAll

LEMMA WorkerSumInv ==
  ASSUME MaxFaults = 0, OneWorker, TypeOK, HoldingInv, AloneInv, DrainInv, RowsInv, SumInv,
         NEW w \in Workers, WorkerStep(w)
  PROVE  RowsInv' /\ SumInv'
<1>1. /\ Live(w) /\ UNCHANGED <<cancelled, call>> /\ \A v \in Workers : v = w
  BY WorkerRows DEF OneWorker
<1>2. \A r \in Recipients : row[r] # "absent"
  BY <1>1 DEF RowsInv, AloneInv
<1>3. \A r \in Recipients : row'[r] # "absent"
  <2>1. CASE FailNoInstance(w)
    BY <1>2, <2>1, FailEffect DEF Failed
  <2>2. CASE RecordOutcome(w)
    BY <1>2, <2>2, RecordEffect DEF Recorded
  <2>3. CASE ~(FailNoInstance(w) \/ RecordOutcome(w))
    BY <1>2, <2>3 DEF WorkerStep, MarkStarted, FetchChunk, NextRecipient, SelectInstance,
       SendTextMessage, UpdateProgress, FinalProgress, MarkCompleted, Exit, db
  <2> QED
    BY <2>1, <2>2, <2>3
<1>4. ASSUME w \notin cancelled
      PROVE  /\ pc'[w] \in Running \cup {"unborn"} => CountsAll(w)'
             /\ pc'[w] # "unborn"
             /\ pc'[w] = "complete" => progress' = tally'[w]
  <2>1. pc'[w] \in Running \cup {"unborn"} => CountsAll(w)'
    BY <1>1, <1>4, WorkerCountsAll DEF SumInv, Live, Running
  <2>2. ASSUME pc'[w] = "complete" PROVE progress' = tally'[w]
    <3>1. pc[w] = "final"
      <4>1. CASE FetchChunk(w)
        BY <1>4, <2>2, <4>1 DEF FetchChunk, FetchOk, Goto, TypeOK
      <4>2. CASE ~FetchChunk(w)
        BY <2>2, <4>2 DEF WorkerStep, MarkStarted, NextRecipient, AfterChunk, SelectInstance,
           FailNoInstance, SendTextMessage, AfterSendError, RecordOutcome, UpdateProgress,
           FinalProgress, MarkCompleted, Exit, Goto, TypeOK
      <4> QED
        BY <4>1, <4>2
    <3>2. FinalProgress(w)
      BY <3>1 DEF WorkerStep, MarkStarted, FetchChunk, NextRecipient, SelectInstance,
         FailNoInstance, SendTextMessage, RecordOutcome, UpdateProgress, MarkCompleted, Exit
    <3> QED
      BY <1>4, <3>2, Faultless DEF FinalProgress, SaveProgress
  <2>3. pc'[w] # "unborn"
    BY <1>1 DEF WorkerStep, MarkStarted, FetchChunk, FetchOk, NextRecipient, AfterChunk,
       SelectInstance, FailNoInstance, SendTextMessage, AfterSendError, RecordOutcome,
       UpdateProgress, FinalProgress, MarkCompleted, Exit, Goto, TypeOK
  <2> QED
    BY <2>1, <2>2, <2>3
<1>5. ASSUME status' = "completed"
      PROVE  pc'[w] \in {"exit", "done", "dead"} /\ Total(progress') = Cardinality(Recipients)
  <2>1. CASE MarkCompleted(w) /\ w \notin cancelled
    <3>1. pc[w] = "complete" /\ pc'[w] = "exit" /\ UNCHANGED progress
      BY <2>1 DEF MarkCompleted, Goto, TypeOK
    <3>2. Pending = {} /\ CountsAll(w) /\ progress = tally[w]
      BY <2>1, <3>1 DEF DrainInv, SumInv, Running
    <3>3. Settled = Recipients
      BY <1>2, <3>2 DEF Settled, Pending, TypeOK
    <3> QED
      BY <3>1, <3>2, <3>3 DEF CountsAll
  <2>2. CASE ~MarkCompleted(w) \/ w \in cancelled
    <3>1. status = "completed"
      BY <1>5, <2>2 DEF WorkerStep, MarkStarted, FetchChunk, NextRecipient, SelectInstance,
         FailNoInstance, SendTextMessage, RecordOutcome, UpdateProgress, FinalProgress,
         MarkCompleted, Exit, DbOk, db
    <3>2. pc[w] = "exit" /\ Total(progress) = Cardinality(Recipients)
      BY <1>1, <3>1 DEF SumInv, Live, Running
    <3>3. Exit(w)
      BY <3>2 DEF WorkerStep, MarkStarted, FetchChunk, NextRecipient, SelectInstance,
         FailNoInstance, SendTextMessage, RecordOutcome, UpdateProgress, FinalProgress,
         MarkCompleted
    <3> QED
      BY <3>2, <3>3 DEF Exit, Goto, TypeOK, db
  <2> QED
    BY <2>1, <2>2
<1> QED
  BY <1>1, <1>3, <1>4, <1>5 DEF RowsInv, SumInv

LEMMA CallerSumInv ==
  ASSUME MaxFaults = 0, OneAtATime, OneWorker, TypeOK, CreationInv, AloneInv, RowsInv, SumInv,
         NEW c \in Callers, CallerStep(c) \/ NewCall(c)
  PROVE  RowsInv' /\ SumInv'
<1> USE DEF At, Then, Return, Idle, db, local
<1>0. \A d \in Callers : d = c
  BY DEF OneAtATime
<1>a. call \in [Callers -> Request] /\ call[c] \in Request
  BY DEF TypeOK
<1>1. CASE CreateBroadcast(c)
  <2>1. /\ status' = "pending" /\ UNCHANGED <<row, pc, todo, cur, tally, progress, cancelled>>
        /\ call'[c].at = "createRows"
    BY <1>1, <1>a DEF CreateBroadcast, Request
  <2> QED
    BY <2>1 DEF RowsInv, SumInv, CountsAll, InHand, Settled, Pending
<1>2. CASE CreateRecipients(c)
  <2>1. /\ status' = status /\ UNCHANGED <<pc, todo, cur, tally, progress, cancelled>>
        /\ row' = [r \in Recipients |-> "pending"]
        /\ call[c].at = "createRows"
    BY <1>2, Faultless DEF CreateRecipients
  <2>2. \A r \in Recipients : row[r] = "absent"
    BY <2>1 DEF CreationInv
  <2>3. Settled' = Settled /\ Pending \subseteq Pending'
    BY <2>1, <2>2 DEF Settled, Pending
  <2>4. RowsInv'
    BY <2>1 DEF RowsInv
  <2> QED
    BY <2>1, <2>3, <2>4 DEF SumInv, CountsAll, InHand
<1>3. CASE StartBroadcast(c)
  <2>1. PICK w \in Workers : pc[w] = "unborn" /\ pc' = [pc EXCEPT ![w] = "start"]
    BY <1>3 DEF StartBroadcast, Goto
  <2>2. /\ call[c].at = "start" /\ call'[c].at = "idle"
        /\ UNCHANGED <<status, row, progress, todo, cur, tally, cancelled>>
    BY <1>3, <1>a DEF StartBroadcast
  <2>3. pc'[w] = "start" /\ \A v \in Workers : v = w
    BY <2>1 DEF OneWorker, TypeOK
  <2>4. status # "completed" /\ UNCHANGED <<Settled, Pending>>
    BY <2>1, <2>2 DEF SumInv, Settled, Pending
  <2>5. InHand(w)' = InHand(w)
    BY <2>1, <2>3 DEF InHand, Holding
  <2>6. RowsInv'
    BY <1>0, <2>2 DEF RowsInv
  <2> QED
    BY <2>1, <2>2, <2>3, <2>4, <2>5, <2>6 DEF SumInv, CountsAll
<1>4. CASE ~CreateBroadcast(c) /\ ~CreateRecipients(c) /\ ~StartBroadcast(c)
  <2>1. /\ UNCHANGED <<row, pc, todo, cur, tally, progress>> /\ cancelled \subseteq cancelled'
        /\ status # "none" /\ status' # "none"
        /\ status' = "completed" => status = "completed"
    BY <1>4 DEF CallerStep, NewCall, PauseLookup, PauseCancel, PauseDelete, PauseStatus,
       CancelJob, CancelStatus, ResumeStatus, AloneInv
  <2>2. call[c].at # "createRows"
    BY <1>4 DEF CallerStep, NewCall, PauseLookup, PauseCancel, PauseDelete, PauseStatus,
       CancelJob, CancelStatus, ResumeStatus
  <2>3. RowsInv'
    BY <1>0, <2>1, <2>2 DEF RowsInv
  <2> QED
    BY <2>1, <2>3 DEF SumInv, CountsAll, InHand, Settled, Pending
<1> QED
  BY <1>1, <1>2, <1>3, <1>4 DEF CallerStep, NewCall

(* A map race needs a pause in flight, so the rows are there.              *)
LEMMA RaceSumInv ==
  ASSUME OneAtATime, TypeOK, AloneInv, RowsInv, SumInv, NEW c \in Callers, MapRace(c)
  PROVE  RowsInv' /\ SumInv'
<1>1. /\ UNCHANGED <<status, row, progress, cancelled>>
      /\ \A w \in Workers : /\ pc'[w] = IF Live(w) THEN "dead" ELSE pc[w]
                            /\ todo'[w] = {} /\ tally'[w] = NoTally
      /\ call[c].at = "pauseDelete"
  BY DEF MapRace, ProcessDies, At, db
<1>2. \A r \in Recipients : row[r] # "absent"
  BY <1>1 DEF OneAtATime, AloneInv, RowsInv
<1>3. ASSUME NEW w \in Workers \ cancelled, pc'[w] \in Running \cup {"unborn"}
      PROVE  CountsAll(w)' /\ pc'[w] = "unborn" /\ tally'[w] = NoTally
  <2>1. pc[w] = "unborn" /\ pc'[w] = "unborn"
    BY <1>1, <1>3 DEF Live, Running
  <2>2. Total(tally[w]) = Cardinality(Settled) /\ tally[w] = NoTally
    BY <2>1 DEF SumInv, CountsAll
  <2>3. UNCHANGED Settled /\ InHand(w)' = {}
    BY <1>1, <2>1 DEF Settled, InHand, Holding
  <2> QED
    BY <1>1, <2>1, <2>2, <2>3 DEF CountsAll
<1>4. \A w \in Workers : pc[w] \in {"exit", "done", "dead"} => pc'[w] \in {"exit", "done", "dead"}
  BY <1>1
<1> QED
  BY <1>1, <1>2, <1>3, <1>4 DEF RowsInv, SumInv, Running

LEMMA SumStep ==
  ASSUME MaxFaults = 0, MaxCrashes = 0, OneAtATime, OneWorker
  PROVE  IInv /\ AloneInv /\ DrainInv /\ RowsInv /\ SumInv /\ [Next]_vars
           => RowsInv' /\ SumInv'
<1> SUFFICES ASSUME IInv, AloneInv, DrainInv, RowsInv, SumInv, [Next]_vars
             PROVE  RowsInv' /\ SumInv'
  OBVIOUS
<1> USE DEF IInv, WorkInv
<1>1. ASSUME NEW w \in Workers, WorkerStep(w) PROVE RowsInv' /\ SumInv'
  BY <1>1, WorkerSumInv
<1>2. ASSUME NEW c \in Callers, CallerStep(c) \/ NewCall(c) PROVE RowsInv' /\ SumInv'
  BY <1>2, CallerSumInv
<1>3. ASSUME NEW c \in Callers, MapRace(c) PROVE RowsInv' /\ SumInv'
  BY <1>3, RaceSumInv
<1>4. ~Crash
  BY DEF Crash, TypeOK
<1>5. CASE (\E b \in BOOLEAN : SetGroupPaused(b)) \/ UNCHANGED vars
  <2>1. UNCHANGED <<status, row, progress, pc, todo, cur, tally, cancelled, call>>
    BY <1>5 DEF SetGroupPaused, vars, db, ctl, local
  <2> QED
    BY <2>1 DEF RowsInv, SumInv, CountsAll, InHand, Settled, Pending
<1> QED
  BY <1>1, <1>2, <1>3, <1>4, <1>5 DEF Next

(***************************************************************************)
(* Of a broadcast that runs once and undisturbed (requests one at a time,  *)
(* no statement fails, no crash) the sent, failed and pending recipients   *)
(* it reports when completed add up to its total, for any chunk size and   *)
(* any interval between progress updates (dispatcher.go, UpdateProgress    *)
(* and MarkCompleted in processBroadcast).                                 *)
(***************************************************************************)
THEOREM ProgressAddsUpHolds ==
  ASSUME MaxFaults = 0, MaxCrashes = 0, OneAtATime, OneWorker
  PROVE  Spec => []ProgressAddsUp
<1>1. Init => AloneInv /\ DrainInv
  BY DEF Init, Idle, AloneInv, DrainInv, CompletedMeansDrained, Live, Running
<1>2. Init => RowsInv /\ SumInv
  <2> SUFFICES ASSUME Init PROVE RowsInv /\ SumInv
    OBVIOUS
  <2>1. Settled = {} /\ \A w \in Workers : InHand(w) = {} /\ Total(tally[w]) = 0
    BY DEF Init, Settled, InHand, Holding, Total, NoTally
  <2>2. Cardinality(Settled) = 0
    BY <2>1, FS_EmptySet
  <2> QED
    BY <2>1, <2>2 DEF Init, RowsInv, SumInv, CountsAll, Running
<1>3. IInv /\ AloneInv /\ DrainInv /\ [Next]_vars => AloneInv' /\ DrainInv'
  BY DrainStep
<1>4. IInv /\ AloneInv /\ DrainInv /\ RowsInv /\ SumInv /\ [Next]_vars => RowsInv' /\ SumInv'
  BY SumStep
<1>5. IInv /\ DrainInv /\ SumInv => ProgressAddsUp
  <2> SUFFICES ASSUME IInv, DrainInv, SumInv, status = "completed" PROVE ProgressAddsUp
    BY DEF ProgressAddsUp
  <2>1. Pending = {} /\ Cardinality({}) = 0
    BY FS_EmptySet DEF DrainInv, CompletedMeansDrained
  <2>2. Total(progress) = Cardinality(Recipients) /\ Total(progress) \in Nat
    BY DEF SumInv, IInv, TypeOK, Total
  <2> QED
    BY <2>1, <2>2 DEF ProgressAddsUp, Total
<1> QED
  BY <1>1, <1>2, <1>3, <1>4, <1>5, InductiveInvariant, PTL DEF Spec
=============================================================================
