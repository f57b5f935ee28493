------------------------------ MODULE Broadcast ------------------------------
(***************************************************************************)
(* One broadcast of the gateway: the API handlers that create, pause,      *)
(* resume and cancel it (internal/api/handler/broadcast.go), the           *)
(* Dispatcher and its worker goroutines                                    *)
(* (internal/orchestrator/dispatcher.go) and the rows they write           *)
(* (internal/store/postgres/broadcast.go).                                 *)
(*                                                                         *)
(* Every operation of the Dispatcher is keyed by the broadcast's id, so    *)
(* one broadcast shows every behaviour of one.  SQL statements are atomic  *)
(* steps; everything between two statements may be interleaved.  The       *)
(* sleeps between messages are the time a worker rests between two steps.  *)
(***************************************************************************)
EXTENDS Naturals, FiniteSets

CONSTANTS
  Recipients,     \* the rows of broadcast_recipients
  Workers,        \* the processBroadcast goroutines that may be started
  Callers,        \* the API requests that may be in flight together
  NoOne,          \* no worker, no recipient
  ChunkSize,      \* GetPendingRecipients' limit (20)
  ProgressEvery,  \* messages between two progress updates (10)
  Connectivity,   \* may the group have a connected instance: {TRUE}, {FALSE}
                  \* or BOOLEAN when connections come and go
  MaxFaults,      \* bound: database statements that fail
  MaxCrashes      \* bound: crashes of the process

ASSUME BroadcastAssumption ==
  /\ NoOne \notin Workers \cup Recipients
  /\ ChunkSize \in Nat \ {0}
  /\ ProgressEvery \in Nat \ {0}
  /\ IsFiniteSet(Recipients)
  /\ Connectivity \in (SUBSET BOOLEAN) \ {{}}
  /\ MaxFaults \in Nat
  /\ MaxCrashes \in Nat

VARIABLES
  (* The database. *)
  status,         \* broadcasts.status, "none" before the row exists
  row,            \* broadcast_recipients.status of each recipient
  progress,       \* broadcasts.sent and broadcasts.failed
  (* The Dispatcher's memory. *)
  activeJobs,     \* the worker whose cancel function the map holds
  cancelled,      \* the workers whose context is cancelled
  pc, todo, cur, tally,   \* each worker: next step, rest of its chunk,
                          \* current recipient, local sent and failed
  call,           \* each API request: its next step and the job it looked up
  groupPaused,    \* GroupOrchestrator.paused for the broadcast's group
  (* Observations no code reads. *)
  sentBy,         \* messages each worker put on the wire for each recipient
  lost,           \* sends of a worker whose row update failed by a fault
  late,           \* messages a worker put on the wire after its cancel
  faults, crashes

db      == <<status, row, progress>>
ctl     == <<activeJobs, cancelled, call>>
wire    == <<sentBy, lost, late>>
vars    == <<db, ctl, pc, todo, cur, tally, groupPaused, wire, faults, crashes>>

Running == {"start", "loop", "each", "select", "noInstance", "send",
            "recordSent", "recordFailed", "progress", "final", "complete",
            "exit"}
Stages == {"idle", "createRows", "start", "pauseDelete", "pauseStatus",
           "cancelStatus"}
Request == [at : Stages, job : {NoOne}] \cup [at : {"pauseCancel"}, job : Workers]
Live(w) == pc[w] \in Running
Pending == {r \in Recipients : row[r] = "pending"}

(***************************************************************************)
(* Type invariant: the columns, the map and the goroutines' locals hold    *)
(* values of their Go and SQL types.                                       *)
(***************************************************************************)
TypeOK ==
  /\ status \in {"none", "pending", "processing", "paused", "completed",
                 "cancelled"}
  /\ row \in [Recipients -> {"absent", "pending", "sent", "failed"}]
  /\ progress \in [sent : Nat, failed : Nat]
  /\ activeJobs \in Workers \cup {NoOne}
  /\ cancelled \in SUBSET Workers
  /\ pc \in [Workers -> Running \cup {"unborn", "done", "dead"}]
  /\ todo \in [Workers -> SUBSET Recipients]
  /\ cur \in [Workers -> Recipients \cup {NoOne}]
  /\ tally \in [Workers -> [sent : Nat, failed : Nat]]
  /\ call \in [Callers -> Request]
  /\ groupPaused \in BOOLEAN
  /\ sentBy \in [Workers -> [Recipients -> Nat]]
  /\ lost \in [Workers -> [Recipients -> Nat]]
  /\ late \in [Workers -> Nat]
  /\ faults \in Nat
  /\ crashes \in Nat

NoTally == [sent |-> 0, failed |-> 0]
Idle == [at |-> "idle", job |-> NoOne]

Init ==
  /\ status = "none"
  /\ row = [r \in Recipients |-> "absent"]
  /\ progress = NoTally
  /\ activeJobs = NoOne
  /\ cancelled = {}
  /\ pc = [w \in Workers |-> "unborn"]
  /\ todo = [w \in Workers |-> {}]
  /\ cur = [w \in Workers |-> NoOne]
  /\ tally = [w \in Workers |-> NoTally]
  /\ call = [c \in Callers |-> Idle]
  /\ groupPaused = FALSE
  /\ sentBy = [w \in Workers |-> [r \in Recipients |-> 0]]
  /\ lost = [w \in Workers |-> [r \in Recipients |-> 0]]
  /\ late = [w \in Workers |-> 0]
  /\ faults = 0
  /\ crashes = 0

(***************************************************************************)
(* The outcome of a database statement.  A worker passes its job context,  *)
(* so its statements fail once the context is cancelled; any statement may *)
(* also fail by a fault of the database or the network.                    *)
(***************************************************************************)
Fault == faults < MaxFaults /\ faults' = faults + 1
NoFault == UNCHANGED faults

DbOk(w) == w \notin cancelled /\ NoFault
DbErr(w) == \/ w \in cancelled /\ NoFault
            \/ w \notin cancelled /\ Fault

-----------------------------------------------------------------------------
(* The worker goroutine: processBroadcast.                                 *)

Goto(w, label) == pc' = [pc EXCEPT ![w] = label]

(* A MarkStarted that reports an error may have reached the database.      *)
MarkStarted(w) ==
  /\ pc[w] = "start"
  /\ \/ DbOk(w) /\ status' = "processing" /\ Goto(w, "loop")
     \/ DbErr(w) /\ UNCHANGED status /\ Goto(w, "exit")
     \/ w \notin cancelled /\ Fault /\ status' = "processing" /\ Goto(w, "exit")
  /\ UNCHANGED <<row, progress, ctl, todo, cur, tally, groupPaused, wire, crashes>>

(* GetPendingRecipients: ids are random UUIDs, so any ChunkSize pending    *)
(* rows may come first.  Mutants: the status filter also admits failed     *)
(* rows; the limit is off by one.                                          *)
GetPendingRecipients_AlsoFailed ==
  {chunk \in SUBSET {r \in Recipients : row[r] \in {"pending", "failed"}} :
     Cardinality(chunk) <= ChunkSize}
GetPendingRecipients_OneLess ==
  {chunk \in SUBSET Pending : Cardinality(chunk) < ChunkSize}
GetPendingRecipients ==
  {chunk \in SUBSET Pending :
     /\ Cardinality(chunk) <= ChunkSize
     /\ Cardinality(chunk) < ChunkSize => chunk = Pending}

FetchOk(w) ==
  /\ DbOk(w)
  /\ \E chunk \in GetPendingRecipients :
       /\ todo' = [todo EXCEPT ![w] = chunk]
       /\ Goto(w, IF chunk = {} THEN "final" ELSE "each")

(* The context check and the query; an error leaves the loop by the same   *)
(* break as an empty chunk.  Mutant: the worker tries the query again.     *)
FetchChunk_Retries(w) ==
  /\ pc[w] = "loop"
  /\ FetchOk(w) \/ (DbErr(w) /\ UNCHANGED <<pc, todo>>)
  /\ UNCHANGED <<db, ctl, cur, tally, groupPaused, wire, crashes>>
FetchChunk(w) ==
  /\ pc[w] = "loop"
  /\ \/ w \in cancelled /\ NoFault /\ Goto(w, "exit") /\ UNCHANGED todo
     \/ DbErr(w) /\ Goto(w, "final") /\ UNCHANGED todo
     \/ FetchOk(w)
  /\ UNCHANGED <<db, ctl, cur, tally, groupPaused, wire, crashes>>

(* After a chunk the loop asks for the next.  Mutant: one chunk is enough. *)
AfterChunk_Final == "final"
AfterChunk == "loop"

(* The head of the recipient loop, with its context check; the chunk is in *)
(* any order (ORDER BY a random id, or shuffled).                          *)
NextRecipient(w) ==
  /\ pc[w] = "each"
  /\ \/ todo[w] = {} /\ Goto(w, AfterChunk) /\ UNCHANGED <<todo, cur>>
     \/ todo[w] # {} /\ w \in cancelled /\ Goto(w, "exit") /\ UNCHANGED <<todo, cur>>
     \/ /\ w \notin cancelled
        /\ \E r \in todo[w] :
             /\ cur' = [cur EXCEPT ![w] = r]
             /\ todo' = [todo EXCEPT ![w] = @ \ {r}]
        /\ Goto(w, "select")
  /\ UNCHANGED <<db, ctl, tally, groupPaused, wire, faults, crashes>>

(* GroupOrchestrator.SelectInstance: an error when the group is paused,    *)
(* the query fails or no available instance is connected.                  *)
SelectInstance(w) ==
  /\ pc[w] = "select"
  /\ \/ /\ \E connected \in Connectivity :
             Goto(w, IF connected /\ ~groupPaused THEN "send" ELSE "noInstance")
        /\ DbOk(w)
     \/ DbErr(w) /\ Goto(w, "noInstance")
  /\ UNCHANGED <<db, ctl, todo, cur, tally, groupPaused, wire, crashes>>

Counted(t, outcome) ==
  [sent   |-> t.sent + (IF outcome = "sent" THEN 1 ELSE 0),
   failed |-> t.failed + (IF outcome = "failed" THEN 1 ELSE 0)]

(* No instance: the recipient is failed at once, without delay.            *)
FailNoInstance(w) ==
  /\ pc[w] = "noInstance"
  /\ \/ DbOk(w) /\ row' = [row EXCEPT ![cur[w]] = "failed"]
     \/ DbErr(w) /\ UNCHANGED row
  /\ tally' = [tally EXCEPT ![w] = Counted(@, "failed")]
  /\ cur' = [cur EXCEPT ![w] = NoOne]
  /\ Goto(w, "each")
  /\ UNCHANGED <<status, progress, ctl, todo, groupPaused, wire, crashes>>

(* A send error fails the recipient.  Mutants: it is ignored; the worker   *)
(* sends again.                                                            *)
AfterSendError_Sent == "recordSent"
AfterSendError_Again == "send"
AfterSendError == "recordFailed"

OneMore(f, w, r) == [f EXCEPT ![w] = [f[w] EXCEPT ![r] = @ + 1]]

(* Manager.SendTextMessage.  The message reaches WhatsApp and is           *)
(* acknowledged, reaches it without an acknowledgement, or, as when the    *)
(* instance has lost its connection since, fails.                          *)
SendTextMessage(w) ==
  /\ pc[w] = "send"
  /\ \/ /\ sentBy' = OneMore(sentBy, w, cur[w])
        /\ late' = IF w \in cancelled THEN [late EXCEPT ![w] = @ + 1] ELSE late
        /\ Goto(w, "recordSent") \/ Goto(w, AfterSendError)
     \/ Goto(w, AfterSendError) /\ UNCHANGED <<sentBy, late>>
  /\ UNCHANGED <<db, ctl, todo, cur, tally, groupPaused, lost, faults, crashes>>

(* UpdateRecipientSent and UpdateRecipientFailed; their errors are dropped.*)
RecordOutcome(w) ==
  /\ pc[w] \in {"recordSent", "recordFailed"}
  /\ LET outcome == IF pc[w] = "recordSent" THEN "sent" ELSE "failed"
     IN /\ \/ DbOk(w) /\ row' = [row EXCEPT ![cur[w]] = outcome] /\ UNCHANGED lost
           \/ /\ DbErr(w) /\ UNCHANGED row
              /\ lost' = IF w \in cancelled THEN lost
                         ELSE OneMore(lost, w, cur[w])
        /\ tally' = [tally EXCEPT ![w] = Counted(@, outcome)]
  /\ cur' = [cur EXCEPT ![w] = NoOne]
  /\ Goto(w, "progress")
  /\ UNCHANGED <<status, progress, ctl, todo, groupPaused, sentBy, late, crashes>>

(* Mutant: the counts are added to the columns instead of replacing them.  *)
SaveProgress_Adds(w) ==
  \/ /\ DbOk(w)
     /\ progress' = [sent |-> progress.sent + tally[w].sent,
                     failed |-> progress.failed + tally[w].failed]
  \/ DbErr(w) /\ UNCHANGED progress
SaveProgress(w) ==
  \/ DbOk(w) /\ progress' = tally[w]
  \/ DbErr(w) /\ UNCHANGED progress

(* UpdateProgress after every ProgressEvery messages, then the delay.      *)
UpdateProgress(w) ==
  /\ pc[w] = "progress"
  /\ IF (tally[w].sent + tally[w].failed) % ProgressEvery = 0
     THEN SaveProgress(w)
     ELSE NoFault /\ UNCHANGED progress
  /\ Goto(w, "each")
  /\ UNCHANGED <<status, row, ctl, todo, cur, tally, groupPaused, wire, crashes>>

(* The final UpdateProgress, its error dropped.  Mutant: it is forgotten.  *)
FinalProgress_Skipped(w) ==
  /\ pc[w] = "final"
  /\ Goto(w, "complete")
  /\ UNCHANGED <<db, ctl, todo, cur, tally, groupPaused, wire, faults, crashes>>
FinalProgress(w) ==
  /\ pc[w] = "final"
  /\ SaveProgress(w)
  /\ Goto(w, "complete")
  /\ UNCHANGED <<status, row, ctl, todo, cur, tally, groupPaused, wire, crashes>>

MarkCompleted(w) ==
  /\ pc[w] = "complete"
  /\ \/ DbOk(w) /\ status' = "completed"
     \/ DbErr(w) /\ UNCHANGED status
  /\ Goto(w, "exit")
  /\ UNCHANGED <<row, progress, ctl, todo, cur, tally, groupPaused, wire, crashes>>

(* The deferred delete removes the broadcast's entry, whoever's it is, and *)
(* the goroutine's locals are gone.                                        *)
Exit(w) ==
  /\ pc[w] = "exit"
  /\ activeJobs' = NoOne
  /\ todo' = [todo EXCEPT ![w] = {}]
  /\ tally' = [tally EXCEPT ![w] = NoTally]
  /\ Goto(w, "done")
  /\ UNCHANGED <<db, cancelled, call, cur, groupPaused, wire, faults, crashes>>

WorkerStep(w) ==
  \/ MarkStarted(w) \/ FetchChunk(w) \/ NextRecipient(w)
  \/ SelectInstance(w) \/ FailNoInstance(w) \/ SendTextMessage(w)
  \/ RecordOutcome(w) \/ UpdateProgress(w) \/ FinalProgress(w)
  \/ MarkCompleted(w) \/ Exit(w)

-----------------------------------------------------------------------------
(* The API requests.                                                       *)

local == <<pc, todo, cur, tally>>

At(c, label) == call[c].at = label
Then(c, label) == call' = [call EXCEPT ![c].at = label]
Return(c) == call' = [call EXCEPT ![c] = Idle]

(* Bound: a request that would start a worker needs one of Workers left.   *)
StartsLeft == Cardinality({c \in Callers : call[c].at \in {"createRows", "start"}})
                < Cardinality({w \in Workers : pc[w] = "unborn"})

(* BroadcastHandler.Create, first statement: BroadcastRepo.Create.         *)
CreateBroadcast(c) ==
  /\ At(c, "idle") /\ status = "none" /\ StartsLeft
  /\ status' = "pending"
  /\ Then(c, "createRows")
  /\ UNCHANGED <<row, progress, activeJobs, cancelled, local, groupPaused, wire, faults, crashes>>

(* Second statement: CreateRecipients, one batch.  A broadcast without     *)
(* schedule_at goes on to StartBroadcast.                                  *)
CreateRecipients(c) ==
  /\ At(c, "createRows")
  /\ \/ /\ NoFault
        /\ row' = [r \in Recipients |-> "pending"]
        /\ Then(c, "start") \/ Return(c)
     \/ Fault /\ Return(c) /\ UNCHANGED row
  /\ UNCHANGED <<status, progress, activeJobs, cancelled, local, groupPaused, wire, crashes>>

(* Dispatcher.StartBroadcast: the entry is overwritten, the goroutine runs.*)
StartBroadcast(c) ==
  /\ At(c, "start")
  /\ \E w \in Workers :
       /\ pc[w] = "unborn"
       /\ activeJobs' = w
       /\ Goto(w, "start")
  /\ Return(c)
  /\ UNCHANGED <<db, cancelled, todo, cur, tally, groupPaused, wire, faults, crashes>>

(* PauseBroadcast: the entry is looked up under the lock; cancel, delete   *)
(* and the status update follow after the unlock.                          *)
PauseLookup(c) ==
  /\ At(c, "idle") /\ status # "none"
  /\ call' = [call EXCEPT ![c] =
       [at |-> IF activeJobs = NoOne THEN "pauseStatus" ELSE "pauseCancel",
        job |-> activeJobs]]
  /\ UNCHANGED <<db, activeJobs, cancelled, local, groupPaused, wire, faults, crashes>>

(* Mutant: the entry is removed but its function is not called.            *)
PauseCancel_NotCalled(c) ==
  /\ At(c, "pauseCancel")
  /\ call' = [call EXCEPT ![c] = [at |-> "pauseDelete", job |-> NoOne]]
  /\ UNCHANGED <<db, activeJobs, cancelled, local, groupPaused, wire, faults, crashes>>
PauseCancel(c) ==
  /\ At(c, "pauseCancel")
  /\ cancelled' = cancelled \cup {call[c].job}
  /\ call' = [call EXCEPT ![c] = [at |-> "pauseDelete", job |-> NoOne]]
  /\ UNCHANGED <<db, activeJobs, local, groupPaused, wire, faults, crashes>>

PauseDelete(c) ==
  /\ At(c, "pauseDelete")
  /\ activeJobs' = NoOne
  /\ Then(c, "pauseStatus")
  /\ UNCHANGED <<db, cancelled, local, groupPaused, wire, faults, crashes>>

PauseStatus(c) ==
  /\ At(c, "pauseStatus")
  /\ \/ NoFault /\ status' = "paused"
     \/ Fault /\ UNCHANGED status
  /\ Return(c)
  /\ UNCHANGED <<row, progress, activeJobs, cancelled, local, groupPaused, wire, crashes>>

(* CancelBroadcast: cancel and delete in one critical section.  Mutant:    *)
(* the entry is used without the test that it exists.                      *)
RegisteredJob_Unchecked == {activeJobs}
RegisteredJob == {activeJobs} \ {NoOne}

CancelJob(c) ==
  /\ At(c, "idle") /\ status # "none"
  /\ cancelled' = cancelled \cup RegisteredJob
  /\ activeJobs' = NoOne
  /\ Then(c, "cancelStatus")
  /\ UNCHANGED <<db, local, groupPaused, wire, faults, crashes>>

CancelStatus(c) ==
  /\ At(c, "cancelStatus")
  /\ \/ NoFault /\ status' = "cancelled"
     \/ Fault /\ UNCHANGED status
  /\ Return(c)
  /\ UNCHANGED <<row, progress, activeJobs, cancelled, local, groupPaused, wire, crashes>>

(* ResumeBroadcast: the broadcast exists, whatever its status; an error of *)
(* either statement returns before the start.                              *)
ResumeStatus(c) ==
  /\ At(c, "idle") /\ status # "none" /\ StartsLeft
  /\ \/ NoFault /\ status' = "processing" /\ Then(c, "start")
     \/ Fault /\ UNCHANGED <<status, call>>
  /\ UNCHANGED <<row, progress, activeJobs, cancelled, local, groupPaused, wire, crashes>>

(* The steps a request takes once it has been accepted.                    *)
CallerStep(c) ==
  \/ CreateRecipients(c) \/ StartBroadcast(c)
  \/ PauseCancel(c) \/ PauseDelete(c) \/ PauseStatus(c) \/ CancelStatus(c)

NewCall(c) ==
  CreateBroadcast(c) \/ PauseLookup(c) \/ CancelJob(c) \/ ResumeStatus(c)

-----------------------------------------------------------------------------
(* The environment.                                                        *)

(* GroupOrchestrator.PauseGroup and ResumeGroup.                           *)
SetGroupPaused(b) ==
  /\ groupPaused # b
  /\ groupPaused' = b
  /\ UNCHANGED <<db, ctl, local, wire, faults, crashes>>

(* The process dies and is started again: the goroutines, the requests and *)
(* everything in memory are gone, and nothing restarts a broadcast.        *)
ProcessDies ==
  /\ pc' = [w \in Workers |-> IF Live(w) THEN "dead" ELSE pc[w]]
  /\ todo' = [w \in Workers |-> {}]
  /\ cur' = [w \in Workers |-> NoOne]
  /\ tally' = [w \in Workers |-> NoTally]
  /\ call' = [c \in Callers |-> Idle]
  /\ activeJobs' = NoOne
  /\ groupPaused' = FALSE
  /\ UNCHANGED <<db, cancelled, wire, faults>>

(* A kill, a deploy, a loss of the machine.                                *)
Crash == crashes < MaxCrashes /\ crashes' = crashes + 1 /\ ProcessDies

(* PauseBroadcast's delete runs outside d.mu: when another goroutine uses  *)
(* the map at that moment, the Go runtime may stop the process.            *)
MapRace(c) ==
  /\ At(c, "pauseDelete")
  /\ \/ \E w \in Workers : pc[w] = "exit"
     \/ \E d \in Callers \ {c} : At(d, "pauseDelete") \/ At(d, "start") \/ At(d, "idle")
  /\ ProcessDies
  /\ UNCHANGED crashes

-----------------------------------------------------------------------------
Next ==
  \/ \E w \in Workers : WorkerStep(w)
  \/ \E c \in Callers : CallerStep(c) \/ NewCall(c) \/ MapRace(c)
  \/ \E b \in BOOLEAN : SetGroupPaused(b)
  \/ Crash

Spec == Init /\ [][Next]_vars

(* Goroutines are scheduled and their statements and sends return; nobody  *)
(* promises that a request is made, or that a paused group is resumed.     *)
FairSpec ==
  /\ Spec
  /\ \A w \in Workers : WF_vars(WorkerStep(w))
  /\ \A c \in Callers : WF_vars(CallerStep(c))
-----------------------------------------------------------------------------
(* Properties of the runs whose constants say which hazards are present.   *)

(***************************************************************************)
(* A worker puts a recipient's message on the wire once, and once more for *)
(* every send whose row update the database lost: a chunk is fetched again *)
(* only after each of its rows has left 'pending'.                         *)
(***************************************************************************)
OncePerWorker ==
  \A w \in Workers, r \in Recipients : sentBy[w][r] <= 1 + lost[w][r]

(***************************************************************************)
(* After its context is cancelled a worker lets at most the message it had *)
(* in hand go out, however many recipients its chunk still holds.          *)
(***************************************************************************)
OneSendAfterCancel == \A w \in Workers : late[w] <= 1

(***************************************************************************)
(* 'completed' means that no recipient waits: MarkCompleted is reached     *)
(* only through an empty GetPendingRecipients, and a context cancelled in  *)
(* between keeps the statement from running.                               *)
(***************************************************************************)
CompletedMeansDrained == status = "completed" => Pending = {}

(***************************************************************************)
(* The progress columns never count more messages than there are           *)
(* recipients, however often the broadcast is paused and resumed.          *)
(***************************************************************************)
ProgressWithinTotal == progress.sent + progress.failed <= Cardinality(Recipients)

(***************************************************************************)
(* Once a pause or a cancel has answered, no worker goes on uncancelled.   *)
(***************************************************************************)
StoppedMeansStopped ==
  status \in {"paused", "cancelled"} /\ (\A c \in Callers : At(c, "idle"))
    => \A w \in Workers : Live(w) => w \in cancelled

(***************************************************************************)
(* The reported sent, failed and pending recipients of a completed         *)
(* broadcast add up to its total.                                          *)
(***************************************************************************)
ProgressAddsUp ==
  status = "completed" /\ (\A c \in Callers : At(c, "idle"))
                       /\ (\A w \in Workers : ~Live(w))
    => progress.sent + progress.failed + Cardinality(Pending) = Cardinality(Recipients)

(***************************************************************************)
(* While its group is paused a broadcast's recipient is failed only by a   *)
(* send that was tried for it.                                             *)
(***************************************************************************)
GroupPauseHoldsRecipients ==
  [][\A r \in Recipients :
       groupPaused /\ row[r] = "pending" /\ row'[r] = "failed"
         => \E w \in Workers : pc[w] = "recordFailed" /\ cur[w] = r]_vars

(* A cancelled broadcast stays cancelled: only a paused one is resumed.    *)
CancelledIsFinal == [][status = "cancelled" => status' = "cancelled"]_vars

(***************************************************************************)
(* A worker whose context is cancelled ends, even when it never gets       *)
(* another statement through.                                              *)
(***************************************************************************)
CancelledWorkersEnd == \A w \in Workers : w \in cancelled ~> ~Live(w)

(***************************************************************************)
(* A worker that starts works off every recipient, whatever the group and  *)
(* its instances do, unless it is cancelled, its process dies, or a        *)
(* statement of its own fails.                                             *)
(***************************************************************************)
StartedWorkerDrains ==
  \A w \in Workers :
    pc[w] = "start" ~> (w \in cancelled \/ pc[w] = "dead" \/ Pending = {})

(* The rows and the messages sent, as the abstract ledger sees them.       *)
delivered == {r \in Recipients : \E w \in Workers : sentBy[w][r] > 0}
Ledger == INSTANCE RecipientLedger
LedgerSpec == Ledger!Spec
=============================================================================
