--------------------------- MODULE TenantRequests ---------------------------
(***************************************************************************)
(* One tenant's requests to the gateway that create and delete groups and  *)
(* instances and send single messages (internal/api/handler/group.go,      *)
(* instance.go, message.go), each a sequence of its statements, with the   *)
(* request logger around them (middleware/logger.go) and the log buffer    *)
(* (pkg/logger).  A client sends one request after the other; the requests *)
(* of different clients interleave, statements fail, and the process may   *)
(* be lost.  What the connections do is InstanceLifecycle's; which instance*)
(* is chosen is GroupOrchestrator's.                                       *)
(***************************************************************************)
EXTENDS LogRing, FiniteSets

CONSTANTS
  Clients,        \* those who send requests
  Groups,         \* the ids that groups can get
  Instances,      \* the ids that instances can get
  Messages,       \* the ids of rows in message_logs
  Nobody,         \* no group, no instance, no message, no client
  MaxGroups,      \* the tenant's max_groups
  MaxInstances,   \* the tenant's max_instances
  MaxFaults       \* bound: statements that fail, and losses of the process

ASSUME TenantAssumption ==
  /\ IsFiniteSet(Clients) /\ Clients # {}
  /\ IsFiniteSet(Groups) /\ IsFiniteSet(Instances)
  /\ Nobody \notin Clients \cup Groups \cup Instances \cup Messages
  /\ MaxGroups \in Nat /\ MaxInstances \in Nat /\ MaxFaults \in Nat
  /\ Entry = [level : {"info", "warn"}]

VARIABLES
  groups,         \* rows of instance_groups
  groupOf,        \* rows of instances: the group_id, Nobody for no row
  row,            \* rows of message_logs
  call,           \* the request that each client waits for
  ring,           \* logger.Buffer
  faults

vars == <<groups, groupOf, row, call, ring, faults>>

(* The send's error comes before or after the message was handed over.     *)
Failures == {"refused", "unacknowledged"}

(* A row's status column ("none" before it exists), what became of the     *)
(* message, and the request that still works on it.                        *)
Row == [status : {"none", "queued", "sent", "failed"},
        message : {"unsent", "acknowledged"} \cup Failures,
        by : Clients \cup {Nobody}]

Statements ==
  {"countGroups", "insertGroup", "deleteGroup",
   "findGroup", "countInstances", "insertInstance", "findInstance", "deleteInstance",
   "selectInstance", "insertMessage", "parseContent", "sendMessage",
   "updateSent", "updateFailed"}

(* Where a request is: before a statement, before the logger's line or in  *)
(* the error handler; `status` is the response's so far.                   *)
Call == [at : Statements \cup {"idle", "log", "errorHandler"},
         does : {"none", "group", "instance", "delete", "send", "noRoute"},
         group : Groups \cup {Nobody},
         instance : Instances \cup {Nobody},
         message : Messages \cup {Nobody},
         status : {"ok", "error"}]

NoCall == [at |-> "idle", does |-> "none", group |-> Nobody, instance |-> Nobody,
           message |-> Nobody, status |-> "ok"]

Existing == {i \in Instances : groupOf[i] # Nobody}

Init ==
  /\ groups \in {G \in SUBSET Groups : Cardinality(G) <= MaxGroups}
  /\ groupOf = [i \in Instances |-> Nobody]
  /\ row = [m \in Messages |-> [status |-> "none", message |-> "unsent", by |-> Nobody]]
  /\ call = [c \in Clients |-> NoCall]
  /\ ring = NewRingBuffer
  /\ faults = 0
-----------------------------------------------------------------------------
(* The handler goes on, or ends with an answer: the logger comes next.     *)
Goto(c, at) == call' = [call EXCEPT ![c].at = at]
Answer(c, status) ==
  call' = [call EXCEPT ![c] = [NoCall EXCEPT !.at = "log", !.message = call[c].message, !.status = status]]

At(c, statement) == call[c].at = statement

Rows == <<groups, groupOf, row>>

(* A statement that fails ends its handler with an error, except for those *)
(* whose error is dropped.                                                 *)
Fail == faults < MaxFaults /\ faults' = faults + 1

(* Mutant: the error of the row's update after a success is answered.      *)
Dropped_Failures == {"updateFailed"}
Dropped == {"updateSent", "updateFailed"}
NotStatements == {"parseContent", "sendMessage"}

StatementFails(c) ==
  /\ call[c].at \in Statements \ NotStatements
  /\ Fail
  /\ IF call[c].at \in Dropped
     THEN Answer(c, IF At(c, "updateSent") THEN "ok" ELSE "error")
     ELSE Answer(c, "error")
  /\ UNCHANGED <<groups, groupOf, row, ring>>
-----------------------------------------------------------------------------
(* A new request; ids in it may be of rows that are gone.                  *)
OnGroup(does) ==
  {[NoCall EXCEPT !.does = does, !.at = "findGroup", !.group = g] : g \in Groups}
OnInstance ==
  {[NoCall EXCEPT !.does = "delete", !.at = "findInstance", !.instance = i] : i \in Instances}

Starts ==
  {[NoCall EXCEPT !.does = "group", !.at = "countGroups"],
   [NoCall EXCEPT !.does = "noRoute", !.at = "log"]}
  \cup OnGroup("instance") \cup OnGroup("delete") \cup OnGroup("send") \cup OnInstance

Request(c) ==
  /\ At(c, "idle")
  /\ \E start \in Starts : call' = [call EXCEPT ![c] = start]
  /\ UNCHANGED <<Rows, ring, faults>>

(* GroupHandler.Create: count, compare, insert.                            *)
CountGroups(c) ==
  /\ At(c, "countGroups")
  /\ IF Cardinality(groups) >= MaxGroups THEN Answer(c, "error") ELSE Goto(c, "insertGroup")
  /\ UNCHANGED <<Rows, ring, faults>>

InsertGroup(c) ==
  /\ At(c, "insertGroup")
  /\ \E g \in Groups \ groups : groups' = groups \cup {g}
  /\ Answer(c, "ok")
  /\ UNCHANGED <<groupOf, row, ring, faults>>

(* The lookup of the group before most statements.                         *)
FindGroup(c) ==
  /\ At(c, "findGroup")
  /\ IF call[c].group \in groups
     THEN Goto(c, CASE call[c].does = "instance" -> "countInstances"
                    [] call[c].does = "delete"   -> "deleteGroup"
                    [] call[c].does = "send"     -> "selectInstance")
     ELSE Answer(c, "error")
  /\ UNCHANGED <<Rows, ring, faults>>

(* Mutant: the limit is compared the wrong way at its border.              *)
CountInstances_OneMore(c) ==
  /\ At(c, "countInstances")
  /\ IF Cardinality(Existing) > MaxInstances THEN Answer(c, "error") ELSE Goto(c, "insertInstance")
  /\ UNCHANGED <<Rows, ring, faults>>

(* InstanceHandler.Create.                                                 *)
CountInstances(c) ==
  /\ At(c, "countInstances")
  /\ IF Cardinality(Existing) >= MaxInstances THEN Answer(c, "error") ELSE Goto(c, "insertInstance")
  /\ UNCHANGED <<Rows, ring, faults>>

(* The row refers to its group: the insert fails when that is gone.        *)
InsertInstance(c) ==
  /\ At(c, "insertInstance")
  /\ IF call[c].group \in groups
     THEN /\ \E i \in Instances \ Existing : groupOf' = [groupOf EXCEPT ![i] = call[c].group]
          /\ Answer(c, "ok")
     ELSE Answer(c, "error") /\ UNCHANGED groupOf
  /\ UNCHANGED <<groups, row, ring, faults>>

(* The rows of its instances go with the group.                            *)
DeleteGroup(c) ==
  /\ At(c, "deleteGroup")
  /\ groups' = groups \ {call[c].group}
  /\ groupOf' = [i \in Instances |-> IF groupOf[i] = call[c].group THEN Nobody ELSE groupOf[i]]
  /\ Answer(c, "ok")
  /\ UNCHANGED <<row, ring, faults>>

FindInstance(c) ==
  /\ At(c, "findInstance")
  /\ IF call[c].instance \in Existing THEN Goto(c, "deleteInstance") ELSE Answer(c, "error")
  /\ UNCHANGED <<Rows, ring, faults>>

DeleteInstance(c) ==
  /\ At(c, "deleteInstance")
  /\ groupOf' = [groupOf EXCEPT ![call[c].instance] = Nobody]
  /\ Answer(c, "ok")
  /\ UNCHANGED <<groups, row, ring, faults>>
-----------------------------------------------------------------------------
(* MessageHandler.Send.  Any instance of the group may be the one that is  *)
(* selected, or none.                                                      *)
SelectInstance(c) ==
  /\ At(c, "selectInstance")
  /\ \/ \E i \in Instances :
          /\ groupOf[i] = call[c].group
          /\ call' = [call EXCEPT ![c].at = "insertMessage", ![c].instance = i]
     \/ Answer(c, "error")
  /\ UNCHANGED <<Rows, ring, faults>>

(* The row refers to group and instance.  A row that no request works on   *)
(* may be taken again (bound: older rows are forgotten).                   *)
InsertMessage(c) ==
  /\ At(c, "insertMessage")
  /\ IF call[c].instance \in Existing /\ call[c].group \in groups
     THEN \E m \in Messages :
            /\ row[m].by = Nobody
            /\ row' = [row EXCEPT ![m] = [status |-> "queued", message |-> "unsent", by |-> c]]
            /\ call' = [call EXCEPT ![c].at = "parseContent", ![c].message = m]
     ELSE Answer(c, "error") /\ UNCHANGED row
  /\ UNCHANGED <<groups, groupOf, ring, faults>>

(* Any type but text, and any content but an object, is refused here, with *)
(* the row already there.                                                  *)
ParseContent(c) ==
  /\ At(c, "parseContent")
  /\ Goto(c, "sendMessage") \/ Answer(c, "error")
  /\ UNCHANGED <<Rows, ring, faults>>

(* Mutant: the error of the send is not looked at.                         *)
AfterSend_Unchecked(outcome) == "updateSent"

AfterSend(outcome) == IF outcome = "acknowledged" THEN "updateSent" ELSE "updateFailed"

(* The message is acknowledged; or the call ends with an error before it   *)
(* was handed over (the instance is not connected), or after (no answer in *)
(* time, the connection lost while it waited).                             *)
SendMessage(c) ==
  /\ At(c, "sendMessage")
  /\ \E outcome \in {"acknowledged"} \cup Failures :
       /\ row' = [row EXCEPT ![call[c].message].message = outcome]
       /\ Goto(c, AfterSend(outcome))
  /\ UNCHANGED <<groups, groupOf, ring, faults>>

UpdateSent(c) ==
  /\ At(c, "updateSent")
  /\ row' = [row EXCEPT ![call[c].message].status = "sent"]
  /\ Answer(c, "ok")
  /\ UNCHANGED <<groups, groupOf, ring, faults>>

UpdateFailed(c) ==
  /\ At(c, "updateFailed")
  /\ row' = [row EXCEPT ![call[c].message].status = "failed"]
  /\ Answer(c, "error")
  /\ UNCHANGED <<groups, groupOf, ring, faults>>
-----------------------------------------------------------------------------
(* RequestLogger, after the handler and before the error handler: a request*)
(* without a route has not been given its status yet.                      *)
LogRequest(c) ==
  /\ At(c, "log")
  /\ ring' = Write(ring, [level |-> "info"])
  /\ IF call[c].does = "noRoute"
     THEN Goto(c, "errorHandler")
     ELSE call' = [call EXCEPT ![c] = NoCall]
  /\ row' = [m \in Messages |-> IF row[m].by = c THEN [row[m] EXCEPT !.by = Nobody] ELSE row[m]]
  /\ UNCHANGED <<groups, groupOf, faults>>

ErrorHandler(c) ==
  /\ At(c, "errorHandler")
  /\ ring' = Write(ring, [level |-> "warn"])
  /\ call' = [call EXCEPT ![c] = NoCall]
  /\ UNCHANGED <<Rows, faults>>

(* The process is lost with its memory and comes back.                     *)
Crash ==
  /\ Fail
  /\ call' = [c \in Clients |-> NoCall]
  /\ row' = [m \in Messages |-> [row[m] EXCEPT !.by = Nobody]]
  /\ ring' = NewRingBuffer
  /\ UNCHANGED <<groups, groupOf>>

RequestStep(c) ==
  \/ CountGroups(c) \/ InsertGroup(c)
  \/ FindGroup(c) \/ CountInstances(c) \/ InsertInstance(c)
  \/ DeleteGroup(c) \/ FindInstance(c) \/ DeleteInstance(c)
  \/ SelectInstance(c) \/ InsertMessage(c) \/ ParseContent(c)
  \/ SendMessage(c) \/ UpdateSent(c) \/ UpdateFailed(c)
  \/ StatementFails(c)
  \/ LogRequest(c) \/ ErrorHandler(c)

Next == (\E c \in Clients : Request(c) \/ RequestStep(c)) \/ Crash

Spec == Init /\ [][Next]_vars
-----------------------------------------------------------------------------
TypeOK ==
  /\ groups \subseteq Groups
  /\ groupOf \in [Instances -> Groups \cup {Nobody}]
  /\ row \in [Messages -> Row]
  /\ call \in [Clients -> Call]
  /\ ring \in Ring
  /\ faults \in 0..MaxFaults

(* Counting and inserting are separate statements, so the limits can be    *)
(* passed, but only by requests that overlap: never by as many rows as     *)
(* there are clients, however many requests they send.                     *)
OvershootBounded ==
  /\ Cardinality(groups) < MaxGroups + Cardinality(Clients)
  /\ Cardinality(Existing) < MaxInstances + Cardinality(Clients)

(* What a row of the message log says is never wrong about the send: 'sent'*)
(* is a message that was acknowledged, 'failed' one whose send ended with  *)
(* an error, which does not mean that it is not out; and once no request   *)
(* works on it, a row says how the send ended unless a statement failed or *)
(* the process was lost.                                                   *)
RowTellsOutcome ==
  \A m \in Messages :
    /\ row[m].status = "sent" => row[m].message = "acknowledged"
    /\ row[m].status = "failed" => row[m].message \in Failures
    /\ row[m].by = Nobody /\ faults = 0 /\ row[m].message # "unsent"
         => row[m].status = IF row[m].message = "acknowledged" THEN "sent" ELSE "failed"

(* A client is told of a success exactly when its message was acknowledged,*)
(* whatever statements failed around it: the row's update among them,      *)
(* whose error must not make the client send again.  A client that is told *)
(* of an error does not know whether its message is out.                   *)
OkMeansAcknowledged ==
  \A c \in Clients :
    At(c, "log") /\ call[c].message # Nobody
      => (call[c].status = "ok") = (row[call[c].message].message = "acknowledged")

(* The ring implements the abstract tail of the log.                       *)
Log == INSTANCE LogTail WITH tail <- Held(ring)
LogSpec == Log!Spec

(* What the logs endpoint answers, for every level and every limit, is the *)
(* newest entries of that level, newest first.                             *)
EntriesAreNewest ==
  \A level \in {"", "info", "warn"}, limit \in 0..(Size + 1) :
    Entries(ring, level, limit) = Log!Newest(Held(ring), level, limit)

(* Not true of the code (see the README): the tenant's limits hold.        *)
LimitsHold ==
  /\ Cardinality(groups) <= MaxGroups
  /\ Cardinality(Existing) <= MaxInstances

(* Not true of the code: a row is 'queued' only while its request is under *)
(* way.  It is inserted before the type and the content are looked at.     *)
QueuedIsUnderWay ==
  \A m \in Messages : row[m].status = "queued" /\ faults = 0 => row[m].by # Nobody

(* Not true of the code: a message whose row says 'failed' is not out.     *)
FailedMeansNotOut ==
  \A m \in Messages : row[m].status = "failed" => row[m].message # "unacknowledged"
=============================================================================
