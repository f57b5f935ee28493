---------------------------- MODULE TenantProofs ----------------------------
(***************************************************************************)
(* Proofs about a tenant's requests (TenantRequests), for any clients, ids,*)
(* limits, faults and any length of the log buffer: types, how far the     *)
(* limits can be passed, what the message log and a client are told, and   *)
(* that the logs endpoint answers with the newest entries.                 *)
(***************************************************************************)
EXTENDS TenantRequests, LoopProofs, FiniteSetTheorems, TLAPS

(* Those about to execute a statement.                                     *)
Due(statement) == {c \in Clients : At(c, statement)}

(* A request that looks for its group has something to do with it.         *)
LookupsKnow ==
  \A c \in Clients : At(c, "findGroup") => call[c].does \in {"instance", "delete", "send"}

(* Each row above the limit is owed by a client that is not inserting now. *)
Limits ==
  /\ Cardinality(groups) + Cardinality(Due("insertGroup"))
       < MaxGroups + Cardinality(Clients)
  /\ Cardinality(Existing) + Cardinality(Due("insertInstance"))
       < MaxInstances + Cardinality(Clients)

HasRow == {"parseContent", "sendMessage", "updateSent", "updateFailed"}

(* The row says what became of the message.                                *)
Told(r) == /\ r.message = "acknowledged" => r.status = "sent"
           /\ r.message \in Failures => r.status = "failed"

True(r) == /\ r.status = "sent" => r.message = "acknowledged"
           /\ r.status = "failed" => r.message \in Failures

(* A request and the row that it works on.                                 *)
WorksOn(k, r, c, f) ==
  /\ r.by = c
  /\ k.at \in {"parseContent", "sendMessage"} => r.status = "queued" /\ r.message = "unsent"
  /\ k.at = "updateSent" => r.status = "queued" /\ r.message = "acknowledged"
  /\ k.at = "updateFailed" => r.status = "queued" /\ r.message \in Failures
  /\ k.at = "log" => /\ (k.status = "ok") = (r.message = "acknowledged")
                     /\ f = 0 => Told(r)

(* Only a request between the insertion and the logger's line has a row.   *)
HoldsRow(k) ==
  /\ k.at \in HasRow => k.message \in Messages
  /\ k.at \notin HasRow \cup {"log"} => k.message = Nobody
  /\ k.does = "noRoute" => k.at \in {"log", "errorHandler"} /\ k.message = Nobody

CallInOrder(c) ==
  /\ HoldsRow(call[c])
  /\ call[c].message # Nobody => WorksOn(call[c], row[call[c].message], c, faults)

RowInOrder(m) ==
  /\ True(row[m])
  /\ row[m].by # Nobody => call[row[m].by].message = m
  /\ row[m].by = Nobody /\ faults = 0 => Told(row[m])

Outcomes == (\A c \in Clients : CallInOrder(c)) /\ (\A m \in Messages : RowInOrder(m))

TenantInv == TypeOK /\ LookupsKnow /\ Limits /\ Outcomes
-----------------------------------------------------------------------------
(* The buffer's index stays within it.                                     *)
LEMMA WriteType ==
  ASSUME NEW r \in Ring, NEW e \in Entry
  PROVE  Write(r, e) \in Ring
<1>1. (r.cursor + 1) % Size \in Slots
  BY RingAssumption DEF Ring, Slots
<1>2. (IF r.count < Size THEN r.count + 1 ELSE r.count) \in 0..Size
  BY RingAssumption DEF Ring
<1>3. [r.entries EXCEPT ![r.cursor] = e] \in [Slots -> Entry \cup {NoEntry}]
  BY DEF Ring
<1>4. QED
  BY <1>1, <1>2, <1>3 DEF Write, Ring

LEMMA EntriesKnown == [level |-> "info"] \in Entry /\ [level |-> "warn"] \in Entry
BY TenantAssumption

LEMMA CallTypes ==
  /\ NoCall \in Call
  /\ Starts \subseteq Call
  /\ \A start \in Starts :
       /\ start.at = "findGroup" => start.does \in {"instance", "delete", "send"}
       /\ start.at \notin HasRow \cup {"insertGroup", "insertInstance"}
       /\ start.message = Nobody
       /\ start.does = "noRoute" => start.at = "log"
<1>1. NoCall \in Call
  BY DEF NoCall, Call
<1>2. SUFFICES ASSUME NEW start \in Starts
               PROVE  /\ start \in Call
                      /\ start.at = "findGroup" => start.does \in {"instance", "delete", "send"}
                      /\ start.at \notin HasRow \cup {"insertGroup", "insertInstance"}
                      /\ start.message = Nobody
                      /\ start.does = "noRoute" => start.at = "log"
  BY <1>1
<1>3. CASE start = [NoCall EXCEPT !.does = "group", !.at = "countGroups"]
  BY <1>1, <1>3 DEF NoCall, Call, Statements, HasRow
<1>4. CASE start = [NoCall EXCEPT !.does = "noRoute", !.at = "log"]
  BY <1>1, <1>4 DEF NoCall, Call, Statements, HasRow
<1>5. ASSUME NEW does \in {"instance", "delete", "send"}, start \in OnGroup(does)
      PROVE  /\ start \in Call
             /\ start.does \in {"instance", "delete", "send"}
             /\ start.at = "findGroup" /\ start.message = Nobody
  <2>1. PICK g \in Groups : start = [NoCall EXCEPT !.does = does, !.at = "findGroup", !.group = g]
    BY <1>5 DEF OnGroup
  <2>2. QED
    BY <1>1, <2>1 DEF NoCall, Call, Statements
<1>6. CASE start \in OnInstance
  <2>1. PICK i \in Instances :
          start = [NoCall EXCEPT !.does = "delete", !.at = "findInstance", !.instance = i]
    BY <1>6 DEF OnInstance
  <2>2. /\ start \in Call /\ start.at = "findInstance"
        /\ start.message = Nobody /\ start.does = "delete"
    BY <1>1, <2>1 DEF NoCall, Call, Statements
  <2>3. QED
    BY <2>2 DEF HasRow
<1>7. CASE \E does \in {"instance", "delete", "send"} : start \in OnGroup(does)
  BY <1>5, <1>7 DEF HasRow
<1>8. QED
  BY <1>3, <1>4, <1>6, <1>7 DEF Starts

(* An answer ends the handler; the message stays with the call.            *)
LEMMA Answered ==
  ASSUME TypeOK, NEW c \in Clients, NEW status \in {"ok", "error"}, Answer(c, status)
  PROVE  /\ call' \in [Clients -> Call]
         /\ \A d \in Clients \ {c} : call'[d] = call[d]
         /\ call'[c].at = "log" /\ call'[c].does = "none"
         /\ call'[c].message = call[c].message /\ call'[c].status = status
<1> DEFINE k == [NoCall EXCEPT !.at = "log", !.message = call[c].message, !.status = status]
<1>1. k \in Call
  BY CallTypes DEF TypeOK, NoCall, Call
<1>2. k.at = "log" /\ k.does = "none" /\ k.message = call[c].message /\ k.status = status
  BY CallTypes DEF NoCall, Call
<1>3. call' = [call EXCEPT ![c] = k]
  BY DEF Answer
<1>4. QED
  BY <1>1, <1>2, <1>3 DEF TypeOK

(* A handler that goes on changes its place only.                          *)
LEMMA WentOn ==
  ASSUME TypeOK, NEW c \in Clients, NEW at \in Statements \cup {"errorHandler"}, Goto(c, at)
  PROVE  /\ call' \in [Clients -> Call]
         /\ \A d \in Clients \ {c} : call'[d] = call[d]
         /\ call'[c] = [call[c] EXCEPT !.at = at]
<1>1. [call[c] EXCEPT !.at = at] \in Call
  BY DEF TypeOK, Call
<1>2. QED
  BY <1>1 DEF TypeOK, Goto
-----------------------------------------------------------------------------
Typed == TypeOK /\ LookupsKnow

(* Types are kept when one call is answered or goes on to a statement.     *)
LEMMA CallsTyped ==
  ASSUME Typed, NEW c \in Clients,
         \/ \E status \in {"ok", "error"} : Answer(c, status)
         \/ \E at \in (Statements \ {"findGroup"}) \cup {"errorHandler"} : Goto(c, at)
  PROVE  call' \in [Clients -> Call] /\ LookupsKnow'
<1>1. ASSUME NEW status \in {"ok", "error"}, Answer(c, status)
      PROVE  call' \in [Clients -> Call] /\ LookupsKnow'
  BY <1>1, Answered DEF Typed, LookupsKnow, At
<1>2. ASSUME NEW at \in (Statements \ {"findGroup"}) \cup {"errorHandler"}, Goto(c, at)
      PROVE  call' \in [Clients -> Call] /\ LookupsKnow'
  <2>1. /\ call' \in [Clients -> Call]
        /\ \A d \in Clients \ {c} : call'[d] = call[d]
        /\ call'[c] = [call[c] EXCEPT !.at = at]
    BY <1>2, WentOn DEF Typed
  <2>2. call'[c].at = at
    BY <2>1 DEF Typed, TypeOK, Call
  <2>3. QED
    BY <2>1, <2>2 DEF Typed, LookupsKnow, At
<1>3. QED
  BY <1>1, <1>2

(* A new or a finished request, or one for an instance of the group.       *)
LEMMA CallSet ==
  ASSUME Typed, NEW c \in Clients, NEW k \in Call, call' = [call EXCEPT ![c] = k],
         k.at = "findGroup" => k.does \in {"instance", "delete", "send"}
  PROVE  call' \in [Clients -> Call] /\ LookupsKnow'
BY DEF Typed, TypeOK, LookupsKnow, At

LEMMA RowTyped ==
  ASSUME TypeOK, NEW m,
         NEW status \in {"queued", "sent", "failed"}, NEW message \in {"acknowledged"} \cup Failures
  PROVE  /\ [row EXCEPT ![m].status = status] \in [Messages -> Row]
         /\ [row EXCEPT ![m].message = message] \in [Messages -> Row]
<1>1. ASSUME NEW n \in Messages
      PROVE  /\ [row[n] EXCEPT !.status = status] \in Row
             /\ [row[n] EXCEPT !.message = message] \in Row
  BY DEF TypeOK, Row
<1>2. QED
  BY <1>1 DEF TypeOK

LEMMA TypedInit == Init => Typed
<1> SUFFICES ASSUME Init PROVE Typed
  OBVIOUS
<1>1. call \in [Clients -> Call] /\ LookupsKnow
  BY CallTypes DEF Init, LookupsKnow, At, NoCall
<1>2. row \in [Messages -> Row]
  BY DEF Init, Row
<1>3. ring \in Ring
  BY RingAssumption DEF Init, NewRingBuffer, Ring, Slots
<1>4. faults \in 0..MaxFaults
  BY TenantAssumption DEF Init
<1>5. QED
  BY <1>1, <1>2, <1>3, <1>4 DEF Init, Typed, TypeOK

LEMMA TypedStep == Typed /\ [Next]_vars => Typed'
<1> SUFFICES ASSUME Typed, [Next]_vars PROVE Typed'
  OBVIOUS
<1> USE DEF Typed
<1>1. ASSUME NEW c \in Clients, Request(c) PROVE Typed'
  <2>1. PICK start \in Starts : call' = [call EXCEPT ![c] = start]
    BY <1>1 DEF Request
  <2>2. call' \in [Clients -> Call] /\ LookupsKnow'
    BY <2>1, CallTypes, CallSet
  <2>3. QED
    BY <1>1, <2>2 DEF Request, Rows, TypeOK
<1>2. ASSUME NEW c \in Clients, CountGroups(c) PROVE Typed'
  <2>1. call' \in [Clients -> Call] /\ LookupsKnow'
    BY <1>2, CallsTyped DEF CountGroups, Statements
  <2>2. QED
    BY <1>2, <2>1 DEF CountGroups, Rows, TypeOK
<1>3. ASSUME NEW c \in Clients, InsertGroup(c) PROVE Typed'
  <2>1. call' \in [Clients -> Call] /\ LookupsKnow'
    BY <1>3, CallsTyped DEF InsertGroup
  <2>2. QED
    BY <1>3, <2>1 DEF InsertGroup, TypeOK
<1>4. ASSUME NEW c \in Clients, FindGroup(c) PROVE Typed'
  <2>1. call[c].does \in {"instance", "delete", "send"}
    BY <1>4 DEF FindGroup, LookupsKnow
  <2>2. call' \in [Clients -> Call] /\ LookupsKnow'
    BY <1>4, <2>1, CallsTyped DEF FindGroup, Statements
  <2>3. QED
    BY <1>4, <2>2 DEF FindGroup, Rows, TypeOK
<1>5. ASSUME NEW c \in Clients, CountInstances(c) PROVE Typed'
  <2>1. call' \in [Clients -> Call] /\ LookupsKnow'
    BY <1>5, CallsTyped DEF CountInstances, Statements
  <2>2. QED
    BY <1>5, <2>1 DEF CountInstances, Rows, TypeOK
<1>6. ASSUME NEW c \in Clients, InsertInstance(c) PROVE Typed'
  <2>1. call' \in [Clients -> Call] /\ LookupsKnow'
    BY <1>6, CallsTyped DEF InsertInstance
  <2>2. groupOf' \in [Instances -> Groups \cup {Nobody}]
    BY <1>6 DEF InsertInstance, TypeOK
  <2>3. QED
    BY <1>6, <2>1, <2>2 DEF InsertInstance, TypeOK
<1>7. ASSUME NEW c \in Clients, DeleteGroup(c) PROVE Typed'
  <2>1. call' \in [Clients -> Call] /\ LookupsKnow'
    BY <1>7, CallsTyped DEF DeleteGroup
  <2>2. groupOf' \in [Instances -> Groups \cup {Nobody}]
    BY <1>7 DEF DeleteGroup, TypeOK
  <2>3. QED
    BY <1>7, <2>1, <2>2 DEF DeleteGroup, TypeOK
<1>8. ASSUME NEW c \in Clients, FindInstance(c) PROVE Typed'
  <2>1. call' \in [Clients -> Call] /\ LookupsKnow'
    BY <1>8, CallsTyped DEF FindInstance, Statements
  <2>2. QED
    BY <1>8, <2>1 DEF FindInstance, Rows, TypeOK
<1>9. ASSUME NEW c \in Clients, DeleteInstance(c) PROVE Typed'
  <2>1. call' \in [Clients -> Call] /\ LookupsKnow'
    BY <1>9, CallsTyped DEF DeleteInstance
  <2>2. groupOf' \in [Instances -> Groups \cup {Nobody}]
    BY <1>9 DEF DeleteInstance, TypeOK
  <2>3. QED
    BY <1>9, <2>1, <2>2 DEF DeleteInstance, TypeOK
<1>10. ASSUME NEW c \in Clients, SelectInstance(c) PROVE Typed'
  <2>1. ASSUME NEW i \in Instances,
               call' = [call EXCEPT ![c].at = "insertMessage", ![c].instance = i]
        PROVE  call' \in [Clients -> Call] /\ LookupsKnow'
    <3> DEFINE k == [call[c] EXCEPT !.at = "insertMessage", !.instance = i]
    <3>1. k \in Call /\ k.at = "insertMessage"
      BY DEF TypeOK, Call, Statements
    <3>2. call' = [call EXCEPT ![c] = k]
      BY <2>1 DEF TypeOK
    <3>3. QED
      BY <3>1, <3>2, CallSet
  <2>2. call' \in [Clients -> Call] /\ LookupsKnow'
    BY <1>10, <2>1, CallsTyped DEF SelectInstance
  <2>3. QED
    BY <1>10, <2>2 DEF SelectInstance, Rows, TypeOK
<1>11. ASSUME NEW c \in Clients, InsertMessage(c) PROVE Typed'
  <2>1. ASSUME NEW m \in Messages,
               row' = [row EXCEPT ![m] = [status |-> "queued", message |-> "unsent", by |-> c]],
               call' = [call EXCEPT ![c].at = "parseContent", ![c].message = m]
        PROVE  row' \in [Messages -> Row] /\ call' \in [Clients -> Call] /\ LookupsKnow'
    <3> DEFINE k == [call[c] EXCEPT !.at = "parseContent", !.message = m]
    <3>1. k \in Call /\ k.at = "parseContent"
      BY DEF TypeOK, Call, Statements
    <3>2. call' = [call EXCEPT ![c] = k]
      BY <2>1 DEF TypeOK
    <3>3. [status |-> "queued", message |-> "unsent", by |-> c] \in Row
      BY DEF Row
    <3>4. row' \in [Messages -> Row]
      BY <2>1, <3>3 DEF TypeOK
    <3>5. QED
      BY <3>1, <3>2, <3>4, CallSet
  <2>2. row' \in [Messages -> Row] /\ call' \in [Clients -> Call] /\ LookupsKnow'
    <3>1. CASE Answer(c, "error") /\ UNCHANGED row
      BY <3>1, CallsTyped DEF TypeOK
    <3>2. QED
      BY <1>11, <2>1, <3>1 DEF InsertMessage
  <2>3. QED
    BY <1>11, <2>2 DEF InsertMessage, TypeOK
<1>12. ASSUME NEW c \in Clients, ParseContent(c) PROVE Typed'
  <2>1. call' \in [Clients -> Call] /\ LookupsKnow'
    BY <1>12, CallsTyped DEF ParseContent, Statements
  <2>2. QED
    BY <1>12, <2>1 DEF ParseContent, Rows, TypeOK
<1>13. ASSUME NEW c \in Clients, SendMessage(c) PROVE Typed'
  <2>1. PICK outcome \in {"acknowledged"} \cup Failures :
          /\ row' = [row EXCEPT ![call[c].message].message = outcome]
          /\ Goto(c, AfterSend(outcome))
    BY <1>13 DEF SendMessage
  <2>2. call' \in [Clients -> Call] /\ LookupsKnow'
    BY <2>1, CallsTyped DEF AfterSend, Statements
  <2>3. row' \in [Messages -> Row]
    BY <2>1, RowTyped
  <2>4. QED
    BY <1>13, <2>2, <2>3 DEF SendMessage, TypeOK
<1>14. ASSUME NEW c \in Clients, UpdateSent(c) \/ UpdateFailed(c) PROVE Typed'
  <2>1. call' \in [Clients -> Call] /\ LookupsKnow'
    BY <1>14, CallsTyped DEF UpdateSent, UpdateFailed
  <2>2. row' \in [Messages -> Row]
    <3>1. \A status \in {"sent", "failed"} :
            [row EXCEPT ![call[c].message].status = status] \in [Messages -> Row]
      BY RowTyped
    <3>2. QED
      BY <1>14, <3>1 DEF UpdateSent, UpdateFailed
  <2>3. QED
    BY <1>14, <2>1, <2>2 DEF UpdateSent, UpdateFailed, TypeOK
<1>15. ASSUME NEW c \in Clients, StatementFails(c) PROVE Typed'
  <2>1. call' \in [Clients -> Call] /\ LookupsKnow'
    BY <1>15, CallsTyped DEF StatementFails
  <2>2. faults' \in 0..MaxFaults
    BY <1>15, TenantAssumption DEF StatementFails, Fail, TypeOK
  <2>3. QED
    BY <1>15, <2>1, <2>2 DEF StatementFails, TypeOK
<1>16. ASSUME NEW c \in Clients, LogRequest(c) \/ ErrorHandler(c) PROVE Typed'
  <2>1. call' \in [Clients -> Call] /\ LookupsKnow'
    <3>1. CASE call' = [call EXCEPT ![c] = NoCall]
      BY <3>1, CallTypes, CallSet DEF NoCall
    <3>2. QED
      BY <1>16, <3>1, CallsTyped DEF LogRequest, ErrorHandler
  <2>2. \A m \in Messages : [row[m] EXCEPT !.by = Nobody] \in Row
    BY DEF TypeOK, Row
  <2>3. row' \in [Messages -> Row]
    <3>1. \A m \in Messages :
            (IF row[m].by = c THEN [row[m] EXCEPT !.by = Nobody] ELSE row[m]) \in Row
      BY <2>2 DEF TypeOK
    <3>2. CASE LogRequest(c)
      BY <3>1, <3>2 DEF LogRequest
    <3>3. CASE ErrorHandler(c)
      BY <3>3 DEF ErrorHandler, Rows, TypeOK
    <3>4. QED
      BY <1>16, <3>2, <3>3
  <2>4. ring' \in Ring
    BY <1>16, WriteType, EntriesKnown DEF LogRequest, ErrorHandler, TypeOK
  <2>5. QED
    BY <1>16, <2>1, <2>3, <2>4 DEF LogRequest, ErrorHandler, Rows, TypeOK
<1>17. CASE Crash
  <2>1. call' \in [Clients -> Call] /\ LookupsKnow'
    BY <1>17, CallTypes DEF Crash, LookupsKnow, At, NoCall
  <2>2. \A m \in Messages : [row[m] EXCEPT !.by = Nobody] \in Row
    BY DEF TypeOK, Row
  <2>3. row' \in [Messages -> Row]
    BY <1>17, <2>2 DEF Crash, TypeOK
  <2>4. ring' \in Ring
    BY <1>17, RingAssumption DEF Crash, NewRingBuffer, Ring, Slots
  <2>5. faults' \in 0..MaxFaults
    BY <1>17, TenantAssumption DEF Crash, Fail, TypeOK
  <2>6. QED
    BY <1>17, <2>1, <2>3, <2>4, <2>5 DEF Crash, TypeOK
<1>18. CASE UNCHANGED vars
  BY <1>18 DEF vars, TypeOK, LookupsKnow, At
<1>19. QED
  BY <1>1, <1>2, <1>3, <1>4, <1>5, <1>6, <1>7, <1>8, <1>9, <1>10, <1>11, <1>12, <1>13,
     <1>14, <1>15, <1>16, <1>17, <1>18 DEF Next, RequestStep

-----------------------------------------------------------------------------
(* How the counts of rows and of those about to insert one move.           *)
LEMMA Counting ==
  ASSUME NEW S, IsFiniteSet(S), NEW T \in SUBSET S
  PROVE  /\ IsFiniteSet(T)
         /\ Cardinality(T) \in Nat /\ Cardinality(S) \in Nat
         /\ Cardinality(T) <= Cardinality(S)
BY FS_Subset, FS_CardinalityType

LEMMA Finite ==
  ASSUME TypeOK
  PROVE  /\ IsFiniteSet(groups) /\ IsFiniteSet(Existing)
         /\ \A statement : IsFiniteSet(Due(statement))
BY TenantAssumption, FS_Subset DEF TypeOK, Existing, Due

(* What one step does to a set of rows and to those who owe one of them.   *)
Kept(rows, rows2, due, due2) == rows2 \subseteq rows /\ due2 \subseteq due

Inserted(rows, rows2, due, due2) ==
  \E x, c : c \in due /\ rows2 = rows \cup {x} /\ due2 = due \ {c}

Counted(rows, rows2, max) == rows2 = rows /\ Cardinality(rows) < max

LEMMA LimitKept ==
  ASSUME NEW max \in Nat, NEW rows, NEW rows2, IsFiniteSet(rows), IsFiniteSet(rows2),
         NEW due \in SUBSET Clients, NEW due2 \in SUBSET Clients,
         Cardinality(rows) + Cardinality(due) < max + Cardinality(Clients),
         \/ Kept(rows, rows2, due, due2)
         \/ Inserted(rows, rows2, due, due2)
         \/ Counted(rows, rows2, max)
  PROVE  Cardinality(rows2) + Cardinality(due2) < max + Cardinality(Clients)
<1>1. /\ IsFiniteSet(due) /\ Cardinality(due) \in Nat
      /\ Cardinality(due2) \in Nat /\ Cardinality(Clients) \in Nat
      /\ Cardinality(due2) <= Cardinality(Clients)
      /\ Cardinality(rows) \in Nat /\ Cardinality(rows2) \in Nat
  BY TenantAssumption, Counting, FS_CardinalityType
<1>2. CASE Kept(rows, rows2, due, due2)
  <2>1. Cardinality(rows2) <= Cardinality(rows) /\ Cardinality(due2) <= Cardinality(due)
    BY <1>1, <1>2, Counting DEF Kept
  <2>2. QED
    BY <1>1, <2>1
<1>3. CASE Inserted(rows, rows2, due, due2)
  <2>1. PICK x, c : c \in due /\ rows2 = rows \cup {x} /\ due2 = due \ {c}
    BY <1>3 DEF Inserted
  <2>2. Cardinality(rows2) <= Cardinality(rows) + 1
    BY <1>1, <2>1, FS_AddElement
  <2>3. Cardinality(due2) = Cardinality(due) - 1
    BY <1>1, <2>1, FS_RemoveElement
  <2>4. QED
    BY <1>1, <2>2, <2>3
<1>4. CASE Counted(rows, rows2, max)
  BY <1>1, <1>4 DEF Counted
<1>5. QED
  BY <1>2, <1>3, <1>4

(* One call changes its place: the others owe what they owed.              *)
LEMMA DueMoves ==
  ASSUME NEW c \in Clients, \A d \in Clients \ {c} : call'[d] = call[d], NEW statement,
         call'[c].at # statement
  PROVE  Due(statement)' = Due(statement) \ {c}
BY DEF Due, At

(* A call comes to an insertion only by its count, and by room in it.      *)
LEMMA MovesOn ==
  ASSUME Typed, NEW c \in Clients, Request(c) \/ RequestStep(c)
  PROVE  /\ \A d \in Clients \ {c} : call'[d] = call[d]
         /\ call'[c].at = "insertGroup"
              => CountGroups(c) /\ Cardinality(groups) < MaxGroups
         /\ call'[c].at = "insertInstance"
              => CountInstances(c) /\ Cardinality(Existing) < MaxInstances
<1> DEFINE Elsewhere == /\ \A d \in Clients \ {c} : call'[d] = call[d]
                        /\ call'[c].at \notin {"insertGroup", "insertInstance"}
<1>1. ASSUME NEW status \in {"ok", "error"}, Answer(c, status) PROVE Elsewhere
  BY <1>1, Answered DEF Typed
<1>2. ASSUME NEW at \in Statements \cup {"errorHandler"}, Goto(c, at)
      PROVE  call'[c].at = at /\ \A d \in Clients \ {c} : call'[d] = call[d]
  BY <1>2 DEF Goto, Typed, TypeOK, Call
<1>3. ASSUME NEW k \in Call, k.at \notin {"insertGroup", "insertInstance"},
             call' = [call EXCEPT ![c] = k]
      PROVE  Elsewhere
  BY <1>3 DEF Typed, TypeOK
<1>4. ASSUME NEW at \in (Statements \ {"insertGroup", "insertInstance"}) \cup {"errorHandler"},
             Goto(c, at)
      PROVE  Elsewhere
  BY <1>2, <1>4
<1>5. CASE Request(c)
  BY <1>3, <1>5, CallTypes DEF Request
<1>6. CASE CountGroups(c)
  <2>1. CASE Cardinality(groups) >= MaxGroups
    BY <1>1, <1>6, <2>1 DEF CountGroups
  <2>2. CASE ~(Cardinality(groups) >= MaxGroups)
    <3>1. Goto(c, "insertGroup")
      BY <1>6, <2>2 DEF CountGroups
    <3>2. Cardinality(groups) < MaxGroups
      BY <2>2, Finite, FS_CardinalityType, TenantAssumption DEF Typed
    <3>3. QED
      BY <1>2, <1>6, <3>1, <3>2 DEF Statements
  <2>3. QED
    BY <2>1, <2>2
<1>7. CASE CountInstances(c)
  <2>1. CASE Cardinality(Existing) >= MaxInstances
    BY <1>1, <1>7, <2>1 DEF CountInstances
  <2>2. CASE ~(Cardinality(Existing) >= MaxInstances)
    <3>1. Goto(c, "insertInstance")
      BY <1>7, <2>2 DEF CountInstances
    <3>2. Cardinality(Existing) < MaxInstances
      BY <2>2, Finite, FS_CardinalityType, TenantAssumption DEF Typed
    <3>3. QED
      BY <1>2, <1>7, <3>1, <3>2 DEF Statements
  <2>3. QED
    BY <2>1, <2>2
<1>8. CASE InsertGroup(c) \/ InsertInstance(c) \/ DeleteGroup(c) \/ DeleteInstance(c)
           \/ UpdateSent(c) \/ UpdateFailed(c)
  BY <1>1, <1>8 DEF InsertGroup, InsertInstance, DeleteGroup, DeleteInstance, UpdateSent,
     UpdateFailed
<1>9. CASE FindGroup(c)
  <2>1. call[c].does \in {"instance", "delete", "send"}
    BY <1>9 DEF FindGroup, Typed, LookupsKnow
  <2>2. QED
    BY <1>1, <1>4, <1>9, <2>1 DEF FindGroup, Statements
<1>10. CASE FindInstance(c) \/ ParseContent(c)
  BY <1>1, <1>4, <1>10 DEF FindInstance, ParseContent, Statements
<1>11. CASE SelectInstance(c)
  <2>1. ASSUME NEW i \in Instances,
               call' = [call EXCEPT ![c].at = "insertMessage", ![c].instance = i]
        PROVE  Elsewhere
    BY <2>1 DEF Typed, TypeOK, Call
  <2>2. QED
    BY <1>1, <1>11, <2>1 DEF SelectInstance
<1>12. CASE InsertMessage(c)
  <2>1. ASSUME NEW m \in Messages,
               call' = [call EXCEPT ![c].at = "parseContent", ![c].message = m]
        PROVE  Elsewhere
    BY <2>1 DEF Typed, TypeOK, Call
  <2>2. QED
    BY <1>1, <1>12, <2>1 DEF InsertMessage
<1>13. CASE SendMessage(c)
  BY <1>4, <1>13 DEF SendMessage, AfterSend, Statements
<1>14. CASE StatementFails(c)
  BY <1>1, <1>14 DEF StatementFails
<1>15. CASE LogRequest(c) \/ ErrorHandler(c)
  <2>1. CASE call' = [call EXCEPT ![c] = NoCall]
    BY <1>3, <2>1, CallTypes DEF NoCall
  <2>2. QED
    BY <1>4, <1>15, <2>1 DEF LogRequest, ErrorHandler
<1>16. QED
  BY <1>5, <1>6, <1>7, <1>8, <1>9, <1>10, <1>11, <1>12, <1>13, <1>14, <1>15 DEF RequestStep

(* The rows of groups and instances: a step of a request inserts one, or   *)
(* none is new.                                                            *)
LEMMA RowsMove ==
  ASSUME Typed, NEW c \in Clients, Request(c) \/ RequestStep(c)
  PROVE  /\ \/ groups' \subseteq groups
            \/ InsertGroup(c)
         /\ \/ Existing' \subseteq Existing
            \/ At(c, "insertInstance") /\ \E i : Existing' = Existing \cup {i}
         /\ CountGroups(c) \/ CountInstances(c) => groups' = groups /\ Existing' = Existing
<1>1. CASE InsertInstance(c)
  <2>1. CASE call[c].group \in groups
    <3>1. PICK i \in Instances \ Existing : groupOf' = [groupOf EXCEPT ![i] = call[c].group]
      BY <1>1, <2>1 DEF InsertInstance
    <3>2. call[c].group # Nobody
      BY <2>1, TenantAssumption DEF Typed, TypeOK
    <3>3. Existing' = Existing \cup {i}
      BY <3>1, <3>2 DEF Existing, Typed, TypeOK
    <3>4. QED
      BY <1>1, <3>3 DEF InsertInstance, CountGroups, CountInstances, At
  <2>2. CASE call[c].group \notin groups
    BY <1>1, <2>2 DEF InsertInstance, Existing
  <2>3. QED
    BY <2>1, <2>2
<1>2. CASE DeleteGroup(c) \/ DeleteInstance(c)
  BY <1>2 DEF DeleteGroup, DeleteInstance, Existing, Typed, TypeOK, CountGroups, CountInstances, At
<1>3. CASE ~InsertInstance(c) /\ ~DeleteGroup(c) /\ ~DeleteInstance(c)
  <2>1. groupOf' = groupOf /\ (groups' = groups \/ InsertGroup(c))
    BY <1>3 DEF RequestStep, Request, CountGroups, InsertGroup, FindGroup, CountInstances,
       FindInstance, SelectInstance, InsertMessage, ParseContent, SendMessage, UpdateSent,
       UpdateFailed, StatementFails, LogRequest, ErrorHandler, Rows
  <2>2. Existing' = Existing
    BY <2>1 DEF Existing
  <2>3. CountGroups(c) \/ CountInstances(c) => groups' = groups
    BY DEF CountGroups, CountInstances, Rows
  <2>4. QED
    BY <2>1, <2>2, <2>3
<1>4. QED
  BY <1>1, <1>2, <1>3

LEMMA LimitsInit == Init => Limits
<1> SUFFICES ASSUME Init PROVE Limits
  OBVIOUS
<1>1. Due("insertGroup") = {} /\ Due("insertInstance") = {} /\ Existing = {}
  BY DEF Init, Due, At, NoCall, Existing
<1>2. Cardinality(Clients) \in Nat \ {0} /\ Cardinality({}) = 0
  BY TenantAssumption, FS_CardinalityType, FS_EmptySet
<1>3. Cardinality(groups) <= MaxGroups /\ Cardinality(groups) \in Nat
  BY TenantAssumption, FS_Subset, FS_CardinalityType DEF Init
<1>4. QED
  BY <1>1, <1>2, <1>3, TenantAssumption DEF Limits

LEMMA LimitsStep == Typed /\ Limits /\ [Next]_vars => Limits'
<1> SUFFICES ASSUME Typed, Limits, [Next]_vars PROVE Limits'
  OBVIOUS
<1>1. TypeOK'
  BY TypedStep DEF Typed
<1>2. /\ IsFiniteSet(groups) /\ IsFiniteSet(Existing)
      /\ IsFiniteSet(groups') /\ IsFiniteSet(Existing')
  <2>1. IsFiniteSet(groups) /\ IsFiniteSet(Existing)
    BY Finite DEF Typed
  <2>2. IsFiniteSet(groups') /\ IsFiniteSet(Existing')
    BY <1>1, TenantAssumption, FS_Subset DEF TypeOK, Existing
  <2>3. QED
    BY <2>1, <2>2
<1>3. \A statement : Due(statement) \in SUBSET Clients /\ Due(statement)' \in SUBSET Clients
  BY DEF Due
<1> DEFINE InBounds(rows, rows2, max, due, due2) ==
             \/ Kept(rows, rows2, due, due2)
             \/ Inserted(rows, rows2, due, due2)
             \/ Counted(rows, rows2, max)
<1>4. SUFFICES /\ InBounds(groups, groups', MaxGroups, Due("insertGroup"), Due("insertGroup")')
               /\ InBounds(Existing, Existing', MaxInstances,
                           Due("insertInstance"), Due("insertInstance")')
  BY <1>2, <1>3, LimitKept, TenantAssumption DEF Limits
<1>5. ASSUME NEW c \in Clients, Request(c) \/ RequestStep(c)
      PROVE  InBounds(groups, groups', MaxGroups, Due("insertGroup"), Due("insertGroup")')
  <2>1. CASE call'[c].at = "insertGroup"
    BY <1>5, <2>1, MovesOn, RowsMove DEF Counted
  <2>2. CASE call'[c].at # "insertGroup"
    <3>1. Due("insertGroup")' = Due("insertGroup") \ {c}
      BY <1>5, <2>2, MovesOn, DueMoves
    <3>2. CASE groups' \subseteq groups
      BY <3>1, <3>2 DEF Kept
    <3>3. CASE InsertGroup(c)
      <4>1. c \in Due("insertGroup") /\ \E g : groups' = groups \cup {g}
        BY <3>3 DEF InsertGroup, Due
      <4>2. QED
        BY <3>1, <4>1 DEF Inserted
    <3>4. QED
      BY <1>5, <3>2, <3>3, RowsMove
  <2>3. QED
    BY <2>1, <2>2
<1>6. ASSUME NEW c \in Clients, Request(c) \/ RequestStep(c)
      PROVE  InBounds(Existing, Existing', MaxInstances,
                      Due("insertInstance"), Due("insertInstance")')
  <2>1. CASE call'[c].at = "insertInstance"
    BY <1>6, <2>1, MovesOn, RowsMove DEF Counted
  <2>2. CASE call'[c].at # "insertInstance"
    <3>1. Due("insertInstance")' = Due("insertInstance") \ {c}
      BY <1>6, <2>2, MovesOn, DueMoves
    <3>2. CASE Existing' \subseteq Existing
      BY <3>1, <3>2 DEF Kept
    <3>3. CASE At(c, "insertInstance") /\ \E i : Existing' = Existing \cup {i}
      BY <3>1, <3>3 DEF Inserted, Due
    <3>4. QED
      BY <1>6, <3>2, <3>3, RowsMove
  <2>3. QED
    BY <2>1, <2>2
<1>7. CASE Crash
  <2>1. \A statement \in Statements : Due(statement)' = {}
    BY <1>7 DEF Crash, Due, At, NoCall, Statements
  <2>2. groups' = groups /\ Existing' = Existing
    BY <1>7 DEF Crash, Existing
  <2>3. QED
    BY <2>1, <2>2 DEF Kept, Statements
<1>8. CASE UNCHANGED vars
  BY <1>8 DEF vars, Kept, Due, At, Existing
<1>9. QED
  BY <1>5, <1>6, <1>7, <1>8 DEF Next
-----------------------------------------------------------------------------
(* A step that leaves the rows of the other requests alone leaves those    *)
(* requests in order, and the rows that they work on.                      *)
LEMMA OthersInOrder ==
  ASSUME Typed, Outcomes, NEW c \in Clients,
         \A d \in Clients \ {c} : call'[d] = call[d],
         \A m \in Messages : row[m].by \in Clients \ {c} => row'[m] = row[m],
         faults' = 0 => faults = 0
  PROVE  /\ \A d \in Clients \ {c} : CallInOrder(d)'
         /\ \A m \in Messages : row[m].by \in Clients \ {c} => RowInOrder(m)'
<1>1. ASSUME NEW d \in Clients \ {c} PROVE CallInOrder(d)'
  <2>1. CASE call[d].message = Nobody
    BY <2>1 DEF CallInOrder, Outcomes
  <2>2. CASE call[d].message # Nobody
    <3>1. call[d].message \in Messages
      BY <2>2 DEF Typed, TypeOK, Call
    <3>2. row[call[d].message].by = d
      BY <2>2 DEF Outcomes, CallInOrder, WorksOn
    <3>3. row'[call[d].message] = row[call[d].message]
      BY <3>1, <3>2
    <3>4. QED
      BY <3>3 DEF CallInOrder, Outcomes, WorksOn
  <2>3. QED
    BY <2>1, <2>2
<1>2. ASSUME NEW m \in Messages, row[m].by \in Clients \ {c} PROVE RowInOrder(m)'
  BY <1>2, TenantAssumption DEF RowInOrder, Outcomes
<1>3. QED
  BY <1>1, <1>2

(* A request without a row takes a step and still has none.                *)
LEMMA WithoutRow ==
  ASSUME Typed, Outcomes, NEW c \in Clients,
         \A d \in Clients \ {c} : call'[d] = call[d],
         call[c].message = Nobody, call'[c].message = Nobody, call'[c].at \notin HasRow,
         call'[c].does = "noRoute" => call'[c].at \in {"log", "errorHandler"},
         row' = row, faults' = 0 => faults = 0
  PROVE  Outcomes'
<1>1. \A d \in Clients \ {c} : CallInOrder(d)'
  BY OthersInOrder
<1>2. CallInOrder(c)'
  BY DEF CallInOrder, HoldsRow
<1>3. ASSUME NEW m \in Messages PROVE RowInOrder(m)'
  <2>1. RowInOrder(m) /\ row[m].by \in Clients \cup {Nobody}
    BY DEF Outcomes, Typed, TypeOK, Row
  <2>2. row[m].by # c
    BY <2>1, TenantAssumption DEF RowInOrder, Typed, TypeOK
  <2>3. QED
    BY <2>1, <2>2 DEF RowInOrder
<1>4. QED
  BY <1>1, <1>2, <1>3 DEF Outcomes

(* A request works on its row m, which no other has.                       *)
LEMMA WithRow ==
  ASSUME Typed, Outcomes, NEW c \in Clients, NEW m \in Messages,
         call[c].message = m \/ (call[c].message = Nobody /\ row[m].by = Nobody),
         \A d \in Clients \ {c} : call'[d] = call[d],
         \A n \in Messages \ {m} : row'[n] = row[n],
         faults' = 0 => faults = 0,
         CallInOrder(c)', RowInOrder(m)'
  PROVE  Outcomes'
<1>1. \A n \in Messages : row[n].by \in Clients \ {c} => row'[n] = row[n]
  <2>1. row[m].by \notin Clients \ {c}
    BY TenantAssumption DEF Outcomes, CallInOrder, WorksOn
  <2>2. QED
    BY <2>1
<1>2. \A d \in Clients \ {c} : CallInOrder(d)'
  BY <1>1, OthersInOrder
<1>3. ASSUME NEW n \in Messages \ {m} PROVE RowInOrder(n)'
  <2>1. RowInOrder(n) /\ row[n].by \in Clients \cup {Nobody}
    BY DEF Outcomes, Typed, TypeOK, Row
  <2>2. row[n].by # c
    BY <2>1, TenantAssumption DEF RowInOrder
  <2>3. QED
    BY <2>1, <2>2 DEF RowInOrder
<1>4. QED
  BY <1>2, <1>3 DEF Outcomes

LEMMA OutcomesInit == Init => Outcomes
<1> SUFFICES ASSUME Init PROVE Outcomes
  OBVIOUS
<1>1. \A c \in Clients : CallInOrder(c)
  BY DEF Init, NoCall, CallInOrder, HoldsRow, HasRow
<1>2. \A m \in Messages : RowInOrder(m)
  BY DEF Init, RowInOrder, True, Told, Failures
<1>3. QED
  BY <1>1, <1>2 DEF Outcomes

LEMMA OutcomesStep == Typed /\ Outcomes /\ [Next]_vars => Outcomes'
<1> SUFFICES ASSUME Typed, Outcomes, [Next]_vars PROVE Outcomes'
  OBVIOUS
<1>1. Typed' /\ (faults' = 0 => faults = 0)
  <2>1. Typed'
    BY TypedStep
  <2>2. faults \in Nat
    BY TenantAssumption DEF Typed, TypeOK
  <2>3. Fail => faults' # 0
    BY <2>2 DEF Fail
  <2>4. QED
    BY <2>1, <2>3 DEF Next, RequestStep, Request, CountGroups, InsertGroup, FindGroup,
       CountInstances, InsertInstance, DeleteGroup, FindInstance, DeleteInstance, SelectInstance,
       InsertMessage, ParseContent, SendMessage, UpdateSent, UpdateFailed, StatementFails,
       LogRequest, ErrorHandler, Crash, vars
<1>2. ASSUME NEW c \in Clients, Request(c) \/ RequestStep(c)
      PROVE  /\ \A d \in Clients \ {c} : call'[d] = call[d]
             /\ CallInOrder(c) /\ call[c] \in Call /\ call'[c] \in Call
  BY <1>1, <1>2, MovesOn DEF Outcomes, Typed, TypeOK
<1>3. ASSUME NEW c \in Clients, Request(c) \/ RequestStep(c),
             call[c].at \notin HasRow \cup {"log"}, ~InsertMessage(c)
      PROVE  Outcomes'
  <2>1. call[c].message = Nobody /\ \A d \in Clients \ {c} : call'[d] = call[d]
    BY <1>2, <1>3 DEF CallInOrder, HoldsRow
  <2>2. row' = row
    BY <1>3 DEF RequestStep, Request, CountGroups, InsertGroup, FindGroup, CountInstances,
       InsertInstance, DeleteGroup, FindInstance, DeleteInstance, SelectInstance, ParseContent,
       SendMessage, UpdateSent, UpdateFailed, StatementFails, LogRequest, ErrorHandler, Rows,
       At, HasRow
  <2> DEFINE Still == /\ call'[c].message = Nobody /\ call'[c].at \notin HasRow
                      /\ call'[c].does = "noRoute" => call'[c].at \in {"log", "errorHandler"}
  <2>3. Still
    <3>1. ASSUME NEW status \in {"ok", "error"}, Answer(c, status)
          PROVE  Still
      BY <2>1, <3>1, Answered DEF HasRow, Typed
    <3>2. ASSUME NEW at \in Statements \ HasRow, Goto(c, at), call[c].at # "errorHandler"
          PROVE  Still
      <4>1. call'[c] = [call[c] EXCEPT !.at = at]
        BY <3>2, WentOn DEF Typed
      <4>2. /\ call'[c].message = call[c].message /\ call'[c].at = at
            /\ call'[c].does = call[c].does
        BY <1>2, <1>3, <4>1 DEF Call
      <4>3. call[c].does # "noRoute"
        BY <1>2, <1>3, <3>2 DEF CallInOrder, HoldsRow
      <4>4. QED
        BY <2>1, <3>2, <4>2, <4>3
    <3>3. CASE Request(c)
      BY <3>3, CallTypes DEF Request, Typed, TypeOK
    <3>4. CASE CountGroups(c) \/ InsertGroup(c) \/ CountInstances(c) \/ InsertInstance(c)
               \/ DeleteGroup(c) \/ FindInstance(c) \/ DeleteInstance(c) \/ StatementFails(c)
      BY <3>1, <3>2, <3>4 DEF CountGroups, InsertGroup, CountInstances, InsertInstance, DeleteGroup,
         FindInstance, DeleteInstance, StatementFails, Statements, HasRow, At
    <3>5. CASE FindGroup(c)
      <4>1. call[c].does \in {"instance", "delete", "send"}
        BY <3>5 DEF FindGroup, Typed, LookupsKnow
      <4>2. QED
        BY <3>1, <3>2, <3>5, <4>1 DEF FindGroup, Statements, HasRow, At
    <3>6. CASE SelectInstance(c)
      <4>1. ASSUME NEW i \in Instances,
                   call' = [call EXCEPT ![c].at = "insertMessage", ![c].instance = i]
            PROVE  Still
        <5>1. call[c].does # "noRoute"
          BY <1>2, <1>3, <3>6 DEF SelectInstance, At, CallInOrder, HoldsRow
        <5>2. QED
          BY <2>1, <4>1, <5>1 DEF Typed, TypeOK, Call, HasRow
      <4>2. QED
        BY <3>1, <3>6, <4>1 DEF SelectInstance
    <3>7. CASE ErrorHandler(c)
      BY <3>7 DEF ErrorHandler, NoCall, HasRow, Typed, TypeOK
    <3>8. QED
      BY <1>3, <3>3, <3>4, <3>5, <3>6, <3>7 DEF RequestStep, ParseContent, SendMessage,
         UpdateSent, UpdateFailed, LogRequest, At, HasRow
  <2>4. QED
    BY <1>1, <2>1, <2>2, <2>3, WithoutRow
<1>4. ASSUME NEW c \in Clients, InsertMessage(c) PROVE Outcomes'
  <2>1. /\ call[c].message = Nobody /\ call[c].does # "noRoute"
        /\ \A d \in Clients \ {c} : call'[d] = call[d]
    BY <1>2, <1>4 DEF RequestStep, InsertMessage, At, CallInOrder, HoldsRow, HasRow
  <2>2. CASE Answer(c, "error") /\ UNCHANGED row
    <3>1. call'[c].message = Nobody /\ call'[c].at = "log" /\ call'[c].does = "none"
      BY <2>1, <2>2, Answered DEF Typed
    <3>2. QED
      BY <1>1, <2>1, <2>2, <3>1, WithoutRow DEF HasRow
  <2>3. ASSUME NEW m \in Messages, row[m].by = Nobody,
               row' = [row EXCEPT ![m] = [status |-> "queued", message |-> "unsent", by |-> c]],
               call' = [call EXCEPT ![c].at = "parseContent", ![c].message = m]
        PROVE  Outcomes'
    <3>1. call'[c].at = "parseContent" /\ call'[c].message = m /\ call'[c].does = call[c].does
      BY <2>3 DEF Typed, TypeOK, Call
    <3>2. /\ row'[m].status = "queued" /\ row'[m].message = "unsent" /\ row'[m].by = c
          /\ \A n \in Messages \ {m} : row'[n] = row[n]
      BY <2>3 DEF Typed, TypeOK
    <3>3. CallInOrder(c)'
      BY <2>1, <3>1, <3>2 DEF CallInOrder, HoldsRow, WorksOn, HasRow
    <3>4. RowInOrder(m)'
      BY <3>1, <3>2, TenantAssumption DEF RowInOrder, True, Told
    <3>5. QED
      BY <1>1, <2>1, <2>3, <3>2, <3>3, <3>4, WithRow
  <2>4. QED
    BY <1>4, <2>2, <2>3 DEF InsertMessage
<1>5. ASSUME NEW c \in Clients, call[c].at \in HasRow, RequestStep(c) PROVE Outcomes'
  <2>0. PICK m \in Messages : m = call[c].message
    BY <1>2, <1>5 DEF CallInOrder, HoldsRow
  <2>1. /\ m # Nobody /\ row[m] \in Row /\ call[c].does # "noRoute"
        /\ WorksOn(call[c], row[m], c, faults) /\ RowInOrder(m)
        /\ \A d \in Clients \ {c} : call'[d] = call[d]
    <3>1. m # Nobody /\ call[c].does # "noRoute"
      BY <1>2, <1>5, TenantAssumption DEF CallInOrder, HoldsRow, HasRow
    <3>2. QED
      BY <1>2, <1>5, <2>0, <3>1 DEF CallInOrder, Outcomes, Typed, TypeOK
  <2>2. SUFFICES /\ \A n \in Messages \ {m} : row'[n] = row[n]
                 /\ CallInOrder(c)' /\ RowInOrder(m)'
    BY <1>1, <2>0, <2>1, WithRow
  (* The call is answered, or goes on; its row is c's still.               *)
  <2>3. ASSUME NEW status \in {"ok", "error"}, Answer(c, status),
               row'[m].by = c, True(row'[m]),
               (status = "ok") = (row'[m].message = "acknowledged"), faults' = 0 => Told(row'[m])
        PROVE  CallInOrder(c)' /\ RowInOrder(m)'
    <3>1. /\ call'[c].at = "log" /\ call'[c].does = "none"
          /\ call'[c].message = m /\ call'[c].status = status
      BY <2>0, <2>3, Answered DEF Typed
    <3>2. QED
      BY <2>1, <2>3, <3>1, TenantAssumption
         DEF CallInOrder, HoldsRow, HasRow, WorksOn, RowInOrder
  <2>4. ASSUME NEW at \in {"sendMessage", "updateSent", "updateFailed"}, Goto(c, at),
               row'[m].by = c, row'[m].status = "queued",
               row'[m].message \in CASE at = "sendMessage"  -> {"unsent"}
                                     [] at = "updateSent"   -> {"acknowledged"}
                                     [] at = "updateFailed" -> Failures
        PROVE  CallInOrder(c)' /\ RowInOrder(m)'
    <3>1. call'[c] = [call[c] EXCEPT !.at = at]
      BY <2>4, WentOn DEF Typed, Statements
    <3>2. call'[c].at = at /\ call'[c].message = m /\ call'[c].does = call[c].does
      BY <2>0, <3>1 DEF Typed, TypeOK, Call
    <3>3. QED
      BY <2>1, <2>4, <3>2, TenantAssumption
         DEF CallInOrder, HoldsRow, HasRow, WorksOn, RowInOrder, True
  <2>5. CASE ParseContent(c)
    <3>1. row' = row /\ call[c].at = "parseContent"
      BY <2>5 DEF ParseContent, Rows, At
    <3>2. row[m].by = c /\ row[m].status = "queued" /\ row[m].message = "unsent"
      BY <2>1, <3>1 DEF WorksOn
    <3>3. CASE Goto(c, "sendMessage")
      BY <2>4, <3>1, <3>2, <3>3
    <3>4. CASE Answer(c, "error")
      BY <2>3, <3>1, <3>2, <3>4 DEF True, Told, Failures
    <3>5. QED
      BY <2>5, <3>1, <3>3, <3>4 DEF ParseContent
  <2>6. CASE SendMessage(c)
    <3>1. PICK outcome \in {"acknowledged"} \cup Failures :
            row' = [row EXCEPT ![m].message = outcome] /\ Goto(c, AfterSend(outcome))
      BY <2>0, <2>6 DEF SendMessage
    <3>2. row[m].by = c /\ row[m].status = "queued"
      BY <2>1, <2>6 DEF SendMessage, At, WorksOn
    <3>3. /\ row'[m].by = c /\ row'[m].status = "queued" /\ row'[m].message = outcome
          /\ \A n \in Messages \ {m} : row'[n] = row[n]
      BY <2>1, <3>1, <3>2 DEF Typed, TypeOK, Row
    <3>4. CASE outcome = "acknowledged"
      <4>1. Goto(c, "updateSent")
        BY <3>1, <3>4 DEF AfterSend
      <4>2. QED
        BY <2>4, <3>3, <3>4, <4>1
    <3>5. CASE outcome \in Failures
      <4>1. Goto(c, "updateFailed")
        BY <3>1, <3>5 DEF AfterSend, Failures
      <4>2. QED
        BY <2>4, <3>3, <3>5, <4>1
    <3>6. QED
      BY <3>3, <3>4, <3>5
  <2>7. CASE UpdateSent(c)
    <3>1. row' = [row EXCEPT ![m].status = "sent"] /\ Answer(c, "ok")
      BY <2>0, <2>7 DEF UpdateSent
    <3>2. row[m].by = c /\ row[m].message = "acknowledged"
      BY <2>1, <2>7 DEF UpdateSent, At, WorksOn
    <3>3. /\ row'[m].by = c /\ row'[m].status = "sent" /\ row'[m].message = "acknowledged"
          /\ \A n \in Messages \ {m} : row'[n] = row[n]
      BY <2>1, <3>1, <3>2 DEF Typed, TypeOK, Row
    <3>4. QED
      BY <2>3, <3>1, <3>3 DEF True, Told, Failures
  <2>8. CASE UpdateFailed(c)
    <3>1. row' = [row EXCEPT ![m].status = "failed"] /\ Answer(c, "error")
      BY <2>0, <2>8 DEF UpdateFailed
    <3>2. row[m].by = c /\ row[m].message \in Failures
      BY <2>1, <2>8 DEF UpdateFailed, At, WorksOn
    <3>3. /\ row'[m].by = c /\ row'[m].status = "failed" /\ row'[m].message \in Failures
          /\ \A n \in Messages \ {m} : row'[n] = row[n]
      BY <2>1, <3>1, <3>2 DEF Typed, TypeOK, Row
    <3>4. QED
      BY <2>3, <3>1, <3>3 DEF True, Told, Failures
  <2>9. CASE StatementFails(c)
    <3>1. row' = row /\ call[c].at \in {"updateSent", "updateFailed"}
      BY <1>5, <2>9 DEF StatementFails, NotStatements, HasRow
    <3>2. faults' # 0
      BY <2>9, TenantAssumption DEF StatementFails, Fail, Typed, TypeOK
    <3>3. row[m].by = c /\ True(row[m])
      BY <2>1 DEF WorksOn, RowInOrder
    <3>4. CASE call[c].at = "updateSent"
      <4>1. Answer(c, "ok") /\ row[m].message = "acknowledged"
        BY <2>1, <2>9, <3>4 DEF StatementFails, Dropped, At, WorksOn
      <4>2. QED
        BY <2>3, <3>1, <3>2, <3>3, <4>1
    <3>5. CASE call[c].at = "updateFailed"
      <4>1. Answer(c, "error") /\ row[m].message \in Failures
        BY <2>1, <2>9, <3>5 DEF StatementFails, Dropped, At, WorksOn
      <4>2. QED
        BY <2>3, <3>1, <3>2, <3>3, <4>1 DEF True, Told, Failures
    <3>6. QED
      BY <3>1, <3>4, <3>5
  <2>10. QED
    BY <1>5, <2>5, <2>6, <2>7, <2>8, <2>9 DEF RequestStep, CountGroups, InsertGroup, FindGroup,
       CountInstances, InsertInstance, DeleteGroup, FindInstance, DeleteInstance, SelectInstance,
       InsertMessage, LogRequest, ErrorHandler, At, HasRow
<1>6. ASSUME NEW c \in Clients, LogRequest(c) PROVE Outcomes'
  <2>1. /\ CallInOrder(c) /\ call[c].at = "log" /\ faults' = faults
        /\ \A d \in Clients \ {c} : call'[d] = call[d]
    BY <1>2, <1>6 DEF RequestStep, LogRequest, At
  <2>2. /\ call'[c].message = Nobody
        /\ \/ call'[c].at = "idle" /\ call'[c].does = "none"
           \/ call'[c].at = "errorHandler"
    <3>1. CASE call[c].does = "noRoute"
      <4>1. call' = [call EXCEPT ![c].at = "errorHandler"]
        BY <1>6, <3>1 DEF LogRequest, Goto
      <4>2. QED
        BY <2>1, <3>1, <4>1 DEF CallInOrder, HoldsRow, Typed, TypeOK, Call
    <3>2. CASE call[c].does # "noRoute"
      BY <1>6, <3>2 DEF LogRequest, NoCall, Typed, TypeOK
    <3>3. QED
      BY <3>1, <3>2
  <2>3. CallInOrder(c)'
    BY <2>2 DEF CallInOrder, HoldsRow, HasRow
  <2>4. ASSUME NEW m \in Messages
        PROVE  /\ row[m].by # c => row'[m] = row[m]
               /\ row[m].by = c => /\ row'[m].by = Nobody
                                   /\ row'[m].status = row[m].status
                                   /\ row'[m].message = row[m].message
    BY <1>6 DEF LogRequest, Typed, TypeOK, Row
  <2>5. /\ \A d \in Clients \ {c} : CallInOrder(d)'
        /\ \A m \in Messages : row[m].by \in Clients \ {c} => RowInOrder(m)'
    BY <2>1, <2>4, OthersInOrder
  <2>6. ASSUME NEW m \in Messages, row[m].by = c PROVE RowInOrder(m)'
    <3>1. call[c].message = m /\ m # Nobody /\ True(row[m])
      BY <2>6, TenantAssumption DEF Outcomes, RowInOrder
    <3>2. faults = 0 => Told(row[m])
      BY <2>1, <3>1 DEF CallInOrder, WorksOn
    <3>3. QED
      BY <2>1, <2>4, <2>6, <3>1, <3>2 DEF RowInOrder, True, Told
  <2>7. ASSUME NEW m \in Messages, row[m].by = Nobody PROVE RowInOrder(m)'
    BY <1>6, <2>1, <2>4, <2>7, TenantAssumption DEF Outcomes, RowInOrder
  <2>8. QED
    BY <2>3, <2>5, <2>6, <2>7 DEF Outcomes, Typed, TypeOK, Row
<1>7. CASE Crash
  <2>1. \A c \in Clients : CallInOrder(c)'
    BY <1>7 DEF Crash, CallInOrder, HoldsRow, HasRow, NoCall
  <2>2. faults' # 0
    BY <1>7, TenantAssumption DEF Crash, Fail, Typed, TypeOK
  <2>3. ASSUME NEW m \in Messages PROVE RowInOrder(m)'
    <3>1. /\ row'[m].by = Nobody /\ row'[m].status = row[m].status
          /\ row'[m].message = row[m].message
      BY <1>7 DEF Crash, Typed, TypeOK, Row
    <3>2. QED
      BY <2>2, <3>1 DEF Outcomes, RowInOrder, True
  <2>4. QED
    BY <2>1, <2>3 DEF Outcomes
<1>8. CASE UNCHANGED vars
  BY <1>8 DEF vars, Outcomes, CallInOrder, RowInOrder
<1>9. ASSUME NEW c \in Clients, Request(c) \/ RequestStep(c) PROVE Outcomes'
  <2>1. CASE call[c].at \in HasRow
    BY <1>5, <1>9, <2>1 DEF Request, At, HasRow
  <2>2. CASE call[c].at = "log"
    <3>1. LogRequest(c)
      BY <1>9, <2>2 DEF RequestStep, Request, CountGroups, InsertGroup, FindGroup,
         CountInstances, InsertInstance, DeleteGroup, FindInstance, DeleteInstance,
         SelectInstance, InsertMessage, ParseContent, SendMessage, UpdateSent, UpdateFailed,
         StatementFails, ErrorHandler, At, Statements
    <3>2. QED
      BY <1>6, <3>1
  <2>3. QED
    BY <1>3, <1>4, <1>9, <2>1, <2>2
<1>10. QED
  BY <1>7, <1>8, <1>9 DEF Next
-----------------------------------------------------------------------------
(* An index that is too large by less than the size wraps once.            *)
Wrap(x) == IF x < Size THEN x ELSE x - Size

LEMMA WrapOnce == \A x \in 0..(2 * Size - 1) : x % Size = Wrap(x) /\ Wrap(x) \in Slots
<1>1. \A a \in Slots : a % Size = a /\ (a + Size) % Size = a
  BY RingAssumption DEF Slots
<1>2. SUFFICES ASSUME NEW x \in 0..(2 * Size - 1) PROVE x % Size = Wrap(x) /\ Wrap(x) \in Slots
  OBVIOUS
<1>3. CASE x < Size
  BY <1>1, <1>3, RingAssumption DEF Wrap, Slots
<1>4. CASE ~(x < Size)
  <2>1. x - Size \in Slots /\ (x - Size) + Size = x
    BY <1>4, RingAssumption DEF Slots
  <2>2. x % Size = x - Size
    BY <1>1, <2>1
  <2>3. QED
    BY <1>4, <2>1, <2>2 DEF Wrap
<1>5. QED
  BY <1>3, <1>4

(* Where the n-th of the held entries is.                                  *)
LEMMA HeldAt ==
  ASSUME NEW r \in Ring
  PROVE  /\ Held(r) \in Seq(Entry \cup {NoEntry}) /\ Len(Held(r)) = r.count
         /\ \A n \in 1..r.count : Held(r)[n] = r.entries[Wrap(r.cursor + (Size - r.count) + (n - 1))]
<1>1. ASSUME NEW n \in 1..r.count
      PROVE  /\ r.cursor + (Size - r.count) + (n - 1) \in 0..(2 * Size - 1)
             /\ Held(r)[n] = r.entries[Wrap(r.cursor + (Size - r.count) + (n - 1))]
             /\ Held(r)[n] \in Entry \cup {NoEntry}
  <2>1. r.cursor + (Size - r.count) + (n - 1) \in 0..(2 * Size - 1)
    BY RingAssumption DEF Ring, Slots
  <2>2. Held(r)[n] = r.entries[(r.cursor + (Size - r.count) + (n - 1)) % Size]
    BY DEF Held
  <2>3. QED
    BY <2>1, <2>2, WrapOnce DEF Ring
<1>2. r.count \in Nat
  BY RingAssumption DEF Ring
<1>3. Held(r) \in [1..r.count -> Entry \cup {NoEntry}]
  <2>1. Held(r) = [n \in 1..r.count |-> Held(r)[n]]
    BY DEF Held
  <2>2. QED
    BY <1>1, <2>1, Zenon
<1>4. QED
  BY <1>1, <1>2, <1>3

(* Writing appends to what is held, and the oldest falls out of a full one.*)
LEMMA HeldWrite ==
  ASSUME NEW r \in Ring, NEW e \in Entry, Write(r, e) \in Ring
  PROVE  Held(Write(r, e)) = Log!LastOf(Append(Held(r), e), Size)
<1> DEFINE w == Write(r, e)
           longer == Append(Held(r), e)
           last == Log!LastOf(longer, Size)
<1>1. /\ r.cursor \in Slots /\ r.count \in 0..Size /\ Size \in Nat \ {0}
      /\ w.cursor = Wrap(r.cursor + 1)
      /\ w.count = IF r.count < Size THEN r.count + 1 ELSE r.count
      /\ w.entries = [r.entries EXCEPT ![r.cursor] = e]
  <2>1. r.cursor \in Slots /\ r.count \in 0..Size /\ Size \in Nat \ {0}
    BY RingAssumption DEF Ring
  <2>2. (r.cursor + 1) % Size = Wrap(r.cursor + 1)
    BY <2>1, WrapOnce DEF Slots
  <2>3. QED
    BY <2>1, <2>2 DEF Write
<1>2. /\ longer \in Seq(Entry \cup {NoEntry}) /\ Len(longer) = r.count + 1
      /\ \A n \in 1..r.count : longer[n] = r.entries[Wrap(r.cursor + (Size - r.count) + (n - 1))]
      /\ longer[r.count + 1] = e
  BY <1>1, HeldAt
<1>3. /\ last \in Seq(Entry \cup {NoEntry}) /\ Len(last) = w.count
      /\ \A n \in 1..w.count : last[n] = longer[(r.count + 1 - w.count) + n]
  <2> HIDE DEF w, longer
  <2>1. CASE r.count < Size
    <3>1. last = longer /\ w.count = r.count + 1
      BY <1>1, <1>2, <2>1 DEF Log!LastOf
    <3>2. QED
      BY <1>1, <1>2, <3>1
  <2>2. CASE r.count = Size
    <3>1. last = SubSeq(longer, 2, Size + 1) /\ w.count = Size
      BY <1>1, <1>2, <2>2 DEF Log!LastOf
    <3>2. QED
      BY <1>1, <1>2, <2>2, <3>1
  <2>3. QED
    BY <1>1, <2>1, <2>2
<1>4. /\ Held(w) \in Seq(Entry \cup {NoEntry}) /\ Len(Held(w)) = w.count
      /\ \A n \in 1..w.count : Held(w)[n] = w.entries[Wrap(w.cursor + (Size - w.count) + (n - 1))]
  BY HeldAt
<1> HIDE DEF w, longer, last
<1>5. ASSUME NEW n \in 1..w.count PROVE Held(w)[n] = last[n]
  <2> DEFINE at == Wrap(w.cursor + (Size - w.count) + (n - 1))
             before == (r.count + 1 - w.count) + n
  <2>1. CASE n = w.count
    <3>1. at = r.cursor
      <4>1. at = Wrap(w.cursor + Size - 1)
        BY <1>1, <2>1 DEF Slots, Wrap
      <4>2. QED
        BY <1>1, <4>1 DEF Wrap, Slots
    <3>2. before = r.count + 1
      BY <1>1, <2>1
    <3>3. w.entries[at] = e
      BY <1>1, <3>1 DEF Ring
    <3>4. QED
      BY <1>2, <1>3, <1>4, <3>2, <3>3
  <2>2. CASE n # w.count
    <3>1. before \in 1..r.count
      BY <1>1, <2>2
    <3>2. at = Wrap(r.cursor + (Size - r.count) + (before - 1)) /\ at # r.cursor
      BY <1>1, <2>2 DEF Wrap, Slots
    <3>3. at \in Slots
      BY <1>1 DEF Wrap, Slots
    <3>4. w.entries[at] = r.entries[at]
      BY <1>1, <3>2, <3>3 DEF Ring
    <3>5. last[n] = r.entries[Wrap(r.cursor + (Size - r.count) + (before - 1))]
      BY <1>2, <1>3, <3>1
    <3>6. Held(w)[n] = w.entries[at]
      BY <1>4
    <3>7. QED
      BY <3>2, <3>4, <3>5, <3>6
  <2>3. QED
    BY <2>1, <2>2
<1>6. Held(w) = last
  <2> DEFINE h == Held(w)
  <2>1. h \in Seq(Entry \cup {NoEntry}) /\ last \in Seq(Entry \cup {NoEntry})
        /\ Len(h) = Len(last) /\ \A n \in 1..Len(h) : h[n] = last[n]
    BY <1>3, <1>4, <1>5
  <2> HIDE DEF h
  <2>2. h = last
    BY <2>1
  <2>3. QED
    BY <2>2 DEF h
<1>7. QED
  BY <1>6 DEF w, longer, last

(***************************************************************************)
(* Entries goes down from the newest entry.  After i of them it has taken  *)
(* the newest of those that match: which entry is the k-th taken is told   *)
(* by how many matching ones are newer, and that is how the abstract tail  *)
(* names it.                                                               *)
(***************************************************************************)
(* The newer ones among the places of M.                                   *)
Newer(M, p) == {j \in M : j > p}

LEMMA NewerIs ==
  ASSUME NEW M, NEW p
  PROVE  \A j : j \in Newer(M, p) <=> j \in M /\ j > p
BY DEF Newer

LEMMA NewerCounted ==
  ASSUME NEW c \in Nat, NEW M \in SUBSET (1 .. c)
  PROVE  /\ IsFiniteSet(M) /\ Cardinality(M) \in 0 .. c
         /\ \A p : IsFiniteSet(Newer(M, p)) /\ Cardinality(Newer(M, p)) \in Nat
<1>1. IsFiniteSet(1 .. c) /\ Cardinality(1 .. c) = c
  BY FS_Interval
<1>2. IsFiniteSet(M) /\ Cardinality(M) <= c
  BY <1>1, FS_Subset
<1>3. \A p : IsFiniteSet(Newer(M, p))
  BY <1>2, FS_Subset DEF Newer
<1> QED
  BY <1>2, <1>3, FS_CardinalityType

(* Each place of M is told by how many are newer.                          *)
LEMMA NewerTells ==
  ASSUME NEW c \in Nat, NEW M \in SUBSET (1 .. c), NEW p \in M, NEW q \in M,
         Cardinality(Newer(M, p)) = Cardinality(Newer(M, q))
  PROVE  p = q
<1>1. ASSUME NEW a \in M, NEW b \in M, a < b
      PROVE  Cardinality(Newer(M, b)) < Cardinality(Newer(M, a))
  <2>0. a \in Int /\ b \in Int /\ \A j \in M : j \in Int
    OBVIOUS
  <2>1. Newer(M, b) \cup {b} \subseteq Newer(M, a) /\ b \notin Newer(M, b)
    <3>1. \A j \in M : j > b => j > a
      BY <1>1, <2>0
    <3>2. \A j : j \in Newer(M, b) => j \in Newer(M, a)
      BY <3>1, NewerIs, Zenon
    <3>3. b \in Newer(M, a) /\ b \notin Newer(M, b)
      BY <1>1, <2>0, NewerIs
    <3> QED
      BY <3>2, <3>3
  <2>2. Cardinality(Newer(M, b) \cup {b}) = Cardinality(Newer(M, b)) + 1
    BY <2>1, NewerCounted, FS_AddElement
  <2>3. Cardinality(Newer(M, b) \cup {b}) <= Cardinality(Newer(M, a))
    BY <2>1, NewerCounted, FS_Subset
  <2>4. Cardinality(Newer(M, a)) \in Nat /\ Cardinality(Newer(M, b)) \in Nat
    BY NewerCounted
  <2> QED
    BY <2>2, <2>3, <2>4
<1>2. p \in Nat /\ q \in Nat
  OBVIOUS
<1>3. Cardinality(Newer(M, p)) \in Nat /\ Cardinality(Newer(M, q)) \in Nat
  BY NewerCounted
<1>4. ~(p < q)
  BY <1>1, <1>3
<1>5. ~(q < p)
  BY <1>1, <1>3
<1> QED
  BY <1>2, <1>4, <1>5

(* What the loop has taken: result[k] is at the place with k - 1 newer ones.*)
Takes(result, s, M, most, seen) ==
  /\ Len(result) = IF most < Cardinality(seen) THEN most ELSE Cardinality(seen)
  /\ \A k \in 1 .. Len(result) :
       \E p \in M : Cardinality(Newer(M, p)) = k - 1 /\ result[k] = s[p]

LEMMA LoopTakes ==
  ASSUME NEW c \in Nat, NEW T, NEW s, NEW M \in SUBSET (1 .. c), NEW most \in Nat,
         \A i \in 1 .. c : s[i] \in T,
         NEW f \in [0 .. c -> Seq(T)], f[0] = <<>>,
         \A i \in 1 .. c :
           f[i] = IF Len(f[i - 1]) >= most \/ c - i + 1 \notin M THEN f[i - 1]
                  ELSE Append(f[i - 1], s[c - i + 1])
  PROVE  Takes(f[c], s, M, most, M)
<1>0. c \in Int /\ \A j \in M : j \in Int /\ 1 <= j /\ j <= c
  OBVIOUS
<1> DEFINE Holds == {i \in 0 .. c : Takes(f[i], s, M, most, Newer(M, c - i))}
<1>1. 0 \in Holds
  <2>1. Newer(M, c - 0) = {}
    <3>1. \A j \in M : ~(j > c - 0)
      BY <1>0
    <3>2. \A j : j \notin Newer(M, c - 0)
      BY <3>1, NewerIs, Zenon
    <3> QED
      BY <3>2
  <2>2. Cardinality(Newer(M, c - 0)) = 0
    BY <2>1, FS_EmptySet
  <2> QED
    BY <2>2 DEF Takes
<1>2. ASSUME NEW i \in 1 .. c, i - 1 \in Holds PROVE i \in Holds
  <2> DEFINE at == c - i + 1
             before == Newer(M, at)
             result == f[i - 1]
  <2>1. Takes(result, s, M, most, before)
    <3>1. c - (i - 1) = at
      OBVIOUS
    <3> QED
      BY <1>2, <3>1
  <2>2. i - 1 \in 0 .. c /\ at \in 1 .. c /\ result \in Seq(T) /\ s[at] \in T
    OBVIOUS
  <2>3. Cardinality(before) \in Nat
    BY NewerCounted
  <2>4. f[i] = IF Len(result) >= most \/ at \notin M THEN result ELSE Append(result, s[at])
    OBVIOUS
  <2>5. CASE at \notin M
    <3>1. Newer(M, c - i) = before
      <4>0. \A j \in M : j # at
        BY <2>5
      <4>1. ASSUME NEW j \in M PROVE j > c - i <=> j > at
        <5>1. j # at
          BY <4>0, Zenon
        <5>2. j \in Int /\ i \in Int
          BY <1>0
        <5> QED
          BY <1>0, <5>1, <5>2
      <4>2. \A j : j \in Newer(M, c - i) <=> j \in Newer(M, at)
        BY <4>1, NewerIs
      <4> QED
        BY <4>2, Zenon
    <3> HIDE DEF result, before, at
    <3>2. Takes(f[i], s, M, most, Newer(M, c - i))
      BY <2>1, <2>4, <2>5, <3>1
    <3> QED
      BY <3>2
  <2>6. CASE at \in M
    <3>1. Newer(M, c - i) = before \cup {at} /\ at \notin before
      <4>1. at \in 1 .. c /\ ~(at > at) /\ \A j \in M : j > c - i <=> j > at \/ j = at
        BY <1>0, <2>6
      <4>2. \A j : j \in Newer(M, c - i) <=> j \in Newer(M, at) \/ j = at
        BY <2>6, <4>1, NewerIs
      <4>3. at \notin Newer(M, at)
        BY <4>1, NewerIs
      <4> QED
        BY <4>2, <4>3, Zenon
    <3>2. Cardinality(Newer(M, c - i)) = Cardinality(before) + 1
      BY <3>1, NewerCounted, FS_AddElement
    <3> HIDE DEF result, at
    <3>3. CASE Len(result) >= most
      <4>1. Takes(result, s, M, most, Newer(M, c - i))
        <5> HIDE DEF before
        <5> QED
          BY <2>1, <2>2, <2>3, <3>2, <3>3 DEF Takes
      <4>2. f[i] = result
        BY <2>4, <3>3
      <4> QED
        BY <4>1, <4>2
    <3>4. CASE ~(Len(result) >= most)
      <4> DEFINE more == Append(result, s[at])
      <4>1. Len(result) = Cardinality(before) /\ Len(result) \in Nat
        BY <2>1, <2>2, <2>3, <3>4 DEF Takes
      <4>2. /\ Len(more) = Len(result) + 1 /\ more[Len(result) + 1] = s[at]
            /\ \A k \in 1 .. Len(result) : more[k] = result[k]
        BY <2>2
      <4>3. f[i] = more
        BY <2>4, <2>6, <3>4
      <4> HIDE DEF more
      <4>4. Len(more) = IF most < Cardinality(Newer(M, c - i)) THEN most
                        ELSE Cardinality(Newer(M, c - i))
        BY <2>3, <3>2, <3>4, <4>1, <4>2
      <4>5. ASSUME NEW k \in 1 .. Len(more)
            PROVE  \E p \in M : Cardinality(Newer(M, p)) = k - 1 /\ more[k] = s[p]
        <5>1. CASE k \in 1 .. Len(result)
          BY <2>1, <4>2, <5>1 DEF Takes
        <5>2. CASE k = Len(result) + 1
          BY <2>6, <4>1, <4>2, <5>2
        <5> QED
          BY <4>1, <4>2, <5>1, <5>2
      <4>6. Takes(more, s, M, most, Newer(M, c - i))
        BY <4>4, <4>5 DEF Takes
      <4> QED
        BY <4>3, <4>6
    <3> QED
      BY <3>3, <3>4
  <2> QED
    BY <2>5, <2>6
<1> HIDE DEF Holds
<1>3. \A i \in 0 .. c : i \in Holds
  BY <1>1, <1>2, LoopInduction
<1>4. Takes(f[c], s, M, most, Newer(M, c - c))
  BY <1>3 DEF Holds
<1>5. Newer(M, c - c) = M
  <2>0. \A j \in M : j > c - c
    BY <1>0
  <2>1. \A j : j \in Newer(M, c - c) <=> j \in M
    BY <2>0, NewerIs, Zenon
  <2> QED
    BY <2>1, Zenon
<1> QED
  BY <1>4, <1>5

(* The i-th entry from the newest, where Entries looks for it.             *)
LEMMA EntryAt ==
  ASSUME NEW r \in Ring, NEW i \in 1 .. r.count
  PROVE  r.entries[(Start(r) + (r.count - i)) % Size] = Held(r)[r.count - i + 1]
<1> DEFINE oldest == r.cursor - r.count + Size
           n == r.count - i + 1
<1>1. r.cursor \in Slots /\ r.count \in 0..Size /\ Size \in Nat \ {0}
  BY RingAssumption DEF Ring
<1>2. oldest \in 0..(2 * Size - 1) /\ oldest = r.cursor + (Size - r.count)
  BY <1>1 DEF Slots
<1>3. Start(r) = Wrap(oldest) /\ Wrap(oldest) \in Slots
  BY <1>2, WrapOnce DEF Start
<1>4. /\ Wrap(oldest) + (r.count - i) \in 0..(2 * Size - 1)
      /\ Wrap(Wrap(oldest) + (r.count - i)) = Wrap(r.cursor + (Size - r.count) + (n - 1))
  BY <1>1, <1>2, <1>3 DEF Wrap, Slots
<1>5. (Start(r) + (r.count - i)) % Size = Wrap(r.cursor + (Size - r.count) + (n - 1))
  BY <1>3, <1>4, WrapOnce
<1>6. n \in 1 .. r.count
  BY <1>1
<1> QED
  BY <1>5, <1>6, HeldAt

(* What Entries computes is what the tail of the log defines.              *)
LEMMA EntriesNewest ==
  ASSUME NEW r \in Ring, NEW level, NEW limit \in Nat
  PROVE  Entries(r, level, limit) = Log!Newest(Held(r), level, limit)
<1> DEFINE c == r.count
           s == Held(r)
           T == Entry \cup {NoEntry}
           most == IF limit <= 0 \/ limit > r.count THEN r.count ELSE limit
           nth(i) == r.entries[(Start(r) + (r.count - i)) % Size]
           M == {i \in DOMAIN s : level = "" \/ s[i].level = level}
           next(f, i) == IF i = 0 THEN <<>>
                         ELSE IF Len(f[i - 1]) >= most \/ (level # "" /\ nth(i).level # level)
                         THEN f[i - 1]
                         ELSE Append(f[i - 1], nth(i))
           Loop(f) == f = [i \in 0 .. r.count |-> next(f, i)]
<1>1. c \in Nat /\ most \in Nat
  BY RingAssumption DEF Ring
<1>2. s \in Seq(T) /\ DOMAIN s = 1 .. c /\ Len(s) = c /\ \A i \in 1 .. c : s[i] \in T
  BY <1>1, HeldAt
<1>3. \A i \in 1 .. c : nth(i) = s[c - i + 1] /\ c - i + 1 \in 1 .. c
  BY <1>1, EntryAt
<1>4. M \in SUBSET (1 .. c) /\ \A i \in 1 .. c : i \in M <=> level = "" \/ s[i].level = level
  BY <1>2
<1>5. Entries(r, level, limit) = (CHOOSE f : Loop(f))[c]
  BY Zenon DEF Entries
<1> HIDE DEF s, most, nth, M, T
<1>6. \A i \in 1 .. c : (level # "" /\ nth(i).level # level) <=> c - i + 1 \notin M
  BY <1>3, <1>4
<1> DEFINE Takes1(v, i) == IF Len(v) >= most \/ c - i + 1 \notin M THEN v ELSE Append(v, s[c - i + 1])
<1>7. \E f : Loop(f)
  <2> DEFINE V == Seq(T)
             start == <<>>
             step == [i \in 1 .. c |-> [v \in V |-> Takes1(v, i)]]
  <2>1. start \in V
    OBVIOUS
  <2>2. \A i \in 1 .. c, v \in V : Takes1(v, i) \in V
    BY <1>2, <1>3
  <2>3. \A i \in 1 .. c, v \in V : step[i][v] = Takes1(v, i)
    OBVIOUS
  <2>4. step \in [1 .. c -> [V -> V]]
    BY <2>2
  <2> HIDE DEF step, V, start
  <2>5. PICK f \in [0 .. c -> V] : LoopOf(f, c, start, step)
    BY <1>1, <2>1, <2>4, LoopExists
  <2>6. f[0] = <<>>
    BY <2>5 DEF LoopOf, start
  <2>7. \A i \in 1 .. c : i - 1 \in 0 .. c /\ f[i - 1] \in V
    BY <1>1
  <2>8. \A i \in 1 .. c : f[i] = Takes1(f[i - 1], i)
    BY <2>3, <2>5, <2>7 DEF LoopOf
  <2>9. \A i \in 0 .. c : i # 0 => i \in 1 .. c
    BY <1>1
  <2>10. \A i \in 0 .. c :
           f[i] = IF i = 0 THEN <<>>
                  ELSE IF Len(f[i - 1]) >= most \/ (level # "" /\ nth(i).level # level)
                  THEN f[i - 1]
                  ELSE Append(f[i - 1], nth(i))
    BY <1>3, <1>6, <2>6, <2>8, <2>9
  <2>11. Loop(f)
    <3>1. f = [i \in 0 .. c |-> f[i]]
      OBVIOUS
    <3> QED
      BY <2>10, <3>1, Zenon
  <2> HIDE DEF Loop
  <2> QED
    BY <2>11
<1> DEFINE result == CHOOSE f : Loop(f)
<1>8. Loop(result)
  <2> HIDE DEF Loop
  <2> QED
    BY <1>7
<1> HIDE DEF result
<1>9. /\ result = [i \in 0 .. c |-> result[i]] /\ result[0] = <<>>
      /\ \A i \in 1 .. c : result[i] = Takes1(result[i - 1], i)
  <2>1. \A i \in 0 .. c : result[i] = next(result, i)
    <3> HIDE DEF next
    <3> QED
      BY <1>8
  <2>2. result = [i \in 0 .. c |-> result[i]]
    <3> HIDE DEF next
    <3> QED
      BY <1>8
  <2>3. 0 \in 0 .. c /\ \A i \in 1 .. c : i \in 0 .. c /\ i # 0
    BY <1>1
  <2>4. result[0] = next(result, 0)
    <3> HIDE DEF next
    <3> QED
      BY <2>1, <2>3
  <2>5. ASSUME NEW i \in 1 .. c PROVE result[i] = Takes1(result[i - 1], i)
    <3>1. result[i] = next(result, i)
      <4> HIDE DEF next
      <4> QED
        BY <2>1, <2>3
    <3>2. nth(i) = s[c - i + 1] /\ i # 0
      BY <1>3, <2>3
    <3> QED
      BY <1>6, <3>1, <3>2
  <2> QED
    BY <2>2, <2>4, <2>5
<1> HIDE DEF Loop
<1>10. result \in [0 .. c -> Seq(T)]
  <2> DEFINE Holds == {i \in 0 .. c : result[i] \in Seq(T)}
  <2>1. 0 \in Holds
    <3>1. 0 \in 0 .. c /\ <<>> \in Seq(T)
      BY <1>1
    <3> QED
      BY <1>9, <3>1
  <2>2. ASSUME NEW i \in 1 .. c, i - 1 \in Holds PROVE i \in Holds
    <3>1. result[i - 1] \in Seq(T) /\ s[c - i + 1] \in T
      BY <1>2, <1>3, <2>2
    <3>2. Takes1(result[i - 1], i) \in Seq(T)
      BY <3>1
    <3> HIDE DEF Takes1
    <3>3. i \in 0 .. c
      BY <1>1
    <3>4. result[i] = Takes1(result[i - 1], i)
      BY <1>9
    <3> QED
      BY <3>2, <3>3, <3>4
  <2> HIDE DEF Holds
  <2>3. \A i \in 0 .. c : i \in Holds
    BY <1>1, <2>1, <2>2, LoopInduction
  <2>4. \A i \in 0 .. c : result[i] \in Seq(T)
    BY <2>3 DEF Holds
  <2> QED
    BY <1>9, <2>4, Zenon
<1>11. Takes(result[c], s, M, most, M)
  BY <1>1, <1>2, <1>4, <1>9, <1>10, LoopTakes
<1> DEFINE all == Cardinality(M)
           taken == result[c]
<1>12. all \in 0 .. c
  BY <1>1, <1>4, NewerCounted
<1>13. Len(taken) = IF limit = 0 \/ limit > all THEN all ELSE limit
  <2>1. Len(taken) = IF most < all THEN most ELSE all
    BY <1>11 DEF Takes
  <2> QED
    BY <1>1, <1>12, <2>1 DEF most
<1>14. taken \in Seq(T)
  BY <1>1, <1>10
<1>15. ASSUME NEW k \in 1 .. Len(taken)
       PROVE  taken[k] = s[CHOOSE i \in M : Cardinality({j \in M : j > i}) = k - 1]
  <2>1. PICK p \in M : Cardinality(Newer(M, p)) = k - 1 /\ taken[k] = s[p]
    BY <1>11, <1>15 DEF Takes
  <2> DEFINE q == CHOOSE i \in M : Cardinality(Newer(M, i)) = k - 1
  <2>2. q \in M /\ Cardinality(Newer(M, q)) = k - 1
    BY <2>1
  <2> HIDE DEF q
  <2>3. p = q
    BY <1>1, <1>4, <2>1, <2>2, NewerTells
  <2>4. taken[k] = s[q]
    BY <2>1, <2>3
  <2> QED
    BY <2>4 DEF q, Newer
<1>16. Log!Newest(s, level, limit)
         = [k \in 1 .. Len(taken) |-> s[CHOOSE i \in M : Cardinality({j \in M : j > i}) = k - 1]]
  <2>1. Log!Newest(s, level, limit)
          = [k \in 1 .. (IF limit = 0 \/ limit > all THEN all ELSE limit) |->
               s[CHOOSE i \in M : Cardinality({j \in M : j > i}) = k - 1]]
    BY Zenon DEF Log!Newest, M, Log!Cardinality, Cardinality
  <2> HIDE DEF all, taken
  <2> QED
    BY <1>13, <2>1, Zenon
<1>17. taken = [k \in 1 .. Len(taken) |-> taken[k]]
  BY <1>14
<1>18. taken = Log!Newest(s, level, limit)
  BY <1>15, <1>16, <1>17, Zenon
<1>19. Entries(r, level, limit) = taken
  BY <1>5 DEF result
<1> QED
  BY <1>18, <1>19 DEF s

LEMMA HeldNothing == Held(NewRingBuffer) = <<>>
<1>1. NewRingBuffer \in Ring /\ NewRingBuffer.count = 0
  BY RingAssumption DEF NewRingBuffer, Ring, Slots
<1>2. Held(NewRingBuffer) \in Seq(Entry \cup {NoEntry}) /\ Len(Held(NewRingBuffer)) = 0
  BY <1>1, HeldAt
<1>3. QED
  BY <1>2
-----------------------------------------------------------------------------
(* Types, room under the limits and the rows of the log, in every state.   *)
THEOREM InductiveInvariant == Spec => []TenantInv
<1>1. Init => TenantInv
  BY TypedInit, LimitsInit, OutcomesInit DEF TenantInv, Typed
<1>2. TenantInv /\ [Next]_vars => TenantInv'
  BY TypedStep, LimitsStep, OutcomesStep DEF TenantInv, Typed
<1>3. QED
  BY <1>1, <1>2, PTL DEF Spec

(* Every variable keeps its type, for any length of the log buffer.        *)
THEOREM TypeCorrect == Spec => []TypeOK
<1>1. TenantInv => TypeOK
  BY DEF TenantInv
<1>2. QED
  BY <1>1, InductiveInvariant, PTL

(* Requests that overlap pass a limit by fewer rows than there are clients.*)
THEOREM OvershootBoundedHolds == Spec => []OvershootBounded
<1>1. TenantInv => OvershootBounded
  <2> SUFFICES ASSUME TenantInv PROVE OvershootBounded
    OBVIOUS
  <2>1. /\ Cardinality(groups) \in Nat /\ Cardinality(Existing) \in Nat
        /\ \A statement : Cardinality(Due(statement)) \in Nat
        /\ Cardinality(Clients) \in Nat
    BY Finite, FS_CardinalityType, TenantAssumption DEF TenantInv
  <2>2. QED
    BY <2>1, TenantAssumption DEF TenantInv, Limits, OvershootBounded
<1>2. QED
  BY <1>1, InductiveInvariant, PTL

(* The message log says how a send ended: 'sent' is an acknowledged        *)
(* message, 'failed' one whose send returned an error, before or after it  *)
(* was handed over.                                                        *)
THEOREM RowTellsOutcomeHolds == Spec => []RowTellsOutcome
<1>1. TenantInv => RowTellsOutcome
  <2> SUFFICES ASSUME TenantInv, NEW m \in Messages
               PROVE  /\ row[m].status = "sent" => row[m].message = "acknowledged"
                      /\ row[m].status = "failed" => row[m].message \in Failures
                      /\ row[m].by = Nobody /\ faults = 0 /\ row[m].message # "unsent"
                           => row[m].status = IF row[m].message = "acknowledged"
                                              THEN "sent" ELSE "failed"
    BY DEF RowTellsOutcome
  <2>1. RowInOrder(m) /\ row[m].message \in {"unsent", "acknowledged"} \cup Failures
    BY DEF TenantInv, Outcomes, TypeOK, Row
  <2>2. QED
    BY <2>1 DEF RowInOrder, True, Told
<1>2. QED
  BY <1>1, InductiveInvariant, PTL

(* A client hears of a success exactly when its message was acknowledged.  *)
THEOREM OkMeansAcknowledgedHolds == Spec => []OkMeansAcknowledged
<1>1. TenantInv => OkMeansAcknowledged
  BY DEF TenantInv, Outcomes, CallInOrder, WorksOn, OkMeansAcknowledged, At
<1>2. QED
  BY <1>1, InductiveInvariant, PTL

(* The log buffer under the requests implements the abstract tail.         *)
THEOREM LogSpecHolds == Spec => LogSpec
<1>1. Init => Log!Init
  BY HeldNothing DEF Init, Log!Init
<1>2. TypeOK /\ TypeOK' /\ [Next]_vars => [Log!Next]_(Held(ring))
  <2> SUFFICES ASSUME TypeOK, TypeOK', [Next]_vars PROVE [Log!Next]_(Held(ring))
    OBVIOUS
  <2>1. ASSUME NEW e \in Entry, ring' = Write(ring, e) PROVE Log!Next
    <3>1. Held(ring)' = Log!LastOf(Append(Held(ring), e), Size)
      BY <2>1, HeldWrite DEF TypeOK
    <3>2. QED
      BY <3>1 DEF Log!Next, Log!Log
  <2>2. ASSUME NEW c \in Clients, LogRequest(c) \/ ErrorHandler(c) PROVE Log!Next
    BY <2>1, <2>2, EntriesKnown DEF LogRequest, ErrorHandler
  <2>3. CASE Crash
    BY <2>3, HeldNothing DEF Crash, Log!Next, Log!Restart
  <2>4. CASE UNCHANGED ring
    BY <2>4 DEF Held
  <2>5. QED
    BY <2>2, <2>3, <2>4 DEF Next, RequestStep, Request, CountGroups, InsertGroup, FindGroup,
       CountInstances, InsertInstance, DeleteGroup, FindInstance, DeleteInstance, SelectInstance,
       InsertMessage, ParseContent, SendMessage, UpdateSent, UpdateFailed, StatementFails, vars
<1>3. QED
  BY <1>1, <1>2, TypeCorrect, PTL DEF Spec, LogSpec, Log!Spec

(* Whatever was logged, and whether or not the buffer has been filled and  *)
(* written over, the logs endpoint answers with the newest entries of the  *)
(* level it was asked for, newest first (buffer.go Entries).               *)
THEOREM EntriesAreNewestHolds == Spec => []EntriesAreNewest
<1>1. \A limit \in 0..(Size + 1) : limit \in Nat
  BY RingAssumption
<1>2. TypeOK => EntriesAreNewest
  <2> SUFFICES ASSUME TypeOK, NEW level \in {"", "info", "warn"}, NEW limit \in 0..(Size + 1)
               PROVE  Entries(ring, level, limit) = Log!Newest(Held(ring), level, limit)
    BY DEF EntriesAreNewest
  <2>1. limit \in Nat
    BY <1>1, Zenon
  <2>2. ring \in Ring
    BY DEF TypeOK
  <2>3. QED
    BY <2>1, <2>2, EntriesNewest
<1>3. QED
  BY <1>2, TypeCorrect, PTL
=============================================================================
