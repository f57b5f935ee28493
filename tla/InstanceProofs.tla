--------------------------- MODULE InstanceProofs ---------------------------
(***************************************************************************)
(* Proofs about one instance (InstanceLifecycle), for any connections,     *)
(* requests and bounds: types, the manager's lock, which websockets are    *)
(* up, and that an online instance can be found again.                     *)
(***************************************************************************)
EXTENDS InstanceLifecycle, TLAPS

(* A request that stops a connection knows what to do next.                *)
StopsKnow ==
  \A r \in Requests : At(r, "stop") => call[r].asks \in {"disconnect", "restart", "delete"}

Typed == TypeOK /\ StopsKnow

(* Who is in a critical section holds the lock, and nobody else.           *)
LockInv == \A r \in Requests : call[r].at \in Locked <=> lock = r

Sockets == {"unborn", "idle", "open", "online", "dropped", "closed"}
Call == [asks : Kinds \cup {"nothing"}, at : Steps, conn : Conns \cup {NoConn}]
-----------------------------------------------------------------------------
(* What the smaller operators leave well-formed.                           *)
LEMMA StatusTyped ==
  ASSUME TypeOK, NEW s \in Written, UpdateStatus(s)
  PROVE  /\ status' \in Written \cup {"gone"} /\ faults' \in Nat
         /\ status = "gone" => status' = "gone"
BY InstanceAssumption DEF TypeOK, UpdateStatus, Fault, NoFault, Written

LEMMA StatusOfTyped == \A h \in Event : StatusOf[h.name] \in Written
BY DEF StatusOf, Event, Written

LEMMA CallTyped ==
  ASSUME Typed, NEW r \in Requests, NEW k \in Call, call' = [call EXCEPT ![r] = k],
         k.at = "stop" => k.asks \in {"disconnect", "restart", "delete"}
  PROVE  call' \in [Requests -> Call] /\ StopsKnow'
BY DEF Typed, TypeOK, StopsKnow, At, Call

LEMMA NoCallTyped == NoCall \in Call /\ NoCall.at = "idle"
BY DEF NoCall, Call, Steps

LEMMA ReturnTyped ==
  ASSUME Typed, NEW r \in Requests, Return(r)
  PROVE  call' \in [Requests -> Call] /\ StopsKnow'
BY NoCallTyped, CallTyped DEF Return

LEMMA ThenTyped ==
  ASSUME Typed, NEW r \in Requests, NEW step \in Steps \ {"stop"}, Then(r, step)
  PROVE  call' \in [Requests -> Call] /\ StopsKnow'
<1>1. [call[r] EXCEPT !.at = step] \in Call /\ [call[r] EXCEPT !.at = step].at # "stop"
  BY DEF Typed, TypeOK, Call
<1>2. call' = [call EXCEPT ![r] = [call[r] EXCEPT !.at = step]]
  BY DEF Then
<1>3. QED
  BY <1>1, <1>2, CallTyped

LEMMA EventTyped ==
  ASSUME NEW c \in Conns, NEW name \in {"Connected", "Disconnected", "LoggedOut"},
         TypeOK, Dispatch(c, name)
  PROVE  handling' \in SUBSET Event
BY InstanceAssumption DEF TypeOK, Dispatch, Event

LEMMA TypedInit == Init => Typed
<1>1. Init => TypeOK
  <2> SUFFICES ASSUME Init PROVE TypeOK
    OBVIOUS
  <2>1. /\ status \in Written \cup {"gone"} /\ mapping \in Devices \cup {NoConn}
        /\ stored \in SUBSET Devices
    BY InstanceAssumption DEF Init, Written, Devices
  <2>2. check \in Checks /\ stopping \in BOOLEAN
    BY DEF Init, NoCheck, Checks
  <2>3. call \in [Requests -> Call]
    BY NoCallTyped DEF Init
  <2>4. QED
    BY <2>1, <2>2, <2>3 DEF Init, TypeOK, Call
<1>2. Init => StopsKnow
  BY NoCallTyped DEF Init, StopsKnow, At
<1>3. QED
  BY <1>1, <1>2 DEF Typed

(* Whatever the reads of the mapping and the device give, a request fails  *)
(* or makes a Connection that was not there, with a device.                *)
LEMMA DeviceMade ==
  ASSUME Typed, NEW r \in Requests, GetOrCreateDevice(r)
  PROVE  \/ Fault /\ Fails(r) /\ UNCHANGED <<socket, device, connections>>
         \/ \E c \in Conns, d \in Devices :
              /\ socket[c] = "unborn" /\ faults' \in Nat /\ UNCHANGED lock
              /\ device' = [device EXCEPT ![c] = d]
              /\ socket' = [socket EXCEPT ![c] = "idle"]
              /\ connections' = c
              /\ call' = [call EXCEPT ![r].conn = c,
                            ![r].at = IF call[r].asks = "pair" THEN "connect" ELSE "mark"]
<1>1. CASE Fault /\ Fails(r) /\ UNCHANGED <<socket, device, connections>>
  BY <1>1
<1>2. CASE ~(Fault /\ Fails(r) /\ UNCHANGED <<socket, device, connections>>)
  <2>1. PICK c \in Conns :
          /\ socket[c] = "unborn"
          /\ \/ NoFault /\ device' = [device EXCEPT
                                      ![c] = IF mapping \in stored THEN mapping ELSE c]
             \/ mapping # NoConn /\ Fault /\ device' = [device EXCEPT ![c] = c]
          /\ socket' = [socket EXCEPT ![c] = "idle"]
          /\ connections' = c
          /\ call' = [call EXCEPT ![r].conn = c,
                        ![r].at = IF call[r].asks = "pair" THEN "connect" ELSE "mark"]
    BY <1>2 DEF GetOrCreateDevice
  <2>2. UNCHANGED lock
    BY <1>2 DEF GetOrCreateDevice
  <2>3. faults' \in Nat
    BY <2>1 DEF Fault, NoFault, Typed, TypeOK
  <2>4. c \in Devices /\ (mapping \in stored => mapping \in Devices)
    BY DEF Devices, Typed, TypeOK
  <2>5. PICK d \in Devices : device' = [device EXCEPT ![c] = d]
    BY <2>1, <2>4
  <2>6. QED
    BY <2>1, <2>2, <2>3, <2>5
<1>3. QED
  BY <1>1, <1>2

LEMMA RequestTyped ==
  ASSUME Typed, NEW r \in Requests, RequestStep(r)
  PROVE  Typed'
<1> USE DEF Typed
<1>1. CASE Lock(r)
  <2>1. call' \in [Requests -> Call] /\ StopsKnow'
    BY <1>1, ReturnTyped, ThenTyped DEF Lock, Steps, Locked
  <2>2. QED
    BY <1>1, <2>1 DEF Lock, TypeOK, rows, links, rest, Call
<1>2. CASE FindByID(r)
  <2>1. call' \in [Requests -> Call] /\ StopsKnow'
    BY <1>2, ReturnTyped, ThenTyped DEF FindByID, Fails, Steps, Locked
  <2>2. QED
    BY <1>2, <2>1 DEF FindByID, Fails, Fault, NoFault, TypeOK, rows, links, rest, Call
<1>3. CASE GetOrCreateDevice(r)
  <2>1. CASE Fault /\ Fails(r) /\ UNCHANGED <<socket, device, connections>>
    <3>1. call' \in [Requests -> Call] /\ StopsKnow'
      BY <2>1, ReturnTyped DEF Fails
    <3>2. QED
      BY <1>3, <2>1, <3>1 DEF GetOrCreateDevice, Fails, Fault, TypeOK, rows, links, rest, Call
  <2>2. ASSUME NEW c \in Conns, NEW d \in Devices, lock' = lock, faults' \in Nat,
               socket' = [socket EXCEPT ![c] = "idle"],
               device' = [device EXCEPT ![c] = d],
               connections' = c,
               call' = [call EXCEPT ![r].conn = c,
                          ![r].at = IF call[r].asks = "pair" THEN "connect" ELSE "mark"]
        PROVE  Typed'
    <3>1. DEFINE k == [call[r] EXCEPT !.conn = c,
                          !.at = IF call[r].asks = "pair" THEN "connect" ELSE "mark"]
    <3>2. k \in Call /\ k.at # "stop"
      BY DEF TypeOK, Call, Steps, Locked
    <3>3. call' = [call EXCEPT ![r] = k]
      BY <2>2 DEF TypeOK
    <3>4. call' \in [Requests -> Call] /\ StopsKnow'
      BY <3>2, <3>3, CallTyped
    <3>5. device' \in [Conns -> Devices \cup {NoConn}]
      BY <2>2 DEF TypeOK, Devices
    <3>6. socket' \in [Conns -> Sockets]
      BY <2>2 DEF TypeOK, Sockets
    <3>7. QED
      BY <1>3, <2>2, <3>4, <3>5, <3>6
         DEF GetOrCreateDevice, TypeOK, rows, rest, Call, Sockets
  <2>3. QED
    BY <1>3, <2>1, <2>2, DeviceMade
<1>4. CASE MarkConnecting(r)
  <2>1. call' \in [Requests -> Call] /\ StopsKnow'
    BY <1>4, ThenTyped DEF MarkConnecting, Steps, Locked
  <2>2. status' \in Written \cup {"gone"} /\ faults' \in Nat
    BY <1>4, StatusTyped DEF MarkConnecting, Written
  <2>3. QED
    BY <1>4, <2>1, <2>2 DEF MarkConnecting, TypeOK, links, rest, Call
<1>5. CASE Connect(r)
  <2>1. call' \in [Requests -> Call] /\ StopsKnow'
    BY <1>5, ReturnTyped, ThenTyped DEF Connect, Steps, Locked
  <2>2. /\ socket' \in [Conns -> Sockets]
        /\ connections' \in Conns \cup {NoConn} /\ lock' \in Requests \cup {NoOne}
    BY <1>5 DEF Connect, TypeOK, Sockets
  <2>3. QED
    BY <1>5, <2>1, <2>2 DEF Connect, TypeOK, rows, rest, Call, Sockets
<1>6. CASE MarkFailed(r)
  <2>1. call' \in [Requests -> Call] /\ StopsKnow'
    BY <1>6, ReturnTyped DEF MarkFailed
  <2>2. status' \in Written \cup {"gone"} /\ faults' \in Nat
    BY <1>6, StatusTyped DEF MarkFailed, Written
  <2>3. QED
    BY <1>6, <2>1, <2>2 DEF MarkFailed, TypeOK, links, rest, Call
<1>7. CASE StopInstance(r)
  <2>1. PICK step \in Steps \ {"stop"} : Then(r, step)
    BY <1>7 DEF StopInstance, StopsKnow, Steps, Creating
  <2>2. call' \in [Requests -> Call] /\ StopsKnow'
    BY <2>1, ThenTyped
  <2>3. socket' \in [Conns -> Sockets]
    BY <1>7 DEF StopInstance, Disconnected, TypeOK, Sockets
  <2>4. QED
    BY <1>7, <2>2, <2>3 DEF StopInstance, TypeOK, rows, rest, Call, Sockets
<1>8. CASE StatusDisconnected(r)
  <2>1. call' \in [Requests -> Call] /\ StopsKnow'
    BY <1>8, ReturnTyped DEF StatusDisconnected
  <2>2. status' \in Written \cup {"gone"} /\ faults' \in Nat
    BY <1>8, StatusTyped DEF StatusDisconnected, Written
  <2>3. QED
    BY <1>8, <2>1, <2>2 DEF StatusDisconnected, TypeOK, links, rest, Call
<1>9. CASE DeleteRow(r)
  <2>1. call' \in [Requests -> Call] /\ StopsKnow'
    BY <1>9, ReturnTyped DEF DeleteRow
  <2>2. QED
    BY <1>9, <2>1 DEF DeleteRow, Fault, NoFault, TypeOK, rows, links, rest, Call
<1>10. QED
  BY <1>1, <1>2, <1>3, <1>4, <1>5, <1>6, <1>7, <1>8, <1>9 DEF RequestStep

LEMMA AcceptTyped ==
  ASSUME Typed, NEW r \in Requests, NEW kind \in Kinds, Accept(r, kind)
  PROVE  Typed'
<1> DEFINE k == [asks |-> kind, at |-> FirstStep(kind), conn |-> NoConn]
<1>1. k \in Call
  BY DEF Call, Steps, Creating, FirstStep
<1>2. k.at = "stop" => k.asks \in {"disconnect", "restart", "delete"}
  BY InstanceAssumption DEF FirstStep
<1>3. call' \in [Requests -> Call] /\ StopsKnow'
  BY <1>1, <1>2, CallTyped DEF Accept
<1>4. QED
  BY <1>3 DEF Typed, Accept, TypeOK, rows, links, rest, Call

LEMMA EnvironmentTyped ==
  ASSUME Typed, NEW c \in Conns, Environment(c)
  PROVE  Typed'
<1>1. CASE Authenticate(c)
  <2>1. handling' \in SUBSET Event
    BY <1>1, EventTyped DEF Authenticate, Typed
  <2>2. socket' \in [Conns -> Sockets]
    BY <1>1 DEF Authenticate, Typed, TypeOK, Sockets
  <2>3. QED
    BY <1>1, <2>1, <2>2 DEF Authenticate, Typed, TypeOK, StopsKnow, At, rows, calls, rest, Sockets
<1>2. CASE PairDevice(c)
  BY <1>2 DEF PairDevice, Typed, TypeOK, StopsKnow, At, rows, calls, rest, Devices
<1>3. CASE CodeExpires(c)
  BY <1>3 DEF CodeExpires, Typed, TypeOK, StopsKnow, At, rows, calls, rest
<1>4. CASE DropConnection(c)
  <2>1. handling' \in SUBSET Event
    BY <1>4, EventTyped DEF DropConnection, Typed
  <2>2. QED
    BY <1>4, <2>1 DEF DropConnection, Typed, TypeOK, StopsKnow, At, rows, calls, rest
<1>5. CASE Reconnect(c)
  BY <1>5 DEF Reconnect, Typed, TypeOK, StopsKnow, At, rows, calls, rest
<1>6. CASE LogOut(c)
  <2>1. handling' \in SUBSET Event
    BY <1>6, EventTyped DEF LogOut, Typed
  <2>2. QED
    BY <1>6, <2>1 DEF LogOut, Typed, TypeOK, StopsKnow, At, rows, calls, rest
<1>7. QED
  BY <1>1, <1>2, <1>3, <1>4, <1>5, <1>6 DEF Environment

LEMMA HandlerTyped ==
  ASSUME Typed, NEW h \in handling, HandleEvent(h)
  PROVE  Typed'
<1>0. h \in Event
  BY DEF Typed, TypeOK
<1>1. CASE HandleStatus(h)
  <2>1. StatusOf[h.name] \in Written
    BY <1>0, StatusOfTyped
  <2>2. status' \in Written \cup {"gone"} /\ faults' \in Nat
    BY <1>1, <2>1, StatusTyped DEF HandleStatus, Typed
  <2>3. [h EXCEPT !.at = "lookup"] \in Event
    BY <1>0 DEF Event
  <2>4. handling' \in SUBSET Event
    BY <1>1, <2>3 DEF HandleStatus, Replace, Done, Typed, TypeOK
  <2>5. QED
    BY <1>1, <2>2, <2>4 DEF HandleStatus, Typed, TypeOK, StopsKnow, At, links, calls, rest
<1>2. CASE HandleLookup(h)
  <2>1. connections # NoConn => [h EXCEPT !.at = "mapping", !.seen = connections] \in Event
    BY <1>0 DEF Event, Typed, TypeOK
  <2>2. handling' \in SUBSET Event
    BY <1>2, <2>1 DEF HandleLookup, Replace, Done, Typed, TypeOK
  <2>3. QED
    BY <1>2, <2>2 DEF HandleLookup, Typed, TypeOK, StopsKnow, At, rows, links, calls, rest
<1>3. CASE HandleMapping(h)
  <2>1. handling' \in SUBSET Event
    BY <1>3 DEF HandleMapping, Done, Typed, TypeOK
  <2>2. mapping' \in Devices \cup {NoConn} /\ late' \in BOOLEAN
    BY <1>0, <1>3 DEF HandleMapping, Maps, Typed, TypeOK, Paired
  <2>3. faults' \in Nat
    BY <1>3 DEF HandleMapping, Fault, NoFault, Typed, TypeOK
  <2>4. QED
    BY <1>3, <2>1, <2>2, <2>3 DEF HandleMapping, Typed, TypeOK, StopsKnow, At, links, calls, rest
<1>4. QED
  BY <1>1, <1>2, <1>3 DEF HandleEvent

LEMMA HealthTyped ==
  ASSUME Typed, HealthStep
  PROVE  Typed'
<1>0. NoCheck \in Checks
  BY DEF NoCheck, Checks
<1>1. CASE CheckAll
  <2>1. check' \in Checks
    BY <1>1 DEF CheckAll, Typed, TypeOK, Checks
  <2>2. QED
    BY <1>1, <2>1 DEF CheckAll, Typed, TypeOK, StopsKnow, At, rows, links, calls, rest
<1>2. CASE CheckRow
  <2>1. check' \in Checks
    BY <1>0, <1>2 DEF CheckRow, Typed, TypeOK, Checks
  <2>2. QED
    BY <1>2, <2>1 DEF CheckRow, Fault, NoFault, Typed, TypeOK, StopsKnow, At, rows, links, calls, rest
<1>3. CASE CheckConnection
  <2>1. Verdicts \subseteq {"idle", "suspect", "resting"}
    BY DEF Verdicts
  <2>2. check' \in Checks
    BY <1>0, <1>3, <2>1 DEF CheckConnection, Typed, TypeOK, Checks
  <2>3. QED
    BY <1>3, <2>2 DEF CheckConnection, Typed, TypeOK, StopsKnow, At, rows, links, calls, rest
<1>4. CASE WriteVerdict
  <2>1. check.at \in Written
    BY <1>4 DEF WriteVerdict, Written
  <2>2. status' \in Written \cup {"gone"} /\ faults' \in Nat
    BY <1>4, <2>1, StatusTyped DEF WriteVerdict, Typed
  <2>3. QED
    BY <1>0, <1>4, <2>2 DEF WriteVerdict, Typed, TypeOK, StopsKnow, At, links, calls, rest
<1>5. QED
  BY <1>1, <1>2, <1>3, <1>4 DEF HealthStep

LEMMA TypedStep == Typed /\ [Next]_vars => Typed'
<1> SUFFICES ASSUME Typed, [Next]_vars PROVE Typed'
  OBVIOUS
<1>1. CASE DisconnectAll
  <2>1. socket' \in [Conns -> Sockets] /\ check' \in Checks
    BY <1>1 DEF DisconnectAll, Disconnected, Typed, TypeOK, Sockets, NoCheck, Checks
  <2>2. QED
    BY <1>1, <2>1 DEF DisconnectAll, Typed, TypeOK, StopsKnow, At, rows, Sockets
<1>2. CASE ProcessEnds
  <2>1. call' \in [Requests -> Call] /\ StopsKnow'
    BY <1>2, NoCallTyped DEF ProcessEnds, StopsKnow, At
  <2>2. socket' \in [Conns -> Sockets] /\ check' \in Checks /\ handling' \in SUBSET Event
    BY <1>2 DEF ProcessEnds, Sockets, NoCheck, Checks
  <2>3. crashes' \in Nat /\ connections' \in Conns \cup {NoConn} /\ lock' \in Requests \cup {NoOne}
    BY <1>2 DEF ProcessEnds, Typed, TypeOK
  <2>4. /\ status' = status /\ mapping' = mapping /\ stored' = stored /\ device' = device
        /\ drops' = drops /\ faults' = faults /\ stopping' = FALSE /\ late' = late
    BY <1>2 DEF ProcessEnds, rows
  <2>5. QED
    BY <2>1, <2>2, <2>3, <2>4 DEF Typed, TypeOK, Sockets, Call
<1>3. CASE UNCHANGED vars
  BY <1>3 DEF vars, rows, links, calls, rest, Typed, TypeOK, StopsKnow, At
<1>4. QED
  BY <1>1, <1>2, <1>3, RequestTyped, AcceptTyped, EnvironmentTyped, HandlerTyped, HealthTyped
     DEF Next
-----------------------------------------------------------------------------
(* What a request's step does to the calls and to the lock.                *)
LEMMA Returned ==
  ASSUME Typed, NEW r \in Requests, Return(r)
  PROVE  call'[r].at = "idle" /\ \A q \in Requests \ {r} : call'[q] = call[q]
BY NoCallTyped DEF Return, Typed, TypeOK

LEMMA WentTo ==
  ASSUME Typed, NEW r \in Requests, NEW step, Then(r, step)
  PROVE  /\ call'[r].at = step /\ call'[r].conn = call[r].conn
         /\ \A q \in Requests \ {r} : call'[q] = call[q]
BY DEF Then, Typed, TypeOK

LEMMA LockInit == Init => LockInv
BY NoCallTyped, InstanceAssumption DEF Init, LockInv, Locked

LEMMA LockStep == Typed /\ LockInv /\ [Next]_vars => LockInv'
<1> SUFFICES ASSUME Typed, LockInv, [Next]_vars PROVE LockInv'
  OBVIOUS
<1> USE InstanceAssumption DEF LockInv
<1>1. ASSUME NEW r \in Requests, RequestStep(r) PROVE LockInv'
  <2>1. CASE Lock(r)
    BY <2>1, Returned, WentTo DEF Lock, At, Locked
  <2>2. CASE FindByID(r)
    BY <2>2, Returned, WentTo DEF FindByID, Fails, At, Locked
  <2>3. CASE GetOrCreateDevice(r)
    <3>1. CASE Fails(r)
      BY <2>3, <3>1, Returned DEF GetOrCreateDevice, Fails, At, Locked
    <3>2. ASSUME NEW c \in Conns, lock' = lock,
                 call' = [call EXCEPT ![r].conn = c,
                            ![r].at = IF call[r].asks = "pair" THEN "connect" ELSE "mark"]
          PROVE  LockInv'
      <4>1. call'[r].at \in {"mark", "connect"} /\ \A q \in Requests \ {r} : call'[q] = call[q]
        BY <3>2 DEF Typed, TypeOK
      <4>2. QED
        BY <2>3, <3>2, <4>1 DEF GetOrCreateDevice, At, Locked
    <3>3. QED
      BY <2>3, <3>1, <3>2, DeviceMade
  <2>4. CASE MarkConnecting(r)
    BY <2>4, WentTo DEF MarkConnecting, At, Locked
  <2>5. CASE Connect(r)
    BY <2>5, Returned, WentTo DEF Connect, At, Locked
  <2>6. CASE MarkFailed(r)
    BY <2>6, Returned DEF MarkFailed, At, Locked
  <2>7. CASE StopInstance(r)
    <3>1. PICK step \in {"statusDisconnected", "lock", "deleteRow"} : Then(r, step)
      BY <2>7 DEF StopInstance, Typed, StopsKnow
    <3>2. QED
      BY <2>7, <3>1, WentTo DEF StopInstance, At, Locked
  <2>8. CASE StatusDisconnected(r)
    BY <2>8, Returned DEF StatusDisconnected, At, Locked
  <2>9. CASE DeleteRow(r)
    BY <2>9, Returned DEF DeleteRow, At, Locked
  <2>10. QED
    BY <1>1, <2>1, <2>2, <2>3, <2>4, <2>5, <2>6, <2>7, <2>8, <2>9 DEF RequestStep
<1>2. ASSUME NEW r \in Requests, NEW kind \in Kinds, Accept(r, kind) PROVE LockInv'
  BY <1>2 DEF Accept, At, FirstStep, Locked, Typed, TypeOK
<1>3. ASSUME NEW c \in Conns, Environment(c) PROVE LockInv'
  BY <1>3 DEF Environment, Authenticate, PairDevice, CodeExpires, DropConnection,
              Reconnect, LogOut, calls
<1>4. ASSUME NEW h \in handling, HandleEvent(h) PROVE LockInv'
  BY <1>4 DEF HandleEvent, HandleStatus, HandleLookup, HandleMapping, calls
<1>5. CASE HealthStep
  BY <1>5 DEF HealthStep, CheckAll, CheckRow, CheckConnection, WriteVerdict, calls
<1>6. CASE DisconnectAll
  BY <1>6 DEF DisconnectAll
<1>7. CASE ProcessEnds
  BY <1>7, NoCallTyped DEF ProcessEnds, Locked
<1>8. CASE UNCHANGED vars
  BY <1>8 DEF vars, calls
<1>9. QED
  BY <1>1, <1>2, <1>3, <1>4, <1>5, <1>6, <1>7, <1>8 DEF Next
-----------------------------------------------------------------------------
(* A handler that maps a device has seen a connection.                     *)
HandlersKnow == \A h \in handling : h.at = "mapping" => h.seen \in Conns

LEMMA HandlersStep == Typed /\ HandlersKnow /\ [Next]_vars => HandlersKnow'
<1> SUFFICES ASSUME Typed, HandlersKnow, [Next]_vars PROVE HandlersKnow'
  OBVIOUS
<1> USE DEF HandlersKnow
<1>1. ASSUME NEW r \in Requests, RequestStep(r) PROVE HandlersKnow'
  BY <1>1 DEF RequestStep, Lock, FindByID, GetOrCreateDevice, MarkConnecting, Connect,
              MarkFailed, StopInstance, StatusDisconnected, DeleteRow
<1>2. ASSUME NEW r \in Requests, NEW kind \in Kinds, Accept(r, kind) PROVE HandlersKnow'
  BY <1>2 DEF Accept
<1>3. ASSUME NEW c \in Conns, Environment(c) PROVE HandlersKnow'
  BY <1>3 DEF Environment, Authenticate, PairDevice, CodeExpires, DropConnection,
              Reconnect, LogOut, Dispatch
<1>4. ASSUME NEW h \in handling, HandleEvent(h) PROVE HandlersKnow'
  <2>1. h \in Event
    BY DEF Typed, TypeOK
  <2>2. CASE HandleStatus(h)
    BY <2>1, <2>2 DEF HandleStatus, Replace, Done, Event
  <2>3. CASE HandleLookup(h)
    <3>1. CASE connections = NoConn
      BY <2>3, <3>1 DEF HandleLookup, Done
    <3>2. CASE connections # NoConn
      <4>1. connections \in Conns
        BY <3>2 DEF Typed, TypeOK
      <4>2. [h EXCEPT !.at = "mapping", !.seen = connections].seen = connections
        BY <2>1 DEF Event
      <4>3. QED
        BY <2>3, <3>2, <4>1, <4>2 DEF HandleLookup, Replace
    <3>3. QED
      BY <3>1, <3>2
  <2>4. CASE HandleMapping(h)
    BY <2>4 DEF HandleMapping, Done
  <2>5. QED
    BY <1>4, <2>2, <2>3, <2>4 DEF HandleEvent
<1>5. CASE HealthStep
  BY <1>5 DEF HealthStep, CheckAll, CheckRow, CheckConnection, WriteVerdict
<1>6. CASE DisconnectAll \/ ProcessEnds \/ UNCHANGED vars
  BY <1>6 DEF DisconnectAll, ProcessEnds, vars
<1>7. QED
  BY <1>1, <1>2, <1>3, <1>4, <1>5, <1>6 DEF Next

(* A row that is gone stays so.                                            *)
LEMMA GoneStays == Typed /\ [Next]_vars => (status = "gone" => status' = "gone")
<1> SUFFICES ASSUME Typed, [Next]_vars, status = "gone" PROVE status' = "gone"
  OBVIOUS
<1>1. ASSUME NEW r \in Requests, RequestStep(r) PROVE status' = "gone"
  BY <1>1 DEF RequestStep, Lock, FindByID, GetOrCreateDevice, MarkConnecting, Connect,
              MarkFailed, StopInstance, StatusDisconnected, DeleteRow, UpdateStatus, rows
<1>2. ASSUME NEW r \in Requests, NEW kind \in Kinds, Accept(r, kind) PROVE status' = "gone"
  BY <1>2 DEF Accept, rows
<1>3. ASSUME NEW c \in Conns, Environment(c) PROVE status' = "gone"
  BY <1>3 DEF Environment, Authenticate, PairDevice, CodeExpires, DropConnection,
              Reconnect, LogOut, rows
<1>4. ASSUME NEW h \in handling, HandleEvent(h) PROVE status' = "gone"
  BY <1>4 DEF HandleEvent, HandleStatus, HandleLookup, HandleMapping, UpdateStatus, rows
<1>5. CASE HealthStep
  BY <1>5 DEF HealthStep, CheckAll, CheckRow, CheckConnection, WriteVerdict, UpdateStatus, rows
<1>6. CASE DisconnectAll \/ ProcessEnds \/ UNCHANGED vars
  BY <1>6 DEF DisconnectAll, ProcessEnds, vars, rows
<1>7. QED
  BY <1>1, <1>2, <1>3, <1>4, <1>5, <1>6 DEF Next
-----------------------------------------------------------------------------
(* Nobody asks for a pairing code, and no connection is lost or revoked.   *)
Calm == MaxDrops = 0 /\ "pair" \notin Kinds

(* The phone was paired through this connection.                           *)
PairedHere(c) == device[c] = c /\ Paired(c)

Live == {"open", "online", "dropped"}

(* Only the registered connection and those whose phone was paired are up  *)
(* or will come up by themselves, and only the latter after an             *)
(* interruption; a request that makes another has seen that the registered *)
(* one is not of the former.                                               *)
Registered ==
  /\ \A c \in Conns :
       /\ socket[c] \in Live => connections = c \/ PairedHere(c)
       /\ socket[c] = "dropped" => PairedHere(c)
  /\ \A r \in Requests :
       /\ call[r].at \in {"mark", "connect"} => connections = call[r].conn
       /\ call[r].at \in {"find", "device"} =>
            \A c \in Conns : socket[c] \in Live => PairedHere(c)

CalmInv == Typed /\ LockInv /\ Registered

LEMMA RegisteredInit == Init => Registered
BY NoCallTyped DEF Init, Registered, Live, At

(* What is not up and not on its way stays so by itself, and an            *)
(* interruption comes with a pairing.                                      *)
LEMMA EnvironmentLive ==
  ASSUME Calm, Typed, NEW c \in Conns, Environment(c)
  PROVE  /\ UNCHANGED calls
         /\ \A d \in Conns : PairedHere(d) => PairedHere(d)'
         /\ \A d \in Conns : socket'[d] \in Live => socket[d] \in Live
         /\ \A d \in Conns : socket'[d] = "dropped" => socket[d] = "dropped" \/ PairedHere(d)'
<1>1. ~DropConnection(c) /\ ~LogOut(c)
  BY DEF Calm, DropConnection, LogOut, Typed, TypeOK
<1>2. UNCHANGED calls /\ stored \subseteq stored'
  BY <1>1 DEF Environment, Authenticate, PairDevice, CodeExpires, Reconnect
<1>3. \A d \in Conns : PairedHere(d) => PairedHere(d)'
  BY <1>2 DEF PairedHere, Paired, calls
<1>4. ASSUME NEW d \in Conns, socket'[d] \in Live PROVE socket[d] \in Live
  <2>1. socket[c] \in Live
    BY <1>1 DEF Environment, Authenticate, PairDevice, CodeExpires, Reconnect, Live
  <2>2. d # c => socket'[d] \in {socket[d], "closed"}
    BY <1>1 DEF Environment, Authenticate, PairDevice, CodeExpires, Reconnect, Typed, TypeOK
  <2>3. QED
    BY <1>4, <2>1, <2>2 DEF Live
<1>5. ASSUME NEW d \in Conns, socket'[d] = "dropped", socket[d] # "dropped"
      PROVE  PairedHere(d)'
  <2>1. PairDevice(c) /\ d = c
    BY <1>1, <1>5 DEF Environment, Authenticate, PairDevice, CodeExpires, Reconnect, Typed, TypeOK
  <2>2. QED
    BY <1>2, <2>1 DEF PairDevice, PairedHere, Paired, calls
<1>6. QED
  BY <1>2, <1>3, <1>4, <1>5

LEMMA DisconnectedClosed ==
  ASSUME Typed, Registered, socket' = Disconnected
  PROVE  /\ \A d \in Conns : socket'[d] \in Live => socket[d] \in Live /\ PairedHere(d)
         /\ \A d \in Conns : socket'[d] = "dropped" => socket[d] = "dropped"
<1>1. NoConn \notin Conns
  BY InstanceAssumption DEF Devices
<1>2. CASE connections = NoConn
  BY <1>1, <1>2 DEF Disconnected, Registered
<1>3. CASE connections # NoConn
  BY <1>3 DEF Disconnected, Registered, Live, Typed, TypeOK
<1>4. QED
  BY <1>2, <1>3

LEMMA RegisteredStep == Calm /\ CalmInv /\ [Next]_vars => Registered'
<1> SUFFICES ASSUME Calm, CalmInv, [Next]_vars PROVE Registered'
  OBVIOUS
<1> USE DEF CalmInv
<1>1. ASSUME NEW r \in Requests, RequestStep(r) PROVE Registered'
  <2> DEFINE Others == \A q \in Requests \ {r} : call'[q] = call[q]
  <2>1. CASE Lock(r)
    <3>0. \A d \in Conns : PairedHere(d)' <=> PairedHere(d)
      BY <2>1 DEF Lock, links, PairedHere, Paired
    <3>1. CASE Return(r) /\ UNCHANGED lock
      BY <2>1, <3>0, <3>1, Returned DEF Lock, Registered, links
    <3>2. CASE Then(r, "find") /\ ~AlreadyConnected(r)
      <4>1. ASSUME NEW c \in Conns, socket[c] \in Live PROVE PairedHere(c)
        <5>1. SUFFICES ASSUME connections = c PROVE PairedHere(c)
          BY <4>1 DEF Registered
        <5>2. c # NoConn /\ call[r].asks # "pair"
          BY InstanceAssumption DEF Devices, Calm, Typed, TypeOK
        <5>3. socket[c] = "dropped"
          BY <3>2, <4>1, <5>1, <5>2 DEF AlreadyConnected, IsConnected, Live
        <5>4. QED
          BY <5>3 DEF Registered
      <4>2. call'[r].at = "find" /\ Others
        BY <3>2, WentTo
      <4>3. QED
        BY <2>1, <3>0, <4>1, <4>2 DEF Lock, Registered, links
    <3>3. QED
      BY <2>1, <3>1, <3>2 DEF Lock
  <2>2. CASE FindByID(r)
    <3>0. \A d \in Conns : PairedHere(d)' <=> PairedHere(d)
      BY <2>2 DEF FindByID, links, PairedHere, Paired
    <3>1. CASE Fails(r)
      BY <2>2, <3>0, <3>1, Returned DEF FindByID, Fails, Registered, links
    <3>2. CASE Then(r, "device")
      <4>1. call'[r].at = "device" /\ Others
        BY <3>2, WentTo
      <4>2. QED
        BY <2>2, <3>0, <4>1 DEF FindByID, At, Registered, links
    <3>3. QED
      BY <2>2, <3>1, <3>2 DEF FindByID
  <2>3. CASE GetOrCreateDevice(r)
    <3>0. UNCHANGED stored
      BY <2>3 DEF GetOrCreateDevice
    <3>1. CASE Fails(r) /\ UNCHANGED <<socket, device, connections>>
      BY <3>0, <3>1, Returned DEF Fails, Registered, PairedHere, Paired
    <3>2. ASSUME NEW c \in Conns, NEW k, device' = [device EXCEPT ![c] = k],
                 socket' = [socket EXCEPT ![c] = "idle"], connections' = c,
                 call' = [call EXCEPT ![r].conn = c,
                            ![r].at = IF call[r].asks = "pair" THEN "connect" ELSE "mark"]
          PROVE  Registered'
      <4>1. \A d \in Conns \ {c} : PairedHere(d) => PairedHere(d)'
        BY <3>0, <3>2 DEF PairedHere, Paired, Typed, TypeOK
      <4>2. \A d \in Conns : socket'[d] \in Live => PairedHere(d)'
        BY <2>3, <3>2, <4>1 DEF GetOrCreateDevice, At, Registered, Live, Typed, TypeOK
      <4>3. /\ call'[r].at \in {"mark", "connect"} /\ call'[r].conn = c
            /\ Others
        BY <3>2 DEF Typed, TypeOK
      <4>4. \A q \in Requests \ {r} : call[q].at \notin Locked
        BY <2>3 DEF GetOrCreateDevice, At, LockInv, Locked
      <4>5. QED
        BY <3>2, <4>2, <4>3, <4>4 DEF Registered, Live, Locked
    <3>3. QED
      BY <2>3, <3>1, <3>2, DeviceMade
  <2>4. CASE MarkConnecting(r)
    <3>1. /\ call'[r].at = "connect" /\ call'[r].conn = call[r].conn
          /\ Others
      BY <2>4, WentTo DEF MarkConnecting
    <3>2. QED
      BY <2>4, <3>1 DEF MarkConnecting, Registered, At, links, PairedHere, Paired
  <2>5. CASE Connect(r)
    <3> DEFINE c == call[r].conn
    <3>0. \A d \in Conns : PairedHere(d)' <=> PairedHere(d)
      BY <2>5 DEF Connect, PairedHere, Paired
    <3>1. connections = c
      BY <2>5 DEF Connect, At, Registered
    <3>2. \A q \in Requests \ {r} : call[q].at \notin Locked
      BY <2>5 DEF Connect, At, LockInv, Locked
    <3>3. call'[r].at \in {"idle", "markFailed"} /\ Others
      BY <2>5, Returned, WentTo DEF Connect
    <3>4. call[r].asks # "pair"
      BY InstanceAssumption DEF Calm, Typed, TypeOK
    <3>5. \A d \in Conns : /\ socket'[d] \in Live => connections' = d \/ PairedHere(d)
                           /\ socket'[d] = "dropped" => PairedHere(d)
      <4>1. CASE socket' = [socket EXCEPT ![c] = "open"] /\ connections' = connections
        BY <3>1, <4>1 DEF Registered, Typed, TypeOK
      <4>2. CASE socket' = [socket EXCEPT ![c] = "closed"]
        BY <3>1, <4>2 DEF Registered, Live, Typed, TypeOK
      <4>3. QED
        BY <2>5, <3>4, <4>1, <4>2 DEF Connect
    <3>6. QED
      BY <3>0, <3>2, <3>3, <3>5 DEF Registered, Locked
  <2>6. CASE MarkFailed(r) \/ StatusDisconnected(r) \/ DeleteRow(r)
    <3>1. call'[r].at = "idle" /\ Others
      BY <2>6, Returned DEF MarkFailed, StatusDisconnected, DeleteRow
    <3>2. UNCHANGED <<socket, stored, connections, device>>
      BY <2>6 DEF MarkFailed, StatusDisconnected, DeleteRow, links
    <3>3. QED
      BY <3>1, <3>2 DEF Registered, PairedHere, Paired
  <2>7. CASE StopInstance(r)
    <3>0. \A d \in Conns : PairedHere(d)' <=> PairedHere(d)
      BY <2>7 DEF StopInstance, PairedHere, Paired
    <3>1. PICK step \in {"statusDisconnected", "lock", "deleteRow"} : Then(r, step)
      BY <2>7 DEF StopInstance, Typed, StopsKnow
    <3>2. call'[r].at = step /\ Others
      BY <3>1, WentTo
    <3>3. \A q \in Requests : call[q].at \notin Locked
      BY <2>7, InstanceAssumption DEF StopInstance, LockInv
    <3>4. QED
      BY <2>7, <3>0, <3>1, <3>2, <3>3, DisconnectedClosed DEF StopInstance, Registered, Live, Locked
  <2>8. QED
    BY <1>1, <2>1, <2>2, <2>3, <2>4, <2>5, <2>6, <2>7 DEF RequestStep
<1>2. ASSUME NEW r \in Requests, NEW kind \in Kinds, Accept(r, kind) PROVE Registered'
  <2>1. call'[r].at \in {"lock", "stop", "deleteGroup"}
    BY <1>2 DEF Accept, FirstStep, Typed, TypeOK
  <2>2. \A q \in Requests \ {r} : call'[q] = call[q]
    BY <1>2 DEF Accept, Typed, TypeOK
  <2>3. QED
    BY <1>2, <2>1, <2>2 DEF Accept, Registered, links, PairedHere, Paired
<1>3. ASSUME NEW c \in Conns, Environment(c) PROVE Registered'
  BY <1>3, EnvironmentLive DEF Registered, calls
<1>4. ASSUME NEW h \in handling, HandleEvent(h) PROVE Registered'
  <2>1. UNCHANGED <<links, calls>>
    BY <1>4 DEF HandleEvent, HandleStatus, HandleLookup, HandleMapping
  <2>2. QED
    BY <2>1 DEF Registered, links, calls, PairedHere, Paired
<1>5. CASE HealthStep
  <2>1. UNCHANGED <<links, calls>>
    BY <1>5 DEF HealthStep, CheckAll, CheckRow, CheckConnection, WriteVerdict
  <2>2. QED
    BY <2>1 DEF Registered, links, calls, PairedHere, Paired
<1>6. CASE DisconnectAll
  <2>1. \A d \in Conns : PairedHere(d)' <=> PairedHere(d)
    BY <1>6 DEF DisconnectAll, PairedHere, Paired
  <2>2. \A q \in Requests : call[q].at \notin Locked
    BY <1>6, InstanceAssumption DEF DisconnectAll, LockInv
  <2>3. QED
    BY <1>6, <2>1, <2>2, DisconnectedClosed DEF DisconnectAll, Registered, Live, Locked
<1>7. CASE ProcessEnds
  BY <1>7, NoCallTyped DEF ProcessEnds, Registered, Live
<1>8. CASE UNCHANGED vars
  BY <1>8 DEF vars, rows, links, calls, Registered, PairedHere, Paired
<1>9. QED
  BY <1>1, <1>2, <1>3, <1>4, <1>5, <1>6, <1>7, <1>8 DEF Next
-----------------------------------------------------------------------------
(* Of the registered connection that is online an event is still to be     *)
(* handled that will map its device, unless it is mapped or a handler that *)
(* had seen another connection has overwritten it.                         *)
WillBeMapped(c) ==
  \E h \in handling :
    \/ h.conn = c /\ h.name = "Connected" /\ h.at \in {"status", "lookup"}
    \/ h.at = "mapping" /\ h.seen = c

LateInv == late /\ status # "gone" => mapping # NoConn

OwnInv ==
  status # "gone" /\ ~late =>
    \A c \in Conns : connections = c /\ socket[c] = "online" /\ Paired(c)
                      => mapping = device[c] \/ WillBeMapped(c)

MapInv == Typed /\ HandlersKnow /\ LateInv /\ OwnInv

LEMMA MapInit == Init => MapInv
BY TypedInit DEF MapInv, HandlersKnow, LateInv, OwnInv, Init

LEMMA LateStep == Typed /\ HandlersKnow /\ LateInv /\ [Next]_vars => LateInv'
<1> SUFFICES ASSUME Typed, HandlersKnow, LateInv, [Next]_vars, late', status' # "gone"
             PROVE  mapping' # NoConn
  BY DEF LateInv
<1>1. status # "gone"
  BY GoneStays
<1>2. ASSUME NEW h \in handling, HandleEvent(h) PROVE mapping' # NoConn
  <2>1. Maps(h) /\ h.at = "mapping" => device[h.seen] # NoConn
    BY InstanceAssumption DEF Maps, Paired, Typed, TypeOK
  <2>2. QED
    BY <1>1, <1>2, <2>1 DEF HandleEvent, HandleStatus, HandleLookup, HandleMapping, LateInv,
                            rest, rows
<1>3. ASSUME NEW r \in Requests, RequestStep(r) PROVE mapping' # NoConn
  BY <1>1, <1>3 DEF RequestStep, Lock, FindByID, GetOrCreateDevice, MarkConnecting, Connect,
              MarkFailed, StopInstance, StatusDisconnected, DeleteRow, LateInv, rest, rows
<1>4. ASSUME NEW r \in Requests, NEW kind \in Kinds, Accept(r, kind) PROVE mapping' # NoConn
  BY <1>1, <1>4 DEF Accept, LateInv, rest, rows
<1>5. ASSUME NEW c \in Conns, Environment(c) PROVE mapping' # NoConn
  BY <1>1, <1>5 DEF Environment, Authenticate, PairDevice, CodeExpires, DropConnection,
              Reconnect, LogOut, LateInv, rest, rows
<1>6. CASE HealthStep
  BY <1>1, <1>6 DEF HealthStep, CheckAll, CheckRow, CheckConnection, WriteVerdict, LateInv, rest, rows
<1>7. CASE DisconnectAll \/ ProcessEnds \/ UNCHANGED vars
  BY <1>1, <1>7 DEF DisconnectAll, ProcessEnds, vars, LateInv, rows
<1>8. QED
  BY <1>2, <1>3, <1>4, <1>5, <1>6, <1>7 DEF Next

LEMMA OwnStep == MaxFaults = 0 /\ MapInv /\ [Next]_vars => OwnInv'
<1> SUFFICES ASSUME MaxFaults = 0, MapInv, [Next]_vars, status' # "gone", ~late', NEW c \in Conns,
                    connections' = c, socket'[c] = "online", Paired(c)'
             PROVE  (mapping = device[c])' \/ WillBeMapped(c)'
  BY DEF OwnInv
<1> USE DEF MapInv
<1>0. status # "gone"
  BY GoneStays
<1>1. ASSUME UNCHANGED <<mapping, stored, device, late>>, handling \subseteq handling',
             connections = c, socket[c] = "online"
      PROVE  (mapping = device[c])' \/ WillBeMapped(c)'
  BY <1>0, <1>1 DEF OwnInv, Paired, WillBeMapped
<1>2. ASSUME NEW r \in Requests, RequestStep(r)
      PROVE  (mapping = device[c])' \/ WillBeMapped(c)'
  <2>1. CASE GetOrCreateDevice(r)
    <3>1. UNCHANGED <<mapping, stored, late, handling>>
      BY <2>1 DEF GetOrCreateDevice, rows, rest
    <3>2. CASE UNCHANGED <<socket, device, connections>>
      BY <1>1, <3>1, <3>2
    <3>3. ASSUME NEW d \in Conns, socket' = [socket EXCEPT ![d] = "idle"], connections' = d
          PROVE  FALSE
      BY <3>3 DEF Typed, TypeOK
    <3>4. QED
      BY <2>1, <3>2, <3>3, DeviceMade
  <2>2. CASE Connect(r)
    <3>1. connections = c /\ socket[c] = "online"
      BY <2>2, InstanceAssumption DEF Connect, Devices, Typed, TypeOK
    <3>2. QED
      BY <1>1, <2>2, <3>1 DEF Connect, rows, rest
  <2>3. CASE StopInstance(r)
    BY <2>3, InstanceAssumption DEF StopInstance, Devices
  <2>4. CASE Lock(r) \/ FindByID(r) \/ MarkConnecting(r) \/ MarkFailed(r)
             \/ StatusDisconnected(r)
    BY <1>1, <2>4 DEF Lock, FindByID, MarkConnecting, MarkFailed, StatusDisconnected, links,
                      rows, rest
  <2>5. CASE DeleteRow(r)
    BY <1>1, <2>5 DEF DeleteRow, links, rows, rest, Fault, Typed, TypeOK
  <2>6. QED
    BY <1>2, <2>1, <2>2, <2>3, <2>4, <2>5 DEF RequestStep
<1>3. ASSUME NEW r \in Requests, NEW kind \in Kinds, Accept(r, kind)
      PROVE  (mapping = device[c])' \/ WillBeMapped(c)'
  BY <1>1, <1>3 DEF Accept, links, rows, rest
<1>4. ASSUME NEW d \in Conns, Environment(d)
      PROVE  (mapping = device[c])' \/ WillBeMapped(c)'
  <2>1. UNCHANGED <<mapping, late, connections, device>> /\ handling \subseteq handling'
    BY <1>4 DEF Environment, Authenticate, PairDevice, CodeExpires, DropConnection,
                Reconnect, LogOut, Dispatch, calls, rows, rest
  <2>2. CASE Authenticate(d) /\ d = c
    <3>1. [conn |-> c, name |-> "Connected", at |-> "status", seen |-> NoConn] \in handling'
      BY <2>2 DEF Authenticate, Dispatch
    <3>2. QED
      BY <3>1 DEF WillBeMapped
  <2>3. CASE ~(Authenticate(d) /\ d = c)
    <3>1. socket[c] = "online"
      BY <1>4, <2>3 DEF Environment, Authenticate, PairDevice, CodeExpires, DropConnection,
                        Reconnect, LogOut, Typed, TypeOK
    <3>2. Paired(c)
      <4>1. CASE PairDevice(d)
        <5>1. d # c
          BY <3>1, <4>1 DEF PairDevice
        <5>2. device[c] # d
          BY <4>1, <5>1 DEF PairDevice
        <5>3. QED
          BY <2>1, <4>1, <5>2 DEF PairDevice, Paired
      <4>2. CASE ~PairDevice(d)
        <5>1. stored' \subseteq stored
          BY <1>4, <4>2 DEF Environment, Authenticate, CodeExpires, DropConnection,
                            Reconnect, LogOut
        <5>2. QED
          BY <2>1, <5>1 DEF Paired
      <4>3. QED
        BY <4>1, <4>2
    <3>3. mapping = device[c] \/ WillBeMapped(c)
      BY <1>0, <2>1, <3>1, <3>2 DEF OwnInv
    <3>4. QED
      BY <2>1, <3>3 DEF WillBeMapped
  <2>4. QED
    BY <2>2, <2>3
<1>5. ASSUME NEW h \in handling, HandleEvent(h)
      PROVE  (mapping = device[c])' \/ WillBeMapped(c)'
  <2>1. UNCHANGED <<stored, socket, connections, device>> /\ h \in Event
    BY <1>5 DEF HandleEvent, HandleStatus, HandleLookup, HandleMapping, links, calls, Typed, TypeOK
  <2>2. connections = c /\ socket[c] = "online" /\ Paired(c)
    BY <2>1 DEF Paired
  <2>3. CASE HandleMapping(h)
    <3>1. ~Fault
      BY DEF Fault, Typed, TypeOK
    <3>2. CASE Maps(h)
      <4>1. mapping' = device[h.seen] /\ h.seen = c
        BY <2>2, <2>3, <3>1, <3>2 DEF HandleMapping
      <4>2. QED
        BY <2>1, <4>1
    <3>3. CASE ~Maps(h)
      <4>1. UNCHANGED <<mapping, late>> /\ h.seen # c
        BY <1>0, <2>2, <2>3, <3>1, <3>3 DEF HandleMapping, Maps
      <4>2. mapping = device[c] \/ WillBeMapped(c)
        BY <1>0, <2>2, <4>1 DEF OwnInv
      <4>3. WillBeMapped(c) => WillBeMapped(c)'
        BY <2>3, <4>1 DEF WillBeMapped, HandleMapping, Done
      <4>4. QED
        BY <2>1, <4>1, <4>2, <4>3
    <3>4. QED
      BY <3>2, <3>3
  <2>4. CASE ~HandleMapping(h)
    <3>1. UNCHANGED <<mapping, late>>
      BY <1>5, <2>4 DEF HandleEvent, HandleStatus, HandleLookup, rows, rest
    <3>2. SUFFICES ASSUME WillBeMapped(c) PROVE WillBeMapped(c)'
      BY <1>0, <2>1, <2>2, <3>1 DEF OwnInv
    <3>3. PICK g \in handling :
            \/ g.conn = c /\ g.name = "Connected" /\ g.at \in {"status", "lookup"}
            \/ g.at = "mapping" /\ g.seen = c
      BY <3>2 DEF WillBeMapped
    <3>4. CASE g # h
      <4>1. g \in handling'
        BY <1>5, <2>4, <3>4 DEF HandleEvent, HandleStatus, HandleLookup, Replace, Done
      <4>2. QED
        BY <3>3, <4>1 DEF WillBeMapped
    <3>5. CASE g = h /\ HandleStatus(h)
      <4> DEFINE k == [h EXCEPT !.at = "lookup"]
      <4>1. k \in handling'
        BY <3>3, <3>5 DEF HandleStatus, Replace
      <4>2. k.conn = c /\ k.at = "lookup" /\ k.name = "Connected"
        BY <2>1, <3>3, <3>5 DEF HandleStatus, Event
      <4>3. QED
        BY <4>1, <4>2 DEF WillBeMapped
    <3>6. CASE g = h /\ HandleLookup(h)
      <4> DEFINE k == [h EXCEPT !.at = "mapping", !.seen = connections]
      <4>1. k \in handling'
        BY <2>2, <3>6, InstanceAssumption DEF HandleLookup, Replace, Devices
      <4>2. k.at = "mapping" /\ k.seen = c
        BY <2>1, <2>2 DEF Event
      <4>3. QED
        BY <4>1, <4>2 DEF WillBeMapped
    <3>7. QED
      BY <1>5, <2>4, <3>4, <3>5, <3>6 DEF HandleEvent
  <2>5. QED
    BY <2>3, <2>4
<1>6. CASE HealthStep
  BY <1>1, <1>6 DEF HealthStep, CheckAll, CheckRow, CheckConnection, WriteVerdict, links, calls,
                    rows, rest
<1>7. CASE DisconnectAll \/ ProcessEnds
  BY <1>7, InstanceAssumption DEF DisconnectAll, ProcessEnds, Devices
<1>8. CASE UNCHANGED vars
  BY <1>1, <1>8 DEF vars, links, calls, rows
<1>9. QED
  BY <1>2, <1>3, <1>4, <1>5, <1>6, <1>7, <1>8 DEF Next
-----------------------------------------------------------------------------
(* Everything keeps its type (instance.go, manager.go, health.go).         *)
THEOREM TypeCorrect == Spec => []TypeOK
<1>1. Typed => TypeOK
  BY DEF Typed
<1>2. QED
  BY <1>1, TypedInit, TypedStep, PTL DEF Spec

(* Two requests are never both between Manager.mu's Lock and its Unlock,   *)
(* however they fail, and whatever ends the process.                       *)
OneAtATime ==
  \A q, r \in Requests : call[q].at \in Locked /\ call[r].at \in Locked => q = r

THEOREM LockExcludes == Spec => []OneAtATime
<1>1. LockInv => OneAtATime
  BY DEF LockInv, OneAtATime
<1>2. QED
  BY <1>1, TypedInit, TypedStep, LockInit, LockStep, PTL DEF Spec

(* While no connection is lost and no pairing code is asked for, every     *)
(* websocket that is up is the one the manager knows of, except those      *)
(* whose own phone was paired: for any connections and requests, whatever  *)
(* statements fail and whatever ends the process (manager.go,              *)
(* StartInstance and StopInstance).                                        *)
THEOREM UpIsRegisteredHolds ==
  ASSUME Calm
  PROVE  Spec => []UpIsRegistered
<1>1. Init => CalmInv
  BY TypedInit, LockInit, RegisteredInit DEF CalmInv
<1>2. CalmInv /\ [Next]_vars => CalmInv'
  BY TypedStep, LockStep, RegisteredStep DEF CalmInv
<1>3. CalmInv => UpIsRegistered
  BY DEF CalmInv, Registered, UpIsRegistered, IsConnected, Live, PairedHere
<1>4. QED
  BY <1>1, <1>2, <1>3, PTL DEF Spec

(* If no statement fails, an instance that is online with a stored session *)
(* is mapped to that session's device once its events have been handled,   *)
(* unless the last handler to write the mapping had seen a connection that *)
(* was replaced before it wrote: for any requests, however sessions are    *)
(* lost, revoked and paired, and whatever ends the process                 *)
(* (manager.go:265).                                                       *)
THEOREM OnlineIsMappedHolds ==
  ASSUME MaxFaults = 0
  PROVE  Spec => []OnlineIsMapped
<1>1. Init => MapInv
  BY MapInit
<1>2. MapInv /\ [Next]_vars => MapInv'
  BY TypedStep, HandlersStep, LateStep, OwnStep DEF MapInv
<1>3. MapInv => OnlineIsMapped
  BY DEF MapInv, LateInv, OwnInv, WillBeMapped, OnlineIsMapped, Quiet
<1>4. QED
  BY <1>1, <1>2, <1>3, PTL DEF Spec
=============================================================================
