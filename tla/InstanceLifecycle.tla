-------------------------- MODULE InstanceLifecycle --------------------------
(***************************************************************************)
(* One WhatsApp instance of the gateway: its row, the Manager's map entry  *)
(* and the Connection objects made for it (internal/instance/manager.go,   *)
(* connection.go), the API requests that connect, pair, stop, restart and  *)
(* delete it (internal/api/handler/instance.go), the event handlers that   *)
(* whatsmeow's goroutines run, and the HealthMonitor (health.go).          *)
(*                                                                         *)
(* Every operation is keyed by the instance's id, so one instance shows    *)
(* every behaviour of one.  A SQL statement, a call into whatsmeow and a   *)
(* critical section without either are one step.  Webhooks, phone numbers  *)
(* and Connection.Status are left out: nothing here reads them back.       *)
(***************************************************************************)
EXTENDS Naturals, FiniteSets

CONSTANTS
  Conns,         \* the Connection objects that may be made
  Requests,      \* the API requests that may be in flight together
  Kinds,         \* what the requests may ask for
  NoConn,        \* no connection, no device
  NoOne,         \* nobody holds Manager.mu
  OldDevice,     \* the device paired in an earlier life of the process
  KnownAtStart,  \* is the instance paired already: {TRUE}, {FALSE}, BOOLEAN
  Vitals,        \* what the row's counters may tell the health monitor
  MaxDrops,      \* bound: connections lost or logged out by WhatsApp
  MaxFaults,     \* bound: database statements that fail
  MaxCrashes     \* bound: ends of the process

Devices == Conns \cup {OldDevice}   \* NewDevice makes device c for connection c

ASSUME InstanceAssumption ==
  /\ NoConn \notin Devices
  /\ OldDevice \notin Conns
  /\ NoOne \notin Requests
  /\ Kinds \subseteq {"connect", "pair", "disconnect", "restart", "delete", "deleteGroup"}
  /\ KnownAtStart \in (SUBSET BOOLEAN) \ {{}}
  /\ Vitals \in (SUBSET {"fine", "critical", "exhausted"}) \ {{}}
  /\ MaxDrops \in Nat /\ MaxFaults \in Nat /\ MaxCrashes \in Nat

VARIABLES
  status,        \* instances.status, "gone" once the row is deleted
  mapping,       \* device_mapping.jid
  stored,        \* the devices whose session whatsmeow's store holds
  connections,   \* Manager.connections' entry
  lock,          \* the request that holds Manager.mu for writing
  socket,        \* each Connection's websocket
  device,        \* each Connection's device
  call,          \* each request: what it asks, its next step, its Connection
  handling,      \* the events whose handlers have not ended
  check,         \* the health monitor's check of the instance
  stopping,      \* main has stopped the health monitor
  late,          \* observation: the mapping was written for a replaced connection
  drops, faults, crashes

rows  == <<status, mapping>>
links == <<stored, socket>>
calls == <<connections, lock, device, call>>
rest  == <<stopping, late, crashes>>
vars  == <<rows, links, calls, handling, check, stopping, late, drops, faults, crashes>>

Written == {"disconnected", "connecting", "available", "resting", "suspect", "banned"}
Creating == {"lock", "find", "device"}    \* a Connection is yet to be made
Locked == {"find", "device", "mark", "connect", "markFailed"}
Steps == {"idle", "stop", "statusDisconnected", "deleteRow", "deleteGroup"}
           \cup Creating \cup Locked
Event == [conn : Conns, name : {"Connected", "Disconnected", "LoggedOut"},
          at : {"status", "lookup", "mapping"}, seen : Conns \cup {NoConn}]
Checks == [at : {"idle", "read", "ask", "suspect", "resting"},
           conn : Conns \cup {NoConn}, read : Written \cup {"gone"}]

(* Connection.IsConnected: the websocket is up, logged in or not.          *)
IsConnected(c) == socket[c] \in {"open", "online"}
Paired(c) == device[c] \in stored

TypeOK ==
  /\ status \in Written \cup {"gone"}
  /\ mapping \in Devices \cup {NoConn}
  /\ stored \in SUBSET Devices
  /\ connections \in Conns \cup {NoConn}
  /\ lock \in Requests \cup {NoOne}
  /\ socket \in [Conns -> {"unborn", "idle", "open", "online", "dropped", "closed"}]
  /\ device \in [Conns -> Devices \cup {NoConn}]
  /\ call \in [Requests -> [asks : Kinds \cup {"nothing"}, at : Steps,
                            conn : Conns \cup {NoConn}]]
  /\ handling \in SUBSET Event
  /\ check \in Checks
  /\ stopping \in BOOLEAN /\ late \in BOOLEAN
  /\ drops \in Nat /\ faults \in Nat /\ crashes \in Nat

NoCall == [asks |-> "nothing", at |-> "idle", conn |-> NoConn]
NoCheck == [at |-> "idle", conn |-> NoConn, read |-> "gone"]

Init ==
  /\ \E known \in KnownAtStart :
       IF known THEN status \in Written /\ mapping = OldDevice /\ stored = {OldDevice}
       ELSE status = "disconnected" /\ mapping = NoConn /\ stored = {}
  /\ connections = NoConn
  /\ lock = NoOne
  /\ socket = [c \in Conns |-> "unborn"]
  /\ device = [c \in Conns |-> NoConn]
  /\ call = [r \in Requests |-> NoCall]
  /\ handling = {}
  /\ check = NoCheck
  /\ stopping = FALSE /\ late = FALSE
  /\ drops = 0 /\ faults = 0 /\ crashes = 0

Fault == faults < MaxFaults /\ faults' = faults + 1
NoFault == UNCHANGED faults

(* InstanceRepo.UpdateStatus: no row, no effect; errors are only logged.   *)
UpdateStatus(s) ==
  \/ NoFault /\ status' = IF status = "gone" THEN "gone" ELSE s
  \/ Fault /\ UNCHANGED status
-----------------------------------------------------------------------------
(* The API requests.                                                       *)

At(r, step) == call[r].at = step
Then(r, step) == call' = [call EXCEPT ![r].at = step]
Return(r) == call' = [call EXCEPT ![r] = NoCall]

(* Bound: a request that would make a Connection needs one of Conns left.  *)
Makes(r) == call[r].asks \in {"connect", "pair", "restart"}
              /\ call[r].at \in Creating \cup {"stop"}
ConnsLeft == Cardinality({r \in Requests : Makes(r)})
               < Cardinality({c \in Conns : socket[c] = "unborn"})

FirstStep(kind) ==
  IF kind \in {"connect", "pair"} THEN "lock"
  ELSE IF kind = "deleteGroup" THEN "deleteGroup" ELSE "stop"

(* A handler that has found the row; GetQRCode and Connect both start.     *)
Accept(r, kind) ==
  /\ At(r, "idle") /\ status # "gone"
  /\ kind \in {"connect", "pair", "restart"} => ConnsLeft
  /\ call' = [call EXCEPT ![r] = [asks |-> kind, at |-> FirstStep(kind), conn |-> NoConn]]
  /\ UNCHANGED <<rows, links, connections, lock, device, handling, check, drops, faults, rest>>

(* StartInstance refuses a connection that is up, PairPhone does not ask.  *)
(* Mutant: the test is forgotten.                                          *)
AlreadyConnected_Never(r) == FALSE
AlreadyConnected(r) ==
  /\ call[r].asks # "pair"
  /\ connections # NoConn
  /\ IsConnected(connections)

Lock(r) ==
  /\ At(r, "lock") /\ lock = NoOne
  /\ IF AlreadyConnected(r) THEN Return(r) /\ UNCHANGED lock
                            ELSE Then(r, "find") /\ lock' = r
  /\ UNCHANGED <<rows, links, connections, device, handling, check, drops, faults, rest>>

(* Every return of the two functions releases the lock.  Mutant: an early  *)
(* return keeps it.                                                        *)
Fails_KeepsLock(r) == Return(r) /\ UNCHANGED lock
Fails(r) == Return(r) /\ lock' = NoOne

FindByID(r) ==
  /\ At(r, "find")
  /\ \/ status = "gone" /\ NoFault /\ Fails(r)
     \/ Fault /\ Fails(r)
     \/ status # "gone" /\ NoFault /\ Then(r, "device") /\ UNCHANGED lock
  /\ UNCHANGED <<rows, links, connections, device, handling, check, drops, rest>>

(* getOrCreateDevice (its two reads as one), NewConnection and the entry,  *)
(* which replaces the one there was.  A mapping that cannot be read fails  *)
(* the request; a device that cannot be read is replaced by a new one.     *)
GetOrCreateDevice(r) ==
  /\ At(r, "device")
  /\ \/ Fault /\ Fails(r) /\ UNCHANGED <<socket, device, connections>>
     \/ /\ \E c \in Conns :
             /\ socket[c] = "unborn"
             /\ \/ NoFault /\ device' = [device EXCEPT
                                         ![c] = IF mapping \in stored THEN mapping ELSE c]
                \/ mapping # NoConn /\ Fault /\ device' = [device EXCEPT ![c] = c]
             /\ socket' = [socket EXCEPT ![c] = "idle"]
             /\ connections' = c
             /\ call' = [call EXCEPT ![r].conn = c,
                           ![r].at = IF call[r].asks = "pair" THEN "connect" ELSE "mark"]
        /\ UNCHANGED lock
  /\ UNCHANGED <<rows, stored, handling, check, drops, rest>>

MarkConnecting(r) ==
  /\ At(r, "mark")
  /\ UpdateStatus("connecting")
  /\ Then(r, "connect")
  /\ UNCHANGED <<mapping, links, connections, lock, device, handling, check, drops, rest>>

(* Connection.Connect and PairPhone.  On an error the entry is deleted,    *)
(* but a websocket whose pairing code was refused stays up.                *)
Connect(r) ==
  LET c == call[r].conn IN
  /\ At(r, "connect")
  /\ \/ /\ socket' = [socket EXCEPT ![c] = "open"]
        /\ UNCHANGED connections
        /\ Return(r) /\ lock' = NoOne
     \/ /\ connections' = NoConn
        /\ IF call[r].asks = "pair"
           THEN /\ \E s \in {"closed", "open"} : socket' = [socket EXCEPT ![c] = s]
                /\ Return(r) /\ lock' = NoOne
           ELSE /\ socket' = [socket EXCEPT ![c] = "closed"]
                /\ Then(r, "markFailed") /\ UNCHANGED lock
  /\ UNCHANGED <<rows, stored, device, handling, check, drops, faults, rest>>

MarkFailed(r) ==
  /\ At(r, "markFailed")
  /\ UpdateStatus("disconnected")
  /\ Return(r) /\ lock' = NoOne
  /\ UNCHANGED <<mapping, links, connections, device, handling, check, drops, rest>>

(* Closing the registered connection and forgetting it, in one critical    *)
(* section.                                                                *)
Disconnected ==
  IF connections = NoConn THEN socket ELSE [socket EXCEPT ![connections] = "closed"]

StopInstance(r) ==
  /\ At(r, "stop") /\ lock = NoOne
  /\ socket' = Disconnected
  /\ connections' = NoConn
  /\ Then(r, CASE call[r].asks = "disconnect" -> "statusDisconnected"
               [] call[r].asks = "restart"    -> "lock"
               [] call[r].asks = "delete"     -> "deleteRow")
  /\ UNCHANGED <<rows, stored, lock, device, handling, check, drops, faults, rest>>

StatusDisconnected(r) ==
  /\ At(r, "statusDisconnected")
  /\ UpdateStatus("disconnected")
  /\ Return(r)
  /\ UNCHANGED <<mapping, links, connections, lock, device, handling, check, drops, rest>>

(* InstanceRepo.Delete, or GroupRepo.Delete: device_mapping and instances  *)
(* follow by ON DELETE CASCADE.                                            *)
DeleteRow(r) ==
  /\ At(r, "deleteRow") \/ At(r, "deleteGroup")
  /\ \/ NoFault /\ status' = "gone" /\ mapping' = NoConn
     \/ Fault /\ UNCHANGED rows
  /\ Return(r)
  /\ UNCHANGED <<links, connections, lock, device, handling, check, drops, rest>>

RequestStep(r) ==
  \/ Lock(r) \/ FindByID(r) \/ GetOrCreateDevice(r) \/ MarkConnecting(r)
  \/ Connect(r) \/ MarkFailed(r) \/ StopInstance(r) \/ StatusDisconnected(r)
  \/ DeleteRow(r)
-----------------------------------------------------------------------------
(* whatsmeow, as far as the gateway sees it.                               *)

Dispatch(c, name) ==
  handling' = handling \cup {[conn |-> c, name |-> name, at |-> "status", seen |-> NoConn]}

(* The server accepts the session; another websocket of the same device is *)
(* replaced, without an event the gateway handles.                         *)
Authenticate(c) ==
  /\ socket[c] = "open" /\ Paired(c)
  /\ socket' = [d \in Conns |->
       IF d = c THEN "online"
       ELSE IF socket[d] = "online" /\ device[d] = device[c] THEN "closed" ELSE socket[d]]
  /\ Dispatch(c, "Connected")
  /\ UNCHANGED <<rows, stored, calls, check, drops, faults, rest>>

(* The QR code or the pairing code is used: the session is stored and the  *)
(* websocket is opened anew.  A device that another connection was given   *)
(* later had been paired, and a client shows no code twice.                *)
PairDevice(c) ==
  /\ socket[c] = "open" /\ ~Paired(c) /\ device[c] = c
  /\ \A d \in Conns : device[d] = c => d = c
  /\ stored' = stored \cup {c}
  /\ socket' = [socket EXCEPT ![c] = "dropped"]
  /\ UNCHANGED <<rows, calls, handling, check, drops, faults, rest>>

(* No code was used in time: the client disconnects, without an event.     *)
CodeExpires(c) ==
  /\ socket[c] = "open" /\ ~Paired(c)
  /\ socket' = [socket EXCEPT ![c] = "closed"]
  /\ UNCHANGED <<rows, stored, calls, handling, check, drops, faults, rest>>

(* The network fails; a paired client reconnects by itself.                *)
DropConnection(c) ==
  /\ IsConnected(c) /\ drops < MaxDrops
  /\ drops' = drops + 1
  /\ socket' = [socket EXCEPT ![c] = IF Paired(c) THEN "dropped" ELSE "closed"]
  /\ Dispatch(c, "Disconnected")
  /\ UNCHANGED <<rows, stored, calls, check, faults, rest>>

Reconnect(c) ==
  /\ socket[c] = "dropped" /\ Paired(c)
  /\ socket' = [socket EXCEPT ![c] = "open"]
  /\ UNCHANGED <<rows, stored, calls, handling, check, drops, faults, rest>>

(* WhatsApp revokes the session.                                           *)
LogOut(c) ==
  /\ IsConnected(c) /\ Paired(c) /\ drops < MaxDrops
  /\ drops' = drops + 1
  /\ stored' = stored \ {device[c]}
  /\ socket' = [socket EXCEPT ![c] = "closed"]
  /\ Dispatch(c, "LoggedOut")
  /\ UNCHANGED <<rows, calls, check, faults, rest>>

Environment(c) ==
  \/ Authenticate(c) \/ PairDevice(c) \/ CodeExpires(c)
  \/ DropConnection(c) \/ Reconnect(c) \/ LogOut(c)
-----------------------------------------------------------------------------
(* Manager.handleEvent, in a goroutine of its own for every event.         *)

Replace(h, g) == handling' = (handling \ {h}) \cup {g}
Done(h) == handling' = handling \ {h}

(* Mutant: the words of Connection.Status, which the column does not know. *)
StatusOf_ConnectionWords ==
  [Connected |-> "connected", Disconnected |-> "disconnected", LoggedOut |-> "banned"]
StatusOf == [Connected |-> "available", Disconnected |-> "disconnected",
             LoggedOut |-> "banned"]

HandleStatus(h) ==
  /\ h.at = "status"
  /\ UpdateStatus(StatusOf[h.name])
  /\ IF h.name = "Connected" THEN Replace(h, [h EXCEPT !.at = "lookup"]) ELSE Done(h)
  /\ UNCHANGED <<mapping, links, calls, check, drops, rest>>

(* The map is asked by instance id: the entry may be another connection.   *)
HandleLookup(h) ==
  /\ h.at = "lookup" /\ lock = NoOne
  /\ IF connections = NoConn THEN Done(h)
     ELSE Replace(h, [h EXCEPT !.at = "mapping", !.seen = connections])
  /\ UNCHANGED <<rows, links, calls, check, drops, faults, rest>>

(* Upsert; the foreign key refuses the mapping of a deleted instance.      *)
(* Mutant: a mapping that is there is kept.                                *)
Maps_Once(h) == Paired(h.seen) /\ status # "gone" /\ mapping = NoConn
Maps(h) == Paired(h.seen) /\ status # "gone"

HandleMapping(h) ==
  /\ h.at = "mapping"
  /\ \/ Maps(h) /\ NoFault /\ mapping' = device[h.seen] /\ late' = (h.seen # connections)
     \/ ~Maps(h) /\ NoFault /\ UNCHANGED <<mapping, late>>
     \/ Fault /\ UNCHANGED <<mapping, late>>
  /\ Done(h)
  /\ UNCHANGED <<status, links, calls, check, drops, stopping, crashes>>

HandleEvent(h) == HandleStatus(h) \/ HandleLookup(h) \/ HandleMapping(h)
-----------------------------------------------------------------------------
(* The health monitor.                                                     *)

(* checkAll copies the map before it checks the instances in it.           *)
CheckAll ==
  /\ check.at = "idle" /\ ~stopping /\ lock = NoOne /\ connections # NoConn
  /\ check' = [check EXCEPT !.at = "read", !.conn = connections]
  /\ UNCHANGED <<rows, links, calls, handling, drops, faults, rest>>

(* Mutant: an instance that is connecting is skipped as well.              *)
Skipped_Connecting == {"gone", "banned", "disconnected", "connecting"}
Skipped == {"gone", "banned", "disconnected"}

CheckRow ==
  /\ check.at = "read"
  /\ \/ status \notin Skipped /\ NoFault
        /\ check' = [check EXCEPT !.at = "ask", !.read = status]
     \/ status \in Skipped /\ NoFault /\ check' = NoCheck
     \/ Fault /\ check' = NoCheck
  /\ UNCHANGED <<rows, links, calls, handling, drops, rest>>

(* What the check finds.  Mutant: a missing negation.                      *)
Lost_Negated == IsConnected(check.conn)
Lost == ~IsConnected(check.conn)

Verdicts ==
  IF Lost THEN {"suspect"}
  ELSE {CASE v = "critical" -> "suspect"
          [] v = "exhausted" /\ check.read = "available" -> "resting"
          [] OTHER -> "idle" : v \in Vitals}

CheckConnection ==
  /\ check.at = "ask"
  /\ \E verdict \in Verdicts :
       check' = IF verdict = "idle" THEN NoCheck ELSE [check EXCEPT !.at = verdict]
  /\ UNCHANGED <<rows, links, calls, handling, drops, faults, rest>>

WriteVerdict ==
  /\ check.at \in {"suspect", "resting"}
  /\ UpdateStatus(check.at)
  /\ check' = NoCheck
  /\ UNCHANGED <<mapping, links, calls, handling, drops, rest>>

HealthStep == CheckAll \/ CheckRow \/ CheckConnection \/ WriteVerdict
-----------------------------------------------------------------------------
(* A shutdown: the health monitor ends, a check it was in included, and    *)
(* DisconnectAll closes the connection; requests go on until the end.      *)
DisconnectAll ==
  /\ ~stopping /\ crashes < MaxCrashes /\ lock = NoOne
  /\ stopping' = TRUE
  /\ check' = NoCheck
  /\ socket' = Disconnected
  /\ connections' = NoConn
  /\ UNCHANGED <<rows, stored, lock, device, call, handling, late, drops, faults, crashes>>

(* The process ends, after a shutdown or at any other moment, and a new    *)
(* one starts: only the database is left, and RestoreAll is never called.  *)
ProcessEnds ==
  /\ crashes < MaxCrashes
  /\ crashes' = crashes + 1
  /\ stopping' = FALSE
  /\ socket' = [c \in Conns |-> IF socket[c] = "unborn" THEN "unborn" ELSE "closed"]
  /\ connections' = NoConn
  /\ lock' = NoOne
  /\ call' = [r \in Requests |-> NoCall]
  /\ handling' = {}
  /\ check' = NoCheck
  /\ UNCHANGED <<rows, stored, device, late, drops, faults>>

Next ==
  \/ \E r \in Requests : RequestStep(r) \/ \E kind \in Kinds : Accept(r, kind)
  \/ \E c \in Conns : Environment(c)
  \/ \E h \in handling : HandleEvent(h)
  \/ HealthStep
  \/ DisconnectAll
  \/ ProcessEnds

Spec == Init /\ [][Next]_vars

(* Requests, handlers and the ticking monitor are goroutines whose calls   *)
(* return; WhatsApp answers a login, and a code that is not used expires.  *)
FairSpec ==
  /\ Spec
  /\ \A r \in Requests : WF_vars(RequestStep(r))
  /\ WF_vars(\E h \in handling : HandleEvent(h))
  /\ WF_vars(HealthStep)
  /\ \A c \in Conns : WF_vars(Authenticate(c) \/ CodeExpires(c))
-----------------------------------------------------------------------------
Quiet ==
  /\ \A r \in Requests : At(r, "idle")
  /\ handling = {} /\ check.at = "idle" /\ ~stopping

(***************************************************************************)
(* Whatever requests overlap and whatever statements fail, as long as no   *)
(* websocket is lost and nobody asks for a pairing code: a websocket that  *)
(* is up is the registered one, unless its own phone was paired.  The test *)
(* and the replacement are one critical section, and a stop closes what it *)
(* removes; but a websocket that is opened anew after its pairing is found *)
(* not connected by that test, and comes up again beside the one that      *)
(* replaced it.                                                            *)
(***************************************************************************)
UpIsRegistered ==
  \A c \in Conns : IsConnected(c) => connections = c \/ (device[c] = c /\ Paired(c))

(***************************************************************************)
(* Once its events have been handled, an instance that is online with a    *)
(* session in the store is mapped to the device of that session, so that a *)
(* connect after a restart finds it, however sessions were revoked, paired *)
(* and replaced; or to another device, if a handler wrote the mapping when *)
(* the connection it had seen was no longer the registered one (`late').   *)
(***************************************************************************)
OnlineIsMapped ==
  Quiet /\ status # "gone" =>
    \A c \in Conns : connections = c /\ socket[c] = "online" /\ Paired(c)
                      => mapping = device[c] \/ (late /\ mapping # NoConn)

(***************************************************************************)
(* The same without the exception: fails when a handler runs late.         *)
(***************************************************************************)
MappedToItsOwn ==
  Quiet /\ status # "gone" =>
    \A c \in Conns : connections = c /\ socket[c] = "online" /\ Paired(c)
                      => mapping = device[c]

(***************************************************************************)
(* A deleted instance leaves no connection behind.                         *)
(***************************************************************************)
DeletedIsClosed == Quiet /\ status = "gone" => \A c \in Conns : ~IsConnected(c)

(* One websocket per instance.                                             *)
SingleSocket == Cardinality({c \in Conns : IsConnected(c)}) <= 1

(***************************************************************************)
(* The health monitor leaves instances alone that are banned or have been  *)
(* disconnected on purpose.                                                *)
(***************************************************************************)
HealthSkipsSettled ==
  [][check.at \in {"suspect", "resting"} /\ status \in {"banned", "disconnected"}
       /\ check' = NoCheck => status' = status]_vars

(***************************************************************************)
(* Every request is answered: none of them keeps the manager's lock.       *)
(***************************************************************************)
RequestsAnswer == \A r \in Requests : ~At(r, "idle") ~> At(r, "idle")

(***************************************************************************)
(* A registered connection that is lost does not stay 'available', even    *)
(* when its events are handled in the wrong order or when it was closed    *)
(* without any: the health monitor notices.                                *)
(***************************************************************************)
LossIsNoticed ==
  LET lost == status = "available" /\ connections # NoConn /\ ~IsConnected(connections)
  IN lost ~> ~lost

(***************************************************************************)
(* No instance is 'connecting' for ever: it is connected, it fails, or its *)
(* code expires and the health monitor notices.                            *)
(***************************************************************************)
ConnectingEnds == status = "connecting" ~> status # "connecting"

(***************************************************************************)
(* An instance without a connection does not stay 'available'.             *)
(***************************************************************************)
AvailableIsReal ==
  status = "available" /\ connections = NoConn
    ~> ~(status = "available" /\ connections = NoConn)
=============================================================================
