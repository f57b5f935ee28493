# TLA+ models of wppgateway

wppgateway is a Go service that drives many WhatsApp connections ("instances")
for several tenants: it pairs and reconnects instances, chooses one of a group
for each message, works off broadcasts, reports events by webhook, and serves
a browser console.  This directory holds TLA+ models of its stateful parts, the
TLC configurations that check them on small instances, and TLAPS proofs of the
results that matter most.  Paths below are relative to the repository (`src/`).

Every model is translated from the code.  In the gateway a SQL statement, a
critical section and a call into a library are one step each; whatever the Go
code leaves unlocked between two of them may be interleaved with everything
else.  In the console a step is what the browser runs without returning to its
event loop: the code up to an `await`, a timer's callback, an event's handler.

## 1. Inventory

| Component | State | Operations | Interacts with |
|---|---|---|---|
| Broadcast dispatcher, `internal/orchestrator/dispatcher.go` | `activeJobs` (broadcast -> cancel function), per worker: chunk, counters; rows `broadcasts`, `broadcast_recipients` | Start, Pause, Resume, Cancel, the worker loop `processBroadcast` | group orchestrator (choice), instance manager (send), database |
| Broadcast API, `internal/api/handler/broadcast.go` | none of its own | Create, Pause, Resume, Cancel, reads | dispatcher, database |
| Group orchestrator, `internal/orchestrator/group.go` | `strategies` cache, `paused` flags | SelectInstance, HandleInstanceFailure, PauseGroup, ResumeGroup | strategies, instance manager, group and instance rows |
| Selection strategies, `strategy_*.go` | none | SelectInstance, OnInstanceFailed | - |
| Instance manager and connections, `internal/instance/manager.go`, `connection.go` | `connections` map under one RWMutex, a whatsmeow client per connection, `device_mapping` rows | StartInstance, PairPhone, StopInstance, RestartInstance, DisconnectAll, event handlers | whatsmeow, instance rows, webhook emitter |
| Health monitor, `internal/instance/health.go` | ticker | checkAll, checkInstance | manager's map, instance rows, group orchestrator |
| Instance API, `internal/api/handler/instance.go` | none | Create, GetQRCode, PairPhone, Connect, Disconnect, Restart, Delete | manager, instance rows |
| Group and tenant API, `handler/group.go`, `tenant.go` | rows | CRUD, Pause, Resume | orchestrator, rows |
| Webhook emitter, `internal/webhook/emitter.go`, `handler/webhook.go` | channel of 1000 events, one delivery goroutine | Emit, deliver (retries with backoff) | receivers' HTTP servers |
| Single messages, `handler/message.go` | `message_logs` rows | Send, reads | group orchestrator, manager |
| Tenant limits, `handler/group.go`, `handler/instance.go` | rows counted before one is inserted | Create, Delete | - |
| Log ring buffer, `pkg/logger/buffer.go` | ring, cursor, count | Write, Entries | request logger, logs endpoint |
| Console: session and API client, `web/static/js/app.js`, `api.js` | key in the browser's storage, auth store, route, dialogue, requests in flight | login, init, logout, navigate, confirm, request | the gateway's routes, other tabs |
| Console: shell, `app.js`, `i18n.js`, `utils.js` | toasts, language, theme, clipboard flag | show, dismiss, set, toggle, copy, format | the browser's storage |
| Console: pages, `web/static/index.html` | the list of broadcasts and its refresh interval; an instance, its QR dialogue and its polling interval | loads, buttons, timers | API client |
| Anti-ban, `internal/antiban` | connection history of the monitor | flap detection, operating hours, warm-up, spintax, delays | (the monitor has no caller) |
| Redis budgets and cache, `internal/store/redis` | counters | increments | (no caller) |
| Blacklist and audit | rows | insert, list | - |
| Server, `cmd/server/main.go` | process context | start, graceful shutdown | all |
| Middleware and routes, `internal/api` | none | logging, key lookup, rate limit | log ring |
| Utilities, documents, deployment | none | - | - |

What is hard, and what makes each component correct:

- **Dispatcher.** Workers, requests and crashes interleave around rows and a
  map; contexts are cancelled while statements and sends are under way; a
  statement may fail.  Correct means: no recipient is written to twice without
  a reason, a stopped broadcast stops, 'completed' means done, the counters
  add up, a started worker gets through.
- **Group orchestrator and strategies.** A selection reads cache, row, list
  and connections at four different times.  Correct means: what it picks is a
  best usable instance of its group under the group's strategy.
- **Instances.** Requests overlap; events of whatsmeow are handled in
  goroutines of their own, possibly late and after their connection has been
  replaced; the health monitor reads and writes in separate steps; a lock is
  held across network calls.  Correct means: the map knows the websockets
  that are up, every request is answered, the status follows the connection,
  an online instance is mapped to the device of its session, which a connect
  after a restart needs.
- **Webhooks.** A bounded channel that never blocks its writers, a receiver
  that may have heard what it answers with an error.  Correct means: a lossy
  FIFO with bounded retries, and a queue that moves.
- **Messages, limits, log ring.** A row is written before the message and
  amended after it, and either statement may fail; a send may end with an error
  after the message was handed over; limits are counted and
  compared in one statement and used in another; indices wrap.  Correct means:
  the log does not claim what did not happen, a success is a message that was
  acknowledged, a limit is passed only by requests that overlap and by no more than
  there are of them, the endpoint gives the newest entries.
- **Console.** One thread, but every `await` lets clicks, timers, answers of
  older requests, reloads and other tabs in between.  Correct means: the
  stores agree with the browser's storage, a confirmed deletion is asked for
  once, every call has a route, every toast goes, no interval is doubled or
  lost, a list catches up, a dialogue that has done its work closes.

The list of hazards, each at its line and with the properties that cover it,
is in `PROJECT.json`.

## 2. Modules

| Module | Models |
|---|---|
| `RecipientLedger` | abstract: what a broadcast promises about rows and messages |
| `Broadcast` | dispatcher, broadcast API, rows, crashes; implements `RecipientLedger` |
| `BroadcastProofs` | TLAPS proofs about `Broadcast` |
| `MCBroadcast` | TLC instances of `Broadcast` |
| `InstanceLifecycle` | manager, connections, event handlers, health monitor, requests, for one instance |
| `InstanceProofs` | TLAPS proofs about `InstanceLifecycle` |
| `MCInstanceLifecycle` | TLC instances of it |
| `Strategy` | the scans of the three strategies |
| `GroupOrchestrator` | selections, failovers, cache and pause of one group, over `Strategy` |
| `GroupProofs` | TLAPS proofs about `Strategy` and `GroupOrchestrator` |
| `MCGroupOrchestrator` | TLC instances of it |
| `LoopProofs` | TLAPS lemmas about loops, which `GroupProofs` and `TenantProofs` rest on |
| `LossyFifo` | abstract: what the webhook emitter promises |
| `WebhookEmitter` | emitWebhook, Emit, the delivery goroutine; implements `LossyFifo` |
| `WebhookProofs` | TLAPS proofs about `WebhookEmitter` |
| `LogTail` | abstract: the last entries of a log |
| `LogRing` | the ring buffer's state and its two operations |
| `TenantRequests` | creations, deletions and single messages of concurrent clients, with the request logger, over `LogRing`; implements `LogTail` |
| `TenantProofs` | TLAPS proofs about `TenantRequests` and `LogRing` |
| `MCTenantRequests` | TLC instances of it |
| `ConsoleApi` | the console's calls and the gateway's routes, as sets |
| `Session` | one tab: key, auth store, router, dialogue, requests, over `ConsoleApi` |
| `SessionProofs` | TLAPS proofs about `Session` |
| `ConsoleShell` | toasts, language, theme, clipboard |
| `BroadcastsPage` | the console's broadcasts page, its loads, its interval, its buttons |
| `InstancePage` | the console's page of an instance, its QR dialogue and polling |
| `Figures` | the console's counts and telephone numbers |
| `MCConsole` | TLC instances of the last four models, as one |
| `ConsoleProofs` | TLAPS proofs about the four and their sum |

The order in which they were written follows what is at stake: messages sent
twice or never, then connections, then the choice of an instance, then
notifications, limits and logs, and last what an operator sees of all this.
The models meet in narrow places: `Broadcast` sees a selection only as "an
instance" or "none" and a send as "sent", "failed" or "cut off";
`GroupOrchestrator` sees an instance only as its columns, its status and
whether it is connected, which may change at any time; `WebhookEmitter` sees
the events that `InstanceLifecycle` handles as occurrences; `TenantRequests`
sees a selection and a send as outcomes; the console's pages see the gateway
as rows that change between their calls.

### Broadcast

`status`, `row`, `progress` are columns.  `activeJobs` is the dispatcher's map
for this broadcast, `cancelled` the set of workers whose context is done,
`pc`, `todo`, `cur`, `tally` each worker's place and locals, `call` each API
request's place, `groupPaused` the orchestrator's flag.  `sentBy`, `lost` and
`late` are observations no code reads.  `WorkerStep` has one disjunct per
statement of `processBroadcast`; requests are sequences of their statements
(`pauseDelete`, the delete without the lock, is a step of its own, and
`MapRace` is the runtime's abort on a concurrent map access, allowed whenever
the two accesses may overlap).  `Crash` loses the memory and keeps the rows.

Modelling decisions: a request may come as soon as the broadcast's row exists,
since its id is listed from then on; the ownership lookups before each request
change nothing and are left out; `ResumeStatus` includes the read of the row
whose result is only used as the worker's argument; texts, spintax and delays
are left out; a delay is the time a worker rests between two steps.

### InstanceLifecycle

`status` and `mapping` are rows; `stored` is whatsmeow's device store;
`connections` the manager's map entry; `lock` the writer of its mutex;
`socket` and `device` belong to the Connection objects, several of which may
exist for one instance; `call` are requests, `handling` the events whose
handler goroutines have not ended, `check` the health monitor's check.  `late`
is an observation no code reads: the mapping was written by a handler for a
connection that was no longer the registered one.
`Authenticate`, `PairDevice`, `CodeExpires`, `DropConnection`, `Reconnect` and
`LogOut` are whatsmeow's side, modelled from how the code uses it and from the
events it handles.

Modelling decisions: the two reads of `getOrCreateDevice` are one step, in
which a mapping that cannot be read fails the request and a device that cannot
be read gives a paired instance a new, unpaired one, as the code falls through
to `NewDevice`; a client shows no code once its device has been paired; the
read of `Store.ID` is one step with the `Upsert` it feeds; `RestoreAll` has no
caller and is not an action; the columns the monitor reads as vital signs have
no writer in the code and are chosen freely per check; webhooks and the
`Status` field of a Connection are left out since nothing here reads them.

### Strategy and GroupOrchestrator

The scans are recursive functions of the rounds the code's loop has done over a
sequence of rows; they return an index, 0 for the error.  A selection walks
through `lookup` (cache), `row`, `store`, `query`, `filter` (connections),
`choose`, `picked`; a failover of the health monitor takes the same way without
pause flag and filter.  The query returns any order its ORDER BY allows:
`priority DESC` for the available rows, `priority DESC, created_at` for a
failover.  `sent` counts what callers send.

Modelling decisions: the filter's reads of the map are one step; the failover
strategy's own loop in `OnInstanceFailed` computes what its `SelectInstance`
does on the same rows, so one scan stands for both; what the budgets have left
changes only with a PATCH of the instance (`UpdateInstance`), because nothing in
the gateway writes `messages_today` or `messages_hour`.

### WebhookEmitter

`fate` says how far each event has come (`map` and `group` are the two lookups
of `emitWebhook`, which can end it), `events` is the channel, `deliver` the
goroutine.  `accepted` and `posted` are histories: what entered the channel,
and the events of the requests posted.  The model speaks about requests posted,
not about what a receiver makes of them: after a timeout a receiver may read a
request later than the next one, and no code of the gateway can tell.
Test requests (`Tests`) skip the first lookup.  Two ready cases of `select`
are a free choice (`Return`, `TakeEvent`).

### TenantRequests, LogRing, LogTail

`groups`, `groupOf` and `row` are rows, `call` is the request each client
waits for with the place its handler has reached, `ring` is the log buffer.
A step of `TenantRequests` is one statement of a handler; `StatementFails`
takes the error path of whichever statement is next, `SendMessage` is the call
into the connection, which ends in an acknowledgement, in an error before the
message is handed over, or in one after it (no answer in time, the connection
lost), `Crash` empties the ring and forgets the requests.
Each request that ends is one entry of the ring.  The ids of message rows are
used again once a request is over, which keeps the model finite without
bounding how many messages are sent.

`LogRing` has the buffer as a record and `Write` and `Entries` as operators,
each a critical section in the code (the loop of `Entries` is a recursive
function of its rounds); `LogTail` says the same with a plain
sequence.  The size is 2 in the run and 500 in the code; the proof is for any.

### ConsoleApi and Session

`ConsoleApi` writes the methods and paths of `api.js` and of `router.go` down
as two sets.  `Session` has one tab: `saved` is the browser's storage, `tab`
the auth store, the page routed to, the dialogue and the requests in flight.
A request is represented by the key in its header, and of the pages' ordinary
calls one is in flight at a time: what a page does with an answer is the other
modules' subject, and what any answer does to the session is the same.
`foreign` and `overtaken` are observations about the last write of the key: it
was another tab's, or this tab's while another key's validation was unanswered
(no key being another one, too).  No acceptance sets them.  The
pages are "login", "list" (those that load when there is a session) and
"detail" (those that load whenever they are routed to).  Other tabs write and
remove the key at any time, and the tab may be reloaded.

### ConsoleShell, BroadcastsPage, InstancePage, Figures

`ConsoleShell`: a toast's id is the millisecond it was shown in, so toasts
that are shown together share one; two to a millisecond are enough for the
first timer of one to meet the other.  Timers fire at any moment after they
were set.

`BroadcastsPage`: a load goes from `asked` to `answered` or `failed` and ends
when the page takes it, whatever was selected meanwhile; `intervals` counts the
intervals that run and `timer` is what the page remembers of them.  A group has
at most one broadcast.

`InstancePage`: calls in flight have a place each, `polling` and `intervals`
are kept apart as above, and the answers are those of the handlers
in `handler/instance.go` for the state of the row and the connection at that
time.  The console hides pages and does not destroy them, so what this one
holds outlives a visit to another page.

`Figures`: rounding of half a tenth may go either way, since the quotient is a
double.  A telephone number is taken by the positions of its digits.

`MCConsole` checks the four as a sum: they share no variable, so an invariant
of one holds in every interleaving if it holds in its own part.

## 3. Runs

All constants below are bounds of the model, not of the code, except where the
code's value is given.

| Run | Shows | Instance, and why it is enough |
|---|---|---|
| `broadcast_control` | 'completed' means every row is settled; the counters stay within the total; rows and messages follow `RecipientLedger` | two workers, one client in any order of requests, two recipients in chunks of one, so that a broadcast is paused and resumed with work on both sides |
| `broadcast_faults` | types; a worker repeats a recipient only for a lost row update; at most one message after a cancel | any one statement fails, a crash, the map race, two workers |
| `broadcast_first_run` | until a resume, pause and cancel stop the broadcast and the counters add up; a cancelled worker ends; a started one works off every recipient | one worker; three recipients in chunks of two, progress every two, so that a chunk is full, partly filled and empty, and the final progress differs from the last periodic one |
| `instance_requests` | types; every websocket that is up is the registered one, or its own phone was paired; every request is answered and releases the lock | two overlapping requests of three kinds (connect, restart, delete), two connections so that one replaces another, one failing statement, the read of the device among them, one shutdown or crash |
| `instance_mapping` | an online instance is mapped to its session's device once its events are handled, or a handler wrote late | all six kinds of requests, paired or not, one loss or logout, one end of the process, all vital signs |
| `instance_live` | a lost connection does not stay 'available'; 'connecting' ends | one client, two connections, one loss, unpaired at the start |
| `group_selection` | selections pick a best available and connected instance, failovers a best other one; types | three instances over sixteen mixes of priorities and budgets with ties, spent daily and spent hourly budgets; any subset available or connected, one change of an instance (status, connection, or its priority and budgets by a PATCH) during a selection, one update, failing reads |
| `webhook` | no event vanishes; the emitter implements `LossyFifo`; nothing answered is posted again; the queue moves | four events, one a test, a channel of two (1000 in the code) so that it fills, two attempts (5 by default), shutdown and crash |
| `tenant_requests` | limits are passed by overlapping requests only and by fewer rows than clients; a message's row tells how the send ended; 200 means, and is answered whenever, the message was acknowledged; the logs endpoint gives the newest entries; the ring implements `LogTail` | two clients, limits of one, one id more than the limits let overlapping requests use, one failing statement or crash, a ring of two so that it wraps |
| `session` | a stored key has its session, and a session its key but for late acceptances; a confirmed deletion is requested once; every call has a route; a logout in another tab reaches a session that refreshes itself | two keys of which one is a tenant's, one answer that is neither success nor 401 |
| `console` | types; every toast has a timer that takes it on; one interval at most on each page; the list catches up; the QR dialogue closes after a pairing; figures stand for their numbers | two milliseconds of toasts; one group with two overlapping loads and one failing call; one instance with two calls in flight, any of which the gateway may refuse; counts on both sides of every border, numbers of two to fifteen digits |
| `broadcast_pause_leak` | violated: StoppedMeansStopped after pause, resume, pause | two workers |

The bounds on faults, crashes, drops, updates and changes are one because the
properties speak about a single such event between steps; what more of them do
to the invariants of `Broadcast` is covered by the proofs, which have no
bounds.  Symmetry of workers, requests, recipients, connections, clients and rows
is used in runs without liveness properties only.  The runs of
`InstanceLifecycle`, `WebhookEmitter` and `Session` do not check for deadlock:
a deleted instance, spent connections, an ended process and a login page that
nobody fills in really stop.  The others do.

Which constants say which hazards are present matters for reading the results:

- `UpIsRegistered` holds when no websocket is lost and no pairing code is
  requested, with one exception it names.  A QR code may be shown for a new
  device, also of a paired instance whose device could not be read.  When it is
  scanned whatsmeow opens the websocket anew; a connect that comes meanwhile
  finds it not connected and replaces its entry without disconnecting it, and
  it comes up again outside the map.  A connection that is lost, replaced and
  reconnects by itself does the same, and so does a second pairing code
  (`MCInstanceTwoSockets`, section 4): the run has neither.
- `OnlineIsMapped` says that the mapping is the session's device, with one
  exception: the handler looks its connection up in the map and writes its
  device afterwards, and if that connection has been replaced in between, the
  mapping is to its device, until another connection logs in.
  `MappedToItsOwn`, without the exception, fails (`MCInstanceGhost`, section 4).
- `RowTellsOutcome` and `OkMeansAcknowledged` speak of what the gateway was
  told.  A message whose row says 'failed' may be out, and its client may send it
  again: `FailedMeansNotOut` fails (`MCTenantDeviations`, section 4).
- `CompletedMeansDrained` needs `GetPendingRecipients` to succeed, and
  `ProgressAddsUp` and `StoppedMeansStopped` need that the broadcast is not
  resumed; see the next section.
- `ConnectingEnds` needs the process to stay up and statements to succeed.
- With two group ids and a limit of one the part of `OvershootBounded` about
  groups cannot fail in `tenant_requests`; the one about instances can, and the
  proof covers both for all limits.
- `SignedInIffKeyStored` says nothing while a validation is unanswered, nor once
  another tab has written the key after this one.  Otherwise a stored key means a
  signed-in tab, without exception.  That a signed-in tab is that of the stored
  key has one: this tab wrote or removed the key while another key's validation
  was unanswered, and that validation's late acceptance signs it in although its
  key is no longer stored.  A logout during the second of the two validations of
  a load does this, and so does an error in answer to the first.
  `LateAcceptanceAgrees`, without the exception, fails (`MCSessionDeviations`,
  section 4).
- `QRDialogCloses` speaks of a dialogue whose interval runs, while the instance
  it is about stays loaded and available; no call is lost on the way (calls that
  the gateway refuses are there).

Every property of a passing run comes with a mutant of the model, an operator
written the way a plausible bug in the code would be (`..._KeepFailed`,
`..._KeepsLock` and so on, next to the operator it replaces); with it in
place TLC finds the property violated under the same configuration.

## 4. Where code and documents disagree

The violation run is recorded as a finding in `PROJECT.json`, with the text it
contradicts.  Modelling met more such places; their configurations are kept
here and can be run by hand (`tlc -config <file> <module>`); each ends with the
named property violated.  Where several are named, `tlc -continue` goes on
after the first.  The module is the MC module of the same name unless it is
given.

| Configuration | Property | What the code does |
|---|---|---|
| `MCBroadcastQueryFault` | CompletedMeansDrained | one failed `GetPendingRecipients` leaves the loop like an empty chunk; the broadcast is completed with pending rows (`dispatcher.go:141`) |
| `MCBroadcastResumedCounts` | ProgressAddsUp | the worker of a resume counts from zero and overwrites the columns (`dispatcher.go:127`) |
| `MCBroadcastGroupPause` | GroupPauseHoldsRecipients | a paused group is an error like any other: recipients are failed instead of held (`dispatcher.go:163`; `group.go:176` says pauses) |
| `MCBroadcastResumeAny` | CancelledIsFinal | resume never looks at the status it has read (`dispatcher.go:75`) |
| `MCInstanceStaleHealth` | HealthSkipsSettled | the monitor writes 'suspect' over a 'disconnected' written since its read (`health.go:126`) |
| `MCInstanceGroupDelete` | DeletedIsClosed | deleting a group leaves its instances' websockets up (`handler/group.go:142`) |
| `MCInstanceGhost` | AvailableIsReal, MappedToItsOwn | a late Connected event writes 'available' after a disconnect (`manager.go:250`); a handler that has looked up a connection maps its device although it has been replaced (`manager.go:265`) |
| `MCInstanceTwoSockets` | SingleSocket | a second request for a pairing code registers a new connection and leaves the old websocket up (`manager.go:122`; `Docs/whatsapp-api-architecture.md:556` says one per instance) |
| `MCGroupStaleCache` | CacheFollowsRow | no update of a group invalidates the cached strategy (`handler/group.go:113`; the comment at `orchestrator/group.go:225` says it is called when it changes) |
| `MCGroupBudget` | BudgetRespected | budgets are compared with counters nothing increments (`strategy_rotation.go:31`) |
| `MCGroupTies` | OneActiveInstance | instances tied at the default priority come in any order, so failover has no single active one (`store/postgres/instance.go:71`) |
| `MCTenantDeviations` | LimitsHold, QueuedIsUnderWay, FailedMeansNotOut | overlapping creations pass a limit (`handler/instance.go:66`, `group.go`); an error after the insert leaves a row 'queued' for good (`message.go:97`); an error after the hand-over is recorded and answered like any other (`message.go:101`, `connection.go:137`) |
| `MCSessionDeviations` (`Session`) | SignedOutSeesLogin, LateAcceptanceAgrees, OnlyItsOwnAnswerEndsASession | a page routed to while the session ends stays on the screen; a validation that is accepted after its key has been removed signs the tab in (`app.js:60`); a 401 to an old key's request removes the new key (`api.js:32`) |
| `MCBroadcastsPageDeviations` (`BroadcastsPage`) | ActiveIsWatched, ListIsSelected | an answer that comes late replaces the list of the group selected since, and stops or starts the refresh for it (`index.html:1302`) |
| `MCInstancePageDeviations` (`InstancePage`) | CodeIsOfRouted, PollsForDialog, WaitingGetsCode, DeletesWhatWasAsked | answers, the interval and the dialogue are not tied to the instance they are about, and a connect makes the next request for a code fail (`index.html:1194`, `1221`) |
| `MCConsoleShellDeviations` (`ConsoleShell`) | LabelsFollowLanguage | labels rendered before a change of language keep the old one (`i18n.js`) |
| `MCFiguresDeviations` (`Figures`) | ThousandsEnd | 999950 is shown as 1000.0K (`utils.js:95`) |

Beside these, calls and handlers disagree about the shape of what they
exchange, which no model here is about: the console creates a broadcast with
`content.text` and the dispatcher reads `content.body` (`index.html:1342`,
`dispatcher.go:123`); the dashboard reads `groups_count` and `instances_count`
and GetUsage answers `groups` and `instances` (`handler/tenant.go:90`); the
blacklist tab reads `number` and the rows have `phone` (`blacklist.go:13`); a
request that has no route is logged as 200 (`middleware/logger.go:25`).

## 5. Fairness

Liveness is stated under weak fairness of the program's own goroutines, never
of its clients.  `Broadcast`: each worker and each request that is under way
(Go schedules every goroutine; statements and sends return, with a result or
an error); not of new requests, nor of resuming a paused group.
`InstanceLifecycle`: requests under way, event handlers, the ticking health
monitor, and WhatsApp's answer to a login or the expiry of a code (whatsmeow
closes the socket when the codes have run out); not of reconnecting.
`WebhookEmitter`: the delivery goroutine; its HTTP client has a timeout, so a
request to a silent receiver ends; not of events or shutdown.

In the console fairness is the browser's: a fetch ends with an answer or an
error, and an interval keeps firing until it is cleared.  `Session`: answers
of a page's calls, the event of a changed hash, and the refresh of a page that
has one.  `BroadcastsPage`: the interval's loads, their answers, and what the
page does with them.  `InstancePage`: the same; the poll has strong fairness
because the model's places for calls may be taken when it is due, which is a
bound of the model and not of the browser.  Clicks, typing, reloads and other
tabs are never fair.

## 6. Proofs

`BroadcastProofs` proves, for any sets of workers, requests and recipients,
any chunk size and any bounds on faults and crashes, from the one assumption
`BroadcastAssumption` (markers are not members, sizes are positive, recipients are
finitely many):

- `TypeCorrect`: `Spec => []TypeOK`.
- `InductiveInvariant`: `Spec => []IInv`.
- `OncePerWorkerHolds`, `OneSendAfterCancelHolds`: the two invariants of the
  run `broadcast_faults`.
- `ImplementsLedger`: `Spec => LedgerSpec`, every step of the dispatcher is a
  step of the ledger or a stutter.
- `CompletedMeansDrainedHolds`, `ProgressWithinTotalHolds`,
  `StoppedMeansStoppedHolds`, `ProgressAddsUpHolds`: the invariants of
  `broadcast_control` and `broadcast_first_run`, under the hypotheses below.

`IInv` is `TypeOK /\ CreationInv /\ WorkInv`.  `OncePerWorker` is not
inductive: that a worker has sent a recipient's message once says nothing
about the recipient being in its chunk again.  `WorkInv` adds what the code
relies on: the recipient a worker holds is not in the rest of its chunk
(`HoldingInv`); what it has sent exceeds its lost updates only by one, and only
while it is about to record the result or after it was cut off (`AheadInv`);
so a row it finds pending is one it owes nothing for (`PendingInv`), and what
it recorded as sent it has sent (`AcknowledgedInv`); after a cancel it is past
its sending point once it has sent (`LateInv`).  `CreationInv` says that the
rows exist together, before any worker holds one, which is what the ledger's
`Accept` needs.  The proof has one lemma per part and, inside, one step per
action.

Four properties do not hold of the code in all circumstances, and their theorems
name the ones they hold in; each hypothesis is about a constant, and without it
there is a counterexample:

| Theorem | Hypotheses | Without them |
|---|---|---|
| `CompletedMeansDrainedHolds` | no statement fails (`MaxFaults = 0`), requests come one at a time (`OneAtATime`) | a failed query of pending rows completes the broadcast (`MCBroadcastQueryFault`); a resume that overlaps `Create` completes it before its rows exist (two requests, one recipient: TLC finds it in nine states) |
| `ProgressWithinTotalHolds` | no statement fails | a lost row update leaves a recipient pending who has been counted |
| `StoppedMeansStoppedHolds` | requests one at a time, one worker (`OneWorker`) | a resume overwrites the map's entry (`MCBroadcastPauseLeak`, a run) |
| `ProgressAddsUpHolds` | all of these, and no crash (`MaxCrashes = 0`) | the worker of a resume, also of one after a crash, counts from zero (`MCBroadcastResumedCounts`) |

All of them are for any recipients, chunk size and progress interval.  What
makes them inductive: `AloneInv`, no worker lives before the rows exist, and
`DrainInv`, a worker that has left the loop uncancelled leaves no pending row
behind; `TallyInv`, an uncancelled worker has counted no more recipients than
are settled outside what it still holds, each worker for itself, so that no sum
over workers is needed; `StopInv` and `StartingInv`, a live worker is the one in the map or
cancelled, it is cancelled before a status says so, and a request that will start
a worker follows no pause; `RowsInv` and `SumInv`, the worker has counted as many
as there are settled rows, and what it holds is pending.

`GroupProofs` proves, from `GroupAssumption` (a finite set of instances, any
priorities, budgets, selections and bounds), `TypeCorrect`, `PickIsBestHolds` and
`ReplacementIsBestHolds`.  Three things are needed.  What a scan returns: each of
the strategies' loops keeps the first best row of those it has passed, proved by
induction over its rounds (`LoopProofs`: the first round after which it fails
would need the one before to fail; recursive functions over the rounds exist for
the same reason).  What a query returns: a sequence that lists every
available row once, in an order its `ORDER BY` allows, so that a best row of the
sequence is a best one of the set.  And `SelInv`, the link between the two
through a selection's reads: as long as no instance has changed since the
query, the rows it holds are those of the instances it may choose, and the index
is what the scan returns for them.

`InstanceProofs` proves, from `InstanceAssumption` (for any connections and
requests and any bounds), `TypeCorrect` and three invariants of the manager.
`LockExcludes`: no two requests are between the manager's `Lock` and `Unlock`.
`UpIsRegisteredHolds`, under `Calm` (no connection is lost, no pairing code is
asked for; with them the property does not hold of the code, see section 3),
whatever statements fail: a connection that is up is the registered one, or its
phone was paired on its own device, as is one that is opened anew; and a request
that makes another has seen under the lock that there is none up but those
(`Registered`).  `OnlineIsMappedHolds`, if no statement fails: while the mapping
is not `late`, the registered connection that is online is mapped to its device,
or an event that has not been handled will map it (`OwnInv`); a late mapping is
to some device (`LateInv`).

`WebhookProofs` proves, from `EmitterAssumption` (for any events, any capacity
and any number of attempts), `TypeCorrect`, `NothingVanishesHolds`,
`AnsweredIsFinalHolds` and `FifoSpecHolds`.  The invariant `EmitterInv` says
that the channel is the tail of what was accepted and that the goroutine's
event is the one just before it (`InOrder`), that an event waits exactly if it
is one of these (`QueuedWaits`), that what has been posted is no later than the
goroutine's event, and that the event has been posted as often as its attempts
were counted (`AttemptsCounted`).

`TenantProofs` proves, from `TenantAssumption` and `RingAssumption` (for any
clients, ids, limits and a ring of any size), `TypeCorrect`,
`OvershootBoundedHolds`, `RowTellsOutcomeHolds`, `OkMeansAcknowledgedHolds`,
`LogSpecHolds` and `EntriesAreNewestHolds`.  That a limit is passed by fewer
rows than there are clients is not inductive; what is (`Limits`): once a limit
is passed, rows and clients that have passed the check and not inserted yet are
together fewer than the limit and the clients.  `Outcomes` relates the place a
request has reached to what its row may say; `LookupsKnow` says what the lookups
found.  For the ring, every step is a step of `LogTail` under the mapping of
slots to the tail, by the two cases of an index that wraps.  That the logs
endpoint gives the newest entries is true of every ring of the right type: after
each round of its loop the entries taken are the newest matching ones it has
passed, the k-th being the one with k - 1 newer ones, and no two entries have
equally many newer ones (`NewerTells`), so that it is the one `LogTail` names.

`SessionProofs` proves, from `SessionAssumption`, `TypeCorrect`,
`SignedInIffKeyStoredHolds`, `ConfirmedOnceHolds` and
`EveryCallIsServedHolds`.  The invariant `SessionInv` adds that the validations
in flight are of the stored key unless another tab wrote it or this one was
overtaken, and when a question may still be answered.  That a call has
one route rests on something stronger than a comparison of two lists
(`PathsDiffer`): of all the API's paths no two can be taken for each other, with
a parameter in the place of a word, whatever their methods; so a call that is
written like a route is answered by no other.

`ConsoleProofs` proves, from `ShellAssumption`, `PageAssumption`,
`InstancePageAssumption` and `FiguresAssumption`, `EveryToastGoesHolds` for any
number of toasts, `OneIntervalHolds` for any groups and any number of
overlapping loads, `OneQRIntervalHolds` for any instances and any number of
calls in flight, and `FiguresAreToldHolds` for any counts and any
telephone numbers.  For the QR interval the property is conjoined with the types
and with what an answer may say (`Sensible`), and one lemma for each of the page's
operators says that it keeps this.  For the figures the lemmas are about
`FormatNumber` (a rounded tenth is within half a tenth) and about joining the
pieces of a telephone number.  `TypeCorrect` is about the four together, as `MCConsole` joins them.

Only model-checked: the liveness properties (`CancelledWorkersEnd`,
`StartedWorkerDrains`, `RequestsAnswer`, `LossIsNoticed`, `ConnectingEnds`,
`QueuedSettles`, `SignOutReachesTab`, `ListCatchesUp`, `QRDialogCloses`), since
fairness is out of the prover's reach.

## 7. Not modelled

- Anti-ban monitor, Redis budgets and cache: nothing constructs them.
- Anti-ban helpers: pure functions on texts, durations and dates.  Random
  delays are only time between two steps.
- Blacklist and audit: single statements, and one loop of idempotent inserts
  that may stop halfway.
- Registration and renaming of tenants: one statement each.
- Authentication of a request and the rate limiter: a stateless key lookup and
  a library.  The answers of the former are in `Session`.
- A graceful shutdown of the dispatcher: `Broadcast` has the loss of the
  process at any moment, but not the moments of a shutdown in which instances are
  disconnected and workers still run (`cmd/server/main.go:151`); a worker's
  sends fail then, as they may at any moment of the model.
- In the console: the dictionary's texts, dates, colours and the sidebar; the
  pages that only load and show (dashboard, lists of groups and logs, the tabs
  of a group) and pairing by code.
- Encryption, validation, metrics, read-only endpoints, documents and
  deployment.
