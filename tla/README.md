# LinkFlow v2 in TLA+

This directory models the parts of LinkFlow v2 in which processes, goroutines,
messages and crashes meet, checks them with TLC on small instances, and proves
the most important of the results with TLAPS for every instance. Every
definition is translated from the Go and TypeScript sources; `PROJECT.json`
maps each one to the lines it stands for.

## 1. The system

LinkFlow v2 connects devices to a web console:

    device -> EMQX (MQTT) -> rule engine -> topic lf.v1.device.events
           -> service/device-event-processor
                -> TimescaleDB, Redis, topic lf.v1.device.state
           -> service/backend realtime consumer -> WebSocket -> web console

    web console -> REST -> service/backend -> lf.v1.device.events
           -> device-event-processor -> EMQX HTTP API -> device
           -> acknowledgement -> lf.v1.device.events -> ... -> history query

Both topics have one partition. One instance of the processor runs a pool of
workers over the events topic; one backend reads the state topic.

### Inventory

| Component | State it keeps | Operations | What is hard | What makes it correct |
|---|---|---|---|---|
| Consumer runtime, `pkg/public/messaging` | channel of deliveries, workers, error slot, context, committed offset | receive, dispatch, handle, retry with backoff, commit, give up, cancel, close; send to a topic | workers commit out of order; commits that fail half-way; crash; rejoin; a failing worker must stop everybody; a send that succeeds without an answer of a broker | an offset is committed only over messages somebody answers for; a crash loses few; shutdown ends; errors are reported |
| Connection state, processor | device row, Redis key, published changes | connected, disconnected, key expiry | stale events, overtaking workers, failure between three writes, redelivery | the newest event wins and its change is sent |
| Reports, processor | report rows, published changes | validate, insert once, publish | duplicates, failure between insert and publish, a model that changes between two attempts | what is stored and published is what a model accepts that has been current; an accepted report is stored and its change sent |
| Thing-model caches, processor | one cache per kind of message, with a TTL | look up, refresh | read outside the lock; slow readers overwrite newer entries | an update takes hold in the end |
| Device commands, backend and processor | request rows, acknowledgement rows, MQTT queue | request, save, send, acknowledge, query | time-outs after delivery, retries, late acknowledgements, stale connection status | no command is sent that was not recorded; a status once final changes only in the permitted way |
| Realtime, backend and web | registry, write buffers, sockets, client status, event inbox | register, broadcast, send, close, reconnect, read the inbox | closing connections, slow clients, restart of the consumer, repeated messages | an open connection misses nothing of its tenants; a lost one is replaced; the inbox counts right |
| Sessions, backend | Redis sessions, tokens | register, login, validate, logout, expiry | failure between user and session; sockets that outlive a session | no request passes without a live session |
| Thing models, backend | rows of a product's thing models, one of them current | create, update, delete | concurrent transactions that each take `is_current` from the others; roll-back half-way | the current model changes only as a committed request asked |
| Tenants, products, devices, backend | rows | create, update, delete | checks and writes of concurrent transactions | no orphans |
| MQTT authentication, backend | none (one row read) | authenticate | product and device change between reads | only active devices with the right secret |
| Validators | none | numeric and type checks | limits, steps, precision | backend and processor agree |
| Device page, web | selection, five panels, two command forms | select, load, reload, poll, filter, turn pages, compose, send | answers that are late, lost or overtaken; reloads that are never cancelled; realtime messages among them | panels show the selected device; a command fits its device; indicators go off |
| List pages, web | table, filters, dialog | select, turn pages, create, edit, delete, poll | the same; reloads of the list as it was | the table shows what was asked for; the page exists; a device is created under its tenant's product |
| Audit log, contract validation, wiring, schema, legacy gateway, frame of the console | see section 7 | | | |

Interactions: the runner calls the handlers and decides from their answer what
to commit; the handlers share PostgreSQL, Redis and the state topic; the
backend reads the rows the processor writes and shares no memory with it; the
realtime consumer is the only reader of the state topic.

`PROJECT.json` lists the hazards of this code at their lines, with the
properties that cover them or the reason why none does.

## 2. Modules

| Module | What it is |
|---|---|
| `DeliveryContract` | abstract: what a consumer of one log promises its producers |
| `MessageRunner` | the consumer runtime over its Kafka source |
| `MCMessageRunner` | its instances for TLC |
| `MessageRunnerProofs` | theorems about `MessageRunner` |
| `HandlerPool` | the consumer runtime as a message handler sees it; `MessageRunner` implements it |
| `DeviceConnection` | extends `HandlerPool`: the connection handlers over PostgreSQL, Redis and the state topic |
| `MCDeviceConnection` | its instances for TLC |
| `DeviceConnectionProofs` | theorems about `DeviceConnection` |
| `CommandLife` | abstract: what a user may rely on about one command |
| `DeviceCommand` | extends `HandlerPool`: commands from request to history, through backend, processor, broker and device |
| `MCDeviceCommand` | its instances for TLC |
| `DeviceCommandProofs` | theorems about `DeviceCommand` |
| `ThingsModels` | the transactions on the thing models of a product |
| `Reports` | extends `HandlerPool` and `ThingsModels`: property and event reports through caches, tables and topic |
| `MCReports` | its instance for TLC |
| `ReportsProofs` | theorems about `ThingsModels` and `Reports` |
| `Realtime` | from the topic of states over consumer, registry and connections to the hooks and the inbox of the browser |
| `MCRealtime` | its instances for TLC |
| `RealtimeProofs` | theorems about `Realtime` |
| `Paging` | pages of a list and where the controls of a table lead |
| `DevicePanels` | the device page: what its panels show of the selected device |
| `DevicePanelsProofs` | theorems about `DevicePanels` |
| `DeviceControl` | the device page: selecting a device, composing and sending commands |
| `DeviceControlProofs` | theorems about `DeviceControl` |
| `ListPages` | the list pages of the console with their dialogs |
| `ListPagesProofs` | theorems about `ListPages` |
| `MCDevicePanels`, `MCDeviceControl`, `MCListPages` | their instances for TLC |

The layers: `MessageRunner` implements both `DeliveryContract` (what producers
rely on) and `HandlerPool` (what handlers are exposed to). Each module of
handlers extends `HandlerPool` with its own steps, so no model of a handler
assumes an order, a loss or a redelivery that the runtime cannot produce.
`Reports` is the composition of the handlers with the backend that changes what
they read. The modules of the web console stand at the other end: their server
is the set of answers it may give at the moment it answers.

Definitions marked `Mutant:` or as variants with a bug are deliberate mistakes.
They occur in no specification; `PROJECT.json` names for each property one of them
under which TLC finds the property violated.

### MessageRunner

*State.* `committed` is the group's offset at the broker, `fetchPos` the
reader's position, `receiver`, `inHand` and `receiveErr` the receive loop,
`deliveries` and `open` the channel, `ctxDone` the context of the run, `pc`,
`msg`, `attempt` and `decision` each worker, `workerErr` the error slot, `run`
and `result` what `Run` returned. `processed`, `abandoned` and `skipped` are
history: messages the handler decided, messages given up after the last retry,
and messages a crash left behind. So is `outdated`, the number of messages on
their way to a worker that were fetched before the last rejoin.

*Actions.* `Receive`, `Send`, `ReceiveFails` and `SendCancelled` are the steps
of the receive loop; `Take` to `CompletionFails` those of a worker (one
iteration of the loop in `handle` is `RequestRetry` and `BackoffElapses`); `Return`
is the end of `Run`. `Cancel` is the signal handler, `Restart` the container's
restart policy after an exit or a crash at any point, `Rejoin` a new generation
of the consumer group. A Go `select` with several ready cases is several enabled
actions. A panic of the handler is the outcome `"panic"`, which
`handleWithRecover` turns into a retry.

*Environment.* kafka-go is modelled by how the code uses it: `FetchMessage`
hands out the log in order from the committed offset, `CommitMessages` of one
message sets the committed offset behind it, whatever it was, and may take
effect although it reports an error. A writer without `RequiredAcks` waits for no
broker; the modules of those that publish have the write that is lost after that.

### DeliveryContract

Four variables and four steps: messages are finished or abandoned in any order,
an offset may be committed behind a finished message if at most `Slack`
unfinished messages lie below it, and a restart loses no more than those. With
`Slack = 0` this is at-least-once delivery. `MessageRunner` implements it with
`Slack` = number of workers - 1, so at-least-once delivery holds exactly for a
pool of one worker; with the deployed four workers a crash may lose three
messages. This is the sense in which handlers may rely on redelivery.

### HandlerPool

*State.* `next` is the message handed out next, `stale` the messages that had
been fetched before a rejoin and are still handed out first, `committed` the
place delivery starts from after a crash; `pc`, `ev` and `tries` are the
workers; `acked` and `lost` are history (a handler's Ack or Drop; messages given
up or not redelivered). A module of handlers gives its own names to the steps
between `Start` and `Acknowledge` or `Retry`.

*What it hides.* The channel, the receive loop, the error slot and the shutdown
of a run. A worker that fails ends the run, and the container starts again: in
the pool that is `Restart`. `MessageRunner` maps to it (`ServesHandlers`): of the
messages on their way to a worker, in the channel and in the receive loop's hand,
the first `outdated` ones are `stale`. (They cannot be told from the offsets alone:
after several rejoins the committed offset may be just behind the last outdated
message, which then looks as if it had been fetched in order.) Since the
pool is the coarser of the two, a safety property of a handler over the pool
holds over the runner.

### DeviceConnection

*State.* `log` is an arbitrary sequence of connect and disconnect messages,
fixed in the initial state; `exists`, `status` and `lastSeen` the device rows;
`key` the Redis keys; `topic` the set of changes the topic has, `dropped` those of
which one was lost although it was reported as sent; the rest is the pool.

*Actions.* A handler is three steps: `Update` (the guarded UPDATE, atomic in
PostgreSQL because the WHERE clause is evaluated again on the locked row),
`SetKey` and `Publish`, each with a failing variant that may have taken effect,
or `Ignore` when the UPDATE changes no row. `Publish` goes through `Send`, the sink:
its kafka-go writer is built without `RequiredAcks` and so waits for no broker
(`RequireNone`), and a success does not say that the topic has the change. A failure is the pool's `Retry` from
the first step. `KeyExpires` is the TTL in Redis and `Delete` the backend's
deletion of the device.

*Abstraction.* A message that does not decode is dropped and has the effect of a
message about an unknown device. The published change is the index of its
message, and the topic has no order: that the console, which shows what came last,
ends up with the newest status is not claimed.

### CommandLife

Per command what the history shows (`unknown`, `pending`, `success`, `failed`),
whether it was sent, and which outcomes it has had on the device. A command is
sent only when the history knows it, executed only when sent, and shows an
outcome only if the device has had it; `pending` may turn into `failed` when the
deadline passes, and a reply that comes later may still correct that. A status
other than `pending` is not final: another reply, also of a second execution,
replaces it.

### DeviceCommand

*State.* `now` is the clock; `user` what the user of each command has been told
(`idle`, `checked`, `refused`, `accepted`, `failed`) and `asked` the time its
request carries; `log` the events topic; `requests` and `replies` the stored
rows, which keep the messages they were made from; `onTheWay` what the broker
holds for the device; `sends` and `outcomes` are history; the rest is the pool.

*Actions.* `CheckTarget`, `Publish` and `PublishFails` are `SetProperties` and
`CallService` of the backend, with the time between the look at the connection
status and the publish. After `Publish` the topic may lack the request, as the
sink reports a success without an answer of a broker. `SaveRequest`, `Send` and their failing variants are the
handlers of requests, `StoreReply`, `StoreFails` and `RejectReply` those of
acknowledgements; a failure runs the handler again from its first step. `Execute`
is the device, which may carry a command out again and need not name it in its
reply; `Expire` is the broker forgetting what it holds. `Status` is the history
query: the latest reply if there is one, else the deadline.

*Abstraction.* Property sets and service calls share the module; `SetCommands`
says which a command is, because only property sets accept a reply without a
command id and only service calls have theirs rejected by the thing model. The
values of a command and the thing model's verdict on them are left to chance
(`refused`, `RejectReply`). The deadline is a constant number of ticks, as the
query's interval is. Each command has its own id, drawn by the backend, so
commands meet only in the pool and in the numbers of replies. The clock of the
broker, which stamps replies, is the clock of the backend and the database.

### ThingsModels

*State.* `models` has the committed row of each id: whether it is there,
whether it is current, and what it defines. Per request `request` is what it
asks for, `at` the statement it is at, `found` the rows its clearing statement
has still to visit, `writes` the rows it has written and holds the locks of.
`past` is history: the definitions that have been current.

*Actions.* `Ask` begins `CreateThingsModel`, `UpdateThingsModel` or
`DeleteThingsModel`; `Find` and `Clear` are `clearCurrentThingsModel`, row by
row; `WriteModel` is the INSERT, UPDATE or DELETE; `CommitRequest` and
`Rollback` end `withActor`. Only requests that make their model current clear
the others.

*PostgreSQL* is modelled as the code meets it in READ COMMITTED: a statement
finds the rows committed when it starts, waits for a row that another open
transaction has written and then looks at it again, and the unique index
`idx_thingsmodel_product_current_unique` makes an insert wait for an open
transaction that may still decide about its key. A wait is an action that is
not enabled; a deadlock, which PostgreSQL breaks, is a `Rollback`.

*Abstraction.* Status, version and texts of a model are left out; a request
they make invalid is one that is rolled back.

### Reports

*State.* `log` is an arbitrary sequence of reports; `cache` the entry of each
validator, `held` the definition a worker judges by, `rows` and `topic` what is
stored and published of a report, `dropped` the reports of which a change was lost
although it was reported as sent; the rest is the pool and `ThingsModels`.

*Actions.* A handler is `Hit`, or `Miss`, `Read` and `Store`, for `lookup`; then
`Save` and `Publish`, each with a failing variant that may have taken effect.
`Judge` drops what the definition does not accept. A failure is the pool's
`Retry` from the first step: the handler asks its validator again and may then
be given another definition. `CacheExpires` is the TTL; `Disturb` a crash, after
which the caches are empty, or a rejoin; `Backend` a step of `ThingsModels`.

*What is not claimed.* When the model changes between two attempts, the row of a
report is what the first accepted (`ON CONFLICT DO NOTHING`) and the change that
is published what the second accepts, and if that accepts nothing, a stored
report is never published. `JudgedByCurrentModel` therefore speaks of a
definition that has been current, for row and change each; it need not
be the current one at that moment (section 4). A slow reader may put
an older definition back over a newer one for one more TTL; `UpdatesTakeHold`
says that no validator keeps it for good.

*Abstraction.* A value is its type, so that a value fits a field stands for all
of `validatePropertyValue`. The two handlers differ in what `Known`, `Fields` and
`Accepts` say of their kind. There is one product.

### Realtime

*State.* `consumer` is the backend's consumer: whether it runs, its place in the
topic, the message in hand, the connections it still goes to and the one whose
closing it waits for; `committed` its offset. `conns` has each connection as the
backend and the network have it: phase, write buffer, close code, whether the
client is still there, and what is on the way; `got` and `owed` are history.
`client` is each hook's status and socket, `inbox` and `unread` the event inbox,
`owned` and `loggedIn` the tenants and the session of each user.

*Actions.* `Receive`, `Send`, `Full` and `Ack` are the consumer with `Broadcast`:
it copies its targets and sends to each after the lock is released; a full
buffer closes the connection from inside `Broadcast`, which waits for that
client's close handshake. `Register`, `Write`, `PingFails`, `ReadFails`,
`CloseSocket` and `WriteLoopReturns` are the two loops of a connection. `OnOpen`,
`OnMessage`, `OnClose`, `OnHandshakeFailed` and `Reconnect` are the hook, `Mount`
and `Unmount` the page, `PushEvent`, `MarkRead` and `MarkAllRead` the inbox.
`Crash` and `Start` are the process, with a configured or a new consumer group,
`Rejoin` the group, `Lost` a broken network, `SessionChanges` and
`TenantCreated` the user.

*Abstraction.* The pause between two attempts to connect is left to the
scheduler. A payload is a tenant, or malformed.

### Paging, DevicePanels, DeviceControl, ListPages

The page functions of React are modelled by what a render does. Every handler
changes the page's state and then goes through `Render`: an effect whose
dependencies have changed asks again, and its clean-up makes the page ignore the
answer to its earlier question. Reloads, polls and follow-ups of a message or a
command have no clean-up and are taken whenever they come. `requests` holds the
questions whose answers are still taken; `ServerAnswers` fixes what an answer
says, `Arrive` and `Fail` bring it, in any order.

`DevicePanels` has the five panels of the device page (`latest`, `trend`,
`events`, `sets`, `calls`): `view` is the selection with the filter and the page
of each panel, `shown` what each holds, `loading` its indicator. Realtime
messages (`OnPropertyChanged`, `OnEventReceived`) change a panel directly and
may overtake each other; without a connection `Poll` asks instead.

`DeviceControl` has the cascade of tenant, product, device and thing model, and
the two command forms. Its server deletes devices and changes their connections.

`ListPages` has tenants, products, devices, thing models and the audit log, which
share one design; `section` says which page is open, and definitions that differ
by page (`TenantDeps`, `DeviceCanSubmit`, `ModelFormProduct` ...) are separate.
Rows belong to a tenant and, but for tenants and products themselves, to a
product of it; the server lists those of the selected tenant and product
(`RowsOf`), the newest first. A save or a deletion may take effect although its
answer is lost. `raced` marks that a row was deleted or a page turned while the
list was out of date, or that a page of another list was taken.

`disturbed`, `raced`, `late`, `strayed` and `pending` are history: they mark the
states in which the code gives no guarantee, because an answer was lost or came
out of order. The properties say what holds otherwise; what each mark allows is
in the comment of the property.

## 3. Runs

| Run | Instance | What it shows |
|---|---|---|
| `runner` | 2 workers, buffer 1, 1 retry, 2 messages, 1 restart, 1 rejoin, fairness | `Run` reports a worker's error if there is one; nothing is committed after the source is closed; `MessageRunner` implements `DeliveryContract` and `HandlerPool`, also when a run ends or crashes and another begins; a disturbed run ends, an undisturbed one finishes the log |
| `runner_retry_claim` | 1 worker, 2 messages | *violation*: a message given up with `Retry` is committed by the next one |
| `connection` | 2 workers, 1 device, 2 messages, 2 times, 1 retry, 1 restart, rejoin or lost change, fairness | in whatever order messages are handled and redelivered, the newest acknowledged one is in the row and its change was sent, and nothing is published that the row has not seen; row and changes sent converge to the newest message; the key of an offline device disappears |
| `command_safety` | 2 workers, 1 property set, 2 replies, deadline 1 tick, clock to 2, 1 retry | no command reaches the broker that is not in the history; replies that overtake each other and their request end up as the latest one; a command is sent at most once per call of its handler; `DeviceCommand` implements `CommandLife` |
| `command_disturbed` | 1 worker, 1 service call, 1 reply, 1 restart, 1 rejoin, fairness | under redelivery an accepted call gets a final status unless its request vanished on its way to the topic, was given up or lost |
| `command_duplicates_claim` | 1 worker, 1 property set, 1 restart | *violation*: a redelivered request is sent to the device again |
| `reports` | 2 workers, 2 requests, 2 models, 2 definitions, 1 retry; three of reports, requests, lost changes, restarts and rejoins | what is stored and published of a report is what a model accepts that was current; what every model accepts is stored and its change sent; overlapping and failing requests change the current model only as one of them asked; an update reaches the caches for good |
| `realtime` | 2 hooks, 2 connections, 3 tenants, 4 messages, buffer 1, inbox 2, fairness | an open connection misses nothing and carries no foreign tenant; what is committed was broadcast; the inbox has no duplicates and counts right, also when an event is pushed out and comes again; dead connections are unregistered; broadcasts end; hooks reconnect |
| `realtime_gives_up_claim` | the same | *violation*: a user who is logged in is given up for the close code of a slow client |
| `device_panels` | 2 devices, 1 property, pages of 2 rows, 2 questions at a time | panels show the selected device, filter and page once nothing is on its way; no foreign data but by the reloads named there; indicators go off; no event is listed twice |
| `device_control` | 2 tenants, 3 products, 4 devices | the selection fits together once everything is answered; a command is composed for the model of its device; its result is shown of the selected device; at most one command of a kind is under way |
| `list_pages` | 2 tenants, 3 products, 4 rows, pages of 1 or 2 | the table shows what was asked for, its page exists, indicators go off, a device is created under a product of its tenant |

*Why the bounds are enough.* Two messages and two workers give a message in
flight below, at and above a commit, and a worker that overtakes another; a
buffer of one (64 in the code) is full and empty in turn; one retry shows both
the retried and the exhausted message; one restart or rejoin shows redelivery,
and a second one starts from a state of the same shape. Two times and two
messages give older, equal and newer messages in either order. Devices do not
interact, nor do commands, so one is enough. A deadline of one tick and a clock
of two give replies before, at and after the deadline, and requests published
after theirs. For three messages, and for two workers where a run has one, there
are the theorems of section 5. With two messages a crash of `runner` cannot lose more
than the contract allows: how many it may lose rests on `CrashLossBounded` and
`RunnerKeepsContract`.

In `connection` a behaviour has a crash, a rejoin or a lost change, of which one is
enough: the change of either message is lost before or after the other is sent. Of
two idle workers the first one starts; they do not differ otherwise.

The instance of `reports` shares a budget of three between reports, requests, lost
changes and disturbances: two requests overlap while a report is handled, or two reports
while a request is, or one of each meets a crash. Of two idle workers, or
requests, the first starts; they do not differ otherwise. The two definitions
differ in the types of a property and of an event, so each report is accepted by
one of them, both or neither.

In `realtime` the console may get three events (one message of four cannot be read):
they push one out of an inbox of two (20 in the code), which a restart of the
consumer may bring again. One connection is full, closed or broken while another is open. In the runs of the
web console the budgets (clicks, failures, changes, reports, polls) say how many
disturbances meet; each MC module lists a set of them, so that what is expensive
together is checked apart: three clicks with any order of the answers, a click
with two reports that cross, a failure with a click, and so on. `MaxAsks` bounds
the questions open at a time. A third answer only repeats what two that cross
already do. Page sizes of one and two (10 and more in the code) put the last row
of the last page within reach.

`CHECK_DEADLOCK FALSE` is set because these systems stop: a run returns, a log is
finished, the clock reaches its bound, a budget is spent.

The type invariants are proved. `CommitCovered`,
`LossWindow`, `KeyNotAhead`, `OneCurrent` and `GivesUpOnlyWhenSlow` are theorems
and not in the runs. Each inductive invariant was checked by TLC before it was
proved.

*Fairness.* Weak fairness of each worker, of the receive loop, of the realtime
consumer, of each connection's loops and of each hook is what the schedulers of
Go and of the browser, timers and client time-outs give: a goroutine that can run
does, a sleep ends, a call returns or fails. `FetchMessage` is only assumed to
return when a message is there or the context is done. Handlers, commits and
publishes may fail every time. Crashes, cancellations, rejoins, lost connections
and the requests of users are never assumed. Expiry of a Redis key is fair
because Redis guarantees it, that of a cache entry and the clock because time
passes. `Start` of the backend is part of its consumer: the container is
restarted. The modules of the web console state no liveness: their server need
not answer.

## 4. Disagreements between the code and what is said of it

* `kafka/source.go:112`: "Retry leaves the Kafka message uncommitted for later
  redelivery." Any later commit of the partition covers it (`runner_retry_claim`).
* `contracts/CONVENTIONS.md:178`: "Consumers MUST treat duplicate `event_id`
  values as no-ops." A redelivered request of a property set or a service call
  is sent to the device again (`command_duplicates_claim`), because the handler
  does not ask whether its INSERT added a row. A redelivered connection event is
  likewise applied and its change published again. The published copies carry
  new event ids, against line 180 of the same file, because
  `EventPublisher.Publish` draws an id on every call.
* `web/src/hooks/useDevicesRealtime.ts:78`: `unauthorizedCloseCode = 1008`. The
  server refuses a user who is not logged in before there is a WebSocket, and
  sends 1008 only to a client whose write buffer is full
  (`realtime/conn.go:55`); the page of such a user never reconnects
  (`realtime_gives_up_claim`).
* `realtime/conn.go:19`: "so Broadcast callers never block on a slow client." A
  `Send` to a full buffer closes the connection itself and waits for that client's
  close handshake, with the other connections and the consumer behind it; line 46
  leaves the closing to the write loop. `BroadcastsEnd` shows that the wait ends.
* `contracts/event/device_state.go:19`: a connection change "is emitted by the
  device-event-processor after" its event "has been applied to the authoritative
  state." `kafka/sink.go:27` builds its writer without `RequiredAcks`, which in
  kafka-go is `RequireNone`: `Send` reports a success without an answer of a broker,
  the handler acknowledges, and a change that is lost after that is not sent again
  (`dropped` in `DeviceConnection`). Changes of reports and requests of commands go through
  the same sink.
* `contracts/event/device_state.go:34-36` and `47-49`: properties and event
  parameters contain "only fields accepted by the current thing model". The
  validators keep a model for 30 seconds (`validator/validator.go:12` and `98`) and
  judge by it when another one is current. `JudgedByCurrentModel` says what holds:
  the definition has been the current one.

## 5. Proofs

`MessageRunnerProofs` proves for all values of the constants that satisfy
`RunnerAssumption` (a finite non-empty set of workers, positive buffer and
retry limit; `NewRunner` establishes this):

| Theorem | Statement |
|---|---|
| `TypeCorrect` | `Spec => []TypeOK` |
| `CommittedIsCovered` | `Spec => []CommitCovered` |
| `CrashLossBounded` | `Spec => []LossWindow` |
| `ReturnIsReported` | `Spec => []ReturnReports` |
| `CommitsPrecedeClose` | `Spec => NoCommitAfterClose` |
| `RunnerKeepsContract` | `Spec => KeepsContract` (refinement of `DeliveryContract`) |
| `RunnerServesHandlers` | `Spec => ServesHandlers` (refinement of `HandlerPool`) |

*The argument.* `CommitCovered` is not inductive: the offset moves to the
message after the one a worker holds, so everything below that message must be
accounted for as well. `Covered` says so of every place a message can be on its
way: `FetchCovered` below the reader's position, `HandCovered` below the
delivery in the receive loop's hand, `BufferCovered` below each delivery in the
channel (what is not accounted for lies before it in the channel) and
`HeldCovered` below each worker's message; `DecidedProcessed` adds that a worker
about to commit has processed its message. The order of the log is what makes
each step preserve this. `LossWindow` follows from `OneSpared`: some worker does
not hold any message at risk, namely the one that committed last, so the
messages at risk inject into the other workers (`SparedBound`). The refinement
follows step by step: a commit is allowed by the contract because of
`OneSpared`. `ReturnReports` needs `Ended` and `ErrorKept`, which tie the error
slot to the workers that failed. That the runner serves handlers as the pool does
needs `InOrder` (what was fetched since the last rejoin lies on its way in the
order of the log, up to the reader's position) and `Attempts` (a worker counts its
retries anew for each delivery and gives one up only after the last). Taking a
delivery is `Start` (`TakeStarts`), a decision `Retry` or `Acknowledge`
(`RequestRetryServes`, `GiveUpServes`, `DecideServes`), a commit `Commit` also when
it fails (`CommitServes`); a rejoin makes stale what has been fetched
(`RejoinServes`), and the receive loop and the end of a run do not show
(`RunHidden`). So what the models of the handlers take for granted about the runner
is proved, for a log of any length; that a handler's several steps may stand for the
pool's one is their construction.

`DeviceConnectionProofs` proves for all values of the constants that satisfy
`ConnectionAssumption` and `PoolAssumption` (times are positive numbers, the
bounds are numbers, at least one retry):

| Theorem | Statement |
|---|---|
| `ConnectionTypeCorrect` | `Spec => []TypeOK` |
| `AlwaysConsistent` | `Spec => []Consistent` |
| `NewestMessageWins` | `Spec => []NewestWins` |
| `NewestIsPublished` | `Spec => []NewestPublished` |
| `PublishedIsApplied` | `Spec => []PublishedWasApplied` |
| `KeyFollowsRow` | `Spec => []KeyNotAhead` |

*The argument.* None of the four properties is inductive. `Consistent` adds
`HandledSeen` (past the UPDATE the row has seen the worker's message; it stays
so because `last_seen_at` only grows, lemma `SeenGrows`), from which the changes
sent and the key cannot run ahead of the row (`SentWasApplied`), and `AckedPublished`
(the change of an acknowledged message was sent unless the row has seen a newer one),
from which `NewestPublished` follows at once and the second half of `NewestWins` with
`SentWasApplied`. `Sent` are the changes on the topic and those the sink lost after it
had reported a success; `NewestIsPublished` does not say that the topic has them, and
no theorem could. The lemmas before the steps say once per variable how a
step may change it (`RowChanges`, `KeyChanges`, `SentGrows`, `AckedGrows`,
`PassesUpdate`).

`DeviceCommandProofs` proves for all values of the constants that satisfy
`CommandAssumption` and `PoolAssumption` (the property sets are among the
commands, the bounds are numbers):

| Theorem | Statement |
|---|---|
| `CommandTypeCorrect` | `Spec => []TypeOK` |
| `AlwaysRecorded` | `Spec => []Recorded` |
| `NothingIsUnrecorded` | `Spec => []NothingUnrecorded` |
| `LastReplyIsShown` | `Spec => []LastReplyShown` |
| `CommandKeepsPromise` | `Spec => KeepsPromise` (refinement of `CommandLife`) |
| `SendsAreBounded` | `Spec => []SendsBounded` |

*The argument.* `WellDispatched` first proves `TypeOK` together with
`Dispatched`: a worker at a step of the request handlers holds a request, one
at the reply handlers' step a reply. `Recorded` then adds what each property
needs of the steps before it: `OneRequest` (a command has one request, at the
time its user asked), `SavedFirst` (a worker about to send has its request
stored, and what the device has was sent), `RepliesTrue` (a reply tells an
outcome the device has had) and `AckedStored` (a reply to a property set is
stored before it is acknowledged). `NothingUnrecorded` follows: a reply leads
back over an outcome and a send to a stored request. `LastReplyShown` follows
from `AckedStored` and `FirstOfExists`: the stored replies of a command have a
first one in the order of the query. For the refinement, a step that stores a
request is `Record` or a stutter (`SaveRecords`), one that stores a reply is
`Answer` or a stutter (`StoreAnswers`), and a tick is `Expire` (`TickExpires`).
`SendsAreBounded` has an invariant of its own, `Limited`, which holds while there
was no restart and no rejoin: a command has one request in the topic
(`OnePublished`), a message is handed to one worker at most, in the order of the
topic (`HandedOnce`), and the sends of a command never exceed the retries of the
worker that has its request (`Counted`).

The three modules about handlers begin with one lemma per step of the pool: it
keeps the pool well formed, whatever the handler does meanwhile; in
`DeviceCommandProofs` also while the log grows (`PoolTypeGrows`).

`ReportsProofs` proves of `ThingsModels`, for all values of the constants that
satisfy `ModelsAssumption`:

| Theorem | Statement |
|---|---|
| `ModelsTypeCorrect` | `ModelsSpec => []ModelsTypeOK` |
| `CurrentChanges` | `ModelsSpec => CurrentChangesAsAsked` |
| `AtMostOneCurrent` | `ModelsSpec => []OneCurrent` |

*The argument.* `Settled` says what a transaction has done by the statement it is
at: no two hold one row (`Exclusive`), a request that does not make its model
current has written only that (`LeavesOthers`), and one that does has, when it is
about to commit, taken `is_current` from every other row it sees, while no other
open transaction makes one current (`TakesIt`, which is what the index gives). A
commit of such a state changes the current model as asked, and at most one model
is current because each commit leaves at most its own or takes one away.

It proves of `Reports`, for all values of the constants that satisfy
`ReportsAssumption`, `ModelsAssumption` and `PoolAssumption`:

| Theorem | Statement |
|---|---|
| `ReportsTypeCorrect` | `Spec => []TypeOK` |
| `JudgedByCurrent` | `Spec => []JudgedByCurrentModel` |
| `AcceptedIsNotLost` | `Spec => []AcceptedIsPublished` |
| `CurrentChangesWithReports` | `Spec => CurrentChangesAsAsked` |

*The argument.* Definitions travel from the table to a worker, to the cache and
to another worker: `PastOK`, `CacheOK` and `HeldOK` say that each place holds one
that has been current, `HeldOK` also that a worker past the validator holds one
that accepts its report, and that it publishes only what is stored. `AckedOK` has
the two ways a report is acknowledged: stored and its change sent (on the topic or,
unnoticed, lost), or not accepted by a definition of the past, which stays in it. The last theorem carries
`CurrentChanges` over to the composition, by the same lemmas.

`RealtimeProofs` proves for all values of the constants that satisfy
`RealtimeWorld`:

| Theorem | Statement |
|---|---|
| `RealtimeTypeCorrect` | `Spec => []TypeOK` |
| `InboxConsistent` | `Spec => []InboxIsConsistent` |
| `CommittedIsBroadcast` | `Spec => []CommittedWasBroadcast` |
| `TenantsAreSeparate` | `Spec => []OnlyOwnTenants` |
| `OnlySlowHooksGiveUp` | `Spec => []GivesUpOnlyWhenSlow` |
| `NoMessageIsSkipped` | `Spec => []NothingSkipped` |

*The argument.* `Covered` says that everything before the consumer's place, but
the message in hand, was handled. `Separated` follows a message from the targets
over the buffer and the network to the client: each place carries only tenants
the connection was accepted for. `Hooked` ties a close code to the connection
whose buffer was full (`Blamed`) and a hook to a connection of its own
(`Linked`). The unread counter needs lemmas about the cardinality of the unread
rows of a list that is pushed to, cut off and marked. `NothingSkipped` speaks of
what a client received only, so `Chained` accounts for the rest: on a connection that
can be written to, what was received, what is on the network, what is buffered and
the message in hand, one after the other, are what the connection is owed. Each
step passes a message from one place to the next (`HeadPasses`); a socket that
goes, a full buffer and a crash only take away from the end. The broadcast that
closes a connection waits for it, so nothing gets past the message that did not
fit.

`DeviceControlProofs` proves for all values of the constants that satisfy
`ControlWorld`:

| Theorem | Statement |
|---|---|
| `TypesOfPage` | `Spec => []TypeOK` |
| `TheSelectionSettles` | `Spec => []SelectionSettles` |
| `CommandsFitTheirDevice` | `Spec => []CommandFitsDevice` |
| `ResultsAreOfTheSelection` | `Spec => []ResultIsOfSelection` |
| `IndicatorsTellWhatIsAwaited` | `Spec => []IndicatorsAreAwaited` |

*The argument.* `SelectionSettles` speaks of the moment when nothing is awaited.
`Consistent` says question by question what holds before: a question that is
neither awaited nor failed has its answer on the page (`Holds`), whatever the other
questions do. It is kept because every question under way is the one the page would
ask now (`Apt`): the lemma `RenderFits` says so of each drawing of the page, in which
effects ask again exactly the questions whose dependencies changed. A command fits
its device because the forms are those of the model on the page (`FormsFit`) and
the model, unless it is awaited, is that of the selected device (`ModelSettled`).

`DevicePanelsProofs` proves for all values of the constants that satisfy
`PanelBounds` (what a history may be filtered by is a finite set, page size and
trend are positive):

| Theorem | Statement |
|---|---|
| `TypesOfTheDevicePage` | `Spec => []TypeOK` |
| `ForeignDataIsLate` | `Spec => []NoForeignData` |
| `LoadingEndsWithItsAnswer` | `Spec => []LoadingIsAwaited` |
| `PanelsShowTheSelection` | `Spec => []SettledShowsSelection` |
| `NoEventIsListedTwice` | `Spec => []EventsOnce` |

*The argument.* `PanelInv` follows a question to the panel that shows its answer.
`RequestFits`: the answer to an effect or a poll is about what the page asks for
now, because effects ignore their earlier question and polls end with their view;
any other answer is about the same or known to be late. `PanelHolds`: an undisturbed
panel awaits its effect or holds what it asks for; an answer that brings another
page of a history changes what the panel asks for, whereupon its effect asks again.
`NewestComes`: the newest properties are shown, or asked for by a request that is not
answered yet or was answered with them, or a message about them is on the wire. An
answer that is taken can undo this only if it is older than what is shown, and then
the panel counts as disturbed. `RenderHolds` is the lemma of all handlers that draw
the page, `QuietHolds` that of the steps that lose requests and messages.
`EventsOnce` needs that the rows of a page differ (`PageDiffers`, `RowsDiffer`) and
still do when an event joins them (`InboxJoins`).

`ListPagesProofs` proves, for all values of the constants and on every page:

| Theorem | Statement |
|---|---|
| `ListsShowTheSelection` | `Spec => []SettledShowsSelection` |
| `ListIndicatorsAreAwaited` | `Spec => []IndicatorsAreAwaited` |
| `DevicesFitTheirTenant` | `Spec => []CreateFitsTenant` |
| `ThePageExists` | `Spec => []PageExists` |
| `ListTypeOK` | `Spec => []TypeOK` |

*The argument.* `ListInv` follows a question from what asks it to the table.
`RequestFits`: the answer to an effect is about what is selected, because an effect
that is asked again ignores its earlier question; the reload after a save or a
deletion and the poll are about the same or known to be late. `AnswerFits`: an
answer given at the present version of the rows tells the present rows. `Comes`: an
undisturbed table shows the newest rows, or the answer to a question is still to
come and not older than they are. An answer that tells older rows, when taken,
counts as a disturbance, as in `DevicePanels`. For the indicators, a save is under
way as a call or as the reload after it, and there is one at most (`OneSave`); while
a table says it is loading or a row that it is deleted, what ends it is awaited
(`LoadingAwaits`, `DeletionAwaits`). The product of an open dialog is one of
those listed, also after others are (`DialogFits`), so a device that is created while
those of its tenant are listed has one of them (`CallFits`). `RenderKeeps` is the lemma of the
handlers that draw the page, `SameKeeps` that of the steps that change indicators,
questions or calls only.

That the page exists rests on `PageInv`, which adds two parts to `ListInv`.
`TypesFit` says what the rows, the list, the questions and the calls are: rows
differ in their numbers, and none of a list with a tenant is without one. `PagesFit`
counts. An undisturbed page of a list that is up to date has rows or is the first
(`PageFits`); this alone is not inductive, because a deletion under way steps back
a page, or not, by what the table showed when it began. So each deletion under way is
of a row that was counted with those before it, unless the rows have changed since
(`CallsCount`), in which case the list was out of date and `raced` says so. A filter by a product of
another tenant, which is selected until the products are listed, finds nothing, and
the page is then the first.

Counting needs that the sorted list has each row of the set once (`NewestFirstType`).
It is not proved by induction: the rank of a row, the number of newer ones, maps
the set one to one into as many numbers as it has rows, hence onto them, so that
each place of the list has exactly one row. `PagesOf` and
`PageOfType` carry this over to the pages that are cut from it, `FewerRows` and
`MoreRows` to the rows after a deletion and a creation. The assumption `ListWorld`
is what the runs use: the initial rows are finite, differ in their numbers and
fit the tenant of their product, and one of the sizes of a page is the largest.

*Only model-checked.* Liveness (fairness and ENABLED are out of the prover's
reach): `ShutdownCompletes`, `UndisturbedRunFinishes`, `Converges`,
`OfflineKeyFades`, `AcceptedIsSettled`, `UpdatesTakeHold`, `GoneAreUnregistered`,
`BroadcastsEnd`, `Reconnects`. Every safety property of the passing runs has a
theorem.

## 6. Plan

Done: the consumer runtime, the handlers of connections, commands and reports,
the transactions on thing models, the realtime fan-out, the pages of the console
but for the thing-model editor; proofs for all of them.

Left, in order of importance:

1. `ResourceLifecycle`: the checks and writes of tenants, products and devices in
   separate transactions; whether a device can be left without its product (there
   are no foreign keys between the two), or with a secret its product does not
   want; a device created again under the slug of a deleted one.
2. `Sessions`: registration, login, logout and expiry over PostgreSQL and Redis.
3. `NumericValidation`: the value checks of backend and processor as pure
   operators, compared over bounded inputs.
4. The editor of thing models, as a conversion there and back.

Theorems worth proving next are those of these modules; what is checked and not
proved today is out of the prover's reach (section 5).

## 7. Not modelled

* Tenants, products and devices as rows, and sessions: see the plan. How a
  session ends under an open socket is in `Realtime`, the deletion of a device in
  `DeviceConnection` and `DeviceControl`.
* The numeric checks of a value and the cache of the service-call validator,
  whose verdict `DeviceCommand` leaves to chance.
* MQTT authentication: a decision over one row that changes nothing.
* Contract validation: a pure schema check; a message it rejects is dropped.
* Audit log: a best-effort insert after the response.
* Configuration, HTTP routing, JSON encoding, logging, password and secret
  hashing: no state that a property here depends on.
* The legacy MQTT gateway: replaced by the EMQX rule engine and not deployed.
* EMQX, Redpanda, PostgreSQL, Redis: external; modelled by how the code uses
  them.
* The console's frame, texts, themes, charts and login form, and the dialog that
  shows a device's secret.
