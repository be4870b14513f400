# TLA+ models of the ShardingSphere CDC demonstrator

The repository is a Spring Boot application around the ShardingSphere proxy:
it streams changes of a table `t_order` from a source database to a target
(change data capture, CDC), copies a write database to a read database, moves
data between databases, and shows all of it in a browser.  This directory holds
TLA+ models of its services, the TLC runs that check them and TLAPS proofs.

Paths below are relative to the Java package
`src/main/java/org/apache/shardingsphere/example/proxy/cdc` unless they begin
with `js/` (`src/main/resources/static/js`).

## 1. The system

| Component | State | Operations | Talks to |
|---|---|---|---|
| CDC data path, `service/CDCClientService` (206-753) | four counters, the target table | `processCDCRecords`, `processIndividualRecord`, `processCDCEvent`, `applyInsert/Update/Delete`, `resetStatistics`, `getStatistics`, the decoders | called by the CDC client library's thread with batches of records; writes the target by JDBC; broadcasts by `WebSocketService` |
| CDC stream control, `service/CDCClientService` (80-194, 773-793) | `isConnected`, `isStreaming`, `currentStreamingId`, `currentStreamingDatabase`, `cdcClient`; at the proxy: jobs | `connect`, `startStreaming`, `stopStreaming`, `cleanup` | request threads; the proxy over the library |
| Read-write replication, `service/ReplicationService` | the two URLs, `replicationEnabled`, `replicationExecutor`; two databases | `enableReplication`, `disableReplication`, `syncWriteToRead`, `manualSync`, `switchDatabases`, `insertToWriteDb`, reads | request threads and one thread per executor; both databases by JDBC |
| Data generator, `service/DataGeneratorService` | `generatorRunning`, `generatorExecutor`, interval, database | start, stop, generate, update, delete, clear source, clear target | source and target by JDBC; reads the stream control's state to choose a connection |
| Migration, `service/MigrationService` | two databases | set up source, prepare target, initial copy, counts, verification, clearing | both databases by JDBC |
| WebSocket broadcast, `service/WebSocketService`, `websocket/`, `config/` | set of sessions | add, remove, broadcast | called by the CDC thread and the statistics timer; the page's WebSockets |
| REST controller, `controller/CDCController` | none | one handler per operation above | calls the services; every exception becomes status 500 |
| User interface, `js/app.js` | `ws`, `reconnectInterval`, three refresh intervals, the active tab, buttons, tables, `eventCount` | `connectWebSocket`, polls, tab switching, commands, `startMigration`, `setupMigrationSource` | the controller by `fetch`; the WebSocket |

The source database, the proxy's CDC job, the CDC client library and PostgreSQL
are outside the repository.  They are modelled as far as the services depend on
them and marked external in `PROJECT.json`.

### What is hard

* **Interleaving without locks.**  Requests run on concurrent threads, executors
  have threads of their own, and no service method synchronises.  Every
  check-then-act in `CDCClientService` and `ReplicationService` can be entered
  twice.
* **Ordering and redelivery.**  A snapshot overlaps the changes that follow it;
  after a lost connection the proxy sends again what it has sent; a stopped job
  leaves a batch in the consumer's hands.
* **Partial failure.**  A delete and the inserts after it are separate commits;
  one exception cancels a periodic task for ever; failures of single records and
  of stops are swallowed; `startMigration` does not look at the outcome of three of
  its five requests.
* **Overtaking answers.**  The page polls faster than it is answered, several calls
  of one function are in flight at a time, and commands change buttons before and
  after their answer while polls change them too.
* **Values at a boundary.**  Zero and the empty string have an empty protobuf
  encoding, which the decoder turns into null; negative numbers and long strings come
  out as other values.
* **One target for two databases.**  `startStreaming` takes the database as a
  parameter, the page and the migration name different ones, and all streams and the
  initial copy write to the same table.
* **Liveness.**  No bad record may block the stream; the databases should come to
  agree as long as the periodic task lives.

### What makes each component correct

* Data path: a caught-up stream has made the target equal to the database it streams;
  it never invents rows beyond what the decoder makes of them; a bad record does not
  block the others; counters agree but for the events a reset races with.
* Stream control: a job that runs at the proxy is one the service can stop.
* Replication: inserts are not lost, keys do not collide, one periodic task runs
  exactly when replication is on, the databases come to agree.
* Generator: one thread at most; stopped means stopped; rows go to the database
  that is being streamed.
* Migration: a row that was copied stays as the source has it, whatever an old stream
  still writes; the workflow never locks its own button.
* WebSocket: an open session gets every event, once and in order; the page
  reconnects whatever breaks, and its status is true.
* Page: what it shows becomes what is the case; no interval is lost track of; it does
  not offer to start and to stop at once.

`PROJECT.json` lists under "hazards" where in the code each of these can go wrong.

## 2. Modules

### CDCPipeline (data path)

`wal[d]` and `hist[d]` are the database `d` (`sharding_db` or `migration_db`): a log of
changes, and the table after each of them.  `job` is the proxy's job: it names its
database, fixes a log position (`from`), later reads a snapshot (`inv`), sends the
snapshot rows and then the changes from that position on (`sent`); `log`, `past` and
`source` are those of its database.  `batch` is the delivery the consumer is working on.
The consumer counts a record (`CountEvent`) and then applies and broadcasts it
(`ApplyEvent`), two steps because `resetStatistics`, stopping and clearing can come
between them.  `target` is the one target table.

| Action | Code |
|---|---|
| `SourceInsert`, `SourceUpdate`, `SourceDelete`, `SourceOther` | whoever writes to a database; the last stands for a change whose record has a type `processCDCEvent` has no case for |
| `StartStreaming(d)`, `StopStreaming` | `startStreaming` 127-169 with `full = true`, `stopStreaming` 174-194, as they affect the data path |
| `ReadInventory`, `DeliverInventory`, `FinishInventory`, `DeliverChanges` | the proxy's job |
| `ConnectionLost`, `GiveUp` | a lost connection that `RetryStreamingExceptionHandler` (104) restores, or has not restored after its five attempts: then nothing comes any more and the service still says that it is streaming |
| `CountEvent`, `ApplyEvent` | `processCDCEvent` 596-635 with its default branch 620-621, `applyInsert`, `applyUpdate`, `applyDelete` 640-715 and the exception handling of 232-239 and 293-295 |
| `ClearTarget` | `DataGeneratorService.clearTargetData` 294-306 |
| `ResetStatistics` | `resetStatistics` 729-736, one store at a time |

A row is an abstract value, and what the hand-written protobuf decoder makes of it is a
constant.  `ZeroUser` and `EmptyStatus` are the rows whose user_id or status has an
empty encoding, which comes out as null.  `Decoded` is a function from rows to rows: a
user_id below -8 loses high bits, since the shift of the varint loop (386) passes 32,
and a status of 128 bytes or more is cut in the wrong place (437); `NoRow` stands for a
result the target refuses.  The proofs hold for every such function.

History variables: `damaged`, the keys for which the code promises nothing, because an
event had no effect (a swallowed `SQLException`, a lost value) or another one (a row the
decoder changed), a row was removed by hand, or the target held another row or events
were in hand when streaming was started.  A key leaves it when an event of the present
job makes target and event agree.  `unknown` counts the records without a type of their
own since the counters were last reset, `raced` the events that were in work while the
last reset was.  The model allows one job at a time; overlapping jobs are the subject of
`StreamControl`.

### StreamControl (stream control)

The fields of `CDCClientService`, the client objects that are connected (`dialled`) and
logged in (`open`) and the jobs at the proxy (`job`, `running`).  Threads execute
`connect`, `startStreaming`, `stopStreaming` and `cleanup` step by step, one
access to a field or one call of the proxy at a time.  `connect` works on the field
`cdcClient` and on nothing of its own: `Assign` replaces what the field holds, and `Dial`
and `LoggedIn` act on whatever it holds by then, perhaps the object of an overlapping
`connect`; a call on an object that is not in the state it expects may then fail
(`Unexpected`).  A call may fail without an effect or have its effect and lose the
answer; `GiveUp` is a connection that the retry handler could not restore, after which
no field of the service changes.  `close()` may fail too (`CloseFails`): `cleanup` only
logs it and leaves the flags as they are.

### ReplicationService (read-write replication)

Two databases with their rows and sequences, the two URLs, the flag, the executor
field and the state of every executor.  Each thread (request or executor) has a
program counter and the local variables of the method it executes.  A sync is
`Check`, `OpenWrite`, `Select`, `OpenRead`, `Delete`, `Insert`; `SyncFails` is an
exception at any statement and `Raise` what becomes of it (status 500, or the end
of the periodic task).  A switch is `Switch`, `SwitchWrite`, `SwitchRead` and a
sync if replication is on.  An insert is `InsertToWriteDb`, `ResetMax`,
`ResetSetval`, `InsertRow`.  `ProxyWrite` and `ProxyInsert` are the generator, through
the proxy, changing rows of the same database and inserting rows with keys from the same
sequence.  Contents of rows are numbered, so that every
write is told apart from every other.

History variables: `acked` (inserts that succeeded and were not changed since),
`collided` (an insert failed on a duplicate key), `unreset` (a sequence reset
failed, which the code only logs), `overtaken` (a row was inserted between the two
halves of a sequence reset, `MAX` and `setval`, of the same database), `risky` (a switch was requested with
replication on, something running or unequal databases, or something was
requested during it).

A batch of inserts either takes effect or fails as a whole, which is what the
PostgreSQL driver does with a batch in auto-commit mode as long as it fits its
buffers (some hundred rows).  The URL fields are plain fields; stale values a
thread might keep of them are not modelled, since every access is separated from
the previous request by synchronised library code.

### EventFeed (WebSocket broadcast and its page) and EventTable

| Variable | Code |
|---|---|
| `sessions` | `WebSocketService.sessions` |
| `bc[t]` | the iteration of `broadcast` in the thread `t`: sessions still to serve, the `sendMessage` it is in |
| `statsTask` | the periodic `sendStatistics` (CDCClientService:73) is not cancelled |
| `sock`, `chan` | the WebSockets the page has created, events under way on each |
| `timer`, `status` | `reconnectInterval`, the text of `wsStatus` |
| `rows`, `eventCount` | `cdcEventsTable`, `eventCount` |

| Action | Code |
|---|---|
| `Accept`, `RemoveSession` | `CDCWebSocketHandler` 22-43 |
| `BroadcastEvent`, `SendStatistics`, `StartSend`, `FinishSend`, `Collide` | `broadcast` 35-51, called by the consumer and by the timer |
| `Open`, `Close`, `Reconnect`, `Refuse` | `connectWebSocket` 124-170 |
| `Receive` | `handleWebSocketMessage` 172-190 with `addCdcEventToTable` 657-722 |
| `RenderEvents` | the tail of `fetchDataComparison` (875) with `renderCdcEventsTable` |
| `Break` | a connection that ends |

`sendMessage` takes two steps because two threads can be in it on one session; the
server's WebSocket implementation then throws an `IllegalStateException`, which
`broadcast` does not catch (`Collide`).  The reconnect timer creates a WebSocket at
every tick, so that there can be several.  `seen`, `collided` and `doubled` are
history variables: what each WebSocket has brought, whether two threads have met,
whether two WebSockets have existed at a time.

`EventTable` is the abstract specification of the table: it shows the latest events,
the last one on top, and changes by new events only.  `EventFeed` implements it
under the mapping that takes the placeholder row for an empty table
(`ShowsLatest`).

### Dashboard (polling, tabs, buttons)

No element of the page depends on another, so a behaviour follows one element
(`focus`), the state of the server for it (`server`) and what the page shows
(`shown`).  `calls` are the calls of functions that fetch and show, each `Asking`,
holding an answer, or at `Rest` (waiting for requests that follow); `cmd` the
commands in flight, of which one kind may be there several times, since a late poll can
enable its button before it is answered; `streaming` whether a poll that is after the
totals finds the stream running, in which case it does not ask for them (492); `disabled` the buttons; `held` and `timers` the interval
variables and the intervals that really run.

| Action | Code |
|---|---|
| `PermanentTick`, `IntervalTick` | `DOMContentLoaded` 53-58, the intervals of `setupTabSwitching` 813-823 and `startMigration` 1510 |
| `Fetch` (with failing reads, which the server answers with 0 or an empty list), `Apply`, `End`, `Lose` | `pollStatus`, `updateStatistics`, `updateDashboardStats`, `fetchDataComparison`, `refreshMigrationData`, `refreshReadWriteData`, `pollReplicationStatus` with what they update |
| `SwitchTab`, `MigrationStarted` | `setupTabSwitching` 773-827, `startMigration` 1508-1511 |
| `Click`, `Execute`, `CommandFails`, `AnswerSwitch`, `AnswerCommand` | `startStreaming`, `stop`, `startGenerator`, `stopGenerator`, the commands of the read-write tab and the clear commands, with the answers of their handlers |
| `ServerChanges` | other pages, the generator, the stream |

### Migration

Extends `CDCPipeline`; `MigrationDb` is the database the proxy calls `migration_db`, and a
stream may be of any database.  `step` is the request `startMigration` (1416-1529) waits
for; each step is one request and its effect at the server.  Copies belong to the
server's threads (`copying`), not to the page: `mine` is the one the page waits for.

| Action | Code |
|---|---|
| `ClickStart`, `Status`, `Stop`, `Start`, `Answered`, `RequestFails` | `startMigration`, with `getMigrationStatus`, `stopStreaming`, `startStreaming` at the server; a stream of another database that runs already is a success |
| `Prepare` | `MigrationService.prepareTargetDatabase` 84-109 |
| `CopyRead`, `CopyWrite` | `copyInitialData` 114-160 in one of the server's threads, `getSourceRecords` 200-219 |
| `AskCopy`, `AskedCopy` | the page's request for a copy, and one of another page |
| `ClickSetup`, `SetUp`, `SetUpFails`, `ClearFeedback` | `setupMigrationSource`, `setupSourceDatabase` 42-79, of which a part may be all that is done (`Rebuild`) |
| `Elsewhere` | every action of `CDCPipeline`, and requests of other pages or ones this page has given up: streams, copies, set-ups, a target cleared or prepared |

`RequestFails` ends the workflow at the page only: a copy the server has begun is read and
written whoever waits for it.  A request that reaches the server after the page has given
it up is one of `Elsewhere`.

`kept` is a history variable: the rows a copy has written as the source has them and that
nothing the property exempts has touched since.  `Threatened` are the keys for which an
update or delete of the database being streamed is on its way; a row leaves `kept` when
the source changes it, when its order_id becomes threatened, when an older copy writes it
differently, and when the target is cleared or prepared.

### MC modules

`MCCDCPipeline`, `MCStreamControl`, `MCReplicationService`, `MCEventFeed`,
`MCDashboard` and `MCMigration` name the budgets, the views and the symmetry sets the
configurations use.

### Proof modules

`CDCPipelineProofs`, `EventFeedProofs`, `ReplicationProofs`, `StreamControlProofs`,
`DashboardProofs` and `MigrationProofs` prove theorems about the module each is named
after (section 5); each extends that module and `MigrationProofs` also
`CDCPipelineProofs`, whose lemmas it uses.

## 3. Runs

All passing runs are exhaustive for their bounds.  A `Budget` bounds the user
requests and faults of a behaviour; it never bounds deliveries or the consumer.

| Run | Configuration | Shows | Bounds |
|---|---|---|---|
| `data_path` | `CDCPipeline_faults` | `TypeOK`, `TargetMatchesSource`, `NothingInvented` with a restart with the same or the other database, a connection lost or given up, misread rows, a cleared target | two databases with different tables, two keys, rows that are plain, have user_id 0 or are misread, two changes of one database, batches of one or two records, two starts |
| `catch_up` | `CDCPipeline_liveness` | `CountersAgree`, and `StreamCatchesUp` under `FairSpec`, with a loss, a failing statement, records of unknown type and a reset | one key, two changes, one start |
| `repl_serial` | `ReplicationService_serial` | `TypeOK`, `OneTimer` for one request thread beside the timers | two enables, a disable, a manual sync, a switch, an insert, one failure, two executors |
| `repl_concurrent` | `ReplicationService_concurrent` | `SafeSwitchLosesNothing`, `InsertsNeverCollide`, and `TimerHeals` under `FairSpec`, for two request threads, a timer and the generator | an enable, a disable, a switch, an insert, a change or insert through the proxy |
| `stream_serial` | `StreamControl_serial` | `TypeOK`, `JobsAreControlled`, `CleanupLeavesNothing` for one request thread | four starts and stops, three failing calls, `close()` among them, two lost answers, one lost connection |
| `event_feed` | `EventFeed_feed` | `TypeOK`, `ConnectionIsPursued`, `ConnectedIsTrue`, `FeedIsComplete`, `RowsInOrder`, the refinement `ShowsLatest`, and `Reconnects` under `FairSpec` | two WebSockets, two events, a table of two rows, two messages under way, one refused handshake, two broken connections |
| `page` | `Dashboard_page` | `TypeOK`, `IntervalsAreHeld`, `StreamButtonsExclude`, and `PageConverges` under `FairSpec` | every element, two calls of a function or command in flight, three budgets of clicks, tab changes, failures and changes by others, one of which a behaviour keeps to |
| `migration` | `Migration_workflow` | `MigrationTypeOK`, `TargetMatchesSource`, `NothingMadeUp`, `MigratedRowsStay`, `ButtonMeansWorkflow` | two databases, two keys, two rows of which one is misread, one change of each database, two copies at a time of one row each, two starts of the stream, one clearing of the target, and two in all of clicks, other pages' copies and set-ups, and changes of the databases |

Why these bounds are enough to mean something: a violation of `TargetMatchesSource`
needs one key, a snapshot and two changes on either side of a restart or replay;
one of `SafeSwitchLosesNothing` needs a switch, a sync across it and an insert;
two executors are the first number at which one can be leaked.  Two WebSockets are
the first number at which an old `onclose` meets a new connection and two events
the first at which one can be lost, doubled or out of order; a table of two rows
overflows when a third event, or the placeholder, is pushed.  Two calls of a
function can overtake each other, and two threads that copy are the page's and an older
one.  `CopyLimit = 1` with two keys is a copy that leaves rows to the stream.  Two
databases are what a restart, and an old stream beside a migration, can confuse.  Every property
has a mutant in `PROJECT.json`, a plausible bug in the modelled code with which
the same run finds it violated.

Violation runs check what a document or comment of the repository says; the code
behaves otherwise.

| Run | Statement | What the code does |
|---|---|---|
| `zero_user` | 100% consistency for all DML operations (CDC-INCREMENTAL-SYNC-POC.md:269) | rows with user_id 0 are dropped |
| `stream_concurrent` | stop the job at the proxy (CDCClientService.java:179) | overlapping starts and stops leave a job running |
| `repl_loss` | a switch loses no data (READ-WRITE-SPLITTING-POC.md:375) | the sync after a switch deletes rows the new write database never saw |
| `repl_timer` | automatic sync every 5 seconds (:110) | a sync that fails leaves replication on without a periodic task |

Other statements the models contradict without a run of their own:
CDC-INCREMENTAL-SYNC-POC.md:269 also fails after a restart, which leaves rows in the
target that were deleted or changed while streaming was off; js/app.js:1492 ("Check
if it's a success message") looks for the word "streaming", which the text of a
failed start contains too, so that the page announces a migration whose stream does
not run (`Answers`, `TakenForSuccess`); README.md:414
says that CDC sends no initial snapshot (every start sends one, `ReadInventory`);
READ-WRITE-SPLITTING-POC.md:111 says that disabling isolates the databases (a sync
past its `Check` runs on), and :441 that inserts never meet duplicate keys
(overlapping ones do: `ResetMax` of one, `InsertRow` of the other, `ResetSetval` of
the first).

`CHECK_DEADLOCK FALSE` is in every configuration: budgets run out and users may
stop making requests, so a quiet system is a normal end.

## 4. Fairness

`CDCPipeline`: weak fairness of the job's steps and of the consumer's steps,
which are threads of the proxy and of the client library that keep running.
Nothing is assumed of users, of the source or of connections; the number of
losses is bounded, and a connection that is given up ends what `StreamCatchesUp` asks.  `ReplicationService`: weak fairness of each executor's thread
(`scheduleAtFixedRate` runs a task as long as it is not cancelled) and of each
request thread once it has taken a request.  `StreamControl` and `Migration` have no liveness
property.  `EventFeed`: weak fairness of the browser (handshakes, closes, arriving
messages, the reconnect timer) and of the two threads while they broadcast; nobody
has to produce an event, and refused and broken connections are bounded: a network
that breaks for ever does not let anyone be connected for long.  `Dashboard`: weak
fairness of the permanent intervals and of those set (`setInterval` fires as long as
it is not cleared), of every call in flight (a request is answered or lost) and of
every command in flight; nobody has to click.  Nothing is assumed of the statistics
messages: they come from a periodic task of the server (CDCClientService:73, 720) that
an exception of `broadcast` cancels for good (`EventFeed`'s `Collide`), and while the
stream runs the polls do not ask for what they bring.  `PageConverges` therefore says
nothing of the totals on the dashboard while the stream runs: the code does not keep
them up to date then.

## 5. Proofs

Every invariant that a passing run checks, and the refinement, is proved for every value
of the constants that satisfies the module's assumption: any sets of keys, rows, threads,
executors and WebSockets, any bound and any budget of requests and faults.  Three of them
(`OneTimer`, `JobsAreControlled`, `CleanupLeavesNothing`) speak of
requests made one after the other and are proved under that hypothesis.  The runs check
the same definitions on small instances.

### CDCPipelineProofs

* `TypeCorrect`: `Spec => []TypeOK`.
* `TargetMatchesSourceTheorem`: `Spec => []TargetMatchesSource`.
* `NothingInventedTheorem`: `Spec => []NothingInvented`.
* `CountersAgreeTheorem`: `Spec => []CountersAgree`.

`TargetMatchesSource` is not inductive: it only speaks of a stream that has
caught up.  The inductive invariant `IInv` (theorem `Inductive`) says how the target
trails the source at any time.  `HistInv`: log and history belong together, and after
the position of a running job the log is one a database can produce.  `JobInv`: the
job's positions are ordered and its snapshot rows are rows the source had at or after
`from`.  `BatchInv`: the records in hand are snapshot rows or consecutive changes and
close the gap between what the target has seen (`SeenUpTo`) and what the job has sent.
`MainInv`: the target's row of an undamaged key is one the source had at or after
`SeenUpTo` (`Follows`).  The last is what makes replay harmless: the target may be ahead
of what it is being sent again, never behind.  The heart of the proof is `RestApply`: a
statement without effect (an insert that conflicts, an update or delete of a missing
row, a record without a case) means that the target is already past that change.  When the stream has caught up,
`SeenUpTo` is the end of the log and `Follows` becomes equality with the source.

`HistInv` asks for a log that a database can produce only from the running job's
position on.  In `CDCPipeline` alone more is true; a source table that is dropped and
created again between two jobs (`Migration`) leaves this much, and it is enough.

`NothingInvented` needs an invariant of its own (`SeenInv`), since it also holds
for damaged keys: every row in the snapshot or in hand is one a database had under the
same key, and the target holds what the decoder makes of such rows, whichever database
was streamed before.  `CountersAgree` needs to know how far a reset has come
(`CounterInv`): a counter that has been set to 0 already has since counted only events
the reset raced with, so that after the last store total and sum are apart by no more
than those (`Balanced`, proved for each kind of step on plain numbers).

### EventFeedProofs

* `TypeCorrect`, `ConnectionIsPursuedTheorem`, `ConnectedIsTrueTheorem`,
  `FeedIsCompleteTheorem`, `RowsInOrderTheorem`: the invariants of the run
  `event_feed`.
* `Refinement`: `Spec => ShowsLatest`, that is, `EventFeed` implements `EventTable`.

Typing needs `SomeEvent` (no broadcast is under way before the first event), else the
payload 0 could be sent.  The refinement needs `RowsFit` and the lemma
`PushAndDrop`: pushing a row on a full table and deleting the last one is the row
on top of all but the last.  Completeness and order need `FeedInv`.  `JoinInv` says
who takes part: an accepted WebSocket is in `sessions`, one that is not accepted yet
has nothing under way and is in no iteration.  `OrderInv` says that what is under way
on a WebSocket is increasing, later than what it has brought and earlier than an
event still to be sent to it; `CompleteInv` that without a collision nothing is
missing in between; `TableInv` that with one WebSocket at a time the table holds
nothing later than what the WebSocket has brought.  Every step of the system is, for
each WebSocket, one of six (`StepFor`: it keeps, joins, breaks, takes, is announced
or is given an event), and each part of the invariant is proved for those six.

### ReplicationProofs

* `TypeCorrect`: types, and that the rows a thread has read have one key each.
* `SafeSwitch`: `Spec => []SafeSwitchLosesNothing`, for any number of request threads
  and executors.
* `NoCollisions`: `Spec => []InsertsNeverCollide`, for any number of request threads
  and executors and with the generator's inserts.  The exemptions are in the property: it
  holds up to the first unsafe switch, failed reset, or row between the halves of a reset.
* `OneTask`: `OneTimer`, under the hypothesis `OneClient` (at most one request thread, any
  number of executors).  It is the scope the property has in the module, and it is needed:
  overlapping requests leave a second periodic task or none (run `repl_timer`).

The model treats a method as a sequence of single accesses, so an invariant has to say
what every thread between two accesses still relies on.  `SwitchInv` does so for
acknowledged rows: with no switch in progress (`Settled`) a sync about to delete or to
insert has the read database as its destination and an insert has the write database as
its own; during one (`InSwitch`), replication is off, every other thread is idle or about
to look at the flag, and both databases hold the acknowledged rows, so that whichever
URL is exchanged first nothing is lost.  `KeyInv` follows every insert from `ResetMax` to
`InsertRow`: the number it carries, and then the sequence, is beyond every key of the
table it will write to, whatever other inserts and the generator's add meanwhile, since
the sequence they draw from moves on with them.  `ExecutorInv` says that whoever is about to create an executor
finds none and replication on.  `NextIdIsBeyond` is what the `MAX(order_id) + 1` of
`resetSequence` promises.

The proof of `TypeCorrect` asked for `MaxId > 0` in `ReplicationAssumption`: the initial
states hold a row, which needs a key.

### StreamControlProofs

* `TypeCorrect`: types, and that a thread's local variables fit the place it is at, for
  any number of threads.
* `Controls` and `CleansUp`: `JobsAreControlled` and `CleanupLeavesNothing`, under
  `OneThread`, which is what the two properties speak of; run `stream_concurrent` shows
  what two threads do.

`SerialInv` (theorem `Serial`) has, for the one thread, a part for each concern: the
client its calls use is the one of the field, and once there is a job the service is
connected until `cleanup` has closed the connection (`ClientInv`), the flag agrees with the
place it is at (`FlagInv`), id and database of the fields belong to the known job or are
about to (`FieldsInv`), every other running job has cost a lost answer (`CountInv`, an
argument about cardinalities: a job joins the unknown ones only in the step that loses
the answer), and after a `cleanup` that did not fail none runs (`CleanInv`).  `Controls`
does not depend on the outcome of `close()`; `CleansUp` speaks of a service that reports
no connection, which a failing `close()` prevents.

### DashboardProofs

* `TypeCorrect`, `HeldIntervals` (`IntervalsAreHeld`), `ButtonsExclude`
  (`StreamButtonsExclude`), from the inductive invariant of theorem `Inductive`.

The types need `IntervalsAreHeld`, because a count of intervals is decremented.
`StreamButtonsExclude` needs to know what can still arrive: a poll in flight holds one of
the three states of the stream (`StreamStates`, which in turn needs that a command in
flight concerns the element, `CommandsFit`), and a start is either successful or lost
(`StartsFit`).

### MigrationProofs

* `MigrationTypeCorrect`, and `PathInvariance`: the types and the invariant `IInv` of the
  data path hold with the workflow's requests in between; hence
  `MigratedTargetMatchesSource`.  Every step is one of the data path, or prepares the
  target, copies or sets up a source (`StepKinds`); `RestCopied` is the argument for the
  copy: rows that are the source's now may appear in the target at any time.
* `MigrationInventsNothing`: `NothingMadeUp`, with `CopySeen` for the rows between the
  two halves of every copy under way.
* `MigratedRows`: `MigratedRowsStay`.
* `ButtonFollowsWorkflow`: `ButtonMeansWorkflow`, which is inductive by itself.

`MigratedRowsStay` speaks of rows that have been copied.  `KeptInv` also speaks of those
a thread has read and not yet written, and says why nothing replaces either
(`Secure`): the row is the source's now and no update or delete for its order_id is on
its way, from whichever database is streamed; a snapshot row is inserted where a row is
already and has no effect, and another copy either has the same row or takes the key out
of `kept`.

### Not proved

`StreamCatchesUp`, `TimerHeals`, `Reconnects` and `PageConverges` are liveness under
fairness, which the prover cannot do; they are model-checked only.  The properties of the
violation runs are false.

## 6. Not modelled

* The bytes of the decoders: varint shifts, the length byte of strings, time stamps.
  What they do to a row is the constant `Decoded`.
* The generator's thread and its choice of a database (planned, below).
* The contents of statistics messages (`Dashboard` shows one in the figures it replaces;
  `EventFeed` has their sending only), and what a row of
  `cdcEventsTable` shows of its event.
* Of the migration: `verifyMigration` and `verifySync`, which change nothing and
  compare two counts, each 0 after an `SQLException`; `clearSourceDatabase`, which is
  the deletes of `CDCPipeline`; set-up under a running job of the migration's source,
  since what the proxy makes of a dropped table is not in the repository; a
  `prepareTargetDatabase` whose DROP is committed and whose CREATE fails, which leaves no
  table at all: every later statement fails until the target is prepared again.
* Of the page: `stopMigration` (the served page has no button for it, and the endpoint it
  posts to does not exist), `manualInsert`, `connect`,
  `resetStatistics`, `addEvent`, `updateRecordCount` (their elements are not in the
  page), `searchReadDatabase` (one read and its rendering), notifications, and the
  rendering of cells.  When the server is not
  connected, `updateCDCStatus` (606) disables both buttons of the stream and the page
  has no other; that this is a dead end without a restart is in the model, and no
  property says otherwise.
* `js/app-rw-functions.js` and `app.js` beside the Java sources: older copies of parts of
  `js/app.js` that no page loads.
* Data classes, scripts, containers, the vendored proxy; of the controller, the
  endpoints that no page calls.

## 7. Plan

Done: `CDCPipeline`, `StreamControl`, `ReplicationService`, `EventFeed`, `Dashboard`,
`Migration`, and proofs of their invariants.  Next, in this order:

1. `TableCopy`, an abstract specification of an at-least-once copy, implemented by
   `CDCPipeline` under a refinement mapping, first checked and then proved.
2. `Generator`: its executor and flag as in `ReplicationService`, and the choice of
   the database composed with `StreamControl`.
3. Action properties of the replication service: what a single step may never do to the
   write database.
4. Verification: a property that says what equal counts may be taken to mean.
5. `ProtobufDecoder`: the decoders as functions over byte sequences with 32-bit
   wrap-around, checked against a reference encoding.
6. Overlapping jobs in the data path: `CDCPipeline` with several jobs, driven by
   `StreamControl`.
