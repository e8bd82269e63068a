# Verification of the vehicle data service

The service fetches the list of vehicle makes and the vehicle types of each make
from the NHTSA API, stores them in PostgreSQL, announces the progress of an
ingestion on a RabbitMQ exchange and serves makes and jobs over GraphQL. This
directory holds TLA+ modules of the parts where concurrency, failure and order
decide whether it is right, the TLC configurations that check them, and proofs.

## Inventory

| Component (source) | State it keeps | Operations | Talks to |
|---|---|---|---|
| Ingestion job aggregate (`core/domain/entities/ingestion-job.entity.ts`) | status, three counters, errors, completion time | `create`, `start`, `incrementProcessed`, `recordFailure`, `complete`, `fail` | nothing; throws out of order |
| Ingestion use case (`core/application/use-cases/ingest-vehicle-data.use-case.ts`) | locals of a call: job, feed, types map, retry counter | `execute` | job and make repositories, API client, publisher |
| Ingestion job repository | table `ingestion_jobs` | `save`, `hasRunningJob`, readers | PostgreSQL |
| Vehicle make repository | tables `vehicle_makes` (unique `make_id`), `vehicle_types` | `saveMany` in chunks of 50, `findAll` by cursor, `findByIds`, filters | PostgreSQL |
| Vehicle queries (resolver, query service, use cases) | none | `vehicleMakes`, `vehicleMake` | make repository |
| Transformation, vehicle entities (`transform-xml-to-json.use-case.ts`, `vehicle-make.entity.ts`) | the types of an aggregate | filter, merge, deduplicate; `addVehicleType`, `removeVehicleType`, `updateVehicleTypes` | nothing |
| Event publisher | one confirm channel for all callers | `publish`, `publishWithRetry`, `publishMany` | RabbitMQ |
| Event consumers, topology | queues, unacknowledged messages | `handleIngestionStarted`, `handleError`, `handleEvent` | RabbitMQ, use case |
| NHTSA client | two circuit breakers | `getAllMakes`, `getVehicleTypesForMake`, retries with backoff | HTTP |
| XML parser | none | `parse`, `extract` | nothing |
| Status readers (ingest-data service, ingestion resolver) | none | `triggerIngestion`, `getCurrentIngestion`, history | job repository, use case |
| Vehicle type loader | a cache per request | batch function | make repository |
| REST interface, health, GraphQL plugins, configuration, logging | none or fixed at start | | |

How they interact: a GraphQL mutation (or a consumed event) calls `execute()`,
which alone writes both tables and alone publishes. All calls of a process
share one event loop: a call runs undisturbed between two `await`s and anything
may happen at an `await`. Readers see the tables only.

What is hard, and what makes each part correct:

- `execute()` checks for a running job and creates its own in two awaits, saves
  and publishes in pairs that can fail one by one, runs a catch block that can
  itself throw, and leaves everything as it is when the process dies. It is
  correct if the row, the event and the makes never contradict each other, a
  finished row stays as it is, and every call ends with an outcome.
- `saveMany` commits chunk by chunk against a unique key while another ingestion
  does the same. It is correct if a success means that everything is stored.
- The cursor walk meets inserts between its pages. It is correct if it misses
  nothing that was there when it began, repeats nothing, and ends.
- The client retries inside a breaker that is itself retried, and the breaker's
  timeout abandons tasks that go on. It is correct if every fetch ends, late
  answers disturb nobody, and the breaker closes again after an outage.
- The consumer acknowledges after the work, and its work publishes the event it
  consumes, while the broker may take its channel away and give the message to
  somebody else. It is correct if an ack stands for an outcome and nothing is carried
  out twice but for a redelivery that the broker cannot avoid.
- The publisher's confirms are shared by all callers of one channel. It is
  correct if a call that resolves has its own events on the exchange, fails only
  for a cause of its own, and is not kept waiting by the others.
- The audit consumer writes before it acknowledges. It is correct if every
  confirmed event is logged, in order, and twice only if an ack was lost.
- Makes and types are filtered, merged, deduplicated and joined in many places.
  They are correct if the tables, a search and the type loader all tell what
  the API answered.
- `ingestionStatus` takes two queries while jobs start and end. It is correct if
  it misses no job, never goes from a job to an older one that does not run, and
  never takes back what it told about one.

`PROJECT.json` lists every hazard at its line with the properties that watch it.

## Plan

1. *(done)* `IngestionJob`, `IngestionLedger`, `IngestVehicleData`: the
   aggregate, the promise to the readers, the use case; refinement, proofs.
2. *(done)* `VehiclePagination`: the cursor walk under inserts.
3. *(done)* `NhtsaClient`: breaker, timeout, inner and outer retries, outages.
4. *(done)* `IngestionSystem`: the consumer and its queue composed with the
   ledger.
5. *(done)* `EventPublication`, `ConfirmChannel`, `AuditTrail`: publishers that
   share `waitForConfirms`, what they promise, and the events' way into the log.
6. *(done)* `VehicleMake`, `Transformation`, `VehicleCatalogue`: the data from
   the answers of the API to the answers of GraphQL.
7. *(done)* `StatusReader`: the two reads of `getCurrentIngestion` beside
   `execute()`.
8. *(done)* Proofs: the safety of the confirm channel (`ConfirmChannelProofs`)
   and of the log behind it (`AuditTrailProofs`), the walk's completeness and order
   (`VehiclePaginationProofs`), the consumer with its queue (`IngestionSystemProofs`), the
   accounting of makes and the completeness of what is stored (`IngestVehicleDataProofs`),
   what the readers are told (`StatusReaderProofs`), the way of the values from the answers
   of the API to the tables and to the answers of GraphQL (`VehicleCatalogueProofs`).

## Modules

| Module | Models | Notes |
|---|---|---|
| `IngestionJob` | the aggregate | a record; one operator per method, its precondition beside it |
| `IngestionLedger` | nothing in the code | the promise: states of a row, events announced at most once and never ahead of it |
| `IngestVehicleData` | `execute()`, the two tables, the exchange | one action per awaited operation |
| `MCIngestVehicleData` | | feeds for TLC |
| `DocumentedIngestion` | | statements of the documentation that the code does not keep |
| `IngestVehicleDataProofs` | | theorems |
| `VehiclePagination`, `MCVehiclePagination` | `findAll()` and a walking client | the page and the count are two reads |
| `VehiclePaginationProofs` | | theorems |
| `NhtsaClient` | the NHTSA client, `retryWithBackoff`, `fetchWithRetry` and the breaker between them | one breaker, several loops |
| `NhtsaClientProofs` | | theorems |
| `IngestionSystem`, `MCIngestionSystem` | `IngestionEventConsumer`, its queue, `execute()` seen through `IngestionLedger` | |
| `IngestionSystemProofs` | | theorems |
| `EventPublication` | `IEventPublisherPort` | the promise: what a caller of the port may rely on |
| `ConfirmChannel` | `RabbitMQEventPublisher` on its one channel | implements `EventPublication` |
| `ConfirmChannelProofs` | | theorems |
| `AuditTrail`, `MCConfirmChannel` | `AuditLogConsumer` and its queue behind `ConfirmChannel` | |
| `AuditTrailProofs` | | theorems |
| `VehicleMake` | the make with its types, and its mapping to rows | pure operators |
| `Transformation` | parser shapes, `TransformXmlToJsonUseCase`, `createDomainModels` | pure operators |
| `VehicleCatalogue`, `MCVehicleCatalogue` | an ingestion of values, the queries, the type loader, the search | |
| `VehicleCatalogueProofs` | | theorems |
| `StatusReader`, `MCStatusReader` | `IngestDataService`, the ingestion resolver | extends `IngestVehicleData` |
| `StatusReaderProofs` | | theorems |
| `DocumentedDelivery` | | what tests and documentation say of the consumer and the code does not keep |

A definition named `X_Y` is `X` with the fault `Y` seeded; it is used only to
show that a property notices such a fault.

### IngestVehicleData

| State | In the code |
|---|---|
| `pc` | the `await` a call stands at; `resolved`, `conflict`, `rejected` and `crashed` are its ends |
| `job` | the `IngestionJob` instance of the call |
| `feed`, `fetched`, `models` | `externalMakes`, the keys of `typesMap`, the models that `saveMany` has still to insert |
| `pos`, `attempt` | the loop of `fetchVehicleTypes` and of `fetchWithRetry` |
| `jobs`, `makes` | the tables; a make's row says which call inserted it and whether with types |
| `events` | what the exchange has accepted or will accept from the channel's buffer |

Each action is one awaited operation with the code after it up to the next
`await`. Every operation on the database or the broker may succeed, fail without
effect, or fail after it took effect (a connection lost before the answer; a
`publish` rejected for a full buffer whose message goes out all the same).
`Catch` is the catch block up to its first `await`: `fail()` throws on a job that
is terminal in memory, and nothing catches that. `Crash` ends every running call.
`saveMany` inserts a chunk in one transaction: all of it, or nothing when a
`make_id` of it is stored already or occurs twice.

Abstracted: timestamps, messages, names and the vehicle types themselves (a row
says only whether the fetch of its types had succeeded); the NHTSA client is an
answer or a rejection. `Transform` cannot throw: `isValidMake` and
`isValidVehicleType` imply what the entities' `validate` asks for. Assumed: a
rejected save does not commit after a later save of the same row. `publish()` awaits
`waitForConfirms()` without a timeout, so a call may stand at one of the three
`Publishing` places for ever; nothing assumes that it moves on (see Fairness).

### VehiclePagination

A client asks for pages of `First` makes and follows `endCursor` while
`hasNextPage` is true. `Select` is the page query of `findAll()` with its extra
row, `Count` the count and the response, `Insert` a chunk of a running ingestion.
Nothing in production deletes makes (`deleteAll()` has no caller).

### NhtsaClient

| State | In the code |
|---|---|
| `phase`, `attempt` | where `fetchWithRetry` stands and its loop counter |
| `task` | the `retryWithBackoff()` of every call: sending a request or sleeping, and its own counter |
| `circuit`, `pendingClose`, `window` | the breaker: its state, whether the probe is still to come, what its statistics hold |
| `healthy`, `late` | whether the API answers, and which calls an outage has touched |

The breaker is the opossum library with the four options of
`circuit-breaker.config.ts`: `Timeout` rejects a call and leaves its task running,
`FailuresOpen` is the threshold, `HalfOpen` the reset timeout. The sliding window
may have forgotten any part of what it counted whenever it is looked at. What goes through
the breaker is a call, so the one probe that `ProbeIsAlone` speaks of is one call of up
to three requests; `error-handling.feature:48` has a single test request. An answer 4xx
or one that does not parse is read as an outage of the API (`TaskFails`). Clocks
are left out except for one fact: a call's timeout is not longer than the reset
timeout (both 30 s), so nothing fired before the breaker opened is still awaited
when it is half-open. This is where the "answers or rejects" comes from
that `IngestVehicleData` assumes of the client: a call that an outage has touched
ends by the timeout of the breaker if by nothing else.

### IngestionSystem

Every `execute()` that passes its check is named by the job it creates; a message
is named by the job whose Started event it carries. The row and the events of a
job take the steps of `IngestionLedger`, which `execute()` is proved to take and no
others. `Deliver` hands over one message at a time (`prefetchCount` 1), `Execute`
is the handler's call of `execute()`, `Refused` and `Failed` are the two ways
into `handleError`. `headers` is the broker's copy of `x-retry-count`; nothing writes it.

The broker gives an unacknowledged message back for two reasons. `Crash` ends every
handler and every `execute()`. `LoseChannel` ends none: a connection breaks, or an
ingestion outlasts the consumer timeout, the consumer gets another channel, and the
handler of the old one goes on. `Channels` numbers the channels, `current` and `run` are
what the handler of each one has. When such a handler is over, its `channel.ack` throws
inside the `try`, `handleError` is called, and its `nack` throws as well: `Settle` then
leaves the broker alone. So two ingestions may work for one message, one per channel, and
that is what `OneAtWorkPerChannel` and `NoDoubleProcessing` count. Assumed: a consumer
that has lost its channel gets one again. One that gets none stops, and does nothing wrong.

The sources wire this twice and differently: `rabbitmq-topology.ts` declares the
queue with a TTL and a dead letter exchange and binds it to `ingestion.started`,
the subscription declares it without arguments and binds it to
`ingestion.job.started`, the key of the event; and no module of the application
imports `MessagingModule`. The model takes the arguments of the first and the
binding of the second, which is the system the consumer's tests describe.

### EventPublication, ConfirmChannel, AuditTrail

| State | In the code |
|---|---|
| `pc`, `event`, `attempt` | where a call stands, the event of `publishMany()`, the counter of `publishWithRetry()` |
| `msgs` | what was queued on the confirm channel, by delivery tag |
| `awaits` | the unconfirmed tags that a `waitForConfirms()` looks at |
| `open` | the channel; nothing reopens it |
| `queue`, `acking`, `log` | the queue `vehicle.audit.log`, an ack on its way, the entries |

`publish()`, `publishWithRetry()` and `publishMany()` are one loop with different
limits. `Send` queues a message and looks at the flag of the write buffer: full, the
try fails although the message goes out. `Confirmed` and `Nacked` are the two ends of
`waitForConfirms()`, which takes in the messages of other callers and those of tries
that were given up. The broker reads in order, refuses or takes, and answers in any
order; `Close` loses what is not written. The channel is amqplib's as the publisher
uses it. `ConfirmChannel` implements `EventPublication`: the copies of an event on the
exchange never exceed its tries, its events arrive in order, and a call resolves only
with all of them there.

`AuditTrail` routes what the exchange takes into the consumer's queue. `handleEvent`
writes the entry and sends the ack, `Acked` is its arrival, `LoggingFails` the nack
with requeue. `LoseAck` is a death or a lost channel between entry and ack; `AckThrows` is a
delivery whose channel is gone already: the entry is written, the ack throws in the `try`,
and so does the nack of the catch block.

### VehicleMake, Transformation, VehicleCatalogue

The first two translate methods to operators: a method that throws has its
precondition beside it, dates become the flag `touched`, a name is a member of
`Names` or something `validate()` refuses. `VehicleCatalogue` takes them through an
ingestion: `GetAllMakes`, `FetchTypes` per make (which may fail), `CreateModels`,
`SaveChunk` against the two unique keys. Beside it runs one GraphQL request, a page
(`QueryMakes`) or one make (`QueryMake`), then a batch of the type loader over rows
in any order (`LoadTypes`). `CatalogueIsTheFeed` is the reference definition: it says
of the elements of the answers what the tables should hold, without the steps that
get them there. `findByFilter` is the search. `filter`, `InOrder` and the sorted page are
written by the places that are kept and not with `SelectSeq` or `SortSeq`, which have no
definition a proof could use.

Which failures end an ingestion is left to `IngestVehicleData`; here the values are
followed and a failed fetch only leaves a make without types.

### StatusReader

`FindRunning` and `FindLatest` are the two queries of `getCurrentIngestion()`, one
await apart, `FindById` is `ingestionJob(id)`. `startedAt` orders the jobs and may tie.
`answer` is the last thing a client was told: the DTO of the row (`toDTO`) as the
resolver tells it (`toGraphQL`), with the rounded `progress`. `request.known` remembers the jobs there were at the first query,
and `disturbed` whether the database or the broker ever rejected: both are there for the
properties only. `CurrentIsNotStale` is about both queries: the first one may answer with
an older job that runs although a newer one is PENDING, the second with the newest of all.

## Runs

| Run | Instance | Shows |
|---|---|---|
| `ingestion` | 2 calls, 4 feeds, chunk of 2, 2 retries, all faults, 1 crash | the invariants, the action properties, the refinement of the ledger; every call ends, or awaits one publish for ever |
| `pagination` | up to 6 makes, pages and chunks of 2 | a walk is complete, ordered, counts what it has shown and ends |
| `nhtsa_client` | 2 loops, 2 attempts of 2 requests, a threshold of 2 | no fetch hangs, a probe is alone, abandoned tasks are harmless, the breaker recovers |
| `ingestion_system` | 2 triggers, 3 jobs, 1 crash, 1 lost channel | one ingestion works per channel, an ack stands for an outcome, nothing is carried out again but for a redelivery, an orphaned row stops everything |
| `confirm_channel` | a `publishWithRetry()` of 2 tries beside a `publishMany()` of 2, 1 ack lost or thrown | a resolved call has its own events on the exchange, a failed one its own cause, nobody waits for ever on an open channel; the log is ordered, complete and repeats only for that ack |
| `vehicle_catalogue` | all feeds of up to 2 makes and one of 3, answers of up to 2 types | the transformation never throws, tables, loader and search tell what the API answered, types stay unique |
| `status_reader` | 2 calls, 1 client, a feed of 1 make, no retries, all faults, 1 crash, ties of `startedAt` | what a client is told of a job never goes back, the current job is the newest running one or as new as any it may expect, a job that no database or broker failure or crash disturbed gets its outcome and its event |

Bounds. Two calls are enough for every race of the use case: they interact
through `hasRunningJob`, the unique key and a crash, each between two of them.
The feeds hold no make, more makes than a chunk (so that a later chunk can
fail), a make that is dropped, and a make that occurs twice in one chunk. `MaxRetries` is the code's 2. A second crash would find
the same kinds of rows as the first. Six makes give a walk of three pages with
inserts before, at and behind the cursor. Two loops have a probe and a competitor,
an awaited task and an abandoned one; two requests per attempt and two attempts
have a last one and one before it. Three jobs are an ingestion, the one its
message sets off, and the one that a redelivery or the second message does. One lost
channel puts two handlers side by side, and with the crash a message comes back twice; a
retry limit of 1 differs from 3 only in how often it would count. Two publishers
have four messages between them: one's own and another's, before and after, retried
and not; a second closing cannot happen. Feeds of two makes with colliding, invalid and
empty elements have every pair of a make and its neighbour; pages of two and chunks of
one let a page fall between two chunks. One client is enough for the readers, who
write nothing; `MaxRetries` is 0 and the feed is one make there, because no reader sees
an attempt or a chunk, and no row a part of the counters; the makes of the two calls collide all the same. `ingestion` has the code's 2 retries and four feeds.

Fairness. `FairSpec` of the ingestion assumes that every awaited operation but
`publish()` answers in the end, with a result or an error, and that the event loop
resumes the call; it does not assume that anybody calls `execute()`, that anything
succeeds, or that the process lives. The client of the API settles by its breaker's timeout
(`FetchSettles`); that a query ends when its connection does is an assumption about the
driver of the database. `publish()` awaits the broker's confirms without a timeout, and
a closed channel tells nobody who waits, so nothing is assumed of it: `CallsSettle`
says that a call ends or awaits one and the same `publish()` for ever, and
`UndisturbedJobsGetAnOutcome` makes the same exception. `FairSpec` of the
pagination assumes that requests are answered, never that an ingestion runs: the
walk ends because each page moves the cursor over a finite set of makes.
`FairSpec` of the client assumes that timers fire and that a healthy API answers;
an API that is not healthy may never answer. No loop need begin another make.
`FairAuditSpec` assumes that the event loop resumes a call whose promise is settled,
that a broker reads and answers what it is sent while the channel is open, and that it
delivers what is queued; the entry of the audit log is written in the end. It does not
assume that who waits is told of a closed channel: `PublishSettles` promises nothing
then, which is why `IngestVehicleData` assumes nothing of `publish()`. `FairReaderSpec` is that of the ingestion; nobody need ask.

Deadlock is checked for the client, which can always go on. It is not checked
elsewhere: all calls over, a walk that is done, or no job left to create is where
these systems stop.

## What the code does not keep

Each of these runs checks one statement of the documentation and ends with the
trace of the code that contradicts it.

| Run | Statement | What happens |
|---|---|---|
| `concurrent_ingestion` | no second job while one runs | the check counts IN_PROGRESS rows only and is apart from the save |
| `stuck_job` | a critical failure ends in FAILED | the save of COMPLETED fails, `fail()` throws in the catch block, the row stays IN_PROGRESS |
| `message_retries` | a message is dead-lettered after three retries | the count is written to the delivered copy, the requeued one stays at 0 |
| `running_progress` | a running job shows how many makes are processed (`docs/API.md:481-488`) | the counters stay in memory, the row of a running job says 0 |
| `endless_ingestion` | the Started event carries out the triggered job | its handler creates another job, whose Started event creates the next |

Seen while modelling, without a run of their own:

- A rejected publish of the Started event fails the whole ingestion. A failed list of
  makes takes the row from PENDING to FAILED, a move that
  `docs/diagrams/domain-model.md` does not draw.
- `saveMany` commits chunk by chunk, so a duplicate in a later chunk leaves the earlier
  ones, where `error-handling.feature:57-61` has the operation rolled back.
- While the breaker is open the three attempts of a make take half a second and send
  no request, where `sequence-diagrams.md:96-109` has a request for each.
- A job with an empty feed completes at 0 percent.
- A call whose `publish()` waits on a closed channel hangs with its row not final; where
  it is IN_PROGRESS every later call is refused until somebody repairs the row.
- With two ingestions at once, `ingestionStatus` may go back from the newer job to the
  older one, as soon as only that runs. It tells nothing wrong about either.
- `toDomain` makes new errors of the stored ones: their times are those of the reading.
- A make's name of digits only becomes a number in the parser and is dropped by
  `isValidMake`, after it was counted as processed.
- `first: 0` gets a next page and no `endCursor`. The `filter` argument of
  `vehicleMakes` (`docs/API.md:852`) is ignored; a search by type would return makes
  with that type only, but no resolver exposes `search()`.
- `getIngestionHistory()` ignores `after`, and nothing exposes it. The REST module
  binds the ingestion port to a stub. `MessagingModule` is imported nowhere, and the
  topology and the subscription declare the same queue with different arguments,
  which a broker refuses.
- `removeVehicleType()` has no caller; a saved make that lost a type would leave the
  row of the type to TypeORM's handling of orphans.

## Proofs

`IngestVehicleDataProofs` proves, for every set of calls, feeds, chunk size,
number of retries and crashes and every set of failing dependencies, from the
assumptions of `IngestVehicleData` only:

- `TypeCorrect`: `TypeOK` is invariant. It is not inductive alone: a running call
  must have a job (`HasJob`).
- `CallsConsistent`, `AnnouncedIsDurable`: the inductive invariant is
  `IInv == Typed /\ Consistent /\ AnnouncedOutcomeIsDurable`. `Consistent` ties
  the control state of a call to its job, its row and its events; without it
  nothing keeps a save from overwriting a row that an event has announced.
- `TerminalRowsFrozen`: every save happens where `Consistent` says that the row is
  not final.
- `LedgerImplemented`: initial states map to initial states, a save to `Create`,
  `Begin`, `Abandon`, `Finish` or a stutter, a publish to an `Announce` or a
  stutter, every other step to a stutter.

The same module proves on top of that invariant, from the same assumptions,
`OutcomesAccount`, `CompletedIsStored` and `OrphansBlock`. The first two need
`OInv`, which follows a call from its feed to its row:

- `Counts`: the counters of the in-memory job add up to the position of the loop, with an
  error for every failure;
- `Knows`: every make the loop is done with was fetched or has an error, no other make
  is or has, and both hold only of a make that occurs at two positions;
- `Stores`: the valid positions that are not among the models any more are makes of
  this call, each at one position. It is what ties `Knows` to the table: the unique key
  refuses a make that occurs twice, so what was stored was fetched or has an error,
  never both.

`OInv` needs `Consistent` to tell which catch blocks still end in FAILED, and the row of a
success to be the job in memory even when its save was reported as failed.

`ResolvedOutcome` says that a call that resolved announced exactly the outcome its row
tells. `IngestionSystem` takes that of `execute()`; `ResolvedIsAnnounced`, with which it is
inductive, follows the ends of a call step by step (`StepEnds`).

`NhtsaClientProofs` proves, for every number of loops, retries and attempts and
every threshold and window, `TypeCorrect`, `AwaitedCallsRun` and `ProbesAreAlone`.
The inductive invariant adds `AttemptsInOrder`: attempts that have not begun have
no task, and a loop or a task that waits has a try left; without it an abandoned
task could be mistaken for the one a later attempt awaits.

`ConfirmChannelProofs` proves, for every number of callers, events and tries,
`TypeCorrect`, `ResolvedCallsAreAccepted`, `FailuresHaveCauses` and
`PublicationImplemented`. Its inductive invariant adds to `TypeOK`, `TriesLeft` and
`FailureHasACause`:

- `NothingAhead`: a call has queued nothing of events it has not come to;
- `WaitsForItsOwn`: a waiting call waits for its own last message and for nothing
  queued behind it, which is what lets a `waitForConfirms()` that all calls share stand
  for the confirm of one message, and what makes a nack the call meets one of an
  earlier message;
- `EarlierAccepted`: every event before the current one is confirmed, all of them when
  the call has resolved;
- `TriesCounted`: the messages of an event are no more than its tries, counting the one
  under way. Without it the exchange could get more copies than the abstract
  publisher allows.

In the refinement a call's own steps move what its caller knows, the broker taking a
message is an `Accept`, every other step is a stutter.

`AuditTrailProofs` builds on that invariant and proves `LogKeepsOrder` and
`RepeatsArePaid`, for every number of callers, events, logger failures and redeliveries.
The order of the log is not inductive alone; it needs

- `ArrivedInOrder`: what is queued or logged was taken by the exchange before every
  message that is still to come;
- `QueueAscends` and `LogIsBehind`: the queue keeps that order, also when a nack or a
  redelivery returns its head, and the log has nothing from behind the head;
- `RedeliveriesPay`: a repeated entry, or one that the next delivery will repeat, was paid
  for by an ack that was lost or thrown.

`NothingLost` says that queue and log together are what the exchange took, no less and no
more. It needs that the entry is written before the ack (`EntryBeforeAck`), and with
`ResolvedCallsAreAccepted` it gives `ConfirmedKept`, of which fairness makes the liveness
property `ConfirmedIsLogged`. `ConsumerIsHarmless` carries the theorems about the channel
over to the composition.

`IngestionSystemProofs` proves, for every set of jobs and any number of triggers,
retries, crashes and lost channels, `TypeCorrect`, `OneAtWorkPerChannelAlways`,
`AcksHaveOutcomes`, `RepeatsNeedRedeliveries` and `OrphansStopTheQueue`. Its inductive
invariant adds

- `Ledgered` and `Handled`: no row, event or message without a call, no resolved call
  without an outcome, and every call that runs for a message is awaited by the handler of
  a channel, open or lost. As a handler awaits one call, this bounds the ingestions at
  work by the channels there were;
- `Chained`: after one trigger the triggered job is alone at work and has announced its
  start before there is another; while the consumer keeps its channel, one job at most
  is unfinished, worked at or left behind. Counting the working ones is not inductive:
  it needs that an orphan, too, keeps a delivered message from getting past
  `hasRunningJob`;
- `Counted`: the ingestions that were carried out for a message or run for it, and the
  handlers of lost channels that may still begin one, are no more than the crashes and
  the lost channels, and one more once the message is acknowledged or its handler on the
  open channel is about to.

`VehiclePaginationProofs` proves, for every set of makes, page size and size of an
insert, `TypeCorrect`, `WalksAreComplete`, `PagesAscendAlways` and `TotalsCoverSeen`. The
inductive invariant adds `Ordered` (what was shown lies up to the cursor, the page
behind it), `Covered` (of the makes the walk began with, those up to the cursor were
shown and those up to the end of the page are on it) and `EmptyPages` (a page without a
make has no next page, unless pages of 0 were asked for: then the walk starts over for
ever and shows nothing). The lemmas under it are about the first rows of a sorted
table: they are downward closed, and fewer than were asked for are all.

`StatusReaderProofs` builds on the invariant of the ingestion and proves, for every number
of clients and calls, `PollsAreMonotonic` and `CurrentIsRunningOrNewest`.
The inductive invariant adds

- `RowIsWhole`: the row of an open job has counted nothing and that of a job that is over
  nothing or everything. It needs the counters in memory phase by phase, as a catch block
  may save them after any of them;
- `AnswerWas`: every answer was once the row. With `RowStep`, which says how a row may move
  on, it ties an old answer to the row of now, so the next answer can be compared to it;
- `KnownStands`: the jobs that existed at the first query are still stored at the second,
  each with the time it had;
- `Stamped`: the times of creation are bounded although nothing bounds the number of calls;
  without it the clock would have no latest reading.

`ReadersAreHarmless` carries the theorems about `execute()` over to the composition.
`UndisturbedOutcomes` is the safety half of `UndisturbedJobsGetAnOutcome`: an undisturbed call
can end in no other way than with an announced outcome, because neither the API nor a chunk
that collides ever makes `execute()` reject (`StepEnds`). That it ends is left to TLC.

`VehicleCatalogueProofs` proves, for answers of any length and every chunk and page size,
`NeverThrows`, `Catalogue`, `LoaderAgrees`, `SearchFinds` and `MutatorsKeepUnique`. It
assumes that an answer is a finite list of elements that are empty or an id and a name
(`FeedAssumption`; the id is any integer, the name anything) and that chunk and page are
not of size 0 (`SizeAssumption`). The argument has two halves. The first says what the
operators return:

- `SetInduction` is induction over a set of naturals, from the well-foundedness of strict
  inclusion on the subsets of a finite interval: the induction theorems of the library take
  an operator as parameter, which the provers cannot instantiate. It gives a fold over a
  sequence its equation (`FoldExists`, `Accumulates`) and a finite set of integers its
  order (`AscendingExists`);
- `Deduplicated`: a list without repeated ids, holding the first element of every id;
  `FilterIs`: the elements that pass, each once and in their order; `DistinctCount`: a
  list without repetitions is as long as its set;
- `Fetched`, `TransformedMakes`, `TransformedTypes`, `Built`: what parsing, both filters,
  the merge and both deduplications make of an answer is told in terms of the places of
  its usable elements.

The second is the inductive invariant
`IInv == AnswersFetched /\ ModelsBuilt /\ Stored /\ Shown`:

- `AnswersFetched`: `typesMap` has what the parser makes of the answer to every make that
  was answered. A second answer for the same make replaces the first, in both;
- `ModelsBuilt`: the models are the usable makes of the feed, all of them, each with the
  types of the last answer for it, once per type id. Until they are built nothing is stored, so an answer
  that is replaced is in no table yet;
- `Stored`: the rows are those of the first `saved` models and no two of them have one
  make id. Only so is every row of a type the row of one make, although the loader, the
  pages and the search find it by the uuid alone;
- `Shown`: a page and what was loaded for it are the types of stored models. Rows are
  only ever added, and with their types in one transaction: a page that was shown stays
  true until the loader reads.

Only model-checked is what is out of the prover's reach: the liveness properties, and the
statements of the documentation that the code violates, which are no theorems. Every safety
invariant and action property of a passing run is stated by a theorem.

## Not modelled

The REST interface (its module binds the ingestion port to a stub, so it answers
409 to every trigger), health checks, configuration, logging, GraphQL plugins,
the gateway and the containers keep no state that could go wrong over time. The
set-up of the topology runs once at start; its outcome is the initial state. `createNhtsaHttpClient`,
`getIngestionHistory`, `updateStatus`, `delete`, `deleteAll`, the statistics beyond
one count and the two validating use cases of the makes have no caller that a client
can reach.
