# Verification of demo-hybrid-microservice in TLA+

The repository is a NestJS microservice that serves HTTP, WebSocket, gRPC, Kafka and RabbitMQ from one process
(`src/src/main.ts`, `src/src/bootstrap/bootstrap.ts`) and ships its own transport, shutdown, database, cache and
telemetry modules (`src/src/modules`). This directory holds TLA+ models of the parts whose correctness depends on the
order of events, configurations that model-check them with TLC, and proofs that TLAPS checks. Paths below are relative
to `src/src/modules` unless they start with `src/`.

| File | What it is |
| --- | --- |
| `KafkaServer.tla`, `MCKafkaServer.tla`, `KafkaServer*.cfg` | life cycle of one Kafka server |
| `KafkaServerProofs.tla` | its invariants for any number of consumers and activations |
| `GracefulShutdown.tla`, `MCGracefulShutdown.tla`, `GracefulShutdown*.cfg` | shutdown against start-up and traffic |
| `ShutdownPhases.tla` | what a shutdown promises; `GracefulShutdown` implements it |
| `GracefulShutdownProofs.tla` | its invariants, and the safety part of the refinement |
| `Migrations.tla`, `MCMigrations.tla`, `Migrations*.cfg` | migrations of several instances at start |
| `MigrationsProofs.tla` | their safety invariants for any instances, files and size of the pool |
| `RabbitMqServer.tla`, `MCRabbitMqServer.tla`, `RabbitMqServer*.cfg` | one RabbitMQ server: connection, channels, messages, close |
| `RabbitMqServerProofs.tla` | its safety invariants for any consumers, messages and calls |
| `KafkaClient.tla`, `RabbitMqClient.tla`, `ClientErrors.tla` | the two message clients, and what they make of exceptions |
| `KafkaClientProofs.tla` | that callers share one producer, for any callers and producers |
| `ClientRequest.tla` | one request of the HTTP or gRPC client with its retries |
| `Messages.tla`, `AsyncContext.tla` | messages of Kafka and RabbitMQ, their contexts and their answers |
| `IncomingRequest.tla` | requests to the HTTP and gRPC servers and WebSocket events: guard, interceptors, filters, spans |
| `ContextHops.tla` | one request through several services: headers to context to headers |
| `OnMethod.tla`, `MethodHooks.tla`, `Metrics.tla` | methods decorated for Prometheus and the ELK logger, their hooks, timers and metrics |
| `RedisCache.tla`, `WebSocketGateway.tla` | the cache decorator with the reconnect strategy; the two maps of the gateway |
| `Parts.tla`, `MCParts.tla`, `Parts.cfg`, `KafkaBatchReply.cfg` | those smaller parts, and migrations without faults, side by side |
| `PartsProofs.tla` | what six of the parts promise, for any sets of calls, requests, users and sockets |
| `MetricsProofs.tla` | that the metrics of decorated methods count every call and lose no timer |
| `TypesProofs.tla` | that every variable of every part keeps its type |
| `PROJECT.json` | components, runs, mutants, source lines of each definition, hazards, findings, theorems |

## 1. Inventory

| Component | State it keeps | Operations | Interacts with | What is hard | What makes it correct |
| --- | --- | --- | --- | --- | --- |
| Kafka server (`kafka/kafka-server`) | `isStop`, `isConnecting`, `isReconnecting`, `client`, `consumer`, `batchConsumer`, `status$` | listen, connect, start, reconnect, disconnect, close, handlers of kafkajs events, message handlers | kafkajs, graceful shutdown, health check, Prometheus | crash events between awaits, close() over a pending connect(), retries | one activation at a time; no consumer left behind; recovery; nothing starts after close |
| Graceful shutdown (`graceful-shutdown`) | `isRun`, `totalCountActiveMethods`, the `BehaviorSubject` of the count, the registered subscribers | beforeApplicationShutdown, waitForMethodsDone, emit, increment/decrement, uncaught error filters | NestJS hooks, every module with `@GracefulShutdownOnEvent` or `@GracefulShutdownOnCount` | calls that begin and end during a phase, timeouts against late answers, signals during start-up | exact count; phases in order; exit code tells the truth; the process ends |
| Bootstrap (`src/src/bootstrap`) | how far init, listen and startAllMicroservices are | bootstrap, main | all servers | a signal before it is done | a server that is closed is not started |
| Database migrations (`database/builders`) | `lockAcquired`, the transaction, the migrations table, `DatabaseMigrationStatusService` | migrateUp and its queries; `up()` of a file | Sequelize pool, PostgreSQL or MySQL, the other instances | which pooled connection a query gets, un-awaited commits, kills and lost connections | every file applied and recorded once; success only when recorded; nobody blocked; nothing left behind |
| RabbitMQ server (`rabbit-mq/rabbit-mq-server`) | connection, channel, consumers, `status$`, connect failures | listen, start, setupChannel, handleMessage, handleEvent, close | amqp-connection-manager, shutdown | ack/nack once on the right channel, reconnects, start against close | every delivery is settled at most once; start ends |
| Kafka messages (`kafka/kafka-server`, `src/src/core/api/kafka`) | the context of a message or batch | handleEachMessage, handleBatchMessages, handleEvent, the demo controllers | kafkajs, async context, Kafka client | parallel messages, one context for a batch, answers that fail | a message is handled under its own ids; answered as a whole or counted |
| RabbitMQ client (`rabbit-mq/rabbit-mq-client`) | `client`, `channel`, `connectionPromise`, `connection$` | connect, createChannel, dispatch, close | amqp-connection-manager | two listeners that create channels, a promise that stays rejected, close() over a pending connect() | requests end; the client recovers |
| Kafka client (`kafka/kafka-client`) | `producer`, `client` | connect, send, sendBatch, close | kafkajs | the producer is set before it is connected | requests end; one producer |
| HTTP and gRPC clients (`http/http-client`, `grpc/grpc-client`) | attempts and timers of a request | request, retry, timeout | rxjs, axios, grpc-js | pauses and retries against the timeout over all, options that are not set | bounded retries, each attempt observed once, one result |
| HTTP and gRPC servers, guards (`http/http-server`, `grpc/grpc-server`, `hybrid`, `websocket`, `auth`) | context, span, timer of a request; the certificate | adapters, guards, interceptors, filters, certs() | NestJS, OpenTelemetry | what guard, interceptors and filter each do with a failure | records, metrics, headers and status agree |
| Redis cache (`redis-cache-manager`) | entries, reconnect attempts | on-method decorator, get, set, strategy | redis | un-awaited writes, slow readers | a stale value goes away |
| WebSocket gateway (`src/src/core/api/web-socket`) | maps of users and sockets | connection, disconnection, message | socket.io | several sockets of one user | the two maps agree |
| Telemetry (`opentelemetry`) | spans that wait | tail-sampling export | OpenTelemetry SDK | which spans wait together | a failure is kept with its context |
| Async context (`async-context`, header builders and helpers) | one AsyncLocalStorage for all classes of contexts | define, extend, set, runWithContext; build and read headers | every request and message | nested and parallel contexts; four transports | contexts do not leak, ids survive every hop |
| Metrics and logging (`prometheus`, `elk-logger`) | `onEndCallback`, the registry of metrics, the subscriptions | decorators, event services | everything | hooks that throw, before or after the promise is settled | each call told once, its timer stopped, the answer not changed |
| Database module (`database`), configuration, formatters | none | per query or record | | | no protocol state |

The hazards found while reading are listed with their lines in `PROJECT.json`, together with the properties that watch
them.

## 2. Plan

In the order of their importance for the running service:

1. **KafkaServer**: done, model-checked, all safety properties that hold proved.
2. **GracefulShutdown** with the abstract **ShutdownPhases**: done, model-checked, invariants and safety refinement
   proved.
3. **Migrations**: done, model-checked, all safety properties that hold proved.
4. **RabbitMqServer** (start, reconnect, channel set-up, delivery, ack, nack, redelivery, close): done, model-checked,
   safety invariants proved.
5. **KafkaClient** and **RabbitMqClient** (connect, send, close) with **ClientErrors**: done; the safety of the Kafka
   client and the types of the RabbitMQ client are proved.
6. **Messages** with **AsyncContext**, **ContextHops**, **IncomingRequest**: what happens to one message or request
   inside the service and between services: done, model-checked, safety properties proved.
7. **ClientRequest**, **OnMethod** and **Metrics** with **MethodHooks**, **RedisCache**, **WebSocketGateway**: done,
   model-checked; the attempts of ClientRequest, decorated methods with their timers and metrics, and the maps of the
   gateway are proved, and with them the types of all parts.
8. Still ahead: safety invariants of RabbitMqClient beyond its types (which channel a request may find); a composition
   of GracefulShutdown with the message servers (a delivery that is accepted before BEFORE_DESTROY is settled before
   the connection is closed); a set-up of a channel that the broker refuses.

Every module is a state machine with one action per event-loop step and constants for the sets, or (ClientErrors,
AsyncContext, MethodHooks) the pure operators of one; `MC` modules give the constants values. Nothing uses a RECURSIVE
operator, so every module can be proved about. `Parts` puts the smaller state machines side by side, so that one run
checks each of them without a run of its own: a variable `part`, which never changes, says which of them moves.

## 3. What is modelled

The unit of atomicity in all modules is what JavaScript gives: code between two awaits runs without interruption, so
an action is one run of the event loop, from the resolution of an awaited call (or an emitted event) to the next
pending call.

### KafkaServer

State: the fields of `KafkaServerBase` under their own names, `ref` for the two fields `consumer` and `batchConsumer`,
and for each *activation* of run() or reconnect() where it is suspended (`pc`, `cur`, `binds`). `st` and `bind` are
the kafkajs consumers, which are external: a consumer is connecting, connected, joining its group, joined, stopping,
restarting by itself, or gone.

- `Listen`, `Close` are the calls of the framework; `Close` is `beforeDestroy()` of `KafkaServerStatusService`:
  `optionsBuilder.stop()`, then `server.close()`. listen() after close() is possible and resets `isStop`
  (`kafka-server.base.ts:136`).
- `EachConnected`, `BatchConnected`, `ConnectFails`, `StartFails`, `FailedAttemptDisconnected`, `GiveUp`, `Retry` are
  the awaits of connectAndStart(); `ReconnectDisconnected` that of reconnect(). disconnect() nulls what the fields
  hold when it returns, not what they held when it was called; without a consumer it returns at once.
- `Subscribed`, `GroupJoin`, `Crash`, `ConsumerDisconnected`, ... are the answers and events of kafkajs with the
  listeners that `registerConsumerEventListeners()` and `waitForConsumerReady()` attach. A crash first emits STOP, so
  the ready promise of a starting consumer rejects before the CRASH listener looks at the flags.
- A consumer object nobody can reach (`Reusable`) stands for the next new one, so a small set of objects is enough for
  behaviours of any length.
- `brokerUp` decides whether kafkajs calls succeed. It changes at any time.
- `ReviveOnRun` is what kafkajs makes of a run() on a consumer that is being disconnected: it fails, or brings the
  consumer back. The code does not exclude this call and depends on the version of the library. The theorems hold for
  both values. `NoLeak` is checked for FALSE only: with TRUE the subscribe() of a failed attempt brings its consumer
  back after disconnect() has dropped it.

Abstracted: topics, handlers, logs, metrics, durations (startTimeout is a step that may take place at any time).

### GracefulShutdown and ShutdownPhases

`phase` is where beforeApplicationShutdown() is suspended: BEFORE_DESTROY, DESTROY, AFTER_DESTROY, the grace period
before exit 0, or the one before exit 1 (`failed`). `sub` is what each subscriber of the two events is doing; the
subscriber of a message server closes it. `count` is `totalCountActiveMethods`, kept by increment and decrement, and
`call` the calls really being executed. `boot` and `server` follow bootstrap(): init, HTTP listen,
startAllMicroservices.

- NestJS is external: it waits for app.init(), calls the hook for the first signal, ignores later signals, and ends
  the process after the hooks.
- Timers are untimed: a timeout may fire whenever what it guards is not over, and the late answers of what it guarded
  still arrive. waitForMethodsDone() has a second, inner timeout; the outer one covers it.
- `waitForMethodsDone()` subscribes to a BehaviorSubject and so sees the present count at once: `ThenDestroy` goes
  straight to AFTER_DESTROY at zero.
- The close() of a server that is not started yet has nothing to close; a later listen() starts it.
- A disabled hook (`GRACEFUL_SHUTDOWN_ENABLED=no`) leaves at once and the framework ends the process, as it does for a
  signal other than the configured one.

A synchronous counted method increments and decrements in one step and leaves nothing changed, so it needs no action.
Not modelled: metrics that throw, a failing app.init().

`ShutdownPhases` is the abstract specification: the phases in order and at most once, code 0 only after the last, code
1 after one that is cut off, and the process ends. `GracefulShutdown` implements it under the mapping `Phases`, which
forgets subscribers, calls and servers.

### Migrations

One action is one query executed by the database, with the code up to the next query. The Sequelize pool hands any
free connection to a query, and opens a new one when none is free; `at` is the connection of the query an instance
awaits. BEGIN, LOCK TABLE, INSERT, COMMIT of migrateUp() are plain queries, each on whatever connection the pool hands
out. `Up` is `up()` of a migration file, whose own transaction takes a connection and is committed or rolled back
without being awaited (`src/migrations/20250713204537-users.js:52`); `FileTransactionEnds` is the database executing
that.

- A connection is inside at most one transaction. BEGIN inside a transaction is a warning, COMMIT ends the transaction
  whoever began it.
- PostgreSQL: LOCK TABLE belongs to the transaction and ends with it. MySQL: GET_LOCK belongs to the connection, may
  answer 0 after 30 s, which the code does not look at; a change of the schema commits implicitly.
- A file fails when it was applied already, or when one before it was not.
- Faults: a connection is lost (`Breaks`), an instance is killed and started again (`Crashes`). A COMMIT a killed
  process has sent still reaches the server.
- The pool has more connections than the queries and files' transactions of one start can use, so nobody waits for one
  (`PoolAssumption`).

migrateUp's own ROLLBACK never has a change of the file to undo: the file works on another transaction, or on one that
its own COMMIT has ended. The table is there after CREATE TABLE IF NOT EXISTS, so the later
`listTablesSql()`/`createTableSql()` change nothing and are part of the same step. Not modelled: reading the directory
of files, logging and metrics.

### RabbitMqServer

State: `client` (is the field set), `attempts` (`connectionAttempts`), the keys of `channels`, the last value of
`status$`, and `once`, the listeners of `connect` and `connectFailed` that start() registers with once() and that have
not run yet. `listen` and `closing` tell how far listen() and each close() are; close() is called by the shutdown and
by start() when it gives up, and the two may overlap. `run`, `msg`, `alive` are the calls of handleMessage(): where
each is suspended, its message, and whether the channel it was delivered on is still open.

- The connection manager is external (`manager`, `conn`): it connects by itself and again after each loss, gives every
  wrapper a new channel, which is set up again by setupChannel() (`chan`), lets an attempt under way finish before it
  closes, and emits no `disconnect` for its own close. The broker is external too (`queue`): what was delivered on a
  channel that ends and was not answered is delivered again.
- `Connected` runs both listeners of `connect` in their order: the once() listener, which creates the channels unless
  there are some (`RunConsumers`), and the one that resets the attempts and sets the status. Nobody awaits the set-up
  of the channels, so listen() calls back before it.
- `Answer` is ack() or nack(). On a channel that is closed both throw. The catch blocks call
  handleErrorInProcessMessage() without awaiting it, so its nack() that throws rejects a promise nobody awaits:
  `unhandled`.
- On success handleEvent() answers nothing: whether a message is acknowledged is left to its handler
  (`rabbit-mq-server/README.md:113`). `HandlerEnds` is a handler that returns without an answer, as the only one of the
  repository does (`rabbit-mq-demo.controller.ts:45`): its message is `left`, which for the broker is unacknowledged
  still, until its channel ends and it is delivered again. `HandlerAnswers` is a handler that calls ack() itself, which
  is external to the code. A handler answers, if at all, as the last thing it does: one that answers and then goes on,
  or throws, is not modelled (its message would be answered twice). With `noAck`, which is NestJS's default here
  (`RQM_DEFAULT_NOACK`), nothing is answered by anybody.

Abstracted: options of queues and exchanges, labels, metrics, `consumersInfo` (it only names things), and prefetch:
under a limit, messages that were left would keep later ones from being delivered. Not modelled: a set-up the broker
refuses, `connectFailed` without an error, a message whose pattern has no handler (channels are made from the handlers).
The status stays as it is after close(), which the health indicator shows; `HealthTellsLoss` therefore speaks of an open
manager.

### KafkaClient, RabbitMqClient and ClientErrors

`KafkaClient` has the field `producer` of `KafkaClientProxy`, what each kafkajs producer is doing (`kafka`), and for
each caller of request() where it is suspended: in connect(), in the serializer (`encoding`), in kafkajs (`sending`).
connect() sets the field before it awaits, so a second caller goes on to dispatch its message at once, and after a
failed connect() the unconnected producer stays in the field until close(). `CloseReturns` clears the field whatever
it holds by then. `calm` is a history variable: a close() that overlaps connect() or another close() leaves a producer
behind, and `OneProducer` says what holds without one.

`RabbitMqClient` follows connect() of `RabbitMqClientProxy`: the manager with its urls, the stream `connection$` that
resolves the first promise, the listeners of connect and disconnect that replace `connectionPromise`, and the two
channel wrappers that the listener and the stream create (`ConnectHeard`; the stream's replaces the listener's, which
is never closed). Requests wait for whichever promise they were given. The manager (`conn`, `chans`, `ready`) and the
broker (`reachable`) are external. `MaxClients` bounds the managers of a behaviour.

`ClientErrors` has the two error handlers as operators; an exception of kafkajs is the chain of its causes.

### ClientRequest

One request of `HttpClientService` or `GrpcClientService`: the options it resolves from the environment and the caller
(`mergeRequestOptions`, with a value that is `undefined` hiding the default), its attempts, the pause before a retry,
the timeout over all of them, and the timer and counters of each attempt. Its initial states are all combinations of
options. An attempt that is cut off is unsubscribed, so a late answer reaches nobody. `MaxAttempts` stands for as many
attempts as a request without a number of retries may make; its timeout then ends it.

### Messages and AsyncContext

One call of handleEachMessage(), handleBatchMessages() or of the RabbitMQ server's handler per element of `Calls`,
several at a time: the telemetry decorator, define() of the asynchronous context, deserialization, handleEvent(), and
the demo controllers with their search and answers. `store` is the AsyncLocalStorage, which all classes of contexts
share; a call that is defined has a store of its own, others would write to that of listen(). The answers go to the
client (`asked`) and to the broker (`sent`) or fail. eachBatch() does not wait for them
(`kafka-demo.controller.ts:68`), so one that fails is a rejection that nobody awaits (`unhandled`), and
RabbitMqApiService does. A batch works in the context of its first message.

A batch answers its requests with data, `WithData`: their searches run side by side, and the order of the answers
within one request of the client is left out.

`AsyncContext` has the operators of `AbstractAsyncContext.wrapWithTelemetry()`, the telemetry decorators and the
reading of headers.

### ContextHops

A request through up to three services; `path` has for each the headers it was called with and the context of its
handler. `Value` and `Build` are the loop of the four builders: the context comes first, then what the caller gives.
gRPC writes a list under a name that ends with -bin, RabbitMQ has the correlation id and the reply queue among the
properties of the message, and each transport reads with its own normalization. `Answer` is the answer to a message of
Kafka or RabbitMQ. A value is told apart by what the helpers tell apart: a text, several values, none, or blanks.

### IncomingRequest

A request to the HTTP or gRPC server or an event of a WebSocket: `Arrive*` is the adapter that begins the spans,
`*AuthGuard` the guard and the interceptors up to the handler, `*Answers` the handler's result on its way back through
the interceptors (outermost HttpLogging, then HttpPrometheus, HttpHeadersResponse, GrpcLogging, GrpcPrometheus:
`bootstrap.ts:66`) and the hybrid filter. Of gRPC's exceptions `named` is a text, which names a status and is logged as
an error (only NOT_FOUND is a warning), and `bare` an object without Metadata, the one answer that gets no headers
(`GrpcHeaders`). A record is kept with the span it names. `Decorators` are what a handler's
decorators leave out of guards and interceptors. `certs` is the repetition of AuthService while there is no
certificate. `ended` are spans that wait for `ContextualTailSamplingExporter`, which gets them in any batches
(`Export`).

### OnMethod, MethodHooks and Metrics

`MethodHooks` says in which order PrometheusOnMethod and ElkLoggerOnMethod run the hooks before, after, throw and
finally, for a value and for a promise, and what a hook that throws does to the others and to the answer; `Told` is
the event of a hook, which one that throws does not emit. `OnMethod` has calls, the event services (which may not be
created yet, or be shut down) and the timers in the static map `onEndCallback`. `Metrics` says what the events of a
call do to prom-client: which operations the helpers build from an option, which name and type the metric has
(`buildMetricConfig`), the order in which `handleEvent` carries them out, and that an exception ends the handling of
its event (`lost`). A step emits at most three events and an event has at most ten operations, so `Emit`,
`handleEvent` and `HandleTimers` name each in its place, as the code does, instead of folding over a sequence. The
initial states are combinations of hooks.

### RedisCache and WebSocketGateway

`RedisCache`: calls of a method with RedisCacheOnAsyncMethod for one key, with set() going on after the method has
returned, expiry, a source that changes and a Redis that goes away; and the attempts and delays of the reconnect
strategy. `WebSocketGateway`: `userMap` and `clientMap` under their own names, connections, disconnections and
messages of several sockets per user.

### Parts

`part` chooses which module moves; the others stay in their initial states, of which one stands for all, and share no
variable. `PartsTypeOK`, `AllRequestsSettle`, `ComesBack`, `RetriesUsedUp`, `TimersStop`, `CallIsTold`, `ContextIsOwn`
are conjunctions of the properties of that name or kind in the modules, where the comments say what each means; the
fairness is that of each module. Putting them side by side does not say anything about their interaction.

Calls, sockets, requests, transports, decorators, carriers of headers, the default limit of attempts and the size of a
batch are constants, so that the theorems hold for all of them; `Parts.cfg` gives them values, and `MCParts` only
names four sets of decorators. The RabbitMQ client, the Redis cache and the migrations without faults have their
bounds in `Parts` itself; what is proved of them there (`PartsTypeOK`) is for these bounds, and any callers, readers
and instances. Assumed of the constants: the default limit of attempts is a number, and there is at least one attempt
and one message in a batch (`CountAssumption`); decorators leave out guards and interceptors, nothing else
(`DecoratorsAssumption`); at most three services, the ids the model has, and the four carriers the code has
(`HopsAssumption`); no connection of the pool is `NULL` (`InstancesAssumption`); and `Undefined`, which stands for
what is absent, is not one of the values that are there: no context, span, id or header (`UndefinedAssumption`).

## 4. What is checked

Model values are interchangeable where a run declares `SYMMETRY`; runs with liveness properties declare none.
`CHECK_DEADLOCK FALSE` stands where the system really stops: a server that was closed, a process that has ended,
instances whose start is over.

| Run | Bounds | Shows |
| --- | --- | --- |
| `KafkaServerBoth` | both modes, 4 consumer objects, 2 activations, `ReviveOnRun = FALSE` | `TypeOK`; `OneConnector`: one activation connects at a time; `NoLeak`: until close() every live consumer is one the fields hold; `NoCreateAfterStop` |
| `KafkaServerEach` | eachMessage only, 3 objects, 2 activations, `ReviveOnRun = TRUE`, fair | `SettledMeansServing`, `HealthTellsCrash`, `Recovers`, `CloseEnds` |
| `GracefulShutdown` | 2 servers, 1 other subscriber, 1 of AFTER_DESTROY, 2 calls, fair | `CountIsActive`, `CleanExit`, `AfterNeedsQuiet`, `SignalEndsProcess`, and that the hook implements `ShutdownPhases` (`PhasesSpec`, with its liveness) |
| `MigrationsFaults` | PostgreSQL, 2 instances, 2 files, 4 connections each, kills and lost connections | `SuccessMeansRecorded`, `NothingLeft` |
| `MigrationsMysql` | MySQL, 2 instances, 1 file that changes the schema, 3 connections each, kills and lost connections | `RecordedOnce`: no name is recorded twice; `RecordedIsApplied`: and none without its file |
| `KafkaServerLateJoin` | eachMessage only | `ClosedMeansQuiet` fails |
| `GracefulShutdownStartup` | as `GracefulShutdown` | `ServersAreQuiet` fails |
| `MigrationsRace` | PostgreSQL, 2 instances, no faults | `NoRace` fails |
| `RabbitMqServer` | 2 consumers, 2 messages of one queue, 2 calls of handleMessage() at a time, `MaxAttempts = 1`, `NoAck = FALSE`, fair | `AnswerIsOwed`: what a call answers on an open channel is unanswered; `ClosedMeansQuiet`, `HealthTellsLoss`, `StartEnds`; `AllHandled`: in the end every message is answered, or has been through a handler that did not |
| `RabbitMqServerLateAnswer` | the same, no limit of attempts | `NoUnhandledRejection` fails |
| `Parts` | Kafka client: 2 callers, 2 producers; RabbitMQ client: 1 caller, 2 urls, 2 managers; client request: all options, up to 7 attempts; cache: 2 readers, 3 versions, delays to 500 ms; methods, messages and metrics: 2 calls, batches of 2, 1 topic; incoming requests: 1 request over each of three transports, 4 sets of decorators; 3 services; gateway: 2 users, 3 sockets; migrations: PostgreSQL, 2 instances, 2 files, no faults; fair | the properties below |
| `KafkaBatchReply` | the part of the messages alone, 1 call, 2 topics | `AnswersOwnRequest` fails |

The properties of `Parts`: `OneProducer` (callers share the Kafka producer, close() leaves none); `RetriesUsedUp` (a
failure that may be repeated is handed out only when the attempts are used up; each attempt is observed once);
`TimersStop` and `CallIsTold` (whichever hook fails, a call's timers are stopped once, in-flight gauges have the
number of calls, and a call is told once, as it went); `ContextIsOwn` (parallel messages find their own ids, all
records of a request name one span of it, ids survive every hop); `AnsweredOrCounted` (a batch is answered as a whole,
or counted as failed and not answered); `ToldOnce` (records, timer, counters, headers and status of a request agree);
`GatewayAgrees`; and in the end `AllRequestsSettle` (four clients), `ComesBack` (the RabbitMQ
client after an outage, AuthService's certificate), `FailuresInContext` (a failed span is forwarded with the spans of
its request that wait with it), `StalenessEnds`, `StartsEnd` (no deadlock between instances or within one),
`AllApplied` (on PostgreSQL, with `RecordedIsApplied` on the way).

Why the bounds are enough. *Kafka*: two activations are one more than `OneConnector` allows (the run would show a
second one); an attempt holds at most one consumer per mode, and while close() still waits for those of one attempt a
second attempt may create its own, so 4 objects for two modes and 3 for one never run out. *Shutdown*: two subscribers
and two calls are the least with which one answers while another hangs, and with which a call begins while another one
keeps DESTROY waiting. *Migrations*: two instances for the races; two files for the order of files and a failure after
a success; one connection more than the code of one start can hold at a time. *Parts*: two calls or callers are the
least that can overlap; a batch of two has a message that is not the first; two urls let a stream go on waiting; seven
attempts are more than the largest number of retries allows; three sockets of two users let one user have several;
three services let what the second was given reach a third. One request at a time is enough for incoming requests:
they share nothing but the certificate and the exporter, and a batch may be any part of the spans that wait. MySQL
needs one file only because its properties are about the instances, and the lock is the connection's, not the file's.
*RabbitMQ*: two messages of one queue for two handlers that overlap and for the same message being handled twice after
a redelivery; two consumers so that one channel is up while another is being set up; a limit of one attempt is the
only one the code can reach.

Fairness. *Kafka*: an activation, a consumer of kafkajs and close() that can move eventually do: kafkajs bounds its
requests by timeouts and the event loop runs every callback. Nothing is assumed of the broker: `Recovers` starts from
`<>[]brokerUp`. *Shutdown*: timers fire and the framework goes on; subscribers, calls and servers may hang for ever,
and `SignalEndsProcess` holds all the same because each phase has a timeout. *Migrations*: the database executes every
query that is not blocked by a lock; blocked ones are not assumed to be granted. *RabbitMQ*: the manager goes on
trying, awaited calls return, handlers end, with or without an answer (no handler is assumed to give one), and the
broker delivers what is queued; `AllHandled` starts from a broker that stays reachable and a server that is not closed,
`StartEnds` assumes nothing of the broker. *Parts*: kafkajs
bounds connect(), send() and disconnect() by timeouts; the manager of the RabbitMQ client goes on trying and
`RequestsSettle` and `Recovers` start from `<>[]reachable` and a client that is not being closed; attempts, pauses and
timeouts end; Redis drops what has expired; AuthService's timer fires. Handlers, messages and hooks need no fairness:
their properties are invariants.

### Where code and documents disagree

Each is a run with the expected violation, and a finding in `PROJECT.json`:

1. close() during a pending connect(): the consumer is assigned, subscribed and run after close() has returned
   (`KafkaServerLateJoin`; `kafka-server/README.md:63`).
2. A signal during app.init(): the servers are closed before they are started (`GracefulShutdownStartup`).
3. PostgreSQL: the commit of a file ends the transaction that holds LOCK TABLE, when both got the same connection; the
   other instance applies the same file and fails (`MigrationsRace`; `database/README.md:59`).
4. RabbitMQ: the connection is lost while a message is being handled; the answer throws in a promise that nobody
   awaits, and the filter of uncaught errors shuts the application down instead of the server recovering
   (`RabbitMqServerLateAnswer`; `rabbit-mq/rabbit-mq-server/README.md:7`).
5. A Kafka batch works in the context of its first message, and KafkaApiService takes reply topic and key from it: the
   requests of the others are answered to the topic and under the key of another request (`KafkaBatchReply`;
   `kafka/kafka-common/README.md:23`).

Seen in the same models, without a run of their own:

- *Kafka server*: with two consumers, the crash of the one that has started while the other is starting is dropped by
  both listeners, and start() succeeds without it (`kafka-server.base.ts:276`, `kafka-server/README.md:89`;
  `SettledMeansServing` does not hold with both modes). `kafka-server/README.md:82` says that startTimeout ends the
  attempts to connect, while it is the pause between two of them and their number is not limited.
- *Shutdown*: `graceful-shutdown/README.md:58` says that no new active process appears after BEFORE_DESTROY, while
  HTTP goes on accepting requests.
- *Migrations*: `database/README.md:64` says that a failed migration is rolled back, while the file has committed on
  its own. On PostgreSQL with lost connections, `RecordedOnce` does not hold either: the lost session frees the table
  lock while its start goes on on another connection. Nor does `RecordedIsApplied`: a file's un-awaited commit may be
  lost with its connection, and its name is recorded (`database/README.md:63`). On MySQL RELEASE_LOCK may be sent on
  another pooled connection than GET_LOCK, and then frees nothing (the same line).
- *RabbitMQ server*: `maxConnectionAttempts` of the RabbitMQ server is only reached when it is 1: the listener of
  `connectFailed` is registered with once() and hears one failed attempt (`rabbit-mq-server.ts:172`); the test at
  `rabbit-mq-server.spec.ts:1451` emits the event of its mock twice and does not see it.
- *Kafka client*: after a failed connect() every send is dispatched on a producer that never connected, until close();
  a close() that overlaps another leaks a producer.
- *RabbitMQ client*: a request that waits while close() runs may never be answered (`lost`); the channel of the
  listener is replaced by the stream's and stays open.
- *Kafka messages*: the answer to a message asks for an answer itself: search() deletes the reply headers, but the
  client builds them again from the context, because `kafka-demo.controller.ts:68` does not pass `skip`. request() is
  not awaited there, so a failed answer stops the application. One message that cannot be decoded costs the whole
  batch. The spans of a call tell no failure.
- *Headers*: the context's reply wins over the caller's own; a gRPC text under a name that ends with -bin is written
  as it is but read as JSON; a generated HTTP request id is in the context but not in the response.
- *HTTP and gRPC clients*: with neither variable of the environment set, the `undefined` values hide the defaults and
  retries are silently off (`http-client/README.md:23`, `:25` name 120000 and 5).
- *Servers*: a failed HTTP request never ends its server span, and those of gRPC and WebSocket end before the handler,
  so slow requests need not reach the collector (`opentelemetry/README.md:32`; `SlowIsExported`). Plain errors of gRPC
  handlers are counted as UNKNOWN while the client gets INTERNAL. A certificate request that is rejected ends the
  repetition for ever (`auth.service.ts:78`).
- *Decorators*: an `after` hook that throws rejects a successful call, a `throw` hook that throws leaves the caller's
  promise unsettled, a `finally` hook that throws keeps the timer. `prometheus/README.md` says that all failures go to
  the log; a name used with two types, an `end` with refused labels and a custom function that throws are uncaught
  instead, and what follows in the event is lost.

## 5. What is proved

For all values of the constants that satisfy the modules' assumptions (which TLC evaluates in every run).

`KafkaServerProofs`: `TypeCorrect`, `OneActivation` (`[]OneConnector`), `StoppedCreatesNothing` (`NoCreateAfterStop`).
`OneConnector` is not inductive: that a CRASH event starts no second activation depends on the flags saying the truth.
`ControlInv` adds that: a running activation has set isConnecting or, while it awaits reconnect()'s disconnect,
isReconnecting (`FlagsTell`); the flags are down before listen() (`BeforeListen`); and an activation that connects is
alone (`ConnectAlone`). The proof has one lemma per group of actions: those of an activation, those of the consumers,
and the rest. None of the three depends on `ReviveOnRun`, on the number of consumers or on the modes.
`NoCreateAfterStop` follows from the code's two guards (`~isStop` of the loop, `client` set before createConsumer())
step by step; that a stopped server's client is null while an activation awaits the first consumer is the part that is
easy to miss.

`NoConsumerLeaks` (`[]NoLeak`), `SettledServes` (`[]SettledMeansServing`), `HealthTellsOfCrash` (`[]HealthTellsCrash`)
rest on `ServerInv`, which adds `FieldsInv`: what the fields, the pending bind*Events() and the flags may be at each
place of an activation. `NoLeak` needs `HeldStops` besides: while an activation waits for its disconnect(), nothing it
waits for comes alive again. That fails when run() revives a disconnected consumer (`ReviveOnRun`) and the server has
two modes: start() rejects with the faster mode, and the slower one runs its consumer after the fields were cleared.
So the theorem assumes `~ReviveOnRun \/ OneMode`. The other two assume `OneMode`: with two modes both are false (the
crash of one consumer is dropped while the other is starting, and the status is that of the last event of either).
TLC finds the counterexamples, so the hypotheses say where the code keeps its promise and no more.

`GracefulShutdownProofs`: `TypeCorrect`, `CountsTheActive`, `ExitZeroIsClean`, `AfterIsQuiet`, `ImplementsPhases`. The
inductive invariant is `ShutdownInv`: the types, `CountIsActive` (without it the counter is not even a natural
number), `PhasesAnswered` (a phase that is over has been answered by all its subscribers, which the two exit codes
need) and `CleanExit`. Only `CallsAssumption` (finitely many calls at a time) and `SubsAssumption` (each event has a
subscriber) are used. `ImplementsPhases` is the safety part of `PhasesSpec`.

`RabbitMqServerProofs`: `TypeCorrect`, `AnswersOnce` (`[]AnswerIsOwed`), `ClosedIsQuiet` (`[]ClosedMeansQuiet`),
`HealthIsHonest` (`[]HealthTellsLoss`), for any limit of attempts and both values of `NoAck`. `AnswerIsOwed` is
inductive once a call on an open channel is known to handle a message (`AliveHandles`): a channel that ends takes its
calls and its deliveries in one step, and a call that is over, with an answer or without (`DeliveryEnds`), takes only
its own. `ClosedMeansQuiet` is not inductive: a close() that finds the manager already
closed by another one returns at once, so the connection must be down by then. `ConnectionInv` says so: once close()
of start() has begun the connection is down, and when the manager is closing with a connection or an attempt under
way, it is the shutdown's close() that is waiting for it; an open channel has an open connection
(`ChannelsNeedConnection`).

`MigrationsProofs`: `TypeCorrect`, `InsertsAutocommit`, `SuccessIsRecorded` (`[]SuccessMeansRecorded`),
`NothingIsLeft` (`[]NothingLeft`), `FilesRecordedOnce` (`[]RecordedOnce`), `RecordedAfterApplied`
(`[]RecordedIsApplied`), for any finite or infinite set of instances and any size of the pool above the minimum. The
invariant `MigrationsInv` is about connections: those of an instance are its own and a query is awaited on a free one
(`AtInv`); a free connection that is inside a transaction or has the table lock is the only one of an instance that
has not run a file yet (`OwnInv`); uncommitted changes belong to a file whose commit() is under way, and no name is
ever written inside a transaction (`WroteInv`). The last is a result of its own, `InsertsAutocommit`: BEGIN ... COMMIT
of migrateUp() encloses none of its inserts, because the first file's own transaction takes that connection and ends
the outer one. `NothingIsLeft` assumes PostgreSQL: on MySQL RELEASE_LOCK may miss. The last two theorems assume
`Lossless` (no connection is lost, or MySQL with files that only change the schema, where there is nothing to lose)
and strengthen `RecordedOnce` by `OnceInv`: at most one instance is about to record a file, and that file is applied
or being committed. Without `Lossless` both are false, as TLC shows (see "Where code and documents disagree").

`PartsProofs`: one inductive invariant per part; that a step of another part leaves it alone is one lemma each
(`GatewayStep`, `RequestStepOfClient`, ...).

- `MapsAgree` (`[]GatewayAgrees`): inductive as it stands; a socket that comes back with another name is taken out of
  the set of the first in the same step.
- `RetriesAreUsedUp` (`[]RetriesUsedUp`): `RequestInv` adds that the limit is a natural number, whatever the
  environment and the caller give (`LimitIsNat` goes through the overlays of mergeRequestOptions()), and that a
  request pauses only while its budget lasts.
- `FailuresKeepTheirContext` (`FailuresInContext`): a step that forwards spans is an export, and an export leaves a
  failed trace whole.
- `RequestsToldOnce` (`[]ToldOnce`): `IncomingInv` says of every request what it consists of (`Shape`), which timer,
  counter and records it may have before its handler has answered (`Course`), and `ToldOnce` once it has (`Told`).
  The work is `FilterAnswers`: each of the three error filters adds the record of the failure that no interceptor has
  written, on every path through adapter, guard, interceptors and handler, with any of them left out.
- `BatchesAnsweredOrCounted` (`[]AnsweredOrCounted`): `MessagesInv` follows a call from its receipt (`CourseInv`): what
  it has asked to be sent are the answers of its requests with data, as long as it is not given up (`AnswerInv`).
- `ContextStaysOwn` (`[]ContextIsOwn`): three invariants together. A call's store carries the trace, correlation id
  and reply of its own first message (`TraceInv`); all records and headers of a request come from the one context of
  its adapter (`Shape`); and on the way over several services every context has a trace and a span that headers carry
  unchanged, and no header that is empty or a list (`PathInv`). `HopSurvives` is the step from one service to the next
  for each pair of carriers.

`PartsProofs` has besides the inductive invariant of decorated methods, `MethodInv`, and `MetricsProofs` that of their
metrics, `MetricsInv`; two theorems need both of them:

- `TimersAreStopped` (`[]TimersStop`): that no timer is left by a call that is over says nothing of the timers of calls
  in flight, so `MethodInv` adds what is held while the promise is awaited (`AwaitingHolds`), and that a call which
  begins before the event service exists, or outlives it, is not watched. What the hooks emit is computed for a value
  and for a promise, for any set of hooks that throw (`EndOk`).
- `CallsAreTold` (`[]CallIsTold`): the gauge of calls in flight has their number, whatever is lost in between, and an
  event is lost for no other than the three reasons.

`MetricsInv` speaks of all operations of an event at once. The metrics are registered under a name that keeps its type,
a held timer is for the metric that its hook named, a value that is not registered yet counts as 0 (`StateOk`); a call
has the timers that `before` asked for (`CallsOk`); and, although `lost` may hold anything else, every gauge that is
incremented by `before` and decremented by `finally` is `Cardinality(InFlight)` (`GaugeOk`). Observations are counted
only while nothing is lost (`TimersOk`), which is what the property says too. The proof climbs: from an operation to
an event, from an event to a step of up to three events (`EmitSteps`), from a step to the begin, the end and the
settling of a call (`EmitBegin`, `EmitEnd`). It holds for any number of concurrent calls and for the hooks that
`BeforeAsks`, `MiddleAsks` and `FinallyAsks` list: `HooksOk` says what is used of them, that a hook asks only what its
type allows and that the labels of a gauge are not refused.

`TypesProofs`: `PartsTypeCorrect` (`[]PartsTypeOK`). For most parts the types are inductive only with the invariants
above. What they add: spans that have ended fit the state of their request, so that none is exported twice
(`SpansInv`); a call's store always has the keys of a context, and its answers are to topics of the application
(`MessagesTypes`); what a client counts as failed is at most its attempts (`RequestTypes`); a reader of the cache
holds a version or nothing (`CacheInv`). The migrations of `Parts` are those of `MigrationsProofs` for one set of files
and without faults (`DP == INSTANCE MigrationsProofs`), and the two are shown to be the same definition by definition.

`KafkaClientProofs`: `TypeCorrect`, `CallersShareProducer` (`[]OneProducer`), for any callers and producers.
`OneProducer` is not inductive: that close() leaves nothing behind needs to know that the producer it waits for is
still the one in the field, and connected (`CloseIsAlone`), and the types need that nobody refers to a producer that
was never created (`Referred`). Only `NoneAssumption` is used.

Only model-checked: liveness (`Recovers`, `CloseEnds`, `SignalEndsProcess`, `AllHandled`, `StartEnds`, `StartsEnd`,
`AllApplied`, `AllRequestsSettle`, `ComesBack`, `StalenessEnds`, and the weak fairness inside `PhasesSpec`), which
needs ENABLED. Every invariant and every action property of a passing run is stated by a theorem, some of them under
a hypothesis that is named above and that the counterexamples of TLC ask for. The five runs with a violation have no
theorem: what they check is false.

## 6. What is not modelled

- Libraries (kafkajs, amqplib and its connection manager, NestJS, Sequelize, the databases, Redis, socket.io, rxjs,
  prom-client, the OpenTelemetry SDK): modelled from how the code uses them, and marked external in `PROJECT.json`.
- The database module apart from migrations, the configuration services, the formatters and encoders of log records,
  `date-timestamp`: computations and I/O without a state of their own. Of the configuration, only what the clients
  resolve is modelled, where unset values change the protocol.
- The interplay of the smaller parts with each other: `Parts` has each move by itself. Messages is composed with the
  clients and the contexts only through what it asks of them.
- Roles, the signing of tokens, bodies of requests, labels of metrics beyond whether they are refused, and the span of
  a WebSocket's handshake.
