-------------------------------- MODULE Parts --------------------------------
(***************************************************************************)
(* The smaller parts of the service side by side in one state space: `part` *)
(* says which of them moves, and the others stay in their initial states.   *)
(* The parts do not share state.                                            *)
(***************************************************************************)
EXTENDS KafkaClient, Integers

CONSTANTS Calls, Topics, Users, Sockets, Readers, Instances, NULL, Undefined, Part,
          DefaultMaxCount, DefaultTimeout, MaxAttempts,  \* ClientRequest
          Modes, MaxBatch,                               \* Messages
          Incoming, Transports, Decorators,              \* IncomingRequest: Incoming are its requests
          Carriers, MaxHops                              \* ContextHops

ASSUME CountAssumption == DefaultMaxCount \in Nat /\ MaxAttempts \in Nat \ {0} /\ MaxBatch \in Nat \ {0}

VARIABLES part,
          client, created, conn, url, chans, ready, channel, stream, promise, isInitialConnect, settled,
          rmqRequest, rmqReply, rmqClosing, reachable,
          transport, options, phase, attempts, timers, failed, retries, last, result,
          source, entry, reader, writes, redis, reconnects, delay,
          service, call, onEndCallback, stopped,
          mode, fetch, at, store, span, asked, sent, failures, unhandled,
          incoming, certificate, certs, provider, ended, exported,
          path,
          method, running, started, metrics, value, callbacks, lost,
          userMap, clientMap, connected, gone, answers,
          pc, query, todo, locked, healthy, pool, ending, open, wrote, names, lock, applied, rows

R == INSTANCE RabbitMqClient WITH request <- rmqRequest, reply <- rmqReply, closing <- rmqClosing,
                                  Requests <- {"request"}, Urls <- 2, MaxClients <- 2
C == INSTANCE ClientRequest
E == INSTANCE RedisCache WITH attempts <- reconnects, MaxVersion <- 2, MaxAttempts <- 3, MaxDelay <- 500
O == INSTANCE OnMethod WITH ended <- stopped
M == INSTANCE Messages
I == INSTANCE IncomingRequest WITH request <- incoming, Requests <- Incoming
H == INSTANCE ContextHops
P == INSTANCE Metrics WITH call <- running
W == INSTANCE WebSocketGateway
D == INSTANCE Migrations WITH at <- query, Files <- {1, 2}, Ddl <- {1}, PoolSize <- 4,
                              Dialect <- "postgres", Crashes <- FALSE, Breaks <- FALSE

\* Decorators leave out guards and interceptors, nothing else.
ASSUME DecoratorsAssumption == \A d \in Decorators : d.skip \subseteq I!Targets \cup {I!SkipAll}

ASSUME InstancesAssumption == NULL \notin D!Conns

ASSUME HopsAssumption == MaxHops \in 1 .. 3 /\ Carriers \subseteq {"http", "grpc", "kafka", "rabbit"}

\* What is undefined is no context of a request, no span, no id of one, and no header
\* that is there, be it empty or a list.
ASSUME UndefinedAssumption ==
    /\ \A r \in Incoming : I!ContextFor(I!New, r, "guard") # Undefined
    /\ \A c \in Calls, m \in M!Message :
          Undefined \notin {<<"span", m.id>>, M!Telemetry(M!Headers(m), <<"telemetry", c>>)}
    /\ \A i \in 1 .. 3 : /\ Undefined \notin {H!ServerSpan[i], H!TaskSpan[i]}
                         /\ \A traceId \in {"id", H!ServerSpan[1], H!ServerSpan[2], H!ServerSpan[3]} :
                               Undefined # [traceId |-> traceId, spanId |-> H!ServerSpan[i]]
    /\ Undefined \notin {"", "blank", "array", "emptyArray", "id"}

kafkaVars     == vars
rabbitVars    == <<client, created, conn, url, chans, ready, channel, stream, promise, isInitialConnect,
                   settled, rmqRequest, rmqReply, rmqClosing, reachable>>
requestVars   == <<transport, options, phase, attempts, timers, failed, retries, last, result>>
cacheVars     == <<source, entry, reader, writes, redis, reconnects, delay>>
methodVars    == <<service, call, onEndCallback, stopped>>
messageVars   == <<mode, fetch, at, store, span, asked, sent, failures, unhandled>>
incomingVars  == <<incoming, certificate, certs, provider, ended, exported>>
hopVars       == <<path>>
metricVars    == <<method, running, started, metrics, value, callbacks, lost>>
gatewayVars   == <<userMap, clientMap, connected, gone, answers>>
migrationVars == <<pc, query, todo, locked, healthy, pool, ending, open, wrote, names, lock, applied, rows>>
partVars == <<part, kafkaVars, rabbitVars, requestVars, cacheVars, methodVars, messageVars, incomingVars,
              hopVars, metricVars, gatewayVars, migrationVars>>

\* Where a part has several initial states, one of them stands for all when it does not move.
PartsInit ==
    /\ part \in Part
    /\ C!Init
    /\ part # "clientRequest" => /\ transport = "http"
                                /\ options = [retry |-> FALSE, timeout |-> 0, retryMaxCount |-> 0]
    /\ E!Init
    /\ part # "redisCache" => redis
    /\ M!Init
    /\ part # "messages" => mode = "each"
    /\ I!Init
    /\ part # "incomingRequest" => provider = "broken"
    /\ P!Init
    /\ part # "metrics" => method = P!Undecorated
    /\ Init /\ R!Init /\ O!Init /\ H!Init /\ W!Init /\ D!Init

-----------------------------------------------------------------------------
Others ==
    /\ UNCHANGED part
    /\ IF part = "kafkaClient" THEN TRUE ELSE UNCHANGED kafkaVars
    /\ IF part = "rabbitMqClient" THEN TRUE ELSE UNCHANGED rabbitVars
    /\ IF part = "clientRequest" THEN TRUE ELSE UNCHANGED requestVars
    /\ IF part = "redisCache" THEN TRUE ELSE UNCHANGED cacheVars
    /\ IF part = "onMethod" THEN TRUE ELSE UNCHANGED methodVars
    /\ IF part = "messages" THEN TRUE ELSE UNCHANGED messageVars
    /\ IF part = "incomingRequest" THEN TRUE ELSE UNCHANGED incomingVars
    /\ IF part = "contextHops" THEN TRUE ELSE UNCHANGED hopVars
    /\ IF part = "metrics" THEN TRUE ELSE UNCHANGED metricVars
    /\ IF part = "webSocketGateway" THEN TRUE ELSE UNCHANGED gatewayVars
    /\ IF part = "migrations" THEN TRUE ELSE UNCHANGED migrationVars

PartsNext ==
    \/ part = "kafkaClient" /\ Next /\ Others
    \/ part = "rabbitMqClient" /\ R!Next /\ Others
    \/ part = "clientRequest" /\ C!Next /\ Others
    \/ part = "redisCache" /\ E!Next /\ Others
    \/ part = "onMethod" /\ O!Next /\ Others
    \/ part = "messages" /\ M!Next /\ Others
    \/ part = "incomingRequest" /\ I!Next /\ Others
    \/ part = "contextHops" /\ H!Next /\ Others
    \/ part = "metrics" /\ P!Next /\ Others
    \/ part = "webSocketGateway" /\ W!Next /\ Others
    \/ part = "migrations" /\ D!Next /\ Others

\* The fairness of each part, as its module states it, while it is the one that moves.
PartsFairness ==
    /\ \A p \in Producers : WF_kafkaVars(part = "kafkaClient" /\ ProducerStep(p))
    /\ \A r \in Requests : WF_kafkaVars(part = "kafkaClient" /\ RequestStep(r))
    /\ \A p \in Producers \cup {None} : WF_kafkaVars(part = "kafkaClient" /\ CloseReturns(p))
    /\ WF_rabbitVars(part = "rabbitMqClient" /\ R!ManagerStep)
    /\ \A w \in R!Wrappers : WF_rabbitVars(part = "rabbitMqClient" /\ R!SetUp(w))
    /\ WF_rabbitVars(part = "rabbitMqClient" /\ R!RequestStep("request"))
    /\ WF_requestVars(part = "clientRequest" /\ C!AttemptEnds)
    /\ WF_requestVars(part = "clientRequest" /\ C!Retry)
    /\ WF_requestVars(part = "clientRequest" /\ C!TimesOut)
    /\ WF_cacheVars(part = "redisCache" /\ E!Expire)
    /\ \A r \in Readers : WF_cacheVars(part = "redisCache" /\ E!CallStep(r))
    /\ WF_incomingVars(part = "incomingRequest" /\ I!AuthStep)
    /\ \A i \in Instances : WF_migrationVars(part = "migrations" /\ D!Step(i))
    /\ \A k \in D!Conns : WF_migrationVars(part = "migrations" /\ D!FileTransactionEnds(k))

PartsSpec == PartsInit /\ [][PartsNext]_partVars /\ PartsFairness

-----------------------------------------------------------------------------
\* The properties of the parts, under one name where several parts state the same.
\* Comments in their modules say what they mean and which code they are about.

\* Every variable of every part keeps its type.
PartsTypeOK == /\ TypeOK /\ R!TypeOK /\ C!TypeOK /\ E!TypeOK /\ O!TypeOK
               /\ M!TypeOK /\ I!TypeOK /\ H!TypeOK /\ P!TypeOK /\ W!TypeOK /\ D!TypeOK

\* Every request() of the four clients is answered in the end.
AllRequestsSettle == /\ RequestsSettle
                     /\ R!RequestsSettle
                     /\ part = "clientRequest" => C!RequestSettles

\* What was not there is used again once it stays there: by the RabbitMQ client its
\* broker, by AuthService the certificate.
ComesBack == /\ R!Recovers
             /\ part = "incomingRequest" => I!CertificateArrives

\* The attempts of the HTTP and gRPC clients: all that are allowed, each observed once.
RetriesUsedUp == C!RetriesUsedUp /\ C!AttemptsObserved

\* Timers of decorated calls are stopped once, whichever hook fails, and observed by the
\* metrics they are for.
TimersStop == O!TimersStop /\ P!TimersAreObserved

\* Hooks tell a decorated call as it went, and do not change its result; the metrics
\* that they ask for are changed as often as asked, whatever the other hooks do.
CallIsTold == O!CallIsTold /\ P!EventsAreHandled /\ P!GaugeCountsCalls

\* Concurrent messages and requests each keep the context that is their own, and hand
\* it on to the services they call.
ContextIsOwn == M!ContextIsOwn /\ I!ContextIsOne /\ H!ContextSurvives

\* A batch is answered as a whole, or counted as failed and not answered.
AnsweredOrCounted == M!AnsweredOrCounted

\* Log records and metrics of an answered request agree with its answer.
ToldOnce == I!ToldOnce

\* A failed span is forwarded together with the spans of its request.
FailuresInContext == I!FailuresInContext

\* The two maps of the gateway agree with each other and with the sockets.
GatewayAgrees == W!GatewayAgrees

\* A cached value that is out of date goes away in the end.
StalenessEnds == E!StalenessEnds

\* Migrations without faults: no instance waits for ever; every file is applied and
\* recorded once, and no name is recorded before its file is on its way.
StartsEnd == part = "migrations" => D!StartsEnd
AllApplied == part = "migrations" => D!AllApplied /\ []D!RecordedIsApplied

\* README of kafka-common: replyTopic is where the message it came with is answered.
AnswersOwnRequest == M!AnswersOwnRequest
=============================================================================
