---------------------------- MODULE PartsProofs ----------------------------
(***************************************************************************)
(* Theorems about the smaller parts of the service, for any sets of calls,  *)
(* sockets, requests and handlers: what AbstractAsyncContext, the servers'  *)
(* filters and interceptors, the batches, the clients' retries, the         *)
(* exporter of spans, the gateway's maps and decorated methods promise.     *)
(* Each part has an inductive invariant of its own; a step of another part  *)
(* leaves it alone.                                                         *)
(***************************************************************************)
EXTENDS Parts, SequenceTheorems, TLAPS

\* A step of the parts is one of the part looked at, or leaves its variables alone.
LEMMA GatewayStep ==
  ASSUME [PartsNext]_partVars
  PROVE  [W!Next]_(W!vars)
BY DEF PartsNext, partVars, Others, gatewayVars, W!vars

LEMMA RequestStepOfClient ==
  ASSUME [PartsNext]_partVars
  PROVE  [C!Next]_(C!vars)
BY DEF PartsNext, partVars, Others, requestVars, C!vars

LEMMA MessagesStep ==
  ASSUME [PartsNext]_partVars
  PROVE  [M!Next]_(M!vars)
BY DEF PartsNext, partVars, Others, messageVars, M!vars

LEMMA IncomingStep ==
  ASSUME [PartsNext]_partVars
  PROVE  [I!Next]_(I!vars)
BY DEF PartsNext, partVars, Others, incomingVars, I!vars

LEMMA HopsStep ==
  ASSUME [PartsNext]_partVars
  PROVE  [H!Next]_path
BY DEF PartsNext, partVars, Others, hopVars

-----------------------------------------------------------------------------
\* GatewayAgrees is inductive: each handler of the gateway leaves the maps in agreement.
LEMMA AgreesInit == W!Init => GatewayAgrees
BY DEF W!Init, GatewayAgrees, W!GatewayAgrees

LEMMA ConnectionAgrees ==
  ASSUME GatewayAgrees, NEW s, NEW u, W!handleConnection(s, u)
  PROVE  GatewayAgrees'
<1>1. CASE u = None
  BY <1>1 DEF W!handleConnection, GatewayAgrees, W!GatewayAgrees
<1>2. CASE u # None
  <2>1. /\ s \notin connected
        /\ connected' = connected \cup {s}
        /\ userMap' = [v \in DOMAIN userMap \cup {u} |->
                          IF v = u THEN W!SocketsOf(u) \cup {s} ELSE userMap[v]]
        /\ clientMap' = [t \in DOMAIN clientMap \cup {s} |-> IF t = s THEN u ELSE clientMap[t]]
        /\ answers' = {}
    BY <1>2 DEF W!handleConnection
  <2>2. W!SocketsOf(u) = {t \in connected : clientMap[t] = u}
    BY DEF W!SocketsOf, GatewayAgrees, W!GatewayAgrees
  <2>3. (DOMAIN clientMap = connected)'
    BY <2>1 DEF GatewayAgrees, W!GatewayAgrees
  <2>4. \A t \in connected : t \in DOMAIN clientMap /\ t # s /\ clientMap'[t] = clientMap[t]
    BY <2>1 DEF GatewayAgrees, W!GatewayAgrees
  <2>5. clientMap'[s] = u
    BY <2>1
  <2>6. ASSUME NEW v \in DOMAIN userMap'
        PROVE  userMap'[v] # {} /\ userMap'[v] = {t \in connected' : clientMap'[t] = v}
    <3>1. CASE v = u
      BY <2>1, <2>2, <2>4, <2>5, <3>1
    <3>2. CASE v # u
      BY <2>1, <2>4, <2>5, <3>2 DEF GatewayAgrees, W!GatewayAgrees
    <3>. QED  BY <3>1, <3>2
  <2>7. (\A t \in connected : clientMap[t] \in DOMAIN userMap)'
    BY <2>1, <2>4, <2>5 DEF GatewayAgrees, W!GatewayAgrees
  <2>. QED  BY <2>1, <2>3, <2>6, <2>7 DEF GatewayAgrees, W!GatewayAgrees
<1>. QED  BY <1>1, <1>2

LEMMA DisconnectionAgrees ==
  ASSUME GatewayAgrees, NEW s, W!handleDisconnect(s)
  PROVE  GatewayAgrees'
<1>1. \A t \in connected' : t \in connected /\ t # s /\ clientMap'[t] = clientMap[t]
  BY DEF W!handleDisconnect, GatewayAgrees, W!GatewayAgrees
<1>2. (DOMAIN clientMap = connected)'
  BY DEF W!handleDisconnect, GatewayAgrees, W!GatewayAgrees
<1>3. ASSUME NEW v \in DOMAIN userMap'
      PROVE  userMap'[v] # {} /\ userMap'[v] = {t \in connected' : clientMap'[t] = v}
  <2>1. v \in DOMAIN userMap /\ userMap[v] # {s} /\ userMap'[v] = userMap[v] \ {s}
    BY DEF W!handleDisconnect, W!UsersLeft
  <2>2. userMap[v] # {} /\ userMap[v] = {t \in connected : clientMap[t] = v}
    BY <2>1 DEF GatewayAgrees, W!GatewayAgrees
  <2>3. connected' = connected \ {s}
    BY DEF W!handleDisconnect
  <2>4. userMap'[v] # {}
    BY <2>1, <2>2
  <2>. QED  BY <1>1, <2>1, <2>2, <2>3, <2>4
<1>4. ASSUME NEW t \in connected'
      PROVE  clientMap'[t] \in DOMAIN userMap'
  <2>1. t \in connected /\ t # s /\ clientMap[t] \in DOMAIN userMap
    BY <1>1 DEF GatewayAgrees, W!GatewayAgrees
  <2>2. t \in userMap[clientMap[t]]
    BY <2>1 DEF GatewayAgrees, W!GatewayAgrees
  <2>. QED  BY <1>1, <2>1, <2>2 DEF W!handleDisconnect, W!UsersLeft
<1>. QED  BY <1>2, <1>3, <1>4 DEF GatewayAgrees, W!GatewayAgrees, W!handleDisconnect

LEMMA MessageAgrees ==
  ASSUME GatewayAgrees, NEW s, NEW u, W!handleMessage(s, u)
  PROVE  GatewayAgrees'
<1>1. ASSUME NEW v  PROVE W!SocketsOf(v) \subseteq connected
  BY DEF W!SocketsOf, GatewayAgrees, W!GatewayAgrees
<1>2. \A a \in answers' : a.to \in connected
  BY <1>1 DEF W!handleMessage
<1>. QED  BY <1>2 DEF W!handleMessage, GatewayAgrees, W!GatewayAgrees

\* The maps of the WebSocket gateway agree with each other and with the sockets that are
\* connected: handleConnection(), handleDisconnect() and handleMessage() change both maps
\* together, whatever sockets take over the name of a user.
THEOREM MapsAgree == PartsSpec => []GatewayAgrees
<1>1. PartsInit => GatewayAgrees
  BY AgreesInit DEF PartsInit
<1>2. GatewayAgrees /\ [PartsNext]_partVars => GatewayAgrees'
  <2>. SUFFICES ASSUME GatewayAgrees, [PartsNext]_partVars  PROVE GatewayAgrees'
    OBVIOUS
  <2>. [W!Next]_(W!vars)
    BY GatewayStep
  <2>1. CASE UNCHANGED W!vars
    BY <2>1 DEF W!vars, GatewayAgrees, W!GatewayAgrees
  <2>2. CASE \E s \in Sockets, u \in Users \cup {None} : W!handleConnection(s, u)
    BY <2>2, ConnectionAgrees
  <2>3. CASE \E s \in Sockets : W!handleDisconnect(s)
    BY <2>3, DisconnectionAgrees
  <2>4. CASE \E s \in Sockets, u \in Users : W!handleMessage(s, u)
    BY <2>4, MessageAgrees
  <2>. QED  BY <2>1, <2>2, <2>3, <2>4 DEF W!Next
<1>. QED  BY <1>1, <1>2, PTL DEF PartsSpec

-----------------------------------------------------------------------------
\* The limit of a request is a number, its counters count, and it pauses only when there is
\* another attempt to wait for.
LimitInv == options.retryMaxCount \in Nat
CountInv == /\ attempts \in Nat \ {0} /\ timers \in Int /\ retries \in Int
            /\ phase \in {"attempt", "pause", "done"}
PauseInv == phase = "pause" => C!Budget
RequestInv == LimitInv /\ CountInv /\ PauseInv /\ RetriesUsedUp

\* Whatever the environment and the caller give, mergeRequestOptions() makes a limit of it.
LEMMA LimitIsNat ==
  ASSUME NEW e \in C!Environments, NEW c \in C!CallerOptions
  PROVE  C!mergeRequestOptions(C!Configured(e), c).retryMaxCount \in Nat
<1>. DEFINE n == C!Overlay(C!Configured(e), c).retryMaxCount
<1>1. e.retryMaxCount \in {-9, 0, 1, 2} /\ c.retryMaxCount \in {-8, 0, 1}
  BY DEF C!Environments, C!CallerOptions, C!Unset, C!Absent
<1>2. C!Configured(e).retryMaxCount \in Int
  BY <1>1, CountAssumption DEF C!Configured, C!Unset
<1>3. n \in Int
  BY <1>1, <1>2 DEF C!Overlay, C!Configured
<1>. HIDE DEF n
<1>4. (IF n < 0 THEN 0 ELSE n) \in Nat
  BY <1>3
<1>. QED  BY <1>4 DEF C!mergeRequestOptions, n

LEMMA RequestInit == C!Init => RequestInv
<1>. SUFFICES ASSUME C!Init  PROVE RequestInv
  OBVIOUS
<1>1. LimitInv
  BY LimitIsNat DEF C!Init, LimitInv
<1>. QED
  BY <1>1 DEF C!Init, RequestInv, CountInv, PauseInv, LimitInv, RetriesUsedUp, C!RetriesUsedUp, C!AttemptsObserved

\* The end of an attempt: the request is settled, or pauses within its budget.
LEMMA AttemptEndsKeeps ==
  ASSUME RequestInv, NEW kind, NEW f, C!Ends(kind), last' = f,
         kind = "empty" \/ ~C!canRetry(f) \/ ~options.retry \/ ~C!Budget
  PROVE  RequestInv'
<1>1. UNCHANGED <<transport, options, attempts, retries>> /\ phase' = "done" /\ result' = kind
  BY DEF C!Ends
<1>2. LimitInv' /\ CountInv' /\ PauseInv' /\ C!AttemptsObserved'
  BY <1>1 DEF C!Ends, RequestInv, LimitInv, CountInv, PauseInv, RetriesUsedUp, C!AttemptsObserved
<1>3. C!canRetry(f)' <=> C!canRetry(f)
  BY <1>1 DEF C!canRetry, C!StatusCodes
<1>4. options.retryMaxCount > 0 => attempts <= options.retryMaxCount + 1
  BY DEF RequestInv, RetriesUsedUp, C!RetriesUsedUp
<1>5. ASSUME result' # "empty", C!canRetry(last)', options'.retry
      PROVE  options.retryMaxCount > 0 /\ attempts = options.retryMaxCount + 1
  <2>1. ~C!Budget
    BY <1>1, <1>3, <1>5 DEF C!canRetry
  <2>. QED  BY <2>1, <1>4 DEF C!Budget, RequestInv, LimitInv, CountInv
<1>. QED  BY <1>1, <1>2, <1>4, <1>5 DEF RequestInv, RetriesUsedUp, C!RetriesUsedUp

LEMMA RequestNextKeeps ==
  ASSUME RequestInv, [C!Next]_(C!vars)
  PROVE  RequestInv'
<1>. USE DEF RequestInv
<1>1. CASE C!Answered
  <2>1. ~C!canRetry("none")
    BY DEF C!canRetry, C!StatusCodes
  <2>. QED  BY <1>1, <2>1, AttemptEndsKeeps DEF C!Answered
<1>2. ASSUME NEW f \in C!Failures, C!Fails(f)
      PROVE  RequestInv'
  <2>1. CASE C!Pause(f) /\ C!Budget
    BY <1>2, <2>1 DEF C!Fails, C!Pause, C!Budget, LimitInv, CountInv, PauseInv, RetriesUsedUp, C!RetriesUsedUp,
                      C!AttemptsObserved
  <2>2. CASE /\ ~(options.retry /\ C!handleError(f) # "empty" /\ C!canRetry(f) /\ C!Budget)
             /\ C!Ends(C!handleError(f)) /\ last' = f
    BY <2>2, AttemptEndsKeeps
  <2>. QED  BY <1>2, <2>1, <2>2 DEF C!Fails
<1>3. CASE C!Retry
  BY <1>3 DEF C!Retry, C!Budget, LimitInv, CountInv, PauseInv, RetriesUsedUp, C!RetriesUsedUp, C!AttemptsObserved
<1>4. CASE C!TimesOut
  <2>1. ~C!canRetry("cut")
    BY DEF C!canRetry, C!StatusCodes
  <2>. QED  BY <1>4, <2>1, AttemptEndsKeeps DEF C!TimesOut
<1>5. CASE UNCHANGED C!vars
  BY <1>5 DEF C!vars, LimitInv, CountInv, PauseInv, C!Budget, RetriesUsedUp, C!RetriesUsedUp, C!AttemptsObserved,
              C!canRetry, C!StatusCodes
<1>. QED  BY <1>1, <1>2, <1>3, <1>4, <1>5 DEF C!Next, C!AttemptEnds

\* The retries of the HTTP and gRPC clients: a request that ends with an error that may be
\* repeated, and not with the timeout over all, has used every attempt its options allow;
\* each attempt has been observed by
\* one timer, each retry by one counter.
THEOREM RetriesAreUsedUp == PartsSpec => []RetriesUsedUp
<1>1. PartsInit => RequestInv
  BY RequestInit DEF PartsInit
<1>2. RequestInv /\ [PartsNext]_partVars => RequestInv'
  BY RequestStepOfClient, RequestNextKeeps
<1>3. RequestInv => RetriesUsedUp
  BY DEF RequestInv
<1>. QED  BY <1>1, <1>2, <1>3, PTL DEF PartsSpec

-----------------------------------------------------------------------------
\* ContextualTailSamplingExporter: a failed span is forwarded together with all spans of its
\* request that are exported with it. No step but an export forwards a span.
THEOREM FailuresKeepTheirContext == PartsSpec => FailuresInContext
<1>. DEFINE Together == \A s \in exported' \ exported :
                           s.error => {t \in ended \ ended' : t.of = s.of} \subseteq exported'
<1>1. ASSUME [PartsNext]_partVars  PROVE Together
  <2>1. CASE exported' = exported
    BY <2>1
  <2>2. ASSUME NEW batch \in SUBSET ended, I!Export(batch)  PROVE Together
    <3>. SUFFICES ASSUME NEW s \in exported' \ exported, s.error,
                         NEW t \in ended \ ended', t.of = s.of
                  PROVE  t \in exported'
      OBVIOUS
    <3>. DEFINE Trace == {u \in batch : u.of = s.of}
    <3>1. s \in I!Forwarded(batch) /\ t \in batch
      BY <2>2 DEF I!Export
    <3>2. s \in batch /\ \A u \in Trace : ~I!Ignored(u)
      BY <3>1 DEF I!Forwarded
    <3>3. t \in I!Forwarded(batch)
      BY <3>1, <3>2 DEF I!Forwarded
    <3>. QED  BY <2>2, <3>3 DEF I!Export
  <2>3. (\E batch \in SUBSET ended : I!Export(batch)) \/ exported' = exported
    <3>1. [I!Next]_(I!vars)
      BY <1>1, IncomingStep
    <3>2. CASE UNCHANGED I!vars
      BY <3>2 DEF I!vars
    <3>3. CASE I!AuthStep \/ I!ProviderChanges
      BY <3>3 DEF I!AuthStep, I!GotNone, I!GotCertificate, I!CertsFail, I!AskAgain, I!ProviderChanges
    <3>4. ASSUME NEW r, NEW adapter, NEW ignored, NEW token, NEW d,
                 I!Arrives(r, adapter, ignored, token, d) \/ I!Guarded(r, adapter)
          PROVE  exported' = exported
      BY <3>4 DEF I!Arrives, I!Guarded
    <3>5. ASSUME NEW r, NEW ignored, NEW token, NEW d,
                 \/ I!ArriveHttp(r, ignored, token, d) \/ I!ArriveGrpc(r, token, d) \/ I!ArriveWs(r, token, d)
                 \/ I!HttpAuthGuard(r) \/ I!GrpcAuthGuard(r) \/ I!WsAuthGuard(r)
          PROVE  exported' = exported
      BY <3>4, <3>5 DEF I!ArriveHttp, I!ArriveGrpc, I!ArriveWs, I!HttpAuthGuard, I!GrpcAuthGuard, I!WsAuthGuard
    <3>6. ASSUME NEW r, NEW outcome, NEW slow, NEW p,
                 \/ I!HttpAnswers(r, outcome, slow, p) \/ I!GrpcAnswers(r, outcome, slow, p)
                 \/ I!WsAnswers(r, outcome, slow, p)
          PROVE  exported' = exported
      BY <3>6 DEF I!HttpAnswers, I!GrpcAnswers, I!WsAnswers, I!Answers
    <3>. QED
      BY <3>1, <3>2, <3>3, <3>5, <3>6 DEF I!Next
  <2>. QED  BY <2>1, <2>2, <2>3
<1>. QED  BY <1>1, PTL DEF PartsSpec, FailuresInContext, I!FailuresInContext

-----------------------------------------------------------------------------
\* The context that the adapter of the HTTP and gRPC servers, or the gateway, gives a
\* request, and the records that are logged under it.
Own(r) == I!toAsyncContext(I!EmptyContext, I!Active(r))
LogRecords == [kind : {"request", "response"}, level : {"info", "warn", "error", "fatal"}, spanId : {"task"}]

\* What a request consists of; its context is its own from its arrival on.
Shape(q, r) ==
    /\ DOMAIN q = DOMAIN I!New
    /\ q.state \in {"new", "authenticating", "handling", "answered"}
    /\ q.transport \in {"http", "grpc", "ws"}
    /\ q.records \in Seq(LogRecords)
    /\ q.headers \in {Undefined, Own(r)}
    /\ q.state # "new" => q.context = Own(r)

\* How far a request has come: its timer, counter and records fit where it is.
Course(q) ==
    /\ q.state = "authenticating" => q.timer = "off" /\ q.records = <<>>
    /\ q.state = "handling" => /\ q.timer = IF I!Metrics(q) THEN "running" ELSE "off"
                               /\ \A i \in DOMAIN q.records : q.records[i].kind = "request"
    /\ q.state \in {"authenticating", "handling"} => q.counted = <<>> /\ q.result = "none"

\* What ToldOnce says of an answered request.
Failed(q) ==
    /\ \E i \in DOMAIN q.records : q.records[i].kind = "response"
    /\ \A i \in DOMAIN q.records : q.records[i].kind = "response" => q.records[i].level # "info"
    /\ q.transport = "http" => q.headers # Undefined
Told(q) ==
    /\ q.timer # "running"
    /\ (q.counted # <<>>) <=> (q.timer = "stopped" /\ q.result # "ok")
    /\ q.counted # <<>> /\ q.transport = "http" => q.counted[1] = q.status
    /\ q.status # "ok" => Failed(q)

RequestIs(q, r) == Shape(q, r) /\ Course(q) /\ (q.state = "answered" => Told(q))
IncomingInv == DOMAIN incoming = Incoming /\ \A r \in Incoming : RequestIs(incoming[r], r)

LEMMA OwnIsThere == \A r \in Incoming : Own(r) # Undefined /\ Own(r).spanId = "task"
BY UndefinedAssumption DEF Own, I!ContextFor, I!New, I!toAsyncContext, I!Active

LEMMA RecordOfRequest ==
  ASSUME NEW r, NEW q, q.context = Own(r), Own(r) # Undefined, Own(r).spanId = "task",
         NEW name, NEW kind \in {"request", "response"}, NEW level \in {"info", "warn", "error", "fatal"}
  PROVE  /\ I!Record(q, r, name, kind, level) \in LogRecords
         /\ I!Record(q, r, name, kind, level).kind = kind
         /\ I!Record(q, r, name, kind, level).level = level
BY DEF I!Record, I!ContextFor, LogRecords

\* The three filters: the request gets one record more, which tells a failure.
LEMMA FilterTells ==
  ASSUME NEW r \in Incoming, NEW q, DOMAIN q = DOMAIN I!New, q.context = Own(r),
         q.transport \in {"http", "grpc", "ws"},
         NEW outcome, outcome \in I!Results(q.transport) \cup {"denied"}, outcome # "ok"
  PROVE  LET p == I!Filter(q, r, outcome) IN
         /\ DOMAIN p = DOMAIN I!New
         /\ \A f \in DOMAIN I!New \ {"status", "headers", "records"} : p[f] = q[f]
         /\ p.headers \in {q.headers, Own(r)}
         /\ q.transport = "http" => p.status = I!HttpStatus(outcome) /\ p.headers # Undefined
         /\ \E record \in LogRecords : /\ p.records = Append(q.records, record)
                                       /\ record.kind = "response" /\ record.level # "info"
<1>. Own(r) # Undefined /\ Own(r).spanId = "task"
  BY OwnIsThere
<1>. DEFINE p == I!Filter(q, r, outcome)
<1>1. CASE q.transport = "http"
  <2>. DEFINE record == I!Record(q, r, "filter", "response", I!HttpLevel(I!HttpStatus(outcome)))
  <2>1. outcome \in {"refused", "failed", "loop", "unlisted", "error", "denied"}
    BY <1>1 DEF I!Results
  <2>2. I!HttpLevel(I!HttpStatus(outcome)) \in {"warn", "error", "fatal"}
    BY <2>1 DEF I!HttpLevel, I!HttpStatus
  <2>3. record \in LogRecords /\ record.kind = "response" /\ record.level # "info"
    BY <2>2, RecordOfRequest
  <2>4. p = [q EXCEPT !.status = I!HttpStatus(outcome), !.headers = I!WithHeaders(q),
                      !.records = Append(@, record)]
    BY <1>1 DEF I!Filter, I!HttpFilter
  <2>. HIDE DEF p, record
  <2>. QED  BY <1>1, <2>3, <2>4 DEF I!WithHeaders, I!New, p
<1>2. CASE q.transport = "grpc"
  <2>. DEFINE record == I!Record(q, r, "filter", "response", I!GrpcLevel(I!GrpcStatus(outcome)))
  <2>1. outcome \in {"refused", "failed", "bare", "named", "error", "denied"}
    BY <1>2 DEF I!Results
  <2>2. I!GrpcLevel(I!GrpcStatus(outcome)) \in {"warn", "error"}
    BY <2>1 DEF I!GrpcLevel, I!GrpcStatus
  <2>3. record \in LogRecords /\ record.kind = "response" /\ record.level # "info"
    BY <2>2, RecordOfRequest
  <2>4. p = [q EXCEPT !.status = I!GrpcStatus(outcome), !.headers = I!GrpcHeaders(q, outcome),
                      !.records = Append(@, record)]
    BY <1>2 DEF I!Filter, I!GrpcFilter
  <2>5. I!GrpcHeaders(q, outcome) \in {q.headers, Own(r)}
    BY DEF I!GrpcHeaders
  <2>. HIDE DEF p, record
  <2>. QED  BY <1>2, <2>3, <2>4, <2>5 DEF I!New, p
<1>3. CASE q.transport = "ws"
  <2>. DEFINE record == I!Record(q, r, "filter", "response", I!WsLevel(I!WsStatus(outcome)))
  <2>2. I!WsLevel(I!WsStatus(outcome)) \in {"warn", "error"}
    BY DEF I!WsLevel
  <2>3. record \in LogRecords /\ record.kind = "response" /\ record.level # "info"
    BY <2>2, RecordOfRequest
  <2>4. p = [q EXCEPT !.status = I!WsStatus(outcome), !.records = Append(@, record)]
    BY <1>3 DEF I!Filter, I!WsFilter
  <2>. HIDE DEF p, record
  <2>. QED  BY <1>3, <2>3, <2>4 DEF I!New, p
<1>. QED  BY <1>1, <1>2, <1>3

\* A step of one request leaves the others as they are.
LEMMA OneChanges ==
  ASSUME IncomingInv, NEW r \in Incoming, NEW p, RequestIs(p, r), incoming' = [incoming EXCEPT ![r] = p]
  PROVE  IncomingInv'
BY DEF IncomingInv

LEMMA ArrivalKeeps ==
  ASSUME IncomingInv, NEW r \in Incoming, NEW adapter \in {"http", "grpc", "ws"},
         NEW ignored, NEW token, NEW d, I!Arrives(r, adapter, ignored, token, d)
  PROVE  IncomingInv'
<1>. DEFINE p == [I!New EXCEPT !.state = "authenticating", !.transport = adapter, !.ignored = ignored,
                               !.token = token, !.decorators = d, !.context = I!ContextFor(I!New, r, "guard")]
<1>1. I!ContextFor(I!New, r, "guard") = Own(r)
  BY DEF I!ContextFor, I!New, Own
<1>2. DOMAIN p = DOMAIN I!New /\ p.state = "authenticating" /\ p.transport = adapter /\ p.context = Own(r)
  BY <1>1 DEF I!New
<1>3. p.records = <<>> /\ p.headers = Undefined /\ p.timer = "off" /\ p.counted = <<>> /\ p.result = "none"
  BY DEF I!New
<1>4. incoming' = [incoming EXCEPT ![r] = p]
  BY DEF I!Arrives
<1>. HIDE DEF p
<1>5. RequestIs(p, r)
  BY <1>2, <1>3 DEF RequestIs, Shape, Course
<1>. QED  BY <1>4, <1>5, OneChanges

\* What the filter makes of a request whose timer and counter agree with its outcome.
LEMMA FilterAnswers ==
  ASSUME NEW r \in Incoming, NEW q, Shape(q, r), q.context = Own(r), q.timer # "running",
         NEW outcome, outcome \in I!Results(q.transport) \cup {"denied"}, outcome # "ok",
         (q.counted # <<>>) <=> (q.timer = "stopped" /\ q.result # "ok"),
         q.counted # <<>> /\ q.transport = "http" => q.counted[1] = I!HttpStatus(outcome),
         \A i \in DOMAIN q.records : q.records[i].kind = "response" => q.records[i].level # "info"
  PROVE  /\ Shape(I!Filter(q, r, outcome), r)
         /\ Told(I!Filter(q, r, outcome))
         /\ I!Filter(q, r, outcome).state = q.state
<1>. DEFINE p == I!Filter(q, r, outcome)
<1>1. /\ DOMAIN p = DOMAIN I!New
      /\ \A f \in DOMAIN I!New \ {"status", "headers", "records"} : p[f] = q[f]
      /\ p.headers \in {q.headers, Own(r)}
      /\ q.transport = "http" => p.status = I!HttpStatus(outcome) /\ p.headers # Undefined
      /\ \E record \in LogRecords : /\ p.records = Append(q.records, record)
                                    /\ record.kind = "response" /\ record.level # "info"
  BY FilterTells DEF Shape
<1>. HIDE DEF p
<1>2. /\ p.state = q.state /\ p.transport = q.transport /\ p.context = q.context /\ p.timer = q.timer
      /\ p.counted = q.counted /\ p.result = q.result
  BY <1>1 DEF I!New
<1>3. PICK record \in LogRecords : /\ p.records = Append(q.records, record)
                                   /\ record.kind = "response" /\ record.level # "info"
  BY <1>1
<1>4. q.records \in Seq(LogRecords)
  BY DEF Shape
<1>5. /\ p.records \in Seq(LogRecords) /\ DOMAIN p.records = 1 .. Len(q.records) + 1
      /\ \A i \in DOMAIN p.records : p.records[i] = IF i \in DOMAIN q.records THEN q.records[i] ELSE record
      /\ Len(q.records) + 1 \in DOMAIN p.records /\ p.records[Len(q.records) + 1] = record
  BY <1>3, <1>4
<1>6. Failed(p)
  BY <1>1, <1>2, <1>3, <1>5 DEF Failed
<1>7. Shape(p, r)
  BY <1>1, <1>2, <1>5 DEF Shape
<1>8. Told(p)
  BY <1>1, <1>2, <1>6 DEF Told
<1>. QED  BY <1>2, <1>7, <1>8 DEF p

\* The guards of the three transports: a request is denied, or goes on to its handler.
LEMMA GuardKeeps ==
  ASSUME IncomingInv, NEW r \in Incoming, NEW adapter, I!Guarded(r, adapter)
  PROVE  IncomingInv'
<1>. DEFINE q == [incoming[r] EXCEPT !.auth = I!authenticate(incoming[r].token)]
            passed == [q EXCEPT !.state = "handling",
                                !.records = IF I!Logs(q) THEN <<I!Record(q, r, "guard", "request", "info")>> ELSE <<>>,
                                !.timer = IF I!Metrics(q) THEN "running" ELSE "off"]
            denied == [I!Filter(q, r, "denied") EXCEPT !.state = "answered"]
<1>1. Shape(incoming[r], r) /\ Course(incoming[r]) /\ incoming[r].state = "authenticating"
  BY DEF IncomingInv, RequestIs, I!Guarded
<1>2. /\ Shape(q, r) /\ q.state = "authenticating" /\ q.context = Own(r)
      /\ q.timer = "off" /\ q.records = <<>> /\ q.counted = <<>> /\ q.result = "none"
  BY <1>1 DEF Shape, Course, I!New
<1>3. incoming' = [incoming EXCEPT ![r] = passed] \/ incoming' = [incoming EXCEPT ![r] = denied]
  BY DEF I!Guarded
<1>. HIDE DEF q
<1>4. RequestIs(passed, r)
  <2>1. I!Record(q, r, "guard", "request", "info") \in LogRecords
        /\ I!Record(q, r, "guard", "request", "info").kind = "request"
    BY <1>2, OwnIsThere, RecordOfRequest
  <2>2. /\ DOMAIN passed = DOMAIN I!New /\ passed.state = "handling" /\ passed.transport = q.transport
        /\ passed.headers = q.headers /\ passed.context = q.context
        /\ passed.counted = q.counted /\ passed.result = q.result
        /\ passed.decorators = q.decorators
        /\ passed.timer = IF I!Metrics(q) THEN "running" ELSE "off"
        /\ passed.records \in {<<>>, <<I!Record(q, r, "guard", "request", "info")>>}
    BY <1>2 DEF Shape, I!New
  <2>. HIDE DEF passed
  <2>3. I!Metrics(passed) = I!Metrics(q)
    BY <2>2 DEF I!Metrics
  <2>4. passed.records \in Seq(LogRecords) /\ \A i \in DOMAIN passed.records : passed.records[i].kind = "request"
    <3>. DEFINE record == I!Record(q, r, "guard", "request", "info")
    <3>1. record \in LogRecords /\ record.kind = "request"
      BY <2>1
    <3>2. passed.records = <<>> \/ passed.records = <<record>>
      BY <2>2
    <3>. HIDE DEF record
    <3>3. CASE passed.records = <<>>
      BY <3>3
    <3>4. CASE passed.records = <<record>>
      BY <3>1, <3>4
    <3>. QED  BY <3>2, <3>3, <3>4
  <2>. QED  BY <1>2, <2>2, <2>3, <2>4 DEF RequestIs, Shape, Course
<1>5. RequestIs(denied, r)
  <2>. DEFINE f == I!Filter(q, r, "denied")
  <2>1. Shape(f, r) /\ Told(f) /\ f.state = "authenticating" /\ f.context = Own(r)
    <3>1. Shape(f, r) /\ Told(f) /\ f.state = q.state
      BY <1>2, FilterAnswers
    <3>. QED  BY <1>2, <3>1 DEF Shape
  <2>. HIDE DEF f
  <2>2. /\ DOMAIN denied = DOMAIN I!New /\ denied.state = "answered"
        /\ \A x \in DOMAIN I!New \ {"state"} : denied[x] = f[x]
    BY <2>1 DEF Shape, I!New, f
  <2>. HIDE DEF denied
  <2>3. /\ denied.transport = f.transport /\ denied.records = f.records /\ denied.headers = f.headers
        /\ denied.context = f.context /\ denied.timer = f.timer /\ denied.counted = f.counted
        /\ denied.result = f.result /\ denied.status = f.status
    BY <2>2 DEF I!New
  <2>. QED  BY <2>1, <2>2, <2>3 DEF RequestIs, Shape, Course, Told, Failed
<1>. QED  BY <1>3, <1>4, <1>5, OneChanges

\* The handlers' answers, on each transport, with the interceptors around them.
LEMMA AnswerKeeps ==
  ASSUME IncomingInv, NEW r \in Incoming, NEW q, Shape(q, r), q.context = Own(r),
         q.timer = IF I!Metrics(q) THEN "running" ELSE "off",
         NEW outcome, NEW slow, NEW p, NEW spans, I!Answers(r, q, outcome, slow, p, spans),
         q.counted # <<>> <=> I!Metrics(q) /\ outcome # "ok",
         q.counted # <<>> /\ q.transport = "http" => q.counted[1] = I!HttpStatus(outcome),
         outcome # "ok" =>
            \A i \in DOMAIN q.records : q.records[i].kind = "response" => q.records[i].level # "info"
  PROVE  IncomingInv'
<1>. DEFINE told == [q EXCEPT !.timer = I!TimerAfter(@, outcome), !.slow = slow, !.result = outcome,
                              !.state = "answered", !.status = "ok"]
<1>1. /\ outcome \in I!Results(q.transport)
      /\ incoming' = [incoming EXCEPT ![r] = IF outcome = "ok" THEN told ELSE I!Filter(told, r, outcome)]
  BY DEF I!Answers
<1>2. /\ DOMAIN told = DOMAIN I!New /\ told.state = "answered" /\ told.status = "ok" /\ told.result = outcome
      /\ told.timer = IF I!Metrics(q) THEN "stopped" ELSE "off"
      /\ told.context = q.context /\ told.transport = q.transport /\ told.records = q.records
      /\ told.counted = q.counted /\ told.headers = q.headers
  BY DEF Shape, I!New, I!TimerAfter
<1>. HIDE DEF told
<1>3. Shape(told, r)
  BY <1>2 DEF Shape
<1>4. CASE outcome = "ok"
  <2>1. Told(told)
    BY <1>2, <1>4 DEF Told
  <2>2. RequestIs(told, r)
    BY <1>2, <1>3, <2>1 DEF RequestIs, Course
  <2>. QED  BY <1>1, <1>4, <2>2, OneChanges
<1>5. CASE outcome # "ok"
  <2>1. Shape(I!Filter(told, r, outcome), r) /\ Told(I!Filter(told, r, outcome))
        /\ I!Filter(told, r, outcome).state = "answered"
    BY <1>1, <1>2, <1>3, <1>5, FilterAnswers
  <2>2. RequestIs(I!Filter(told, r, outcome), r)
    BY <2>1 DEF RequestIs, Course
  <2>. QED  BY <1>1, <1>5, <2>2, OneChanges
<1>. QED  BY <1>4, <1>5

LEMMA HttpAnswerKeeps ==
  ASSUME IncomingInv, NEW r \in Incoming, NEW outcome, NEW slow, NEW p, I!HttpAnswers(r, outcome, slow, p)
  PROVE  IncomingInv'
<1>. DEFINE o == incoming[r]
            q == [o EXCEPT !.records = @ \o I!HttpLogged(o, r, outcome),
                           !.counted = I!HttpCounted(o, outcome),
                           !.headers = I!HttpHeadersResponse(o)]
<1>1. PICK spans : I!Answers(r, q, outcome, slow, p, spans)
  BY DEF I!HttpAnswers
<1>2. Shape(o, r) /\ Course(o) /\ o.transport = "http"
  BY DEF IncomingInv, RequestIs, I!HttpAnswers
<1>. HIDE DEF o
<1>3. /\ DOMAIN q = DOMAIN I!New /\ q.state = o.state /\ q.transport = o.transport /\ q.context = o.context
      /\ q.timer = o.timer /\ q.decorators = o.decorators /\ q.result = o.result
      /\ q.records = o.records \o I!HttpLogged(o, r, outcome)
      /\ q.counted = I!HttpCounted(o, outcome) /\ q.headers = I!HttpHeadersResponse(o)
  BY <1>2 DEF Shape, I!New
<1>. HIDE DEF q
<1>4. o.state = "handling" /\ outcome \in I!Results("http") /\ o.context = Own(r)
  BY <1>1, <1>2, <1>3 DEF I!Answers, Shape
<1>5. I!Metrics(q) = I!Metrics(o)
  BY <1>3 DEF I!Metrics
<1>6. q.headers \in {Undefined, Own(r)}
  BY <1>2, <1>3, <1>4 DEF I!HttpHeadersResponse, I!WithHeaders, Shape
<1>7. /\ q.records \in Seq(LogRecords)
      /\ outcome # "ok" =>
            \A i \in DOMAIN q.records : q.records[i].kind = "response" => q.records[i].level # "info"
  <2>. DEFINE record == I!Record(o, r, "handler", "response", I!HttpLevel(I!HttpStatus(outcome)))
  <2>1. /\ I!HttpLevel(I!HttpStatus(outcome)) \in {"info", "warn", "error", "fatal"}
        /\ outcome # "ok" => I!HttpLevel(I!HttpStatus(outcome)) # "info"
    BY <1>4 DEF I!Results, I!HttpLevel, I!HttpStatus
  <2>2. record \in LogRecords /\ (outcome # "ok" => record.level # "info")
    BY <1>4, <2>1, OwnIsThere, RecordOfRequest
  <2>3. I!HttpLogged(o, r, outcome) = <<>> \/ I!HttpLogged(o, r, outcome) = <<record>>
    BY DEF I!HttpLogged
  <2>4. o.records \in Seq(LogRecords) /\ \A i \in DOMAIN o.records : o.records[i].kind = "request"
    BY <1>2, <1>4 DEF Shape, Course
  <2>. HIDE DEF record
  <2>5. CASE I!HttpLogged(o, r, outcome) = <<>>
    BY <1>3, <2>4, <2>5
  <2>6. CASE I!HttpLogged(o, r, outcome) = <<record>>
    BY <1>3, <2>2, <2>4, <2>6
  <2>. QED  BY <2>3, <2>5, <2>6
<1>8. /\ q.counted # <<>> <=> I!Metrics(q) /\ outcome # "ok"
      /\ q.counted # <<>> => q.counted[1] = I!HttpStatus(outcome)
  BY <1>3, <1>5 DEF I!HttpCounted
<1>9. Shape(q, r) /\ q.context = Own(r) /\ q.timer = IF I!Metrics(q) THEN "running" ELSE "off"
  BY <1>2, <1>3, <1>4, <1>5, <1>6, <1>7 DEF Shape, Course
<1>. QED  BY <1>1, <1>7, <1>8, <1>9, AnswerKeeps

LEMMA GrpcAnswerKeeps ==
  ASSUME IncomingInv, NEW r \in Incoming, NEW outcome, NEW slow, NEW p, I!GrpcAnswers(r, outcome, slow, p)
  PROVE  IncomingInv'
<1>. DEFINE o == incoming[r]
            q == [o EXCEPT !.records = @ \o I!GrpcLogged(o, r, outcome),
                           !.counted = I!GrpcCounted(o, outcome)]
<1>1. PICK spans : I!Answers(r, q, outcome, slow, p, spans)
  BY DEF I!GrpcAnswers
<1>2. Shape(o, r) /\ Course(o) /\ o.transport = "grpc"
  BY DEF IncomingInv, RequestIs, I!GrpcAnswers
<1>. HIDE DEF o
<1>3. /\ DOMAIN q = DOMAIN I!New /\ q.state = o.state /\ q.transport = o.transport /\ q.context = o.context
      /\ q.timer = o.timer /\ q.decorators = o.decorators /\ q.result = o.result /\ q.headers = o.headers
      /\ q.records = o.records \o I!GrpcLogged(o, r, outcome)
      /\ q.counted = I!GrpcCounted(o, outcome)
  BY <1>2 DEF Shape, I!New
<1>. HIDE DEF q
<1>4. o.state = "handling" /\ outcome \in I!Results("grpc") /\ o.context = Own(r)
  BY <1>1, <1>2, <1>3 DEF I!Answers, Shape
<1>5. I!Metrics(q) = I!Metrics(o)
  BY <1>3 DEF I!Metrics
<1>6. /\ q.records \in Seq(LogRecords)
      /\ outcome # "ok" =>
            \A i \in DOMAIN q.records : q.records[i].kind = "response" => q.records[i].level # "info"
  <2>. DEFINE record == I!Record(o, r, "handler", "response", I!GrpcLevel(I!GrpcStatus(outcome)))
  <2>1. /\ I!GrpcLevel(I!GrpcStatus(outcome)) \in {"info", "warn", "error", "fatal"}
        /\ outcome # "ok" => I!GrpcLevel(I!GrpcStatus(outcome)) # "info"
    BY <1>4 DEF I!Results, I!GrpcLevel, I!GrpcStatus
  <2>2. record \in LogRecords /\ (outcome # "ok" => record.level # "info")
    BY <1>4, <2>1, OwnIsThere, RecordOfRequest
  <2>3. I!GrpcLogged(o, r, outcome) = <<>> \/ I!GrpcLogged(o, r, outcome) = <<record>>
    BY DEF I!GrpcLogged
  <2>4. o.records \in Seq(LogRecords) /\ \A i \in DOMAIN o.records : o.records[i].kind = "request"
    BY <1>2, <1>4 DEF Shape, Course
  <2>. HIDE DEF record
  <2>5. CASE I!GrpcLogged(o, r, outcome) = <<>>
    BY <1>3, <2>4, <2>5
  <2>6. CASE I!GrpcLogged(o, r, outcome) = <<record>>
    BY <1>3, <2>2, <2>4, <2>6
  <2>. QED  BY <2>3, <2>5, <2>6
<1>7. q.counted # <<>> <=> I!Metrics(q) /\ outcome # "ok"
  BY <1>3, <1>5 DEF I!GrpcCounted
<1>8. /\ Shape(q, r) /\ q.context = Own(r) /\ q.transport # "http"
      /\ q.timer = IF I!Metrics(q) THEN "running" ELSE "off"
  BY <1>2, <1>3, <1>4, <1>5, <1>6 DEF Shape, Course
<1>. QED  BY <1>1, <1>6, <1>7, <1>8, AnswerKeeps

LEMMA WsAnswerKeeps ==
  ASSUME IncomingInv, NEW r \in Incoming, NEW outcome, NEW slow, NEW p, I!WsAnswers(r, outcome, slow, p)
  PROVE  IncomingInv'
<1>. DEFINE q == incoming[r]
<1>1. I!Answers(r, q, outcome, slow, p, {})
  BY DEF I!WsAnswers
<1>2. Shape(q, r) /\ Course(q) /\ q.transport = "ws" /\ q.state = "handling"
  BY DEF IncomingInv, RequestIs, I!WsAnswers, I!Answers
<1>. HIDE DEF q
<1>3. ~I!Metrics(q)
  BY <1>2 DEF I!Metrics
<1>4. /\ q.context = Own(r) /\ q.timer = "off" /\ q.counted = <<>>
      /\ \A i \in DOMAIN q.records : q.records[i].kind = "request"
  BY <1>2, <1>3 DEF Shape, Course
<1>. QED  BY <1>1, <1>2, <1>3, <1>4, AnswerKeeps

LEMMA IncomingNextKeeps ==
  ASSUME IncomingInv, [I!Next]_(I!vars)
  PROVE  IncomingInv'
<1>1. CASE incoming' = incoming
  BY <1>1 DEF IncomingInv
<1>2. ASSUME NEW r \in Incoming, NEW ignored, NEW token, NEW d,
             I!ArriveHttp(r, ignored, token, d) \/ I!ArriveGrpc(r, token, d) \/ I!ArriveWs(r, token, d)
      PROVE  IncomingInv'
  BY <1>2, ArrivalKeeps DEF I!ArriveHttp, I!ArriveGrpc, I!ArriveWs
<1>3. ASSUME NEW r \in Incoming, I!HttpAuthGuard(r) \/ I!GrpcAuthGuard(r) \/ I!WsAuthGuard(r)
      PROVE  IncomingInv'
  BY <1>3, GuardKeeps DEF I!HttpAuthGuard, I!GrpcAuthGuard, I!WsAuthGuard
<1>4. ASSUME NEW r \in Incoming, NEW outcome, NEW slow, NEW p,
             \/ I!HttpAnswers(r, outcome, slow, p) \/ I!GrpcAnswers(r, outcome, slow, p)
             \/ I!WsAnswers(r, outcome, slow, p)
      PROVE  IncomingInv'
  BY <1>4, HttpAnswerKeeps, GrpcAnswerKeeps, WsAnswerKeeps
<1>5. CASE I!AuthStep \/ I!ProviderChanges \/ \E batch \in SUBSET ended : I!Export(batch)
  BY <1>1, <1>5 DEF I!AuthStep, I!GotNone, I!GotCertificate, I!CertsFail, I!AskAgain, I!ProviderChanges, I!Export
<1>6. CASE UNCHANGED I!vars
  BY <1>1, <1>6 DEF I!vars
<1>. QED  BY <1>2, <1>3, <1>4, <1>5, <1>6 DEF I!Next

LEMMA IncomingInit == I!Init => IncomingInv
<1>1. ASSUME NEW r \in Incoming  PROVE RequestIs(I!New, r)
  BY DEF RequestIs, Shape, Course, I!New
<1>. QED  BY <1>1 DEF I!Init, IncomingInv

LEMMA IncomingInvariant == PartsSpec => []IncomingInv
<1>1. PartsInit => IncomingInv
  BY IncomingInit DEF PartsInit
<1>2. IncomingInv /\ [PartsNext]_partVars => IncomingInv'
  BY IncomingStep, IncomingNextKeeps
<1>. QED  BY <1>1, <1>2, PTL DEF PartsSpec

\* An answered request of the HTTP and gRPC servers and of the gateway: its timer is stopped,
\* an error counter is raised exactly when a timed request fails, with the status that is
\* sent, and a failure is logged as one: by the interceptors or by the error filters, on every way
\* through adapter, guard, handler and filter.
THEOREM RequestsToldOnce == PartsSpec => []ToldOnce
<1>1. IncomingInv => ToldOnce
  BY DEF IncomingInv, RequestIs, Told, Failed, ToldOnce, I!ToldOnce
<1>. QED  BY <1>1, IncomingInvariant, PTL

-----------------------------------------------------------------------------
\* The requests that are answered by what a call has sent, or asked to be sent.
Answered(c) == {a.of : a \in sent[c] \cup UNION asked[c]}
WithData(f) == {m \in M!ToSet(f) : m.value = "data"}

\* The six functions, and that the server does not change its mode.
StoresInv == /\ at \in [Calls -> {"idle", "decoding", "handling", "searching", "answering"}]
             /\ DOMAIN fetch = Calls /\ DOMAIN store = Calls \cup {M!Listen} /\ DOMAIN span = Calls
             /\ DOMAIN asked = Calls /\ DOMAIN sent = Calls /\ DOMAIN failures = Calls

\* A call receives once; until it has found its answers there are none.
CourseInv(c) ==
    /\ fetch[c] \in Seq(M!Message)
    /\ at[c] # "idle" => fetch[c] # <<>> /\ failures[c] = 0 /\ sent[c] = {}
    /\ at[c] \in {"decoding", "handling", "searching"} => asked[c] = {}
    /\ at[c] = "handling" => mode = "each"
    /\ at[c] = "answering" => mode = "rabbit" /\ \A q, r \in asked[c] : q = r

\* The span of the call carries the trace of its first message, then the context does.
TraceInv(c) ==
    LET own == M!Headers(fetch[c][1]) IN
    /\ at[c] = "decoding" /\ own.traceId # Undefined => span[c].traceId = own.traceId
    /\ at[c] \in {"handling", "searching", "answering"} =>
          /\ store[c].correlationId = own.correlationId
          /\ store[c].reply = own.reply
          /\ own.traceId # Undefined => store[c].traceId = own.traceId

AnswerInv(c) ==
    at[c] = "idle" =>
       /\ fetch[c] = <<>> => failures[c] = 0 /\ asked[c] = {} /\ sent[c] = {}
       /\ failures[c] # 0 => asked[c] = {} /\ sent[c] = {}
       /\ failures[c] = 0 /\ mode = "batch" /\ ~unhandled /\ fetch[c] # <<>> /\ store[c].reply # Undefined
            => Answered(c) = {m.id : m \in WithData(fetch[c])}

CallInv(c) == CourseInv(c) /\ TraceInv(c) /\ AnswerInv(c)
MessagesInv == StoresInv /\ \A c \in Calls : CallInv(c)

\* What a call does leaves the others as they are.
LEMMA OthersKeep ==
  ASSUME NEW c \in Calls, CallInv(c), fetch'[c] = fetch[c], at'[c] = at[c], store'[c] = store[c],
         span'[c] = span[c], asked'[c] = asked[c], sent'[c] = sent[c], failures'[c] = failures[c],
         mode' = mode, unhandled => unhandled'
  PROVE  CallInv(c)'
<1>1. CourseInv(c)'
  BY DEF CallInv, CourseInv
<1>2. TraceInv(c)'
  BY DEF CallInv, TraceInv
<1>3. AnswerInv(c)'
  BY DEF CallInv, AnswerInv, Answered
<1>. QED  BY <1>1, <1>2, <1>3 DEF CallInv

LEMMA ReceiveKeeps ==
  ASSUME MessagesInv, NEW c \in Calls, NEW f \in M!Fetches(c), M!Receive(c, f)
  PROVE  MessagesInv'
<1>. DEFINE headers == M!Headers(f[1])
            active  == M!Telemetry(headers, <<"telemetry", c>>)
            wrapped == M!wrapWithTelemetry(M!EmptyContext, active, <<"define", c>>)
<1>1. /\ fetch[c] = <<>> /\ fetch' = [fetch EXCEPT ![c] = f]
      /\ at' = [at EXCEPT ![c] = "decoding"] /\ store' = [store EXCEPT ![c] = wrapped.store]
      /\ span' = [span EXCEPT ![c] = wrapped.span]
      /\ UNCHANGED <<mode, asked, sent, failures, unhandled>>
  BY DEF M!Receive, M!StoreOf
<1>2. f \in Seq(M!Message) /\ f # <<>> /\ f[1] \in M!Message
  <2>1. \A d, i : M!Delivered(d, i) \subseteq M!Message
    BY DEF M!Delivered
  <2>2. CASE f \in {<<m>> : m \in M!Delivered(c, 1)}
    <3>1. PICK m \in M!Message : f = <<m>>
      BY <2>1, <2>2
    <3>. QED  BY <3>1
  <2>3. CASE f \in M!Delivered(c, 1) \X M!Delivered(c, 2)
    <3>1. PICK m, n \in M!Message : f = <<m, n>>
      BY <2>1, <2>3
    <3>. QED  BY <3>1
  <2>. QED  BY <2>2, <2>3 DEF M!Fetches
<1>3. headers.traceId # Undefined => wrapped.span.traceId = headers.traceId
  <2>1. active # Undefined
    BY <1>2, UndefinedAssumption
  <2>2. headers.traceId # Undefined => headers.spanId # Undefined
    BY <1>2, UndefinedAssumption DEF M!Headers
  <2>3. headers.traceId # Undefined => active.traceId = headers.traceId
    BY <2>2 DEF M!Telemetry, M!StartSpan
  <2>. HIDE DEF active, headers
  <2>4. wrapped.span.traceId = active.traceId
    BY <2>1 DEF M!wrapWithTelemetry, M!StartSpan
  <2>. QED  BY <2>3, <2>4
<1>. HIDE DEF headers, wrapped
<1>4. StoresInv'
  BY <1>1 DEF MessagesInv, StoresInv
<1>5. CallInv(c)'
  <2>1. CallInv(c) /\ at[c] = "idle"
    BY <1>1 DEF MessagesInv, StoresInv, CallInv, CourseInv
  <2>2. fetch'[c] = f /\ at'[c] = "decoding" /\ span'[c] = wrapped.span
    BY <1>1 DEF MessagesInv, StoresInv
  <2>3. asked[c] = {} /\ sent[c] = {} /\ failures[c] = 0
    BY <1>1, <2>1 DEF CallInv, AnswerInv
  <2>4. CourseInv(c)'
    BY <1>1, <1>2, <2>2, <2>3 DEF CourseInv
  <2>5. TraceInv(c)'
    BY <1>3, <2>2 DEF TraceInv, headers
  <2>6. AnswerInv(c)'
    BY <2>2 DEF AnswerInv
  <2>. QED  BY <2>4, <2>5, <2>6 DEF CallInv
<1>6. ASSUME NEW d \in Calls, d # c  PROVE CallInv(d)'
  BY <1>1, <1>6, OthersKeep DEF MessagesInv, StoresInv
<1>. QED  BY <1>4, <1>5, <1>6 DEF MessagesInv

\* A call that is given up before it has answers is counted.
LEMMA GivenUp ==
  ASSUME MessagesInv, NEW c \in Calls, at[c] \in {"decoding", "searching"},
         at' = [at EXCEPT ![c] = "idle"], span' = [span EXCEPT ![c] = Undefined],
         failures' = [failures EXCEPT ![c] = Len(fetch[c])],
         UNCHANGED <<mode, fetch, store, asked, sent, unhandled>>
  PROVE  MessagesInv'
<1>1. StoresInv'
  BY DEF MessagesInv, StoresInv
<1>2. CallInv(c)'
  <2>1. fetch[c] \in Seq(M!Message) /\ fetch[c] # <<>> /\ asked[c] = {} /\ sent[c] = {}
    BY DEF MessagesInv, CallInv, CourseInv
  <2>2. at'[c] = "idle" /\ failures'[c] = Len(fetch[c]) /\ Len(fetch[c]) # 0
    BY <2>1 DEF MessagesInv, StoresInv
  <2>3. CourseInv(c)' /\ TraceInv(c)'
    BY <2>1, <2>2 DEF CourseInv, TraceInv
  <2>4. AnswerInv(c)'
    BY <2>1, <2>2 DEF AnswerInv
  <2>. QED  BY <2>3, <2>4 DEF CallInv
<1>3. ASSUME NEW d \in Calls, d # c  PROVE CallInv(d)'
  BY <1>3, OthersKeep DEF MessagesInv, StoresInv
<1>. QED  BY <1>1, <1>2, <1>3 DEF MessagesInv

\* The deserializer ends, and the handler is run under the context of the call.
LEMMA DecodedKeeps ==
  ASSUME MessagesInv, NEW c \in Calls, M!Decoded(c)
  PROVE  MessagesInv'
<1>. DEFINE own == M!Headers(fetch[c][1])
            data == M!WithData(c)
            next == M!setMultiple(store[c], M!toAsyncContext(own, span[c]))
<1>1. /\ at[c] = "decoding"
      /\ store' = IF mode # "batch" /\ data = {} THEN store ELSE [store EXCEPT ![c] = next]
      /\ \/ /\ data = {}
            /\ at' = [at EXCEPT ![c] = "idle"] /\ failures' = [failures EXCEPT ![c] = 0]
            /\ span' = [span EXCEPT ![c] = Undefined]
         \/ /\ data # {}
            /\ at' = [at EXCEPT ![c] = IF mode = "each" THEN "handling" ELSE "searching"]
            /\ UNCHANGED <<span, failures>>
      /\ UNCHANGED <<mode, fetch, asked, sent, unhandled>>
  BY DEF M!Decoded, M!StoreOf, M!Return
<1>2. data = WithData(fetch[c])
  BY DEF M!WithData, WithData
<1>. HIDE DEF data
<1>3. /\ next.correlationId = own.correlationId /\ next.reply = own.reply
      /\ next.traceId = span[c].traceId
  BY DEF M!setMultiple, M!toAsyncContext
<1>. HIDE DEF next, own
<1>4. StoresInv'
  BY <1>1 DEF MessagesInv, StoresInv
<1>5. CallInv(c)'
  <2>1. /\ fetch[c] \in Seq(M!Message) /\ fetch[c] # <<>> /\ failures[c] = 0
        /\ asked[c] = {} /\ sent[c] = {}
        /\ own.traceId # Undefined => span[c].traceId = own.traceId
    BY <1>1 DEF MessagesInv, CallInv, CourseInv, TraceInv, own
  <2>2. CASE data = {}
    <3>1. at'[c] = "idle" /\ failures'[c] = 0
      BY <1>1, <2>2 DEF MessagesInv, StoresInv
    <3>2. CourseInv(c)' /\ TraceInv(c)'
      BY <1>1, <2>1, <3>1 DEF CourseInv, TraceInv
    <3>3. Answered(c)' = {}
      BY <1>1, <2>1 DEF Answered
    <3>4. AnswerInv(c)'
      BY <1>1, <1>2, <2>1, <2>2, <3>1, <3>3 DEF AnswerInv
    <3>. QED  BY <3>2, <3>4 DEF CallInv
  <2>3. CASE data # {}
    <3>1. /\ at'[c] = IF mode = "each" THEN "handling" ELSE "searching"
          /\ store'[c] = next /\ failures'[c] = 0
      BY <1>1, <2>1, <2>3 DEF MessagesInv, StoresInv
    <3>2. CourseInv(c)'
      BY <1>1, <2>1, <3>1 DEF CourseInv
    <3>3. TraceInv(c)'
      BY <1>1, <1>3, <2>1, <3>1 DEF TraceInv, own
    <3>4. AnswerInv(c)'
      BY <3>1 DEF AnswerInv
    <3>. QED  BY <3>2, <3>3, <3>4 DEF CallInv
  <2>. QED  BY <2>2, <2>3
<1>6. ASSUME NEW d \in Calls, d # c  PROVE CallInv(d)'
  BY <1>1, <1>6, OthersKeep DEF MessagesInv, StoresInv
<1>. QED  BY <1>4, <1>5, <1>6 DEF MessagesInv

LEMMA HandledKeeps ==
  ASSUME MessagesInv, NEW c \in Calls, M!Handled(c)
  PROVE  MessagesInv'
<1>1. PICK counted \in {0, 1} :
         /\ at[c] = "handling"
         /\ at' = [at EXCEPT ![c] = "idle"] /\ span' = [span EXCEPT ![c] = Undefined]
         /\ failures' = [failures EXCEPT ![c] = counted]
         /\ UNCHANGED <<mode, fetch, store, asked, sent, unhandled>>
  BY DEF M!Handled, M!Return
<1>2. StoresInv'
  BY <1>1 DEF MessagesInv, StoresInv
<1>3. CallInv(c)'
  <2>1. fetch[c] # <<>> /\ mode # "batch" /\ asked[c] = {} /\ sent[c] = {} /\ fetch[c] \in Seq(M!Message)
    BY <1>1 DEF MessagesInv, CallInv, CourseInv
  <2>2. at'[c] = "idle"
    BY <1>1 DEF MessagesInv, StoresInv
  <2>3. CourseInv(c)' /\ TraceInv(c)' /\ AnswerInv(c)'
    BY <1>1, <2>1, <2>2 DEF CourseInv, TraceInv, AnswerInv
  <2>. QED  BY <2>3 DEF CallInv
<1>4. ASSUME NEW d \in Calls, d # c  PROVE CallInv(d)'
  BY <1>1, <1>4, OthersKeep DEF MessagesInv, StoresInv
<1>. QED  BY <1>2, <1>3, <1>4 DEF MessagesInv

\* Requests hold the answers they are made of; those to one topic are one request.
LEMMA RequestsHoldAnswers ==
  ASSUME NEW answers0
  PROVE  /\ UNION M!RequestsOf(answers0) = answers0
         /\ \A topic : (\A a \in answers0 : a.to = topic) =>
                          \A q, r \in M!RequestsOf(answers0) : q = r
<1>1. ASSUME NEW a \in answers0  PROVE a \in UNION M!RequestsOf(answers0)
  BY DEF M!RequestsOf
<1>2. UNION M!RequestsOf(answers0) \subseteq answers0
  BY DEF M!RequestsOf
<1>3. ASSUME NEW topic, \A a \in answers0 : a.to = topic,
             NEW q \in M!RequestsOf(answers0), NEW r \in M!RequestsOf(answers0)
      PROVE  q = r
  <2>1. PICK a, b \in answers0 : q = {d \in answers0 : d.to = a.to} /\ r = {d \in answers0 : d.to = b.to}
    BY DEF M!RequestsOf
  <2>. QED  BY <1>3, <2>1
<1>. QED  BY <1>1, <1>2, <1>3

LEMMA ResponsesOfCall ==
  ASSUME NEW c
  PROVE  /\ \A a \in M!Responses(c) : a.to = store[c].reply
         /\ store[c].reply # Undefined =>
               {a.of : a \in M!Responses(c)} = {m.id : m \in WithData(fetch[c])}
<1>. DEFINE messages == WithData(fetch[c])
<1>1. M!WithData(c) = WithData(fetch[c])
  BY DEF M!WithData, WithData
<1>2. M!Responses(c) = UNION {M!search(c, m) : m \in messages}
  BY <1>1 DEF M!Responses
<1>. HIDE DEF messages
<1>3. \A m \in messages : \A a \in M!search(c, m) : a.to = store[c].reply /\ a.of = m.id
  BY DEF M!search, M!Context, M!StoreOf
<1>4. ASSUME store[c].reply # Undefined, NEW m \in messages
      PROVE  \E a \in M!search(c, m) : a.of = m.id
  BY <1>4 DEF M!search, M!Context, M!StoreOf
<1>. QED  BY <1>2, <1>3, <1>4 DEF messages

\* The service has found the answers: they are those of the requests with data.
LEMMA FoundKeeps ==
  ASSUME MessagesInv, NEW c \in Calls, M!Found(c)
  PROVE  MessagesInv'
<1>. DEFINE responses == M!Responses(c)
            requests  == M!RequestsOf(responses)
<1>1. /\ at[c] = "searching"
      /\ asked' = [asked EXCEPT ![c] = requests]
      /\ \/ /\ mode = "rabbit" /\ at' = [at EXCEPT ![c] = "answering"] /\ UNCHANGED <<span, failures>>
         \/ /\ at' = [at EXCEPT ![c] = "idle"] /\ failures' = [failures EXCEPT ![c] = 0]
            /\ span' = [span EXCEPT ![c] = Undefined]
      /\ UNCHANGED <<mode, fetch, store, sent, unhandled>>
  BY DEF M!Found, M!Return
<1>2. /\ \A a \in responses : a.to = store[c].reply
      /\ store[c].reply # Undefined =>
            {a.of : a \in responses} = {m.id : m \in WithData(fetch[c])}
  BY ResponsesOfCall
<1>3. UNION requests = responses /\ \A q, r \in requests : q = r
  BY <1>2, RequestsHoldAnswers
<1>. HIDE DEF responses, requests
<1>4. StoresInv'
  BY <1>1 DEF MessagesInv, StoresInv
<1>5. CallInv(c)'
  <2>1. /\ fetch[c] \in Seq(M!Message) /\ fetch[c] # <<>> /\ failures[c] = 0 /\ sent[c] = {}
        /\ TraceInv(c)
    BY <1>1 DEF MessagesInv, CallInv, CourseInv
  <2>2. asked'[c] = requests
    BY <1>1 DEF MessagesInv, StoresInv
  <2>3. CASE mode = "rabbit" /\ at' = [at EXCEPT ![c] = "answering"] /\ UNCHANGED <<span, failures>>
    <3>1. at'[c] = "answering"
      BY <2>3 DEF MessagesInv, StoresInv
    <3>2. CourseInv(c)'
      BY <1>1, <1>3, <2>1, <2>2, <2>3, <3>1 DEF CourseInv
    <3>3. TraceInv(c)'
      BY <1>1, <2>1, <3>1 DEF TraceInv
    <3>4. AnswerInv(c)'
      BY <3>1 DEF AnswerInv
    <3>. QED  BY <3>2, <3>3, <3>4 DEF CallInv
  <2>4. CASE at' = [at EXCEPT ![c] = "idle"] /\ failures' = [failures EXCEPT ![c] = 0]
    <3>1. at'[c] = "idle" /\ failures'[c] = 0
      BY <2>4 DEF MessagesInv, StoresInv
    <3>2. CourseInv(c)' /\ TraceInv(c)'
      BY <1>1, <2>1, <3>1 DEF CourseInv, TraceInv
    <3>3. Answered(c)' = {a.of : a \in responses}
      BY <1>1, <1>3, <2>1, <2>2 DEF Answered
    <3>4. AnswerInv(c)'
      BY <1>1, <1>2, <2>1, <3>1, <3>3 DEF AnswerInv
    <3>. QED  BY <3>2, <3>4 DEF CallInv
  <2>. QED  BY <1>1, <2>3, <2>4
<1>6. ASSUME NEW d \in Calls, d # c  PROVE CallInv(d)'
  BY <1>1, <1>6, OthersKeep DEF MessagesInv, StoresInv
<1>. QED  BY <1>4, <1>5, <1>6 DEF MessagesInv

LEMMA SentKeeps ==
  ASSUME MessagesInv, NEW c \in Calls, M!Sent(c)
  PROVE  MessagesInv'
<1>1. PICK r \in asked[c] :
         /\ asked' = [asked EXCEPT ![c] = @ \ {r}]
         /\ sent' = [sent EXCEPT ![c] = @ \cup r]
         /\ IF at[c] = "answering"
            THEN /\ at' = [at EXCEPT ![c] = "idle"] /\ failures' = [failures EXCEPT ![c] = 0]
                 /\ span' = [span EXCEPT ![c] = Undefined]
            ELSE UNCHANGED <<at, span, failures>>
         /\ UNCHANGED <<mode, fetch, store, unhandled>>
  BY DEF M!Sent, M!Return
<1>2. StoresInv'
  BY <1>1 DEF MessagesInv, StoresInv
<1>3. CallInv(c)'
  <2>1. CallInv(c) /\ at[c] \in {"idle", "answering"}
    BY <1>1 DEF MessagesInv, StoresInv, CallInv, CourseInv
  <2>2. at'[c] = "idle" /\ asked'[c] = asked[c] \ {r} /\ sent'[c] = sent[c] \cup r
    BY <1>1, <2>1 DEF MessagesInv, StoresInv
  <2>3. CourseInv(c)' /\ TraceInv(c)'
    BY <1>1, <2>1, <2>2 DEF CallInv, CourseInv, TraceInv
  <2>4. AnswerInv(c)'
    <3>1. CASE at[c] = "answering"
      BY <1>1, <2>1, <2>2, <3>1 DEF CallInv, CourseInv, AnswerInv, MessagesInv, StoresInv
    <3>2. CASE at[c] = "idle"
      <4>1. failures'[c] = failures[c] /\ fetch[c] # <<>> /\ failures[c] = 0
        BY <1>1, <2>1, <3>2 DEF CallInv, AnswerInv
      <4>2. (sent[c] \cup UNION asked[c])' = sent[c] \cup UNION asked[c]
        BY <2>2
      <4>3. Answered(c)' = Answered(c)
        BY <4>2 DEF Answered
      <4>. QED  BY <1>1, <2>1, <2>2, <3>2, <4>1, <4>3 DEF CallInv, AnswerInv
    <3>. QED  BY <2>1, <3>1, <3>2
  <2>. QED  BY <2>3, <2>4 DEF CallInv
<1>4. ASSUME NEW d \in Calls, d # c  PROVE CallInv(d)'
  BY <1>1, <1>4, OthersKeep DEF MessagesInv, StoresInv
<1>. QED  BY <1>2, <1>3, <1>4 DEF MessagesInv

LEMMA SendFailsKeeps ==
  ASSUME MessagesInv, NEW c \in Calls, M!SendFails(c)
  PROVE  MessagesInv'
<1>1. PICK r \in asked[c] :
         /\ asked' = [asked EXCEPT ![c] = @ \ {r}]
         /\ IF at[c] = "answering"
            THEN /\ at' = [at EXCEPT ![c] = "idle"] /\ failures' = [failures EXCEPT ![c] = 1]
                 /\ span' = [span EXCEPT ![c] = Undefined] /\ UNCHANGED unhandled
            ELSE unhandled' = TRUE /\ UNCHANGED <<at, span, failures>>
         /\ UNCHANGED <<mode, fetch, store, sent>>
  BY DEF M!SendFails, M!Return
<1>2. StoresInv'
  BY <1>1 DEF MessagesInv, StoresInv
<1>3. CallInv(c)'
  <2>1. CallInv(c) /\ at[c] \in {"idle", "answering"}
    BY <1>1 DEF MessagesInv, StoresInv, CallInv, CourseInv
  <2>2. at'[c] = "idle" /\ asked'[c] = asked[c] \ {r} /\ sent'[c] = sent[c]
    BY <1>1, <2>1 DEF MessagesInv, StoresInv
  <2>3. CourseInv(c)' /\ TraceInv(c)'
    BY <1>1, <2>1, <2>2 DEF CallInv, CourseInv, TraceInv
  <2>4. AnswerInv(c)'
    <3>1. CASE at[c] = "answering"
      <4>1. asked'[c] = {} /\ sent'[c] = {} /\ failures'[c] = 1 /\ fetch[c] # <<>>
        BY <1>1, <2>1, <2>2, <3>1 DEF CallInv, CourseInv, MessagesInv, StoresInv
      <4>. QED  BY <1>1, <4>1 DEF AnswerInv
    <3>2. CASE at[c] = "idle"
      BY <1>1, <2>1, <2>2, <3>2 DEF CallInv, AnswerInv
    <3>. QED  BY <2>1, <3>1, <3>2
  <2>. QED  BY <2>3, <2>4 DEF CallInv
<1>4. ASSUME NEW d \in Calls, d # c  PROVE CallInv(d)'
  BY <1>1, <1>4, OthersKeep DEF MessagesInv, StoresInv
<1>. QED  BY <1>2, <1>3, <1>4 DEF MessagesInv

LEMMA MessagesNextKeeps ==
  ASSUME MessagesInv, [M!Next]_(M!vars)
  PROVE  MessagesInv'
<1>1. CASE UNCHANGED M!vars
  <2>1. ASSUME NEW c \in Calls  PROVE CallInv(c)'
    BY <1>1, OthersKeep DEF M!vars, MessagesInv
  <2>. QED  BY <1>1, <2>1 DEF M!vars, MessagesInv, StoresInv
<1>2. ASSUME NEW c \in Calls, NEW f \in M!Fetches(c), M!Receive(c, f)  PROVE MessagesInv'
  BY <1>2, ReceiveKeeps
<1>3. ASSUME NEW c \in Calls, M!DecodingFails(c) \/ M!SearchFails(c)  PROVE MessagesInv'
  BY <1>3, GivenUp DEF M!DecodingFails, M!SearchFails, M!Return
<1>4. ASSUME NEW c \in Calls, M!Decoded(c)  PROVE MessagesInv'
  BY <1>4, DecodedKeeps
<1>5. ASSUME NEW c \in Calls, M!Handled(c)  PROVE MessagesInv'
  BY <1>5, HandledKeeps
<1>6. ASSUME NEW c \in Calls, M!Found(c)  PROVE MessagesInv'
  BY <1>6, FoundKeeps
<1>7. ASSUME NEW c \in Calls, M!Sent(c)  PROVE MessagesInv'
  BY <1>7, SentKeeps
<1>8. ASSUME NEW c \in Calls, M!SendFails(c)  PROVE MessagesInv'
  BY <1>8, SendFailsKeeps
<1>. QED  BY <1>1, <1>2, <1>3, <1>4, <1>5, <1>6, <1>7, <1>8 DEF M!Next

LEMMA MessagesInit == M!Init => MessagesInv
<1>. SUFFICES ASSUME M!Init  PROVE MessagesInv
  OBVIOUS
<1>1. StoresInv
  BY DEF M!Init, StoresInv
<1>2. ASSUME NEW c \in Calls  PROVE CallInv(c)
  BY DEF M!Init, CallInv, CourseInv, TraceInv, AnswerInv
<1>. QED  BY <1>1, <1>2 DEF MessagesInv

LEMMA MessagesInvariant == PartsSpec => []MessagesInv
<1>1. PartsInit => MessagesInv
  BY MessagesInit DEF PartsInit
<1>2. MessagesInv /\ [PartsNext]_partVars => MessagesInv'
  BY MessagesStep, MessagesNextKeeps
<1>. QED  BY <1>1, <1>2, PTL DEF PartsSpec

\* KafkaServerService and RabbitMqServerService: a call that is over and was counted as failed
\* has answered nothing; a batch that was not, and has a reply topic, has answered each of
\* its requests with data, and nothing else.
THEOREM BatchesAnsweredOrCounted == PartsSpec => []AnsweredOrCounted
<1>1. ASSUME MessagesInv  PROVE AnsweredOrCounted
  <2>1. ASSUME NEW c \in Calls, at[c] = "idle"
        PROVE  /\ failures[c] # 0 => Answered(c) = {}
               /\ failures[c] = 0 /\ mode = "batch" /\ ~unhandled /\ fetch[c] # <<>> /\ store[c].reply # Undefined
                    => Answered(c) = {m.id : m \in WithData(fetch[c])}
    BY <1>1, <2>1 DEF MessagesInv, CallInv, AnswerInv, Answered
  <2>2. ASSUME NEW c  PROVE M!WithData(c) = WithData(fetch[c]) /\ M!Context(c) = store[c]
    BY DEF M!WithData, WithData, M!Context, M!StoreOf
  <2>. QED  BY <2>1, <2>2 DEF AnsweredOrCounted, M!AnsweredOrCounted, Answered
<1>. QED  BY <1>1, MessagesInvariant, PTL

-----------------------------------------------------------------------------
\* The ids that spans and traces have on the way, and the values that headers do not carry.
AllCarriers == {"http", "grpc", "kafka", "rabbit"}
TraceIds == {"id", H!ServerSpan[1], H!ServerSpan[2], H!ServerSpan[3]}
TaskIds  == {H!TaskSpan[1], H!TaskSpan[2], H!TaskSpan[3]}
Hollow   == {"", "array", "emptyArray"}

\* A value that headers carry as it is.
Lasts(v) == v \notin Hollow \cup {Undefined, "blank"}

\* What every context on the way satisfies: it has a trace and a span, and no value is hollow.
ContextOk(context) ==
    /\ DOMAIN context = H!Fields
    /\ context.traceId \in TraceIds /\ context.spanId \in TaskIds
    /\ context.correlationId \notin Hollow /\ context.requestId \notin Hollow

\* What ContextSurvives asks of a service and the one it calls.
Survives(from, to) ==
    /\ to.traceId = from.traceId
    /\ \A n \in {"correlationId", "requestId"} : from[n] \notin {Undefined, "blank"} => to[n] = from[n]

LEMMA IdsLast == \A v \in TraceIds \cup TaskIds : Lasts(v)
<1>1. TraceIds = {"id", "server 1", "server 2", "server 3"} /\ TaskIds = {"task 1", "task 2", "task 3"}
  BY DEF TraceIds, TaskIds, H!ServerSpan, H!TaskSpan
<1>2. Undefined # "id" /\ \A i \in 1 .. 3 : Undefined \notin {H!ServerSpan[i], H!TaskSpan[i]}
  BY UndefinedAssumption
<1>. 1 \in 1 .. 3 /\ 2 \in 1 .. 3 /\ 3 \in 1 .. 3
  OBVIOUS
<1>3. Undefined \notin TraceIds \cup TaskIds
  BY <1>2 DEF TraceIds, TaskIds
<1>. QED  BY <1>1, <1>3 DEF Lasts, Hollow

\* The value that a builder of headers finds: as it was put in, if headers carry it.
LEMMA FoundValue ==
  ASSUME NEW v
  PROVE  /\ H!searchHeaderAsString(v) \notin Hollow
         /\ Lasts(v) => H!searchHeaderAsString(v) = v
         /\ v = Undefined => H!searchHeaderAsString(v) = Undefined
BY UndefinedAssumption DEF H!searchHeaderAsString, H!searchValue, H!Join, Lasts, Hollow

\* The headers of a message as its context is built from them.
FoundIn(carrier, m) ==
    IF carrier = "rabbit" THEN H!Found(H!normalizeTraceSpanHeaders(H!Received(carrier, m)))
                          ELSE H!Found(H!Received(carrier, m))

LEMMA FoundOfMessage ==
  ASSUME NEW carrier \in AllCarriers, NEW m, NEW n \in H!Names
  PROVE  /\ FoundIn(carrier, m)[n] \notin Hollow
         /\ Lasts(m.headers[n]) /\ m.lists[n] = Undefined /\ n # "reply" =>
               FoundIn(carrier, m)[n] = m.headers[n]
         /\ m.headers[n] = Undefined /\ m.lists[n] = Undefined => FoundIn(carrier, m)[n] = Undefined
<1>. DEFINE v == m.headers[n]
            received == H!Received(carrier, m)[n]
<1>1. CASE carrier # "rabbit"
  <2>1. FoundIn(carrier, m)[n] = H!searchHeaderAsString(received)
    BY <1>1 DEF FoundIn, H!Found
  <2>2. m.lists[n] = Undefined => received = IF v = "blank" THEN "" ELSE v
    BY <1>1 DEF H!Received, H!normalizeGrpc, H!normalize, AllCarriers
  <2>3. (Lasts(v) \/ v = Undefined) /\ m.lists[n] = Undefined => received = v
    BY <2>2, UndefinedAssumption DEF Lasts
  <2>. QED  BY <2>1, <2>3, FoundValue DEF Lasts
<1>2. CASE carrier = "rabbit"
  <2>1. FoundIn(carrier, m)[n] =
           H!searchHeaderAsString(IF n = "reply" THEN Undefined ELSE H!RabbitValue(received))
    BY <1>2 DEF FoundIn, H!Found, H!normalizeTraceSpanHeaders
  <2>2. received = IF H!normalize(m.headers)[n] = "emptyArray" THEN Undefined ELSE H!normalize(m.headers)[n]
    BY <1>2 DEF H!Received, H!normalizeRabbit
  <2>3. H!normalize(m.headers)[n] = IF v = "blank" THEN "" ELSE v
    BY DEF H!normalize
  <2>4. Lasts(v) \/ v = Undefined => H!RabbitValue(received) = v
    BY <2>2, <2>3, UndefinedAssumption DEF Lasts, Hollow, H!RabbitValue, H!Join
  <2>. QED  BY <2>1, <2>4, FoundValue DEF Lasts
<1>. QED  BY <1>1, <1>2

LEMMA TelemetryOfFound ==
  ASSUME NEW found, found.traceId \in TraceIds \cup {Undefined}, NEW id \in 1 .. 3
  PROVE  LET active == H!Telemetry(found, H!ServerSpan[id]) IN
         /\ active # Undefined
         /\ active.traceId \in TraceIds
         /\ found.traceId # Undefined /\ found.spanId # Undefined => active.traceId = found.traceId
<1>. DEFINE traceId == IF found.traceId # Undefined /\ found.spanId # Undefined
                       THEN found.traceId ELSE H!ServerSpan[id]
<1>1. H!Telemetry(found, H!ServerSpan[id]) = [traceId |-> traceId, spanId |-> H!ServerSpan[id]]
  BY DEF H!Telemetry, H!StartSpan
<1>2. traceId \in TraceIds
  BY DEF TraceIds
<1>. HIDE DEF traceId
<1>3. Undefined # [traceId |-> traceId, spanId |-> H!ServerSpan[id]]
  BY <1>2, UndefinedAssumption DEF TraceIds
<1>. QED  BY <1>1, <1>2, <1>3 DEF traceId

LEMMA SpanOfTask ==
  ASSUME NEW fields, DOMAIN fields = H!Fields, NEW active, active # Undefined, NEW id
  PROVE  LET wrapped == H!wrapWithTelemetry(fields, active, id) IN
         /\ wrapped.span = [traceId |-> active.traceId, spanId |-> id]
         /\ wrapped.store.traceId = active.traceId /\ wrapped.store.spanId = id
         /\ wrapped.store.correlationId = fields.correlationId
         /\ wrapped.store.requestId = fields.requestId
         /\ DOMAIN wrapped.store = H!Fields
BY DEF H!wrapWithTelemetry, H!StartSpan, H!Fields

\* The context that each transport builds of the headers of a message or request.
LEMMA ContextOfKafka ==
  ASSUME NEW found, found.traceId \in TraceIds \cup {Undefined}, NEW id \in 1 .. 3
  PROVE  LET context == H!KafkaContext(found, id) IN
         /\ context.traceId = H!Telemetry(found, H!ServerSpan[id]).traceId
         /\ context.spanId = H!TaskSpan[id]
         /\ context.correlationId = found.correlationId
         /\ context.requestId = found.requestId
         /\ context.reply = found.reply
         /\ DOMAIN context = H!Fields
<1>. DEFINE active  == H!Telemetry(found, H!ServerSpan[id])
            wrapped == H!wrapWithTelemetry(H!EmptyContext, active, H!TaskSpan[id])
<1>1. /\ wrapped.span = [traceId |-> active.traceId, spanId |-> H!TaskSpan[id]]
      /\ DOMAIN wrapped.store = H!Fields
  BY TelemetryOfFound, SpanOfTask DEF H!EmptyContext
<1>2. H!KafkaContext(found, id) = H!setMultiple(wrapped.store, H!toAsyncContext(found, wrapped.span))
  BY DEF H!KafkaContext
<1>. HIDE DEF active, wrapped
<1>. QED  BY <1>1, <1>2 DEF H!setMultiple, H!toAsyncContext, H!Fields, active

LEMMA ContextOfService ==
  ASSUME NEW carrier \in AllCarriers, NEW m, NEW id \in 1 .. 3, NEW toAnswer \in BOOLEAN,
         FoundIn(carrier, m).traceId \in TraceIds \cup {Undefined}
  PROVE  LET found   == FoundIn(carrier, m)
             context == H!Service(carrier, m, id, toAnswer).context
         IN  /\ context.traceId = H!Telemetry(found, H!ServerSpan[id]).traceId
             /\ context.spanId = H!TaskSpan[id]
             /\ context.correlationId =
                   IF carrier = "rabbit" /\ m.properties.correlationId # Undefined
                   THEN m.properties.correlationId ELSE found.correlationId
             /\ context.requestId = found.requestId \/ (found.requestId = Undefined /\ context.requestId = "generated")
             /\ carrier = "rabbit" => context.reply = m.properties.reply
             /\ DOMAIN context = H!Fields
<1>. DEFINE found   == FoundIn(carrier, m)
            active  == H!Telemetry(found, H!ServerSpan[id])
            context == H!Service(carrier, m, id, toAnswer).context
<1>1. active # Undefined
  BY TelemetryOfFound
<1>2. DOMAIN found = H!Names
  BY DEF FoundIn, H!Found
<1>3. CASE carrier = "http"
  <2>. DEFINE fields == [H!EmptyContext EXCEPT
                           !.requestId = IF found.requestId # Undefined THEN found.requestId ELSE "generated",
                           !.correlationId = found.correlationId]
  <2>1. context = H!wrapWithTelemetry(fields, active, H!TaskSpan[id]).store
    BY <1>3 DEF H!Service, H!HttpContext, FoundIn
  <2>2. /\ DOMAIN fields = H!Fields /\ fields.correlationId = found.correlationId
        /\ fields.requestId = IF found.requestId # Undefined THEN found.requestId ELSE "generated"
    BY DEF H!EmptyContext, H!Fields
  <2>. DEFINE wrapped == H!wrapWithTelemetry(fields, active, H!TaskSpan[id])
  <2>. HIDE DEF fields, active
  <2>4. /\ wrapped.store.traceId = active.traceId /\ wrapped.store.spanId = H!TaskSpan[id]
        /\ wrapped.store.correlationId = fields.correlationId /\ wrapped.store.requestId = fields.requestId
        /\ DOMAIN wrapped.store = H!Fields
    BY <1>1, <2>2 DEF H!wrapWithTelemetry, H!StartSpan, H!Fields
  <2>. HIDE DEF found, context, wrapped
  <2>3. /\ context.traceId = active.traceId /\ context.spanId = H!TaskSpan[id]
        /\ context.correlationId = fields.correlationId /\ context.requestId = fields.requestId
        /\ DOMAIN context = H!Fields
    BY <2>1, <2>4 DEF wrapped
  <2>. QED  BY <1>3, <2>2, <2>3 DEF found, active, context
<1>4. CASE carrier = "grpc"
  <2>. DEFINE fields == [H!EmptyContext EXCEPT !.requestId = found.requestId,
                                               !.correlationId = found.correlationId]
  <2>1. context = H!wrapWithTelemetry(fields, active, H!TaskSpan[id]).store
    BY <1>4 DEF H!Service, H!GrpcContext, FoundIn
  <2>2. /\ DOMAIN fields = H!Fields /\ fields.correlationId = found.correlationId
        /\ fields.requestId = found.requestId
    BY DEF H!EmptyContext, H!Fields
  <2>. DEFINE wrapped == H!wrapWithTelemetry(fields, active, H!TaskSpan[id])
  <2>. HIDE DEF fields, active
  <2>4. /\ wrapped.store.traceId = active.traceId /\ wrapped.store.spanId = H!TaskSpan[id]
        /\ wrapped.store.correlationId = fields.correlationId /\ wrapped.store.requestId = fields.requestId
        /\ DOMAIN wrapped.store = H!Fields
    BY <1>1, <2>2 DEF H!wrapWithTelemetry, H!StartSpan, H!Fields
  <2>. HIDE DEF found, context, wrapped
  <2>3. /\ context.traceId = active.traceId /\ context.spanId = H!TaskSpan[id]
        /\ context.correlationId = fields.correlationId /\ context.requestId = fields.requestId
        /\ DOMAIN context = H!Fields
    BY <2>1, <2>4 DEF wrapped
  <2>. QED  BY <1>4, <2>2, <2>3 DEF found, active, context
<1>5. CASE carrier = "kafka"
  <2>1. context = H!KafkaContext(found, id)
    BY <1>5 DEF H!Service, FoundIn
  <2>. QED  BY <1>5, <2>1, ContextOfKafka
<1>6. CASE carrier = "rabbit"
  <2>. DEFINE all == [found EXCEPT !.correlationId = IF m.properties.correlationId # Undefined
                                                     THEN m.properties.correlationId ELSE @,
                                   !.reply = m.properties.reply]
  <2>1. context = H!KafkaContext(all, id)
    BY <1>6 DEF H!Service, H!RabbitContext, FoundIn
  <2>2. /\ all.traceId = found.traceId /\ all.spanId = found.spanId /\ all.requestId = found.requestId
        /\ all.correlationId = IF m.properties.correlationId # Undefined
                               THEN m.properties.correlationId ELSE found.correlationId
        /\ all.reply = m.properties.reply
    BY <1>2 DEF H!Names
  <2>. HIDE DEF all, found, context
  <2>3. H!Telemetry(all, H!ServerSpan[id]) = H!Telemetry(found, H!ServerSpan[id])
    BY <2>2 DEF H!Telemetry
  <2>4. all.traceId \in TraceIds \cup {Undefined}
    BY <2>2 DEF found
  <2>. QED  BY <1>6, <2>1, <2>2, <2>3, <2>4, ContextOfKafka DEF found, context
<1>. QED  BY <1>3, <1>4, <1>5, <1>6 DEF AllCarriers

\* What a request carries of the context it was built from.
Carried(carrier) == {"traceId", "spanId", "requestId"} \cup
                    (IF carrier = "rabbit" THEN {} ELSE {"correlationId"})
Carries(m, carrier, context) ==
    /\ \A n \in Carried(carrier) : Lasts(context[n]) => m.headers[n] = context[n] /\ m.lists[n] = Undefined
    /\ carrier = "rabbit" => m.properties.correlationId = context.correlationId

LEMMA BuiltHeader ==
  ASSUME NEW context, NEW own, NEW which, NEW n \in H!Names, n \in which, Lasts(context[n])
  PROVE  H!Build(context, own, which)[n] = context[n]
BY DEF H!Build, H!Value, Lasts, Hollow

\* The headers of a request carry the trace and the ids of the context they are built from.
LEMMA RequestCarries ==
  ASSUME NEW carrier \in AllCarriers, NEW context, NEW own
  PROVE  /\ Carries(H!Request(carrier, context, own), carrier, context)
         /\ carrier = "rabbit" => H!Request(carrier, context, own).properties.reply = context.reply
<1>. DEFINE m == H!Request(carrier, context, own)
<1>. \A n \in H!Names : H!NoHeaders[n] = Undefined
  BY DEF H!NoHeaders
<1>. {"traceId", "spanId", "requestId", "correlationId"} \subseteq H!Names
  BY DEF H!Names
<1>1. CASE carrier = "http"
  <2>1. m = H!Plain(H!Build(context, own, {"traceId", "spanId", "correlationId", "requestId"}))
    BY <1>1 DEF H!Request, H!HttpHeadersBuilder
  <2>. HIDE DEF m
  <2>. QED  BY <1>1, <2>1, BuiltHeader DEF H!Plain, Carries, Carried, m
<1>2. CASE carrier = "kafka"
  <2>1. m = H!Plain(H!Build(context, own, H!Names))
    BY <1>2 DEF H!Request, H!KafkaHeadersBuilder
  <2>. HIDE DEF m
  <2>. QED  BY <1>2, <2>1, BuiltHeader DEF H!Plain, Carries, Carried, m
<1>3. CASE carrier = "grpc"
  <2>. DEFINE headers == H!Build(context, own, {"traceId", "spanId", "correlationId", "requestId"})
  <2>1. /\ m.headers = [n \in H!Names |-> IF headers[n] \in {"array", "emptyArray"} THEN Undefined ELSE headers[n]]
        /\ m.lists = [n \in H!Names |-> IF headers[n] \in {"array", "emptyArray"} THEN headers[n] ELSE Undefined]
    BY <1>3 DEF H!Request, H!GrpcMetadataBuilder, H!HttpHeadersBuilder, H!Plain
  <2>2. \A n \in Carried("grpc") : Lasts(context[n]) => headers[n] = context[n]
    BY BuiltHeader DEF Carried
  <2>. HIDE DEF m, headers
  <2>3. ASSUME NEW n \in Carried("grpc"), Lasts(context[n])
        PROVE  m.headers[n] = context[n] /\ m.lists[n] = Undefined
    BY <2>1, <2>2, <2>3 DEF Carried, Lasts, Hollow
  <2>. QED  BY <1>3, <2>3 DEF Carries, m
<1>4. CASE carrier = "rabbit"
  <2>. DEFINE headers == H!Build(context, own, {"traceId", "spanId", "requestId"})
  <2>1. /\ m.headers = headers /\ m.lists = H!NoHeaders
        /\ m.properties.correlationId = context.correlationId /\ m.properties.reply = context.reply
    BY <1>4 DEF H!Request, H!RabbitMqPublishOptionsBuilder, H!Plain, H!NoHeaders, H!Names
  <2>2. \A n \in Carried("rabbit") : Lasts(context[n]) => headers[n] = context[n]
    BY BuiltHeader DEF Carried
  <2>. HIDE DEF m, headers
  <2>. QED  BY <1>4, <2>1, <2>2 DEF Carries, Carried, m
<1>. QED  BY <1>1, <1>2, <1>3, <1>4 DEF AllCarriers

\* One hop: the service that is called goes on under the context of its caller.
LEMMA HopSurvives ==
  ASSUME NEW carrier \in AllCarriers, NEW m, NEW id \in 1 .. 3, NEW toAnswer \in BOOLEAN,
         NEW from, ContextOk(from), Carries(m, carrier, from)
  PROVE  LET called == H!Service(carrier, m, id, toAnswer)
         IN  /\ called.carrier = carrier /\ called.answer = toAnswer
             /\ ContextOk(called.context)
             /\ Survives(from, called.context)
             /\ carrier = "rabbit" => called.context.reply = m.properties.reply
<1>. DEFINE found == FoundIn(carrier, m)
            to == H!Service(carrier, m, id, toAnswer).context
<1>1. \A n \in Carried(carrier) : n \in H!Names /\ n # "reply"
  BY DEF Carried, H!Names
<1>2. \A n \in Carried(carrier) : Lasts(from[n]) => found[n] = from[n]
  BY <1>1, FoundOfMessage DEF Carries
<1>3. \A n \in H!Names : found[n] \notin Hollow
  BY FoundOfMessage
<1>. HIDE DEF found
<1>4. Lasts(from.traceId) /\ Lasts(from.spanId)
  BY IdsLast DEF ContextOk
<1>5. found.traceId = from.traceId /\ found.spanId = from.spanId
  BY <1>2, <1>4 DEF Carried
<1>6. found.traceId \in TraceIds /\ found.traceId # Undefined /\ found.spanId # Undefined
  BY <1>4, <1>5 DEF ContextOk, Lasts
<1>7. /\ to.traceId = H!Telemetry(found, H!ServerSpan[id]).traceId
      /\ to.spanId = H!TaskSpan[id]
      /\ to.correlationId = IF carrier = "rabbit" /\ m.properties.correlationId # Undefined
                            THEN m.properties.correlationId ELSE found.correlationId
      /\ to.requestId = found.requestId \/ (found.requestId = Undefined /\ to.requestId = "generated")
      /\ carrier = "rabbit" => to.reply = m.properties.reply
      /\ DOMAIN to = H!Fields
  BY <1>6, ContextOfService DEF found
<1>8. H!Service(carrier, m, id, toAnswer).carrier = carrier /\ H!Service(carrier, m, id, toAnswer).answer = toAnswer
  BY DEF H!Service
<1>. HIDE DEF to
<1>9. to.traceId = from.traceId
  BY <1>5, <1>6, <1>7, TelemetryOfFound
<1>10. ContextOk(to)
  <2>1. to.spanId \in TaskIds
    BY <1>7 DEF TaskIds
  <2>2. to.correlationId \notin Hollow
    BY <1>3, <1>7 DEF ContextOk, Carries, H!Names
  <2>3. to.requestId \notin Hollow
    BY <1>3, <1>7 DEF H!Names, Hollow
  <2>. QED  BY <1>7, <1>9, <2>1, <2>2, <2>3 DEF ContextOk
<1>11. Survives(from, to)
  <2>1. from.requestId \notin {Undefined, "blank"} => to.requestId = from.requestId
    BY <1>2, <1>7 DEF Carried, ContextOk, Lasts
  <2>2. from.correlationId \notin {Undefined, "blank"} => to.correlationId = from.correlationId
    BY <1>2, <1>7 DEF Carried, Carries, ContextOk, Lasts
  <2>. QED  BY <1>9, <2>1, <2>2 DEF Survives
<1>. QED  BY <1>7, <1>8, <1>10, <1>11 DEF to

\* The first service: whatever headers come from outside, it has a context.
LEMMA EntryHasContext ==
  ASSUME NEW carrier \in AllCarriers, NEW m, m.headers.traceId \in {Undefined, "id"},
         \A n \in H!Names : m.lists[n] = Undefined,
         m.properties.correlationId \notin Hollow, NEW toAnswer \in BOOLEAN
  PROVE  ContextOk(H!Service(carrier, m, 1, toAnswer).context)
<1>. DEFINE found == FoundIn(carrier, m)
            context == H!Service(carrier, m, 1, toAnswer).context
<1>3. Lasts("id")
  BY IdsLast DEF TraceIds
<1>4. found.traceId \in {Undefined, "id"}
  BY <1>3, FoundOfMessage DEF H!Names
<1>5. \A n \in H!Names : found[n] \notin Hollow
  BY FoundOfMessage
<1>6. found.traceId \in TraceIds \cup {Undefined} /\ 1 \in 1 .. 3
  BY <1>4 DEF TraceIds
<1>7. /\ context.traceId = H!Telemetry(found, H!ServerSpan[1]).traceId
      /\ context.spanId = H!TaskSpan[1]
      /\ context.correlationId = IF carrier = "rabbit" /\ m.properties.correlationId # Undefined
                                 THEN m.properties.correlationId ELSE found.correlationId
      /\ context.requestId = found.requestId \/ (found.requestId = Undefined /\ context.requestId = "generated")
      /\ DOMAIN context = H!Fields
  BY <1>6, ContextOfService
<1>. HIDE DEF found, context
<1>8. context.traceId \in TraceIds /\ context.spanId \in TaskIds
  BY <1>6, <1>7, TelemetryOfFound DEF TaskIds
<1>9. context.correlationId \notin Hollow /\ context.requestId \notin Hollow
  BY <1>5, <1>7 DEF H!Names, Hollow
<1>. QED  BY <1>7, <1>8, <1>9 DEF ContextOk, context

-----------------------------------------------------------------------------
\* The way so far: a sequence of whatever services are.
IsSequence(s) == s \in Seq({s[i] : i \in DOMAIN s})

LEMMA OneMore ==
  ASSUME NEW s, IsSequence(s), NEW e
  PROVE  /\ IsSequence(Append(s, e))
         /\ Len(s) \in Nat /\ Len(Append(s, e)) = Len(s) + 1
         /\ DOMAIN s = 1 .. Len(s) /\ DOMAIN Append(s, e) = 1 .. Len(s) + 1
         /\ \A i \in 1 .. Len(s) : Append(s, e)[i] = s[i]
         /\ Append(s, e)[Len(s) + 1] = e
<1>. DEFINE All == {s[i] : i \in DOMAIN s} \cup {e}
            t == Append(s, e)
<1>1. s \in Seq(All) /\ e \in All
  <2>1. s \in Seq({s[i] : i \in DOMAIN s})
    BY DEF IsSequence
  <2>. HIDE DEF All
  <2>2. {s[i] : i \in DOMAIN s} \subseteq All
    BY DEF All
  <2>. QED  BY <2>1, <2>2 DEF All
<1>. HIDE DEF All
<1>2. /\ t \in Seq(All) /\ Len(s) \in Nat /\ Len(t) = Len(s) + 1
      /\ DOMAIN s = 1 .. Len(s) /\ DOMAIN t = 1 .. Len(s) + 1
      /\ \A i \in 1 .. Len(s) : t[i] = s[i]
      /\ t[Len(s) + 1] = e
  BY <1>1
<1>. HIDE DEF t
<1>3. IsSequence(t)
  <2>. DEFINE Elements == {t[i] : i \in DOMAIN t}
  <2>1. \A i \in 1 .. Len(t) : t[i] \in Elements
    BY <1>2
  <2>2. t \in [1 .. Len(t) -> Elements]
    <3>1. t = [i \in DOMAIN t |-> t[i]]
      BY <1>2
    <3>. QED  BY <1>2, <2>1, <3>1
  <2>. HIDE DEF Elements
  <2>3. t \in Seq(Elements)
    BY <1>2, <2>2
  <2>. QED  BY <2>3 DEF IsSequence, Elements
<1>. QED  BY <1>2, <1>3 DEF t

\* Every service on the way has a sound context, and each goes on under what it was given.
PathInv ==
    /\ IsSequence(path)
    /\ \A i \in DOMAIN path : ContextOk(path[i].context)
    /\ H!ContextSurvives

\* One more service, called under the context of the last, keeps all that.
LEMMA PathGrows ==
  ASSUME PathInv, NEW called, path' = Append(path, called), ContextOk(called.context),
         path # <<>> => LET from == path[Len(path)].context IN
            /\ Survives(from, called.context)
            /\ called.answer /\ called.carrier = "rabbit" => called.context.reply = Undefined
  PROVE  PathInv'
<1>1. /\ IsSequence(path') /\ Len(path) \in Nat /\ Len(path') = Len(path) + 1
      /\ DOMAIN path = 1 .. Len(path) /\ DOMAIN path' = 1 .. Len(path) + 1
      /\ \A i \in 1 .. Len(path) : path'[i] = path[i]
      /\ path'[Len(path) + 1] = called
  BY OneMore DEF PathInv
<1>2. ASSUME NEW i \in DOMAIN path'  PROVE ContextOk(path'[i].context)
  <2>1. CASE i = Len(path) + 1
    BY <1>1, <2>1
  <2>2. CASE i # Len(path) + 1
    BY <1>1, <2>2 DEF PathInv
  <2>. QED  BY <2>1, <2>2
<1>3. ASSUME NEW i \in 2 .. Len(path')
      PROVE  LET from == path'[i - 1].context
                 to   == path'[i].context
             IN  /\ to.traceId = from.traceId
                 /\ \A n \in {"correlationId", "requestId"} : from[n] \notin {Undefined, "blank"} => to[n] = from[n]
                 /\ path'[i].answer /\ path'[i].carrier = "rabbit" => to.reply = Undefined
  <2>1. CASE i = Len(path) + 1
    <3>1. i - 1 = Len(path) /\ Len(path) \in 1 .. Len(path)
      BY <1>1, <1>3, <2>1
    <3>3. path'[i - 1] = path[Len(path)] /\ path'[i] = called
      BY <1>1, <2>1, <3>1
    <3>2. path # <<>>
      BY <3>1
    <3>. QED  BY <3>2, <3>3 DEF Survives
  <2>2. CASE i # Len(path) + 1
    <3>1. i \in 2 .. Len(path) /\ path'[i - 1] = path[i - 1] /\ path'[i] = path[i]
      BY <1>1, <1>3, <2>2
    <3>. QED  BY <3>1 DEF PathInv, H!ContextSurvives
  <2>. QED  BY <2>1, <2>2
<1>4. H!ContextSurvives'
  BY <1>3 DEF H!ContextSurvives
<1>. QED  BY <1>1, <1>2, <1>4 DEF PathInv

LEMMA PathNextKeeps ==
  ASSUME PathInv, [H!Next]_path
  PROVE  PathInv'
<1>. DEFINE last0 == path[Len(path)]
<1>. Carriers \subseteq AllCarriers
  BY HopsAssumption DEF AllCarriers
<1>1. ASSUME path # <<>>, Len(path) < MaxHops
      PROVE  Len(path) + 1 \in 1 .. 3 /\ ContextOk(last0.context)
  <2>1. Len(path) \in Nat /\ DOMAIN path = 1 .. Len(path)
    BY OneMore DEF PathInv
  <2>2. Len(path) # 0
    BY <1>1 DEF PathInv, IsSequence
  <2>. QED  BY <1>1, <2>1, <2>2, HopsAssumption DEF PathInv
<1>2. ASSUME NEW carrier \in Carriers, NEW headers \in H!Outside(carrier), H!Enter(carrier, headers)
      PROVE  PathInv'
  <2>1. PICK correlationId \in {Undefined, headers.correlationId} \ {"array"}, toAnswer \in BOOLEAN :
           /\ path = <<>>
           /\ path' = <<H!Service(carrier, [H!Plain(headers) EXCEPT
                 !.properties.correlationId = IF carrier = "rabbit" THEN correlationId ELSE @,
                 !.properties.reply = IF carrier = "rabbit" THEN headers.reply ELSE @], 1, toAnswer)>>
    BY <1>2 DEF H!Enter
  <2>. DEFINE m == [H!Plain(headers) EXCEPT
                      !.properties.correlationId = IF carrier = "rabbit" THEN correlationId ELSE @,
                      !.properties.reply = IF carrier = "rabbit" THEN headers.reply ELSE @]
              called == H!Service(carrier, m, 1, toAnswer)
  <2>2. ContextOk(called.context)
    <3>1. /\ headers \in [H!Names -> {Undefined, "blank", "array", "id"}]
          /\ headers.traceId \in {Undefined, "id"}
      BY DEF H!Outside
    <3>2. /\ m.headers = headers /\ \A n \in H!Names : m.lists[n] = Undefined
          /\ m.properties.correlationId \in {Undefined, correlationId}
      BY DEF H!Plain, H!NoHeaders, H!Names
    <3>3. Undefined \notin Hollow /\ correlationId \notin Hollow
      BY <3>1, UndefinedAssumption DEF H!Names, Hollow
    <3>. HIDE DEF m
    <3>. QED  BY <3>1, <3>2, <3>3, EntryHasContext
  <2>3. path' = Append(path, called)
    BY <2>1
  <2>. HIDE DEF called
  <2>. QED  BY <2>1, <2>2, <2>3, PathGrows
<1>3. ASSUME NEW carrier \in Carriers, H!Call(carrier)
      PROVE  PathInv'
  <2>1. PICK own : /\ path # <<>> /\ Len(path) < MaxHops
                   /\ path' = Append(path, H!Service(carrier, H!Request(carrier, last0.context, own),
                                                     Len(path) + 1, FALSE))
    BY <1>3 DEF H!Call
  <2>. DEFINE m == H!Request(carrier, last0.context, own)
              called == H!Service(carrier, m, Len(path) + 1, FALSE)
  <2>2. Carries(m, carrier, last0.context)
    BY RequestCarries
  <2>3. ~called.answer /\ ContextOk(called.context) /\ Survives(last0.context, called.context)
    BY <1>1, <2>1, <2>2, HopSurvives
  <2>. HIDE DEF called
  <2>. QED  BY <2>1, <2>3, PathGrows DEF called
<1>4. ASSUME H!Answer
      PROVE  PathInv'
  <2>4. PICK toAnswer \in BOOLEAN : toAnswer = TRUE
    OBVIOUS
  <2>. DEFINE without == [last0.context EXCEPT !.reply = Undefined]
              own  == [last0.headers EXCEPT !.reply = Undefined]
              once == H!Request(last0.carrier, without, own)
              m == IF last0.carrier = "kafka" THEN H!KafkaHeadersBuilder(last0.context, once.headers) ELSE once
              called == H!Service(last0.carrier, m, Len(path) + 1, toAnswer)
  <2>1. /\ path # <<>> /\ Len(path) < MaxHops /\ last0.carrier \in {"kafka", "rabbit"}
        /\ last0.context.reply # Undefined
        /\ path' = Append(path, called)
    BY <1>4, <2>4 DEF H!Answer
  <2>2. Carries(m, last0.carrier, last0.context) /\ (last0.carrier = "rabbit" => m.properties.reply = Undefined)
    <3>1. CASE last0.carrier = "kafka"
      <4>1. m = H!Request("kafka", last0.context, once.headers)
        BY <3>1 DEF H!Request
      <4>. HIDE DEF once, m
      <4>. QED  BY <3>1, <4>1, RequestCarries DEF AllCarriers
    <3>2. CASE last0.carrier = "rabbit"
      <4>1. m = H!Request("rabbit", without, own)
        BY <3>2
      <4>2. /\ \A n \in {"traceId", "spanId", "requestId", "correlationId"} : without[n] = last0.context[n]
            /\ without.reply = Undefined
        BY <1>1, <2>1 DEF ContextOk, H!Fields
      <4>. HIDE DEF m, without, own
      <4>3. Carries(m, "rabbit", without) /\ m.properties.reply = without.reply
        BY <4>1, RequestCarries DEF AllCarriers
      <4>. QED  BY <3>2, <4>2, <4>3 DEF Carries, Carried
    <3>. QED  BY <2>1, <3>1, <3>2
  <2>. HIDE DEF m
  <2>3. /\ ContextOk(called.context) /\ Survives(last0.context, called.context)
        /\ called.carrier = "rabbit" => called.context.reply = Undefined
    <3>. DEFINE carrier == last0.carrier
                from == last0.context
                id == Len(path) + 1
    <3>1. carrier \in AllCarriers /\ ContextOk(from) /\ Carries(m, carrier, from) /\ id \in 1 .. 3
      BY <1>1, <2>1, <2>2 DEF AllCarriers
    <3>2. carrier = "rabbit" => m.properties.reply = Undefined
      BY <2>2
    <3>3. called = H!Service(carrier, m, id, toAnswer)
      OBVIOUS
    <3>. HIDE DEF called, carrier, from, id
    <3>4. /\ called.carrier = carrier /\ ContextOk(called.context) /\ Survives(from, called.context)
          /\ carrier = "rabbit" => called.context.reply = m.properties.reply
      BY <3>1, <3>3, HopSurvives
    <3>. QED  BY <3>2, <3>4 DEF from
  <2>. HIDE DEF called
  <2>. QED  BY <2>1, <2>3, PathGrows
<1>5. CASE UNCHANGED path
  BY <1>5 DEF PathInv, IsSequence, H!ContextSurvives
<1>. QED  BY <1>2, <1>3, <1>4, <1>5 DEF H!Next

-----------------------------------------------------------------------------
LEMMA PathInvariant == PartsSpec => []PathInv
<1>1. PartsInit => PathInv
  <2>1. IsSequence(<<>>)
    BY DEF IsSequence
  <2>. QED  BY <2>1 DEF PartsInit, H!Init, PathInv, H!ContextSurvives
<1>2. PathInv /\ [PartsNext]_partVars => PathInv'
  BY HopsStep, PathNextKeeps
<1>. QED  BY <1>1, <1>2, PTL DEF PartsSpec

\* Concurrent messages and requests share one AsyncLocalStorage and never see the context of
\* another: a handler runs under the correlation id, reply topic and trace of the message it
\* was called with, a request's records and headers under the one context of its adapter,
\* and what is built from a context reaches the next service unchanged.
THEOREM ContextStaysOwn == PartsSpec => []ContextIsOwn
<1>1. ASSUME MessagesInv  PROVE M!ContextIsOwn
  BY <1>1 DEF MessagesInv, CallInv, TraceInv, M!ContextIsOwn, M!Context, M!StoreOf
<1>2. ASSUME IncomingInv  PROVE I!ContextIsOne
  <2>1. ASSUME NEW r \in Incoming
        PROVE  /\ \A i \in DOMAIN incoming[r].records : incoming[r].records[i].spanId = "task"
               /\ incoming[r].headers # Undefined => incoming[r].headers.spanId = "task"
    <3>1. incoming[r].records \in Seq(LogRecords) /\ incoming[r].headers \in {Undefined, Own(r)}
      BY <1>2 DEF IncomingInv, RequestIs, Shape
    <3>2. \A i \in DOMAIN incoming[r].records : incoming[r].records[i] \in LogRecords
      BY <3>1
    <3>. QED  BY <3>1, <3>2, OwnIsThere DEF LogRecords
  <2>. QED  BY <2>1 DEF I!ContextIsOne
<1>3. ASSUME PathInv  PROVE H!ContextSurvives
  BY <1>3 DEF PathInv
<1>4. MessagesInv /\ IncomingInv /\ PathInv => ContextIsOwn
  BY <1>1, <1>2, <1>3 DEF ContextIsOwn
<1>. QED  BY <1>4, MessagesInvariant, IncomingInvariant, PathInvariant, PTL

-----------------------------------------------------------------------------
\* Methods decorated with PrometheusOnMethod or ElkLoggerOnMethod.  A step of the parts is one of
\* theirs, or leaves their variables alone.
LEMMA MethodsStep ==
  ASSUME [PartsNext]_partVars
  PROVE  [O!Next]_(O!vars)
BY DEF PartsNext, partVars, Others, methodVars, O!vars

\* Sequences of hooks, one after the other.
LEMMA Pair ==
  ASSUME NEW S, NEW g \in S, NEW h \in S
  PROVE  <<g>> \o <<h>> = <<g, h>>
<1>1. <<g>> \o <<h>> \in Seq(S) /\ Len(<<g>> \o <<h>>) = 2
  OBVIOUS
<1>2. <<g, h>> \in Seq(S) /\ Len(<<g, h>>) = 2
  OBVIOUS
<1>3. \A i \in 1 .. 2 : (<<g>> \o <<h>>)[i] = <<g, h>>[i]
  OBVIOUS
<1>. QED  BY <1>1, <1>2, <1>3, SeqEqual

LEMMA Triple ==
  ASSUME NEW S, NEW f \in S, NEW g \in S, NEW h \in S
  PROVE  <<f>> \o <<g, h>> = <<f, g, h>>
<1>1. <<f>> \o <<g, h>> \in Seq(S) /\ Len(<<f>> \o <<g, h>>) = 3
  OBVIOUS
<1>2. <<f, g, h>> \in Seq(S) /\ Len(<<f, g, h>>) = 3
  OBVIOUS
<1>3. \A i \in 1 .. 3 : (<<f>> \o <<g, h>>)[i] = <<f, g, h>>[i]
  OBVIOUS
<1>. QED  BY <1>1, <1>2, <1>3, SeqEqual

LEMMA Triples ==
  /\ <<"before">> \o <<"finally", "after">> = <<"before", "finally", "after">>
  /\ <<"before">> \o <<"after", "finally">> = <<"before", "after", "finally">>
  /\ <<"before">> \o <<"throw", "finally">> = <<"before", "throw", "finally">>
<1>0. "before" \in O!Hooks /\ "after" \in O!Hooks /\ "throw" \in O!Hooks /\ "finally" \in O!Hooks
  BY DEF O!Hooks
<1>1. <<"before">> \o <<"finally", "after">> = <<"before", "finally", "after">>
  BY <1>0, Triple
<1>2. <<"before">> \o <<"after", "finally">> = <<"before", "after", "finally">>
  BY <1>0, Triple
<1>3. <<"before">> \o <<"throw", "finally">> = <<"before", "throw", "finally">>
  BY <1>0, Triple
<1>. QED  BY <1>1, <1>2, <1>3

\* A hook that is faulty is not told; the events of two hooks follow each other.
LEMMA ToldBoth ==
  ASSUME NEW faulty, NEW g \in O!Hooks, NEW h \in O!Hooks
  PROVE  /\ g \in faulty => O!Told(faulty, g) \o O!Told(faulty, h) = O!Told(faulty, h)
         /\ g \notin faulty /\ h \in faulty => O!Told(faulty, g) \o O!Told(faulty, h) = <<g>>
         /\ g \notin faulty /\ h \notin faulty => O!Told(faulty, g) \o O!Told(faulty, h) = <<g, h>>
<1>1. O!Told(faulty, g) \in Seq(O!Hooks) /\ O!Told(faulty, h) \in Seq(O!Hooks)
  BY DEF O!Told
<1>2. CASE g \in faulty
  <2>1. O!Told(faulty, g) = <<>>
    BY <1>2 DEF O!Told
  <2>. QED  BY <1>1, <1>2, <2>1, ConcatEmptySeq
<1>3. CASE g \notin faulty /\ h \in faulty
  <2>1. O!Told(faulty, h) = <<>> /\ O!Told(faulty, g) = <<g>>
    BY <1>3 DEF O!Told
  <2>2. <<g>> \o <<>> = <<g>>
    OBVIOUS
  <2>. QED  BY <1>3, <2>1, <2>2
<1>4. CASE g \notin faulty /\ h \notin faulty
  <2>1. O!Told(faulty, g) = <<g>> /\ O!Told(faulty, h) = <<h>>
    BY <1>4 DEF O!Told
  <2>. QED  BY <1>4, <2>1, Pair
<1>. QED  BY <1>2, <1>3, <1>4

LEMMA ToldOne ==
  ASSUME NEW faulty, NEW h \in O!Hooks
  PROVE  /\ O!Told(faulty, h) \in Seq(O!Hooks)
         /\ \A e : O!Contains(O!Told(faulty, h), e) <=> e = h /\ h \notin faulty
BY DEF O!Told, O!Contains

\* What is in one sequence followed by another.
LEMMA ContainsBoth ==
  ASSUME NEW S, NEW s \in Seq(S), NEW t \in Seq(S), NEW e
  PROVE  O!Contains(s \o t, e) <=> O!Contains(s, e) \/ O!Contains(t, e)
<1>1. /\ s \o t \in Seq(S) /\ Len(s \o t) = Len(s) + Len(t)
      /\ \A i \in 1 .. Len(s) : (s \o t)[i] = s[i]
      /\ \A i \in 1 .. Len(t) : (s \o t)[Len(s) + i] = t[i]
  OBVIOUS
<1>2. \A i \in 1 .. Len(s \o t) : i \in 1 .. Len(s) \/ i - Len(s) \in 1 .. Len(t)
  BY <1>1
<1>3. ASSUME O!Contains(s \o t, e)
      PROVE  O!Contains(s, e) \/ O!Contains(t, e)
  <2>1. PICK i \in 1 .. Len(s \o t) : (s \o t)[i] = e
    BY <1>3 DEF O!Contains
  <2>2. CASE i \in 1 .. Len(s)
    BY <2>1, <2>2, <1>1 DEF O!Contains
  <2>3. CASE i - Len(s) \in 1 .. Len(t)
    <3>1. (s \o t)[Len(s) + (i - Len(s))] = t[i - Len(s)]
      BY <2>3, <1>1
    <3>2. Len(s) + (i - Len(s)) = i
      BY <2>1
    <3>. QED  BY <2>1, <2>3, <3>1, <3>2 DEF O!Contains
  <2>. QED  BY <1>2, <2>1, <2>2, <2>3
<1>4. ASSUME O!Contains(s, e)  PROVE O!Contains(s \o t, e)
  BY <1>1, <1>4 DEF O!Contains
<1>5. ASSUME O!Contains(t, e)  PROVE O!Contains(s \o t, e)
  <2>1. PICK i \in 1 .. Len(t) : t[i] = e
    BY <1>5 DEF O!Contains
  <2>2. Len(s) + i \in 1 .. Len(s \o t) /\ (s \o t)[Len(s) + i] = e
    BY <1>1, <2>1
  <2>. QED  BY <2>2 DEF O!Contains
<1>. QED  BY <1>3, <1>4, <1>5

-----------------------------------------------------------------------------
\* What follows the return of a method or the end of its promise.
EndOk(end, faulty, answered) ==
    /\ end = [events |-> end.events, answer |-> end.answer]
    /\ end.events \in Seq(O!Hooks)
    /\ end.answer \in {"none", "ok", "error", "hook"}
    /\ ~O!Contains(end.events, "before")
    /\ O!Contains(end.events, "finally") <=> "finally" \notin faulty
    /\ faulty = {} => /\ end.answer = answered
                      /\ \/ answered = "ok" /\ end.events = <<"finally", "after">>
                         \/ answered = "ok" /\ end.events = <<"after", "finally">>
                         \/ answered = "error" /\ end.events = <<"throw", "finally">>

\* onMethod() tells the end of a method without a promise once, whichever hooks throw.
LEMMA SyncEndOk ==
  ASSUME NEW faulty \in SUBSET O!Hooks, NEW answered \in {"ok", "error"}
  PROVE  EndOk(O!SyncEnd(faulty, answered), faulty, answered)
<1>. DEFINE end == O!SyncEnd(faulty, answered)
<1>0. end = [events |-> end.events, answer |-> end.answer]
  BY DEF O!SyncEnd
<1>1. CASE answered = "error"
  <2>1. /\ end.events = O!Told(faulty, "throw") \o O!Told(faulty, "finally")
        /\ end.answer = IF faulty \cap {"throw", "finally"} # {} THEN "hook" ELSE "error"
    BY <1>1 DEF O!SyncEnd
  <2>2. /\ O!Told(faulty, "throw") \in Seq(O!Hooks) /\ O!Told(faulty, "finally") \in Seq(O!Hooks)
        /\ \A e : O!Contains(O!Told(faulty, "throw"), e) <=> e = "throw" /\ "throw" \notin faulty
        /\ \A e : O!Contains(O!Told(faulty, "finally"), e) <=> e = "finally" /\ "finally" \notin faulty
    BY ToldOne DEF O!Hooks
  <2>3. \A e : O!Contains(end.events, e) <=> \/ O!Contains(O!Told(faulty, "throw"), e)
                                            \/ O!Contains(O!Told(faulty, "finally"), e)
    BY <2>1, <2>2, ContainsBoth
  <2>4. end.events \in Seq(O!Hooks)
    BY <2>1, <2>2
  <2>5. faulty = {} => end.events = <<"throw", "finally">>
    BY <2>1, ToldBoth DEF O!Hooks
  <2>6. /\ end.answer \in {"none", "ok", "error", "hook"}
        /\ faulty = {} => end.answer = "error"
    BY <2>1
  <2>7. /\ O!Contains(end.events, "finally") <=> "finally" \notin faulty
        /\ ~O!Contains(end.events, "before")
    BY <2>2, <2>3
  <2>. HIDE DEF end
  <2>8. EndOk(end, faulty, answered)
    BY <1>0, <1>1, <2>4, <2>5, <2>6, <2>7 DEF EndOk
  <2>. QED  BY <2>8 DEF end
<1>2. CASE answered = "ok"
  <2>1. /\ end.events = IF "finally" \in faulty THEN <<>> ELSE <<"finally">> \o O!Told(faulty, "after")
        /\ end.answer = IF faulty \cap {"finally", "after"} # {} THEN "hook" ELSE "ok"
    BY <1>2 DEF O!SyncEnd
  <2>2. /\ <<"finally">> \in Seq(O!Hooks) /\ O!Told(faulty, "after") \in Seq(O!Hooks)
        /\ \A e : O!Contains(O!Told(faulty, "after"), e) <=> e = "after" /\ "after" \notin faulty
        /\ \A e : O!Contains(<<"finally">>, e) <=> e = "finally"
        /\ \A e : ~O!Contains(<<>>, e)
    <3>1. \A e : O!Contains(<<"finally">>, e) <=> e = "finally"
      BY DEF O!Contains
    <3>2. \A e : ~O!Contains(<<>>, e)
      BY DEF O!Contains
    <3>. QED  BY <3>1, <3>2, ToldOne DEF O!Hooks
  <2>3. \A e : O!Contains(<<"finally">> \o O!Told(faulty, "after"), e)
                 <=> \/ O!Contains(<<"finally">>, e)
                     \/ O!Contains(O!Told(faulty, "after"), e)
    BY <2>2, ContainsBoth
  <2>4. end.events \in Seq(O!Hooks)
    BY <2>1, <2>2
  <2>5. faulty = {} => end.events = <<"finally", "after">>
    BY <2>1, Pair DEF O!Told, O!Hooks
  <2>6. O!Contains(end.events, "finally") <=> "finally" \notin faulty
    BY <2>1, <2>2, <2>3
  <2>7. ~O!Contains(end.events, "before")
    BY <2>1, <2>2, <2>3
  <2>8. /\ end.answer \in {"none", "ok", "error", "hook"}
        /\ faulty = {} => end.answer = "ok"
    BY <2>1
  <2>. HIDE DEF end
  <2>9. EndOk(end, faulty, answered)
    BY <1>0, <1>2, <2>4, <2>5, <2>6, <2>7, <2>8 DEF EndOk
  <2>. QED  BY <2>9 DEF end
<1>. QED  BY <1>1, <1>2

\* And so it does when the promise ends, where the catch() of the chain may hear of a hook.
LEMMA AsyncEndOk ==
  ASSUME NEW faulty \in SUBSET O!Hooks, NEW answered \in {"ok", "error"}
  PROVE  EndOk(O!AsyncEnd(faulty, answered), faulty, answered)
<1>. DEFINE end == O!AsyncEnd(faulty, answered)
            bad == answered = "error" \/ "after" \in faulty
            first == IF answered = "error" THEN <<>> ELSE O!Told(faulty, "after")
            second == IF bad THEN O!Told(faulty, "throw") ELSE <<>>
            third == O!Told(faulty, "finally")
<1>0. end = [events |-> end.events, answer |-> end.answer]
  BY DEF O!AsyncEnd
<1>1. end.events = first \o second \o third
  BY DEF O!AsyncEnd
<1>2. /\ end.answer \in {"none", "ok", "error", "hook"}
      /\ faulty = {} => end.answer = answered
  BY DEF O!AsyncEnd
<1>3. /\ \A h \in {"after", "throw", "finally"} : O!Told(faulty, h) \in Seq(O!Hooks)
      /\ \A h \in {"after", "throw", "finally"} :
            \A e : O!Contains(O!Told(faulty, h), e) <=> e = h /\ h \notin faulty
      /\ \A e : ~O!Contains(<<>>, e)
      /\ <<>> \in Seq(O!Hooks)
  <2>1. \A e : ~O!Contains(<<>>, e)
    BY DEF O!Contains
  <2>2. \A h \in {"after", "throw", "finally"} : h \in O!Hooks
    BY DEF O!Hooks
  <2>. QED  BY <2>1, <2>2, ToldOne
<1>4. /\ first \in Seq(O!Hooks) /\ second \in Seq(O!Hooks) /\ third \in Seq(O!Hooks)
      /\ \A e : O!Contains(first, e) => e = "after"
      /\ \A e : O!Contains(second, e) => e = "throw"
      /\ \A e : O!Contains(third, e) <=> e = "finally" /\ "finally" \notin faulty
  BY <1>3
<1>5. faulty = {} => end.events = IF answered = "error" THEN <<"throw", "finally">> ELSE <<"after", "finally">>
  <2>. HAVE faulty = {}
  <2>1. \A h \in {"after", "throw", "finally"} : O!Told(faulty, h) = <<h>>
    BY DEF O!Told
  <2>2. CASE answered = "error"
    <3>1. first = <<>> /\ second = <<"throw">> /\ third = <<"finally">>
      BY <2>1, <2>2
    <3>. HIDE DEF first, second, third, end
    <3>2. first \o second = <<"throw">>
      BY <3>1
    <3>3. <<"throw">> \o <<"finally">> = <<"throw", "finally">>
      BY Pair DEF O!Hooks
    <3>. QED  BY <1>1, <2>2, <3>1, <3>2, <3>3
  <2>3. CASE answered = "ok"
    <3>1. first = <<"after">> /\ second = <<>> /\ third = <<"finally">>
      BY <2>1, <2>3
    <3>. HIDE DEF first, second, third, end
    <3>2. first \o second = <<"after">>
      BY <3>1
    <3>3. <<"after">> \o <<"finally">> = <<"after", "finally">>
      BY Pair DEF O!Hooks
    <3>. QED  BY <1>1, <2>3, <3>1, <3>2, <3>3
  <2>. QED  BY <2>2, <2>3
<1>. HIDE DEF first, second, third, end
<1>6. /\ first \o second \in Seq(O!Hooks) /\ end.events \in Seq(O!Hooks)
      /\ \A e : O!Contains(first \o second, e) <=> O!Contains(first, e) \/ O!Contains(second, e)
  BY <1>1, <1>4, ContainsBoth
<1>7. \A e : O!Contains(end.events, e) <=> \/ O!Contains(first, e) \/ O!Contains(second, e)
                                           \/ O!Contains(third, e)
  <2>. DEFINE both == first \o second
  <2>1. both \in Seq(O!Hooks) /\ end.events = both \o third
    BY <1>1, <1>6
  <2>. HIDE DEF both
  <2>2. \A e : O!Contains(both \o third, e) <=> O!Contains(both, e) \/ O!Contains(third, e)
    BY <1>4, <2>1, ContainsBoth
  <2>3. \A e : O!Contains(end.events, e) <=> O!Contains(both, e) \/ O!Contains(third, e)
    BY <2>1, <2>2
  <2>. QED  BY <1>6, <2>3 DEF both
<1>8. EndOk(end, faulty, answered)
  BY <1>0, <1>2, <1>4, <1>5, <1>6, <1>7 DEF EndOk
<1>. QED  BY <1>8 DEF end

-----------------------------------------------------------------------------
\* A call of a decorated method: what it is at any time, before it, while its promise is
\* awaited and when it is over.  A call is watched while the service that has heard of it
\* is subscribed.
CallRecords ==
    [state: {"idle", "awaiting", "over"}, kind: {"elk", "prometheus"}, faulty: SUBSET O!Hooks,
     timer: BOOLEAN, result: {"none", "ok", "error"}, answer: {"none", "ok", "error", "hook"},
     events: Seq(O!Hooks), watched: BOOLEAN]

MethodTypes == /\ service \in {"absent", "up", "down"}
               /\ call \in [Calls -> CallRecords]
               /\ onEndCallback \subseteq Calls
               /\ stopped \in [Calls -> 0 .. 1]

\* There is no timer before the call.
IdleHoldsNothing(c) == call[c].state = "idle" => c \notin onEndCallback /\ stopped[c] = 0

\* A timer that is held is that of a watched call, and is not stopped yet.
AwaitingHolds(c) ==
    call[c].state = "awaiting" =>
        /\ stopped[c] = 0
        /\ call[c].watched => /\ service = "up" /\ call[c].events = <<"before">>
                              /\ c \in onEndCallback <=> call[c].timer
        /\ ~call[c].watched => service = "down" \/ c \notin onEndCallback

\* The timer of a call that was watched to its end is stopped once and not held any more.
OverHoldsNothing(c) ==
    call[c].state = "over" /\ call[c].watched /\ "finally" \notin call[c].faulty =>
        c \notin onEndCallback /\ stopped[c] = (IF call[c].timer THEN 1 ELSE 0)

\* Without faulty hooks the caller gets the result, and a watched call is told in full.
ToldAsItWent(c) ==
    call[c].state = "over" /\ call[c].faulty = {} =>
        /\ call[c].answer = call[c].result
        /\ call[c].watched =>
              /\ call[c].result = "ok" => call[c].events \in {<<"before", "finally", "after">>,
                                                              <<"before", "after", "finally">>}
              /\ call[c].result # "ok" => call[c].events = <<"before", "throw", "finally">>

\* The inductive invariant.  That no timer is left over by the end of a call needs what is held
\* while it goes on, and that a call which begins while no service is up stays unwatched.
MethodInv ==
    /\ MethodTypes
    /\ \A c \in Calls : IdleHoldsNothing(c) /\ AwaitingHolds(c) /\ OverHoldsNothing(c) /\ ToldAsItWent(c)

LEMMA MethodInit == O!Init => MethodInv
<1>. SUFFICES ASSUME O!Init  PROVE MethodInv
  OBVIOUS
<1>1. O!Idle \in CallRecords /\ O!Idle.state = "idle"
  BY DEF O!Idle, CallRecords
<1>2. MethodTypes
  BY <1>1 DEF O!Init, MethodTypes
<1>. QED  BY <1>1, <1>2 DEF O!Init, MethodInv, IdleHoldsNothing, AwaitingHolds, OverHoldsNothing, ToldAsItWent

\* What the service does with the events of a call.
LEMMA EmitEffect ==
  ASSUME MethodTypes, NEW c \in Calls, NEW timer \in BOOLEAN, NEW events, O!Emit(c, timer, events)
  PROVE  /\ onEndCallback' \subseteq Calls
         /\ \A d \in Calls \ {c} : (d \in onEndCallback' <=> d \in onEndCallback) /\ stopped'[d] = stopped[d]
         /\ stopped' = [stopped EXCEPT ![c] = stopped'[c]]
         /\ service # "up" => stopped'[c] = stopped[c] /\ (c \in onEndCallback' <=> c \in onEndCallback)
         /\ service = "up" =>
               LET held == c \in onEndCallback \/ (timer /\ O!Contains(events, "before"))
                   ends == O!Contains(events, "finally")
               IN  /\ c \in onEndCallback' <=> held /\ ~ends
                   /\ stopped'[c] = stopped[c] + (IF ends /\ timer /\ held THEN 1 ELSE 0)
<1>1. CASE service # "up"
  BY <1>1 DEF O!Emit, MethodTypes
<1>2. CASE service = "up"
  BY <1>2 DEF O!Emit, MethodTypes
<1>. QED  BY <1>1, <1>2

\* A step of one call leaves the others as they are.
LEMMA OneCallMoves ==
  ASSUME MethodInv, NEW c \in Calls, service' = service,
         call' = [call EXCEPT ![c] = call'[c]], call'[c] \in CallRecords, call'[c].state # "idle",
         onEndCallback' \subseteq Calls,
         \A d \in Calls \ {c} : (d \in onEndCallback' <=> d \in onEndCallback) /\ stopped'[d] = stopped[d],
         stopped' = [stopped EXCEPT ![c] = stopped'[c]], stopped'[c] \in 0 .. 1,
         AwaitingHolds(c)', OverHoldsNothing(c)', ToldAsItWent(c)'
  PROVE  MethodInv'
<1>1. MethodTypes'
  BY DEF MethodInv, MethodTypes
<1>2. ASSUME NEW d \in Calls
      PROVE  /\ IdleHoldsNothing(d)' /\ AwaitingHolds(d)'
             /\ OverHoldsNothing(d)' /\ ToldAsItWent(d)'
  <2>1. CASE d = c
    BY <2>1 DEF IdleHoldsNothing, AwaitingHolds, OverHoldsNothing, ToldAsItWent
  <2>2. CASE d # c
    <3>1. call'[d] = call[d] /\ stopped'[d] = stopped[d] /\ (d \in onEndCallback' <=> d \in onEndCallback)
      BY <2>2 DEF MethodInv, MethodTypes
    <3>. QED
      BY <3>1 DEF MethodInv, IdleHoldsNothing, AwaitingHolds, OverHoldsNothing, ToldAsItWent
  <2>. QED  BY <2>1, <2>2
<1>. QED  BY <1>1, <1>2 DEF MethodInv

\* A call whose hook `before` throws: no timer is started for it.
LEMMA ThrownBeforeKeeps ==
  ASSUME MethodInv, NEW c \in Calls, NEW kind \in {"elk", "prometheus"}, NEW faulty \in SUBSET O!Hooks,
         NEW timer \in BOOLEAN, ~timer, call[c].state = "idle", "before" \in faulty, service' = service,
         O!Over(c, kind, faulty, timer, "none", O!BeforeThrows(kind, faulty))
  PROVE  MethodInv'
<1>. DEFINE end == O!BeforeThrows(kind, faulty)
<1>1. end.events \in Seq(O!Hooks) /\ end.answer = "hook"
  <2>1. O!Told(faulty, "throw") \in Seq(O!Hooks) /\ O!Told(faulty, "finally") \in Seq(O!Hooks)
    BY ToldOne DEF O!Hooks
  <2>. QED  BY <2>1 DEF O!BeforeThrows
<1>. HIDE DEF end
<1>2. /\ call' = [call EXCEPT ![c] =
               [state |-> "over", kind |-> kind, faulty |-> faulty, timer |-> timer, result |-> "none",
                answer |-> end.answer, events |-> O!Heard(end.events), watched |-> service = "up"]]
      /\ O!Emit(c, timer, end.events)
  BY DEF O!Over, end
<1>3. O!Heard(end.events) \in Seq(O!Hooks)
  BY <1>1 DEF O!Heard
<1>4. call[c] \in CallRecords /\ c \notin onEndCallback /\ stopped[c] = 0
  BY DEF MethodInv, MethodTypes, IdleHoldsNothing
<1>5. /\ call'[c] = [state |-> "over", kind |-> kind, faulty |-> faulty, timer |-> timer, result |-> "none",
                     answer |-> end.answer, events |-> O!Heard(end.events), watched |-> service = "up"]
      /\ call' = [call EXCEPT ![c] = call'[c]]
  BY <1>2 DEF MethodInv, MethodTypes
<1>6. call'[c] \in CallRecords
  BY <1>1, <1>3, <1>5 DEF CallRecords
<1>7. /\ onEndCallback' \subseteq Calls
      /\ \A d \in Calls \ {c} : (d \in onEndCallback' <=> d \in onEndCallback) /\ stopped'[d] = stopped[d]
      /\ stopped' = [stopped EXCEPT ![c] = stopped'[c]]
      /\ c \notin onEndCallback' /\ stopped'[c] = 0
  BY <1>2, <1>4, EmitEffect DEF MethodInv
<1>8. /\ call'[c].state = "over" /\ call'[c].faulty = faulty /\ (call'[c].timer <=> timer)
  BY <1>5
<1>9. OverHoldsNothing(c)' /\ AwaitingHolds(c)' /\ ToldAsItWent(c)'
  BY <1>7, <1>8 DEF AwaitingHolds, OverHoldsNothing, ToldAsItWent
<1>. QED  BY <1>5, <1>6, <1>7, <1>8, <1>9, OneCallMoves

\* A call whose method returns or throws at once.
LEMMA SyncKeeps ==
  ASSUME MethodInv, NEW c \in Calls, NEW kind \in {"elk", "prometheus"}, NEW faulty \in SUBSET O!Hooks,
         NEW timer \in BOOLEAN, NEW answered \in {"ok", "error"}, NEW end, EndOk(end, faulty, answered),
         NEW told, told.events = <<"before">> \o end.events, told.answer = end.answer,
         call[c].state = "idle", "before" \notin faulty, service' = service,
         O!Over(c, kind, faulty, timer, answered, told)
  PROVE  MethodInv'
<1>. DEFINE events == told.events
<1>1. /\ <<"before">> \in Seq(O!Hooks) /\ end.events \in Seq(O!Hooks)
      /\ \A e : O!Contains(<<"before">>, e) <=> e = "before"
  <2>1. \A e : O!Contains(<<"before">>, e) <=> e = "before"
    BY DEF O!Contains
  <2>. QED  BY <2>1 DEF EndOk, O!Hooks
<1>2. /\ events \in Seq(O!Hooks)
      /\ O!Contains(events, "before")
      /\ O!Contains(events, "finally") <=> "finally" \notin faulty
  <2>1. \A e : O!Contains(<<"before">> \o end.events, e)
                 <=> O!Contains(<<"before">>, e) \/ O!Contains(end.events, e)
    BY <1>1, ContainsBoth
  <2>2. events = <<"before">> \o end.events
    OBVIOUS
  <2>. HIDE DEF events
  <2>. QED  BY <1>1, <2>1, <2>2 DEF EndOk
<1>3. faulty = {} =>
         /\ answered = "ok" => events \in {<<"before", "finally", "after">>, <<"before", "after", "finally">>}
         /\ answered # "ok" => events = <<"before", "throw", "finally">>
  BY Triples DEF EndOk
<1>4. O!Heard(events) \in Seq(O!Hooks) /\ (service = "up" => O!Heard(events) = events)
  BY <1>2 DEF O!Heard
<1>5. call[c] \in CallRecords /\ c \notin onEndCallback /\ stopped[c] = 0
  BY DEF MethodInv, MethodTypes, IdleHoldsNothing
<1>6. /\ call' = [call EXCEPT ![c] =
               [state |-> "over", kind |-> kind, faulty |-> faulty, timer |-> timer, result |-> answered,
                answer |-> end.answer, events |-> O!Heard(events), watched |-> service = "up"]]
      /\ O!Emit(c, timer, events)
  BY DEF O!Over
<1>. HIDE DEF events
<1>7. /\ call'[c] = [state |-> "over", kind |-> kind, faulty |-> faulty, timer |-> timer, result |-> answered,
                     answer |-> end.answer, events |-> O!Heard(events), watched |-> service = "up"]
      /\ call' = [call EXCEPT ![c] = call'[c]]
  BY <1>6 DEF MethodInv, MethodTypes
<1>8. call'[c] \in CallRecords
  BY <1>4, <1>7 DEF CallRecords, EndOk
<1>9. /\ onEndCallback' \subseteq Calls
      /\ \A d \in Calls \ {c} : (d \in onEndCallback' <=> d \in onEndCallback) /\ stopped'[d] = stopped[d]
      /\ stopped' = [stopped EXCEPT ![c] = stopped'[c]]
      /\ stopped'[c] \in 0 .. 1
      /\ service = "up" /\ "finally" \notin faulty =>
            c \notin onEndCallback' /\ stopped'[c] = (IF timer THEN 1 ELSE 0)
  BY <1>2, <1>5, <1>6, EmitEffect DEF MethodInv
<1>10. /\ call'[c].state = "over" /\ call'[c].faulty = faulty
       /\ call'[c].timer <=> timer
       /\ call'[c].watched <=> service = "up"
       /\ call'[c].answer = end.answer /\ call'[c].result = answered /\ call'[c].events = O!Heard(events)
  <2>. DEFINE up == service = "up"
  <2>1. call'[c] = [state |-> "over", kind |-> kind, faulty |-> faulty, timer |-> timer, result |-> answered,
                     answer |-> end.answer, events |-> O!Heard(events), watched |-> up]
    BY <1>7
  <2>2. up \in BOOLEAN /\ (up <=> service = "up")
    OBVIOUS
  <2>. HIDE DEF up
  <2>3. call'[c].watched <=> up
    BY <2>1, <2>2
  <2>4. call'[c].timer <=> timer
    BY <2>1
  <2>5. /\ call'[c].state = "over" /\ call'[c].faulty = faulty
        /\ call'[c].answer = end.answer /\ call'[c].result = answered /\ call'[c].events = O!Heard(events)
    BY <2>1
  <2>. QED  BY <2>2, <2>3, <2>4, <2>5
<1>11. OverHoldsNothing(c)' /\ AwaitingHolds(c)'
  BY <1>9, <1>10 DEF AwaitingHolds, OverHoldsNothing
<1>12. ToldAsItWent(c)'
  BY <1>3, <1>4, <1>10 DEF ToldAsItWent, EndOk
<1>. QED  BY <1>7, <1>8, <1>9, <1>10, <1>11, <1>12, OneCallMoves

\* A call whose method has returned a promise.
LEMMA PromiseKeeps ==
  ASSUME MethodInv, NEW c \in Calls, NEW kind \in {"elk", "prometheus"}, NEW faulty \in SUBSET O!Hooks,
         NEW timer \in BOOLEAN, call[c].state = "idle", service' = service,
         call' = [call EXCEPT ![c] =
                     [state |-> "awaiting", kind |-> kind, faulty |-> faulty, timer |-> timer, result |-> "none",
                      answer |-> "none", events |-> O!Heard(<<"before">>), watched |-> service = "up"]],
         O!Emit(c, timer, <<"before">>)
  PROVE  MethodInv'
<1>1. /\ <<"before">> \in Seq(O!Hooks)
      /\ \A e : O!Contains(<<"before">>, e) <=> e = "before"
  <2>1. \A e : O!Contains(<<"before">>, e) <=> e = "before"
    BY DEF O!Contains
  <2>. QED  BY <2>1 DEF O!Hooks
<1>2. O!Heard(<<"before">>) \in Seq(O!Hooks) /\ (service = "up" => O!Heard(<<"before">>) = <<"before">>)
  BY <1>1 DEF O!Heard
<1>3. call[c] \in CallRecords /\ c \notin onEndCallback /\ stopped[c] = 0
  BY DEF MethodInv, MethodTypes, IdleHoldsNothing
<1>4. /\ call'[c] = [state |-> "awaiting", kind |-> kind, faulty |-> faulty, timer |-> timer, result |-> "none",
                     answer |-> "none", events |-> O!Heard(<<"before">>), watched |-> service = "up"]
      /\ call' = [call EXCEPT ![c] = call'[c]]
  BY DEF MethodInv, MethodTypes
<1>5. call'[c] \in CallRecords
  BY <1>2, <1>4 DEF CallRecords
<1>6. /\ onEndCallback' \subseteq Calls
      /\ \A d \in Calls \ {c} : (d \in onEndCallback' <=> d \in onEndCallback) /\ stopped'[d] = stopped[d]
      /\ stopped' = [stopped EXCEPT ![c] = stopped'[c]]
      /\ stopped'[c] = 0
      /\ service # "up" => c \notin onEndCallback'
      /\ service = "up" => (c \in onEndCallback' <=> timer)
  <2>1. ~O!Contains(<<"before">>, "finally") /\ O!Contains(<<"before">>, "before")
    BY <1>1
  <2>. QED  BY <1>3, <2>1, EmitEffect DEF MethodInv
<1>7. /\ call'[c].state = "awaiting" /\ call'[c].events = O!Heard(<<"before">>)
      /\ call'[c].timer <=> timer
      /\ call'[c].watched <=> service = "up"
  <2>. DEFINE up == service = "up"
  <2>1. call'[c] = [state |-> "awaiting", kind |-> kind, faulty |-> faulty, timer |-> timer, result |-> "none",
                     answer |-> "none", events |-> O!Heard(<<"before">>), watched |-> up]
    BY <1>4
  <2>2. up \in BOOLEAN /\ (up <=> service = "up")
    OBVIOUS
  <2>. HIDE DEF up
  <2>3. call'[c].watched <=> up
    BY <2>1, <2>2
  <2>4. call'[c].timer <=> timer
    BY <2>1
  <2>5. call'[c].state = "awaiting" /\ call'[c].events = O!Heard(<<"before">>)
    BY <2>1
  <2>. QED  BY <2>2, <2>3, <2>4, <2>5
<1>8. OverHoldsNothing(c)' /\ AwaitingHolds(c)' /\ ToldAsItWent(c)'
  BY <1>2, <1>6, <1>7 DEF AwaitingHolds, OverHoldsNothing, ToldAsItWent
<1>. QED  BY <1>4, <1>5, <1>6, <1>7, <1>8, OneCallMoves, 0 \in 0 .. 1

\* The promise of a call is settled.
LEMMA PromiseEndKeeps ==
  ASSUME MethodInv, NEW c \in Calls, NEW answered \in {"ok", "error"}, O!Settle(c, answered)
  PROVE  MethodInv'
<1>. DEFINE faulty == call[c].faulty
            timer == call[c].timer
            end == O!AsyncEnd(faulty, answered)
            events == call[c].events \o O!Heard(end.events)
<1>1. /\ call[c].state = "awaiting" /\ service' = service
      /\ call' = [call EXCEPT ![c].state = "over", ![c].result = answered, ![c].answer = end.answer,
                              ![c].events = events]
      /\ O!Emit(c, timer, end.events)
  BY DEF O!Settle
<1>2. call \in [Calls -> CallRecords] /\ call[c] \in CallRecords
  BY DEF MethodInv, MethodTypes
<1>3. faulty \in SUBSET O!Hooks /\ timer \in BOOLEAN /\ call[c].watched \in BOOLEAN
      /\ call[c].events \in Seq(O!Hooks)
  BY <1>2 DEF CallRecords
<1>4. EndOk(end, faulty, answered)
  BY <1>3, AsyncEndOk
<1>. HIDE DEF end
<1>5. O!Heard(end.events) \in Seq(O!Hooks) /\ (service = "up" => O!Heard(end.events) = end.events)
  BY <1>4 DEF O!Heard, EndOk
<1>6. events \in Seq(O!Hooks)
  BY <1>3, <1>5
<1>7. /\ stopped[c] = 0
      /\ call[c].watched => /\ service = "up" /\ call[c].events = <<"before">>
                            /\ c \in onEndCallback <=> timer
  BY <1>1 DEF MethodInv, AwaitingHolds
<1>8. faulty = {} /\ call[c].watched =>
         /\ answered = "ok" => events \in {<<"before", "finally", "after">>, <<"before", "after", "finally">>}
         /\ answered # "ok" => events = <<"before", "throw", "finally">>
  <2>. HAVE faulty = {} /\ call[c].watched
  <2>2. events = <<"before">> \o end.events
    BY <1>5, <1>7
  <2>. HIDE DEF events, faulty
  <2>. QED  BY Triples, <2>2, <1>4 DEF EndOk
<1>. HIDE DEF events
<1>9. /\ call'[c].state = "over" /\ call'[c].result = answered /\ call'[c].answer = end.answer
      /\ call'[c].events = events /\ call'[c].faulty = faulty /\ call'[c].timer = timer
      /\ call'[c].watched = call[c].watched
      /\ call'[c] = [state |-> "over", kind |-> call[c].kind, faulty |-> faulty, timer |-> timer,
                     result |-> answered, answer |-> end.answer, events |-> events, watched |-> call[c].watched]
      /\ call' = [call EXCEPT ![c] = call'[c]]
  BY <1>1, <1>2 DEF CallRecords
<1>10. call'[c] \in CallRecords
  <2>1. call[c].kind \in {"elk", "prometheus"} /\ end.answer \in {"none", "ok", "error", "hook"}
    BY <1>2, <1>4 DEF CallRecords, EndOk
  <2>. HIDE DEF faulty, timer
  <2>. QED  BY <1>3, <1>6, <1>9, <2>1 DEF CallRecords
<1>. HIDE DEF faulty, timer
<1>11. ~O!Contains(end.events, "before") /\ (O!Contains(end.events, "finally") <=> "finally" \notin faulty)
  BY <1>4 DEF EndOk
<1>12. /\ onEndCallback' \subseteq Calls
       /\ \A d \in Calls \ {c} : (d \in onEndCallback' <=> d \in onEndCallback) /\ stopped'[d] = stopped[d]
       /\ stopped' = [stopped EXCEPT ![c] = stopped'[c]]
       /\ stopped'[c] \in 0 .. 1
       /\ service = "up" /\ "finally" \notin faulty /\ (c \in onEndCallback <=> timer) =>
             c \notin onEndCallback' /\ stopped'[c] = (IF timer THEN 1 ELSE 0)
  <2>1. MethodTypes
    BY DEF MethodInv
  <2>. QED  BY <2>1, <1>1, <1>3, <1>7, <1>11, EmitEffect
<1>13. OverHoldsNothing(c)' /\ AwaitingHolds(c)'
  BY <1>7, <1>9, <1>12 DEF AwaitingHolds, OverHoldsNothing
<1>14. ToldAsItWent(c)'
  BY <1>4, <1>8, <1>9 DEF ToldAsItWent, EndOk
<1>. QED  BY <1>1, <1>9, <1>10, <1>12, <1>13, <1>14, OneCallMoves

\* The life of the service: a call that is awaited when it ends is no longer watched.
LEMMA ServiceKeeps ==
  ASSUME MethodInv, O!Created \/ O!onApplicationShutdown
  PROVE  MethodInv'
<1>1. CASE O!Created
  BY <1>1 DEF O!Created, MethodInv, MethodTypes, IdleHoldsNothing, AwaitingHolds, OverHoldsNothing, ToldAsItWent
<1>2. CASE O!onApplicationShutdown
  <2>1. /\ service = "up" /\ service' = "down" /\ onEndCallback' = onEndCallback /\ stopped' = stopped
        /\ call' = [c \in Calls |-> IF call[c].state = "awaiting" THEN [call[c] EXCEPT !.watched = FALSE]
                                    ELSE call[c]]
    BY <1>2 DEF O!onApplicationShutdown
  <2>2. ASSUME NEW c \in Calls
        PROVE  /\ call'[c] \in CallRecords
               /\ IdleHoldsNothing(c)' /\ AwaitingHolds(c)' /\ OverHoldsNothing(c)' /\ ToldAsItWent(c)'
    <3>1. call[c] \in CallRecords
      BY DEF MethodInv, MethodTypes
    <3>2. CASE call[c].state = "awaiting"
      <4>1. call'[c] = [call[c] EXCEPT !.watched = FALSE]
        BY <2>1, <3>2
      <4>2. call'[c] \in CallRecords /\ call'[c].state = "awaiting" /\ ~call'[c].watched
        BY <3>1, <3>2, <4>1 DEF CallRecords
      <4>. QED
        BY <2>1, <3>2, <4>2
           DEF MethodInv, IdleHoldsNothing, AwaitingHolds, OverHoldsNothing, ToldAsItWent
    <3>3. CASE call[c].state # "awaiting"
      <4>1. call'[c] = call[c]
        BY <2>1, <3>3
      <4>. QED
        BY <2>1, <3>1, <3>3, <4>1
           DEF MethodInv, IdleHoldsNothing, AwaitingHolds, OverHoldsNothing, ToldAsItWent
    <3>. QED  BY <3>2, <3>3
  <2>3. MethodTypes'
    <3>1. call' \in [Calls -> CallRecords]
      BY <2>1, <2>2
    <3>. QED  BY <2>1, <3>1 DEF MethodInv, MethodTypes
  <2>. QED  BY <2>2, <2>3 DEF MethodInv
<1>. QED  BY <1>1, <1>2

LEMMA MethodNext == ASSUME MethodInv, [O!Next]_(O!vars)  PROVE MethodInv'
<1>1. ASSUME NEW c \in Calls, NEW kind \in {"elk", "prometheus"}, NEW timer \in BOOLEAN,
             NEW answered \in {"ok", "error", "none"}, NEW faulty \in {{}} \cup {{h} : h \in O!Hooks},
             O!Begin(c, kind, faulty, timer, answered)
      PROVE  MethodInv'
  <2>1. faulty \in SUBSET O!Hooks /\ call[c].state = "idle" /\ service' = service
    BY <1>1 DEF O!Begin
  <2>2. CASE "before" \in faulty
    <3>1. ~timer /\ answered = "none"
      BY <1>1, <2>2 DEF O!Begin
    <3>2. O!Over(c, kind, faulty, timer, "none", O!BeforeThrows(kind, faulty))
      BY <1>1, <2>2, <3>1 DEF O!Begin
    <3>. QED  BY <2>1, <2>2, <3>1, <3>2, ThrownBeforeKeeps
  <2>3. CASE "before" \notin faulty /\ answered # "none"
    <3>. DEFINE end == O!SyncEnd(faulty, answered)
                told == [end EXCEPT !.events = <<"before">> \o @]
    <3>1. answered \in {"ok", "error"}
      BY <2>3
    <3>2. EndOk(end, faulty, answered)
      BY <2>1, <3>1, SyncEndOk
    <3>3. O!Over(c, kind, faulty, timer, answered, told)
      BY <1>1, <2>3 DEF O!Begin
    <3>4. told.events = <<"before">> \o end.events /\ told.answer = end.answer
      BY <3>2 DEF EndOk
    <3>. HIDE DEF end, told
    <3>. QED  BY <2>1, <2>3, <3>1, <3>2, <3>3, <3>4, SyncKeeps
  <2>4. CASE "before" \notin faulty /\ answered = "none"
    <3>1. /\ call' = [call EXCEPT ![c] =
                         [state |-> "awaiting", kind |-> kind, faulty |-> faulty,
                          timer |-> timer, result |-> "none", answer |-> "none",
                          events |-> O!Heard(<<"before">>), watched |-> service = "up"]]
          /\ O!Emit(c, timer, <<"before">>)
      BY <1>1, <2>4 DEF O!Begin
    <3>. QED  BY <2>1, <3>1, PromiseKeeps
  <2>. QED  BY <2>2, <2>3, <2>4
<1>2. ASSUME NEW c \in Calls, NEW answered \in {"ok", "error"}, O!Settle(c, answered)
      PROVE  MethodInv'
  BY <1>2, PromiseEndKeeps
<1>3. CASE UNCHANGED O!vars
  BY <1>3 DEF O!vars, MethodInv, MethodTypes, IdleHoldsNothing, AwaitingHolds, OverHoldsNothing, ToldAsItWent
<1>. QED  BY <1>1, <1>2, <1>3, ServiceKeeps DEF O!Next

LEMMA MethodAlways == PartsSpec => []MethodInv
<1>1. PartsInit => MethodInv
  BY MethodInit DEF PartsInit
<1>2. MethodInv /\ [PartsNext]_partVars => MethodInv'
  BY MethodsStep, MethodNext
<1>. QED  BY <1>1, <1>2, PTL DEF PartsSpec

\* What it says about decorated calls.
LEMMA MethodMeans == MethodInv => O!TypeOK /\ O!TimersStop /\ O!CallIsTold
<1>. SUFFICES ASSUME MethodInv  PROVE O!TypeOK /\ O!TimersStop /\ O!CallIsTold
  OBVIOUS
<1>1. O!TypeOK
  BY DEF MethodInv, MethodTypes, CallRecords, O!TypeOK
<1>2. O!TimersStop
  BY DEF MethodInv, OverHoldsNothing, O!TimersStop
<1>3. O!CallIsTold
  <2>1. \A f, g, h \in O!Hooks : /\ Head(<<f, g, h>>) = f /\ Len(<<f, g, h>>) = 3
                                /\ O!ToSet(<<f, g, h>>) = {f, g, h}
    BY DEF O!ToSet
  <2>2. /\ \A e \in {<<"before", "finally", "after">>, <<"before", "after", "finally">>} :
              Head(e) = "before" /\ Len(e) = 3 /\ O!ToSet(e) = {"before", "finally", "after"}
        /\ \A e \in {<<"before", "throw", "finally">>} :
              Head(e) = "before" /\ Len(e) = 3 /\ O!ToSet(e) = {"before", "finally", "throw"}
    BY <2>1 DEF O!Hooks
  <2>3. ASSUME NEW c \in Calls, call[c].state = "over", call[c].faulty = {}
        PROVE  /\ call[c].answer = call[c].result
               /\ call[c].watched =>
                    /\ Head(call[c].events) = "before"
                    /\ O!ToSet(call[c].events) = {"before", "finally",
                                                  IF call[c].result = "ok" THEN "after" ELSE "throw"}
                    /\ Len(call[c].events) = 3
    BY <2>2, <2>3 DEF MethodInv, ToldAsItWent
  <2>. QED  BY <2>3 DEF O!CallIsTold
<1>. QED  BY <1>1, <1>2, <1>3
=============================================================================
