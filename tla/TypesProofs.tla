----------------------------- MODULE TypesProofs -----------------------------
(***************************************************************************)
(* Every variable of every part keeps its type.  Beside the ranges that     *)
(* says: the Kafka client waits for no producer that is not there, no span  *)
(* waits for the exporter again, stores keep the keys of a context, answers *)
(* go to topics of the application, and clients count failures within their *)
(* attempts.  Most of it is inductive only together with the invariants of  *)
(* PartsProofs, MetricsProofs, KafkaClientProofs and MigrationsProofs.      *)
(***************************************************************************)
EXTENDS MetricsProofs, KafkaClientProofs

-----------------------------------------------------------------------------
\* The Kafka client: the invariant of KafkaClientProofs, which the other parts leave alone.
LEMMA KafkaStep ==
  ASSUME [PartsNext]_partVars
  PROVE  [Next]_vars
BY DEF PartsNext, partVars, Others, kafkaVars

LEMMA KafkaTypes == PartsSpec => []TypeOK
<1>1. PartsInit => ClientInv
  BY ClientInit DEF PartsInit
<1>2. ClientInv /\ [PartsNext]_partVars => ClientInv'
  BY KafkaStep, ClientNext
<1>3. ClientInv => TypeOK
  BY DEF ClientInv
<1>. QED  BY <1>1, <1>2, <1>3, PTL DEF PartsSpec

-----------------------------------------------------------------------------
\* The maps of the gateway lead from users to sockets and back.
LEMMA GatewayTypes == PartsSpec => []W!TypeOK
<1>1. W!Init => W!TypeOK
  BY DEF W!Init, W!TypeOK
<1>2. ASSUME W!TypeOK, [W!Next]_(W!vars)  PROVE W!TypeOK'
  <2>0. \A u : W!SocketsOf(u) \subseteq Sockets
    BY <1>2 DEF W!TypeOK, W!SocketsOf
  <2>1. ASSUME NEW s \in Sockets, NEW u \in Users \cup {None}, W!handleConnection(s, u)  PROVE W!TypeOK'
    <3>1. CASE u = None
      BY <1>2, <2>1, <3>1 DEF W!handleConnection, W!TypeOK
    <3>2. CASE u # None
      <4>1. DOMAIN userMap' \subseteq Users /\ \A v \in DOMAIN userMap' : userMap'[v] \subseteq Sockets
        BY <1>2, <2>0, <2>1, <3>2 DEF W!handleConnection, W!TypeOK
      <4>. QED  BY <1>2, <2>1, <3>2, <4>1 DEF W!handleConnection, W!TypeOK
    <3>. QED  BY <3>1, <3>2
  <2>2. ASSUME NEW s \in Sockets, W!handleDisconnect(s)  PROVE W!TypeOK'
    BY <1>2, <2>2 DEF W!handleDisconnect, W!TypeOK, W!UsersLeft
  <2>3. ASSUME NEW s \in Sockets, NEW u \in Users, W!handleMessage(s, u)  PROVE W!TypeOK'
    <3>1. answers' \subseteq [to : Sockets, status : W!Statuses]
      BY <2>0, <2>3 DEF W!handleMessage, W!Statuses
    <3>. QED  BY <1>2, <2>3, <3>1 DEF W!handleMessage, W!TypeOK
  <2>4. CASE UNCHANGED W!vars
    BY <1>2, <2>4 DEF W!vars, W!TypeOK
  <2>. QED  BY <1>2, <2>1, <2>2, <2>3, <2>4 DEF W!Next
<1>3. PartsInit => W!TypeOK
  BY <1>1 DEF PartsInit
<1>4. W!TypeOK /\ [PartsNext]_partVars => W!TypeOK'
  BY <1>2, GatewayStep
<1>. QED  BY <1>3, <1>4, PTL DEF PartsSpec

-----------------------------------------------------------------------------
LEMMA RabbitStep ==
  ASSUME [PartsNext]_partVars
  PROVE  [R!Next]_(R!vars)
BY DEF PartsNext, partVars, Others, rabbitVars, R!vars, R!fields, R!manager

LEMMA RabbitErrors == \A error : R!handleRabbitError(error) \in R!Kinds
BY DEF R!handleRabbitError, R!Kinds

RabbitFields == <<client, created, conn, url, chans, ready, channel, stream, promise, isInitialConnect,
                  settled, rmqClosing, reachable>>

\* Requests wait for a promise, or publish, or have their reply.
LEMMA RabbitRequestsType ==
  ASSUME R!TypeOK, NEW r \in {"request"},
         R!Send(r) \/ R!SendInvalid(r) \/ R!RequestStep(r)
  PROVE R!TypeOK'
<1>0. \A S \in SUBSET {"request"}, kind \in R!Kinds \cup {"sent"} : R!Ends(S, kind) =>
         /\ rmqRequest' \in [{"request"} -> {"idle", "publishing", "lost"} \cup R!Promises]
         /\ rmqReply' \in [{"request"} -> R!Kinds \cup {"none", "sent"}]
  BY DEF R!Ends, R!TypeOK
<1>1. \A what \in {"idle", "publishing", "lost"} \cup R!Promises : R!Awaits(r, what) =>
         /\ rmqRequest' \in [{"request"} -> {"idle", "publishing", "lost"} \cup R!Promises]
         /\ rmqReply' \in [{"request"} -> R!Kinds \cup {"none", "sent"}]
  BY DEF R!Awaits, R!TypeOK
<1>2. ASSUME UNCHANGED RabbitFields,
         /\ rmqRequest' \in [{"request"} -> {"idle", "publishing", "lost"} \cup R!Promises]
         /\ rmqReply' \in [{"request"} -> R!Kinds \cup {"none", "sent"}]
      PROVE R!TypeOK'
  BY <1>2 DEF R!TypeOK, RabbitFields
<1>3. CASE R!SendInvalid(r) \/ R!RequestStep(r)
  <2>1. UNCHANGED RabbitFields
    BY <1>3 DEF R!SendInvalid, R!RequestStep, R!Dispatch, R!ConnectRejected, R!SerializeFails,
                  R!Published, R!PublishFails, R!fields, R!manager, RabbitFields
  <2>2. R!Awaits(r, "publishing") \/ \E kind \in R!Kinds \cup {"sent"} : R!Ends({r}, kind)
    BY <1>3, RabbitErrors DEF R!SendInvalid, R!RequestStep, R!Dispatch, R!ConnectRejected, R!SerializeFails,
                              R!Published, R!PublishFails
  <2>. QED  BY <1>0, <1>1, <1>2, <2>1, <2>2
<1>4. CASE R!Send(r)
  <2>1. CASE client # 0
    BY <1>1, <1>2, <1>4, <2>1 DEF R!Send, R!fields, R!manager, RabbitFields, R!TypeOK, R!Promises
  <2>2. CASE client = 0
    <3>1. R!CreateClient /\ R!Awaits(r, "stream") /\ UNCHANGED <<rmqClosing, reachable>>
      BY <1>4, <2>2 DEF R!Send
    <3>. QED  BY <1>1, <3>1 DEF R!CreateClient, R!TypeOK, R!Promises
  <2>. QED  BY <2>1, <2>2
<1>. QED  BY <1>3, <1>4

\* The connection manager, its channel wrappers and the broker.
LEMMA RabbitManagerType ==
  ASSUME R!TypeOK, R!ManagerStep \/ (\E w \in R!Wrappers : R!SetUp(w)) \/ R!ConnectionLost \/ R!BrokerChanges
  PROVE R!TypeOK'
<1>1. CASE R!Connected
  BY <1>1 DEF R!Connected, R!ConnectHeard, R!TypeOK, R!Wrappers, R!Promises
<1>2. CASE R!ConnectFailed
  BY <1>2 DEF R!ConnectFailed, R!fields, R!TypeOK
<1>3. ASSUME NEW w \in R!Wrappers, R!SetUp(w)  PROVE R!TypeOK'
  BY <1>3 DEF R!SetUp, R!fields, R!TypeOK
<1>4. CASE R!ConnectionLost
  BY <1>4 DEF R!ConnectionLost, R!TypeOK, R!Promises
<1>5. CASE R!BrokerChanges
  BY <1>5 DEF R!BrokerChanges, R!fields, R!manager, R!TypeOK
<1>. QED  BY <1>1, <1>2, <1>3, <1>4, <1>5 DEF R!ManagerStep

LEMMA RabbitCloseType ==
  ASSUME R!TypeOK, R!Close \/ R!ChannelClosed \/ R!Closed
  PROVE R!TypeOK'
<1>1. CASE R!Close
  <2>1. /\ rmqRequest' \in [{"request"} -> {"idle", "publishing", "lost"} \cup R!Promises]
        /\ rmqReply' \in [{"request"} -> R!Kinds \cup {"none", "sent"}]
    BY <1>1, RabbitErrors DEF R!Close, R!Ends, R!TypeOK
  <2>. QED  BY <1>1, <2>1 DEF R!Close, R!fields, R!TypeOK
<1>2. CASE R!ChannelClosed
  BY <1>2 DEF R!ChannelClosed, R!fields, R!manager, R!TypeOK
<1>3. CASE R!Closed
  <2>1. \A what : R!AfterClose(what) \in {"idle", "resolved", "rejected", "lost"}
    BY DEF R!AfterClose
  <2>2. rmqRequest' \in [{"request"} -> {"idle", "publishing", "lost"} \cup R!Promises]
    BY <1>3, <2>1 DEF R!Closed, R!Promises
  <2>. QED  BY <1>3, <2>2 DEF R!Closed, R!TypeOK
<1>. QED  BY <1>1, <1>2, <1>3

LEMMA RabbitTypes == PartsSpec => []R!TypeOK
<1>1. R!Init => R!TypeOK
  BY DEF R!Init, R!TypeOK, R!Wrappers, R!Promises
<1>2. ASSUME R!TypeOK, [R!Next]_(R!vars)  PROVE R!TypeOK'
  <2>1. CASE UNCHANGED R!vars
    BY <1>2, <2>1 DEF R!vars, R!fields, R!manager, R!TypeOK
  <2>. QED  BY <1>2, <2>1, RabbitRequestsType, RabbitManagerType, RabbitCloseType DEF R!Next
<1>3. PartsInit => R!TypeOK
  BY <1>1 DEF PartsInit
<1>4. R!TypeOK /\ [PartsNext]_partVars => R!TypeOK'
  BY <1>2, RabbitStep
<1>. QED  BY <1>3, <1>4, PTL DEF PartsSpec

-----------------------------------------------------------------------------
LEMMA CacheStep ==
  ASSUME [PartsNext]_partVars
  PROVE  [E!Next]_(E!vars)
BY DEF PartsNext, partVars, Others, cacheVars, E!vars

\* The cache of Redis: what a reader holds is a version, or nothing.
CacheInv ==
    /\ E!TypeOK
    /\ reader \in [Readers -> [at : {"idle", "getting", "loading"}, value : E!Versions \cup {None}]]

LEMMA DelayType ==
  ASSUME NEW n \in 1 .. 3
  PROVE  (IF 2 ^ n * 100 < 500 THEN 2 ^ n * 100 ELSE 500) \in 0 .. 500
<1>1. CASE n = 1
  BY <1>1
<1>2. CASE n = 2
  BY <1>2
<1>3. CASE n = 3
  BY <1>3
<1>. QED  BY <1>1, <1>2, <1>3

LEMMA CacheCallKeeps ==
  ASSUME CacheInv, NEW r \in Readers, E!Call(r) \/ E!CallStep(r)
  PROVE  CacheInv'
<1>1. CASE E!Call(r)
  BY <1>1 DEF E!Call, CacheInv, E!TypeOK
<1>2. CASE E!Got(r)
  BY <1>2 DEF E!Got, CacheInv, E!TypeOK
<1>3. CASE E!Queried(r)
  BY <1>3 DEF E!Queried, CacheInv, E!TypeOK
<1>4. CASE E!Loaded(r)
  BY <1>4 DEF E!Loaded, E!Idle, CacheInv, E!TypeOK
<1>5. CASE E!LoadFails(r)
  BY <1>5 DEF E!LoadFails, E!Idle, CacheInv, E!TypeOK
<1>6. CASE E!Written(r)
  BY <1>6 DEF E!Written, CacheInv, E!TypeOK
<1>. QED  BY <1>1, <1>2, <1>3, <1>4, <1>5, <1>6 DEF E!CallStep

LEMMA CacheTypes == PartsSpec => []E!TypeOK
<1>1. E!Init => CacheInv
  BY DEF E!Init, E!Idle, E!Versions, CacheInv, E!TypeOK
<1>2. ASSUME CacheInv, [E!Next]_(E!vars)  PROVE CacheInv'
  <2>1. CASE E!SourceChanges
    BY <1>2, <2>1 DEF E!SourceChanges, E!Versions, CacheInv, E!TypeOK
  <2>2. CASE E!Expire
    BY <1>2, <2>2 DEF E!Expire, CacheInv, E!TypeOK
  <2>3. CASE E!RedisChanges
    BY <1>2, <2>3 DEF E!RedisChanges, CacheInv, E!TypeOK
  <2>4. CASE E!ReconnectStrategy
    <3>1. reconnects' \in 1 .. 3
      BY <1>2, <2>4 DEF E!ReconnectStrategy, E!NextAttempt, CacheInv, E!TypeOK
    <3>2. delay' \in 0 .. 500
      <4>1. delay' = IF 2 ^ reconnects' * 100 < 500 THEN 2 ^ reconnects' * 100 ELSE 500
        BY <2>4 DEF E!ReconnectStrategy
      <4>. QED  BY <3>1, <4>1, DelayType
    <3>. QED  BY <1>2, <2>4, <3>1, <3>2 DEF E!ReconnectStrategy, CacheInv, E!TypeOK
  <2>5. CASE UNCHANGED E!vars
    BY <1>2, <2>5 DEF E!vars, CacheInv, E!TypeOK
  <2>. QED  BY <1>2, <2>1, <2>2, <2>3, <2>4, <2>5, CacheCallKeeps DEF E!Next
<1>3. PartsInit => CacheInv
  BY <1>1 DEF PartsInit
<1>4. CacheInv /\ [PartsNext]_partVars => CacheInv'
  BY <1>2, CacheStep
<1>5. CacheInv => E!TypeOK
  BY DEF CacheInv
<1>. QED  BY <1>3, <1>4, <1>5, PTL DEF PartsSpec

-----------------------------------------------------------------------------
\* The clients of HTTP and gRPC: of the attempts those before this one have failed, the one that
\* is over may have.
RequestTypes ==
    /\ C!TypeOK
    /\ failed <= attempts + (CASE phase = "attempt" -> -1 [] phase = "pause" -> 0 [] phase = "done" -> 1)

LEMMA MergedOptions ==
  ASSUME NEW e \in C!Environments, NEW c \in C!CallerOptions
  PROVE  C!mergeRequestOptions(C!Configured(e), c) \in
            [retry : BOOLEAN, timeout : {0, DefaultTimeout}, retryMaxCount : {0, 1, 2, DefaultMaxCount}]
<1>. DEFINE merged == C!Overlay(C!Configured(e), c)
<1>1. /\ merged.timeout \in {-9, -1, 0, DefaultTimeout}
      /\ merged.retryMaxCount \in {-9, 0, 1, 2, DefaultMaxCount}
  BY DEF C!Environments, C!CallerOptions, C!Configured, C!Overlay, C!Unset, C!Absent
<1>. HIDE DEF merged
<1>. QED  BY <1>1, CountAssumption DEF C!mergeRequestOptions, merged

LEMMA ErrorKinds == \A f : C!handleError(f) \in {"empty", "timeout", "internal", "external"}
BY DEF C!handleError

LEMMA RequestTypesNext ==
  ASSUME RequestTypes, [C!Next]_(C!vars)
  PROVE  RequestTypes'
<1>0. attempts \in Nat /\ failed \in Nat /\ MaxAttempts \in Nat
  BY CountAssumption DEF RequestTypes, C!TypeOK
<1>1. CASE C!Answered
  BY <1>0, <1>1 DEF C!Answered, C!Ends, RequestTypes, C!TypeOK
<1>2. ASSUME NEW f \in C!Failures, C!Fails(f)  PROVE RequestTypes'
  <2>1. f \in C!HttpFailures \cup C!GrpcFailures
    BY DEF C!Failures
  <2>2. CASE C!Pause(f)
    BY <1>0, <1>2, <2>1, <2>2 DEF C!Fails, C!Pause, RequestTypes, C!TypeOK
  <2>3. ASSUME C!Ends(C!handleError(f)), last' = f, failed' = failed \/ failed' = failed + 1
        PROVE  RequestTypes'
    BY <1>0, <1>2, <2>1, <2>3, ErrorKinds DEF C!Fails, C!Ends, RequestTypes, C!TypeOK
  <2>4. \/ C!Pause(f)
        \/ C!Ends(C!handleError(f)) /\ last' = f /\ (failed' = failed \/ failed' = failed + 1)
    BY <1>0, <1>2 DEF C!Fails
  <2>. QED  BY <2>2, <2>3, <2>4
<1>3. CASE C!Retry
  BY <1>0, <1>3 DEF C!Retry, RequestTypes, C!TypeOK
<1>4. CASE C!TimesOut
  BY <1>0, <1>4 DEF C!TimesOut, C!Ends, RequestTypes, C!TypeOK
<1>5. CASE UNCHANGED C!vars
  BY <1>5 DEF C!vars, RequestTypes, C!TypeOK
<1>. QED  BY <1>1, <1>2, <1>3, <1>4, <1>5 DEF C!Next, C!AttemptEnds

LEMMA RequestTypesAlways == PartsSpec => []C!TypeOK
<1>1. C!Init => RequestTypes
  BY MergedOptions, CountAssumption DEF C!Init, RequestTypes, C!TypeOK
<1>2. PartsInit => RequestTypes
  BY <1>1 DEF PartsInit
<1>3. RequestTypes /\ [PartsNext]_partVars => RequestTypes'
  BY RequestStepOfClient, RequestTypesNext
<1>4. RequestTypes => C!TypeOK
  BY DEF RequestTypes
<1>. QED  BY <1>2, <1>3, <1>4, PTL DEF PartsSpec

-----------------------------------------------------------------------------
\* What a call has received fits the bound, and it answers with what its store has.
CallTypes(c) ==
    /\ Len(fetch[c]) <= MaxBatch
    /\ DOMAIN store[c] = M!Fields
    /\ sent[c] \cup UNION asked[c] \subseteq M!Answer

MessagesTypes ==
    /\ mode \in Modes
    /\ DOMAIN store[M!Listen] = M!Fields
    /\ failures \in [Calls -> 0 .. MaxBatch]
    /\ unhandled \in BOOLEAN
    /\ \A c \in Calls : CallTypes(c)

LEMMA FetchFits ==
  ASSUME NEW c \in Calls, NEW f \in M!Fetches(c)
  PROVE  Len(f) <= MaxBatch
<1>1. CASE f \in {<<m>> : m \in M!Delivered(c, 1)}
  <2>1. PICK m : f = <<m>>
    BY <1>1
  <2>. QED  BY <2>1, CountAssumption
<1>2. CASE f \in M!Delivered(c, 1) \X M!Delivered(c, 2)
  <2>1. PICK m \in M!Delivered(c, 1), n \in M!Delivered(c, 2) : f = <<m, n>>
    BY <1>2
  <2>2. n.id = <<c, 2>> /\ n.id \in Calls \X (1 .. MaxBatch)
    BY <2>1 DEF M!Delivered, M!Message
  <2>. QED  BY <2>1, <2>2, CountAssumption
<1>. QED  BY <1>1, <1>2 DEF M!Fetches

\* The stores of the calls keep the keys of a context.
LEMMA StoreKeepsFields ==
  ASSUME NEW old, NEW headers, NEW s, DOMAIN old = M!Fields
  PROVE  DOMAIN M!setMultiple(old, M!toAsyncContext(headers, s)) = M!Fields
<1>1. DOMAIN M!toAsyncContext(headers, s) = M!Fields
  BY DEF M!toAsyncContext, M!Fields
<1>. HIDE DEF M!Fields
<1>. QED  BY <1>1 DEF M!setMultiple

LEMMA WrappedHasFields ==
  ASSUME NEW active, NEW id
  PROVE  DOMAIN M!wrapWithTelemetry(M!EmptyContext, active, id).store = M!Fields
BY DEF M!wrapWithTelemetry, M!EmptyContext

\* The answers that the service finds.
LEMMA ResponsesAreAnswers ==
  ASSUME MessagesInv, NEW c \in Calls, at[c] = "searching"
  PROVE  M!Responses(c) \subseteq M!Answer
<1>1. fetch[c] \in Seq(M!Message) /\ fetch[c] # <<>>
  BY DEF MessagesInv, CallInv, CourseInv
<1>2. fetch[c][1] \in M!Message /\ \A m \in M!WithData(c) : m \in M!Message
  BY <1>1 DEF M!WithData, M!ToSet
<1>3. store[c].reply = fetch[c][1].reply /\ store[c].correlationId = fetch[c][1].id
  BY DEF MessagesInv, CallInv, TraceInv, M!Headers
<1>4. fetch[c][1].reply \in Topics \cup {Undefined} /\ fetch[c][1].id \in Calls \X (1 .. MaxBatch)
  BY <1>2 DEF M!Message
<1>5. \A m \in M!WithData(c) : M!search(c, m) \subseteq M!Answer
  <2>1. ASSUME NEW m \in M!WithData(c), store[c].reply # Undefined
        PROVE  [to |-> store[c].reply, of |-> m.id, key |-> store[c].correlationId] \in M!Answer
    BY <1>2, <1>3, <1>4, <2>1 DEF M!Answer, M!Message
  <2>. QED  BY <2>1 DEF M!search, M!Context, M!StoreOf
<1>. QED  BY <1>5 DEF M!Responses

LEMMA MessagesTypesInit == M!Init => MessagesTypes
<1>. SUFFICES ASSUME M!Init  PROVE MessagesTypes
  OBVIOUS
<1>1. \A s \in Calls \cup {M!Listen} : DOMAIN store[s] = M!Fields
  BY DEF M!Init, M!EmptyContext
<1>2. failures \in [Calls -> 0 .. MaxBatch]
  BY CountAssumption DEF M!Init
<1>3. \A c \in Calls : Len(fetch[c]) <= MaxBatch /\ sent[c] \cup UNION asked[c] \subseteq M!Answer
  <2>1. \A c \in Calls : fetch[c] = <<>> /\ sent[c] = {} /\ asked[c] = {}
    BY DEF M!Init
  <2>. QED  BY <2>1, CountAssumption
<1>. QED  BY <1>1, <1>2, <1>3 DEF M!Init, MessagesTypes, CallTypes

LEMMA MessagesTypesKeep ==
  ASSUME MessagesInv, MessagesTypes, [M!Next]_(M!vars)
  PROVE  MessagesTypes'
<1>. USE DEF MessagesInv, StoresInv
<1>1. CASE UNCHANGED M!vars
  BY <1>1 DEF M!vars, MessagesTypes, CallTypes
<1>2. ASSUME NEW c \in Calls, NEW f \in M!Fetches(c), M!Receive(c, f)  PROVE MessagesTypes'
  <2>1. PICK active : /\ fetch' = [fetch EXCEPT ![c] = f]
                      /\ store' = [store EXCEPT ![c] = 
                             M!wrapWithTelemetry(M!EmptyContext, active, <<"define", c>>).store]
                      /\ UNCHANGED <<mode, asked, sent, failures, unhandled>>
    BY <1>2 DEF M!Receive, M!StoreOf
  <2>2. \A s \in Calls \cup {M!Listen} : DOMAIN store'[s] = M!Fields
    BY <2>1, WrappedHasFields DEF MessagesTypes, CallTypes
  <2>3. \A d \in Calls : Len(fetch'[d]) <= MaxBatch
    BY <2>1, <1>2, FetchFits DEF MessagesTypes, CallTypes
  <2>. QED  BY <2>1, <2>2, <2>3 DEF MessagesTypes, CallTypes
<1>3. ASSUME NEW c \in Calls, M!DecodingFails(c) \/ M!SearchFails(c)  PROVE MessagesTypes'
  <2>1. Len(fetch[c]) \in 0 .. MaxBatch
    BY CountAssumption DEF MessagesTypes, CallTypes, CallInv, CourseInv
  <2>2. failures' = [failures EXCEPT ![c] = Len(fetch[c])]
        /\ UNCHANGED <<mode, fetch, store, asked, sent, unhandled>>
    BY <1>3 DEF M!DecodingFails, M!SearchFails, M!Return
  <2>. QED  BY <2>1, <2>2 DEF MessagesTypes, CallTypes
<1>4. ASSUME NEW c \in Calls, M!Decoded(c)  PROVE MessagesTypes'
  <2>1. /\ \/ store' = store
           \/ \E headers, s : store' = [store EXCEPT ![c] = M!setMultiple(@, M!toAsyncContext(headers, s))]
        /\ failures' = [failures EXCEPT ![c] = 0] \/ UNCHANGED failures
        /\ UNCHANGED <<mode, fetch, asked, sent, unhandled>>
    BY <1>4 DEF M!Decoded, M!StoreOf, M!Return
  <2>2. \A s \in Calls \cup {M!Listen} : DOMAIN store'[s] = M!Fields
    BY <2>1, StoreKeepsFields DEF MessagesTypes, CallTypes
  <2>3. failures' \in [Calls -> 0 .. MaxBatch]
    BY <2>1, CountAssumption DEF MessagesTypes
  <2>. QED  BY <2>1, <2>2, <2>3 DEF MessagesTypes, CallTypes
<1>5. ASSUME NEW c \in Calls, M!Handled(c)  PROVE MessagesTypes'
  <2>1. \E counted \in {0, 1} : failures' = [failures EXCEPT ![c] = counted]
    BY <1>5 DEF M!Handled, M!Return
  <2>2. UNCHANGED <<mode, fetch, store, asked, sent, unhandled>>
    BY <1>5 DEF M!Handled
  <2>3. failures' \in [Calls -> 0 .. MaxBatch]
    BY <2>1, CountAssumption DEF MessagesTypes
  <2>. QED  BY <2>2, <2>3 DEF MessagesTypes, CallTypes
<1>6. ASSUME NEW c \in Calls, M!Found(c)  PROVE MessagesTypes'
  <2>1. /\ asked' = [asked EXCEPT ![c] = M!RequestsOf(M!Responses(c))]
        /\ failures' = [failures EXCEPT ![c] = 0] \/ UNCHANGED failures
        /\ UNCHANGED <<mode, fetch, store, sent, unhandled>>
    BY <1>6 DEF M!Found, M!Return
  <2>2. UNION M!RequestsOf(M!Responses(c)) \subseteq M!Answer
    BY <1>6, ResponsesAreAnswers, RequestsHoldAnswers DEF M!Found
  <2>3. failures' \in [Calls -> 0 .. MaxBatch]
    BY <2>1, CountAssumption DEF MessagesTypes
  <2>. QED  BY <2>1, <2>2, <2>3 DEF MessagesTypes, CallTypes
<1>7. ASSUME NEW c \in Calls, M!Sent(c) \/ M!SendFails(c)  PROVE MessagesTypes'
  <2>1. PICK r \in asked[c] :
           /\ asked' = [asked EXCEPT ![c] = @ \ {r}]
           /\ sent' = [sent EXCEPT ![c] = @ \cup r] \/ UNCHANGED sent
           /\ \/ \E counted \in {0, 1} : failures' = [failures EXCEPT ![c] = counted]
              \/ UNCHANGED failures
           /\ UNCHANGED unhandled \/ unhandled' = TRUE
           /\ UNCHANGED <<mode, fetch, store>>
    BY <1>7 DEF M!Sent, M!SendFails, M!Return
  <2>2. failures' \in [Calls -> 0 .. MaxBatch]
    BY <2>1, CountAssumption DEF MessagesTypes
  <2>3. ASSUME NEW d \in Calls  PROVE sent'[d] \cup UNION asked'[d] \subseteq M!Answer
    <3>1. r \subseteq M!Answer /\ sent[d] \subseteq M!Answer /\ UNION asked[d] \subseteq M!Answer
      BY <2>1 DEF MessagesTypes, CallTypes
    <3>2. sent'[d] \subseteq sent[d] \cup r
      BY <2>1
    <3>3. asked'[d] \subseteq asked[d]
      BY <2>1
    <3>. QED  BY <3>1, <3>2, <3>3
  <2>. QED  BY <2>1, <2>2, <2>3 DEF MessagesTypes, CallTypes
<1>. QED  BY <1>1, <1>2, <1>3, <1>4, <1>5, <1>6, <1>7 DEF M!Next

LEMMA MessagesTypesAlways == PartsSpec => []M!TypeOK
<1>1. PartsInit => MessagesInv /\ MessagesTypes
  BY MessagesInit, MessagesTypesInit DEF PartsInit
<1>2. MessagesInv /\ MessagesTypes /\ [PartsNext]_partVars => (MessagesInv /\ MessagesTypes)'
  BY MessagesStep, MessagesNextKeeps, MessagesTypesKeep
<1>3. MessagesInv /\ MessagesTypes => M!TypeOK
  BY DEF MessagesInv, StoresInv, CallInv, CourseInv, MessagesTypes, CallTypes, M!TypeOK
<1>. QED  BY <1>1, <1>2, <1>3, PTL DEF PartsSpec

-----------------------------------------------------------------------------
\* What is known of a request has its type.
KnownTypes(q) ==
    /\ q.auth \in {"none", "TOKEN_ABSENT", "TOKEN_PARSE_ERROR", "VERIFY_FAILED", "SUCCESS"}
    /\ q.decorators.skip \subseteq I!Targets \cup {I!SkipAll}
    /\ q.timer \in {"off", "running", "stopped"}
    /\ Len(q.counted) <= 1

\* The spans that a request may have ended so far.
SpansOf(q) == {name \in {"task", "server", "handler"} :
    \/ q.state = "answered"
    \/ q.state = "handling" /\ name # "handler" /\ (name = "server" => q.transport # "http")
    \/ q.state = "authenticating" /\ q.transport = "http" /\ name = "task"
    \/ q.state = "authenticating" /\ q.transport = "ws" /\ name # "handler"}

LEMMA SpansByState ==
  ASSUME NEW q
  PROVE  /\ q.state = "new" => SpansOf(q) = {}
         /\ q.state = "authenticating" /\ q.transport = "http" => SpansOf(q) = {"task"}
         /\ q.state = "authenticating" /\ q.transport = "grpc" => SpansOf(q) = {}
         /\ q.state = "authenticating" /\ q.transport = "ws" => SpansOf(q) = {"task", "server"}
         /\ q.state = "handling" /\ q.transport = "http" => SpansOf(q) = {"task"}
         /\ q.state = "handling" /\ q.transport # "http" => SpansOf(q) = {"task", "server"}
         /\ q.state = "answered" => SpansOf(q) = {"task", "server", "handler"}
BY DEF SpansOf

SpansInv == /\ ended \cap exported = {}
            /\ \A s \in ended \cup exported : s.of \in Incoming /\ s.name \in SpansOf(incoming[s.of])

IncomingTypes ==
    /\ \A r \in Incoming : KnownTypes(incoming[r])
    /\ certificate \in BOOLEAN /\ provider \in I!Providers
    /\ certs \in {"asking", "pausing", "done", "failed"}
    /\ SpansInv

\* A step of one request: it may end more spans than before, and ends new ones only.
LEMMA OneStepTypes ==
  ASSUME IncomingInv, IncomingTypes, NEW r \in Incoming, NEW p, incoming' = [incoming EXCEPT ![r] = p],
         KnownTypes(p), SpansOf(incoming[r]) \subseteq SpansOf(p), NEW fresh, ended' = ended \cup fresh,
         \A s \in fresh : s.of = r /\ s.name \in SpansOf(p) \ SpansOf(incoming[r]),
         UNCHANGED <<certificate, certs, provider, exported>>
  PROVE  IncomingTypes'
<1>1. DOMAIN incoming = Incoming
  BY DEF IncomingInv
<1>2. \A t \in Incoming : incoming'[t] = IF t = r THEN p ELSE incoming[t]
  BY <1>1
<1>3. \A t \in Incoming : KnownTypes(incoming[t])'
  <2>1. ASSUME NEW t \in Incoming  PROVE KnownTypes(incoming'[t])
    BY <1>2 DEF IncomingTypes
  <2>. QED  BY <2>1 DEF KnownTypes
<1>4. SpansInv'
  <2>1. ASSUME NEW s \in ended \cup exported
        PROVE  s.of \in Incoming /\ s.name \in SpansOf(incoming'[s.of])
    BY <1>2 DEF IncomingTypes, SpansInv
  <2>2. ASSUME NEW s \in fresh
        PROVE  s.of \in Incoming /\ s.name \in SpansOf(incoming'[s.of]) /\ s \notin exported
    BY <1>2 DEF IncomingTypes, SpansInv
  <2>3. \A s \in (ended \cup exported)' : s.of \in Incoming /\ s.name \in SpansOf(incoming'[s.of])
    BY <2>1, <2>2
  <2>4. (ended \cap exported)' = {}
    BY <2>2 DEF IncomingTypes, SpansInv
  <2>. QED  BY <2>3, <2>4 DEF SpansInv, SpansOf
<1>. QED  BY <1>3, <1>4 DEF IncomingTypes

LEMMA ArrivalTypes ==
  ASSUME NEW r \in Incoming, NEW adapter \in {"http", "grpc", "ws"}, NEW ignored, NEW token,
         NEW d \in Decorators, I!Arrives(r, adapter, ignored, token, d)
  PROVE  \E p : /\ incoming' = [incoming EXCEPT ![r] = p] /\ incoming[r].state = "new"
                /\ KnownTypes(p) /\ p.state = "authenticating" /\ p.transport = adapter
<1>. DEFINE p == [I!New EXCEPT !.state = "authenticating", !.transport = adapter, !.ignored = ignored,
                               !.token = token, !.decorators = d, !.context = I!ContextFor(I!New, r, "guard")]
<1>1. incoming' = [incoming EXCEPT ![r] = p] /\ incoming[r].state = "new"
  BY DEF I!Arrives
<1>2. /\ p.state = "authenticating" /\ p.transport = adapter /\ p.auth = "none" /\ p.decorators = d
      /\ p.timer = "off" /\ p.counted = <<>>
  BY DEF I!New
<1>3. KnownTypes(p)
  BY <1>2, DecoratorsAssumption DEF KnownTypes
<1>. QED  BY <1>1, <1>2, <1>3

LEMMA GuardTypes ==
  ASSUME IncomingInv, IncomingTypes, NEW r \in Incoming, NEW adapter, I!Guarded(r, adapter)
  PROVE  \E p : /\ incoming' = [incoming EXCEPT ![r] = p] /\ incoming[r].state = "authenticating"
                /\ incoming[r].transport = adapter
                /\ KnownTypes(p) /\ p.state \in {"handling", "answered"} /\ p.transport = adapter
<1>. DEFINE o == incoming[r]
            q == [o EXCEPT !.auth = I!authenticate(o.token)]
            passed == [q EXCEPT !.state = "handling",
                                !.records = IF I!Logs(q) THEN <<I!Record(q, r, "guard", "request", "info")>>
                                            ELSE <<>>,
                                !.timer = IF I!Metrics(q) THEN "running" ELSE "off"]
            f == I!Filter(q, r, "denied")
            denied == [f EXCEPT !.state = "answered"]
<1>1. Shape(o, r) /\ KnownTypes(o) /\ o.state = "authenticating" /\ o.transport = adapter
  BY DEF IncomingInv, IncomingTypes, RequestIs, I!Guarded, I!New
<1>2. incoming' = [incoming EXCEPT ![r] = passed] \/ incoming' = [incoming EXCEPT ![r] = denied]
  BY DEF I!Guarded
<1>. HIDE DEF o
<1>3. /\ DOMAIN q = DOMAIN I!New /\ q.context = Own(r) /\ q.transport = adapter
      /\ q.decorators = o.decorators /\ q.timer = o.timer /\ q.counted = o.counted
      /\ q.auth \in {"TOKEN_ABSENT", "TOKEN_PARSE_ERROR", "VERIFY_FAILED", "SUCCESS"}
  BY <1>1 DEF Shape, I!New, I!authenticate
<1>4. adapter \in {"http", "grpc", "ws"}
  BY <1>1 DEF Shape
<1>. HIDE DEF q
<1>5. KnownTypes(passed) /\ passed.state = "handling" /\ passed.transport = adapter
  <2>1. /\ passed.auth = q.auth /\ passed.decorators = q.decorators /\ passed.counted = q.counted
        /\ passed.timer \in {"off", "running"} /\ passed.state = "handling" /\ passed.transport = adapter
    BY <1>3 DEF I!New
  <2>. QED  BY <1>1, <1>3, <2>1 DEF KnownTypes
<1>6. KnownTypes(denied) /\ denied.state = "answered" /\ denied.transport = adapter
  <2>1. /\ DOMAIN f = DOMAIN I!New
        /\ \A x \in DOMAIN I!New \ {"status", "headers", "records"} : f[x] = q[x]
    BY <1>3, <1>4, FilterTells
  <2>. HIDE DEF f
  <2>2. /\ denied.auth = q.auth /\ denied.decorators = q.decorators /\ denied.counted = q.counted
        /\ denied.timer = q.timer /\ denied.state = "answered" /\ denied.transport = q.transport
    BY <2>1 DEF I!New
  <2>. QED  BY <1>1, <1>3, <2>2 DEF KnownTypes
<1>. QED  BY <1>1, <1>2, <1>5, <1>6 DEF o

\* The handler's answer leaves the types to the interceptors around it.
LEMMA AnswersTypes ==
  ASSUME NEW r \in Incoming, NEW q, DOMAIN q = DOMAIN I!New, q.transport \in {"http", "grpc", "ws"},
         q.context = Own(r), KnownTypes(q), NEW outcome, NEW slow, NEW part0, NEW spans,
         I!Answers(r, q, outcome, slow, part0, spans)
  PROVE  \E p : /\ incoming' = [incoming EXCEPT ![r] = p]
                /\ KnownTypes(p) /\ p.state = "answered"
<1>. DEFINE told == [q EXCEPT !.timer = I!TimerAfter(@, outcome), !.slow = slow, !.result = outcome,
                              !.state = "answered", !.status = "ok"]
<1>1. /\ outcome \in I!Results(q.transport) /\ q.state = "handling"
      /\ incoming' = [incoming EXCEPT ![r] = IF outcome = "ok" THEN told ELSE I!Filter(told, r, outcome)]
  BY DEF I!Answers
<1>2. /\ DOMAIN told = DOMAIN I!New /\ told.state = "answered" /\ told.context = Own(r)
      /\ told.transport = q.transport /\ told.auth = q.auth /\ told.decorators = q.decorators
      /\ told.counted = q.counted /\ told.timer \in {q.timer, "stopped"}
  BY <1>1 DEF I!New, I!TimerAfter
<1>. HIDE DEF told
<1>3. KnownTypes(told)
  BY <1>2 DEF KnownTypes
<1>4. ASSUME outcome # "ok"
      PROVE  KnownTypes(I!Filter(told, r, outcome)) /\ I!Filter(told, r, outcome).state = "answered"
  <2>. DEFINE f == I!Filter(told, r, outcome)
  <2>1. /\ DOMAIN f = DOMAIN I!New
        /\ \A x \in DOMAIN I!New \ {"status", "headers", "records"} : f[x] = told[x]
    BY <1>1, <1>2, <1>4, FilterTells
  <2>. HIDE DEF f
  <2>2. /\ f.auth = told.auth /\ f.decorators = told.decorators /\ f.counted = told.counted
        /\ f.timer = told.timer /\ f.state = told.state
    BY <2>1 DEF I!New
  <2>3. KnownTypes(f) /\ f.state = "answered"
    BY <1>2, <1>3, <2>2 DEF KnownTypes
  <2>. QED  BY <2>3 DEF f
<1>. QED  BY <1>1, <1>2, <1>3, <1>4

\* What the interceptors have added before the answer is sent.
LEMMA InterceptedTypes ==
  ASSUME IncomingInv, IncomingTypes, NEW r \in Incoming, NEW outcome, NEW slow, NEW part0,
         \/ I!HttpAnswers(r, outcome, slow, part0) \/ I!GrpcAnswers(r, outcome, slow, part0)
         \/ I!WsAnswers(r, outcome, slow, part0)
  PROVE  /\ incoming[r].state = "handling"
         /\ \E p : /\ incoming' = [incoming EXCEPT ![r] = p]
                   /\ KnownTypes(p) /\ p.state = "answered"
<1>. DEFINE o == incoming[r]
<1>1. /\ DOMAIN o = DOMAIN I!New /\ o.transport \in {"http", "grpc", "ws"}
      /\ o.state = "handling" => o.context = Own(r)
      /\ KnownTypes(o)
  BY DEF IncomingInv, IncomingTypes, RequestIs, Shape
<1>. HIDE DEF o
<1>2. CASE I!HttpAnswers(r, outcome, slow, part0)
  <2>. DEFINE q == [o EXCEPT !.records = @ \o I!HttpLogged(o, r, outcome),
                             !.counted = I!HttpCounted(o, outcome),
                             !.headers = I!HttpHeadersResponse(o)]
  <2>1. PICK spans : I!Answers(r, q, outcome, slow, part0, spans)
    BY <1>2 DEF I!HttpAnswers, o
  <2>2. /\ DOMAIN q = DOMAIN I!New /\ q.state = o.state /\ q.transport = o.transport /\ q.context = o.context
        /\ q.auth = o.auth /\ q.decorators = o.decorators /\ q.timer = o.timer
        /\ q.counted = I!HttpCounted(o, outcome)
    BY <1>1 DEF I!New
  <2>3. q.state = "handling"
    BY <2>1 DEF I!Answers
  <2>. HIDE DEF q
  <2>4. Len(q.counted) <= 1
    BY <2>2 DEF I!HttpCounted
  <2>5. KnownTypes(q)
    BY <1>1, <2>2, <2>4 DEF KnownTypes
  <2>. QED  BY <1>1, <2>1, <2>2, <2>3, <2>5, AnswersTypes DEF o
<1>3. CASE I!GrpcAnswers(r, outcome, slow, part0)
  <2>. DEFINE q == [o EXCEPT !.records = @ \o I!GrpcLogged(o, r, outcome),
                             !.counted = I!GrpcCounted(o, outcome)]
  <2>1. PICK spans : I!Answers(r, q, outcome, slow, part0, spans)
    BY <1>3 DEF I!GrpcAnswers, o
  <2>2. /\ DOMAIN q = DOMAIN I!New /\ q.state = o.state /\ q.transport = o.transport /\ q.context = o.context
        /\ q.auth = o.auth /\ q.decorators = o.decorators /\ q.timer = o.timer
        /\ q.counted = I!GrpcCounted(o, outcome)
    BY <1>1 DEF I!New
  <2>3. q.state = "handling"
    BY <2>1 DEF I!Answers
  <2>. HIDE DEF q
  <2>4. Len(q.counted) <= 1
    BY <2>2 DEF I!GrpcCounted
  <2>5. KnownTypes(q)
    BY <1>1, <2>2, <2>4 DEF KnownTypes
  <2>. QED  BY <1>1, <2>1, <2>2, <2>3, <2>5, AnswersTypes DEF o
<1>4. CASE I!WsAnswers(r, outcome, slow, part0)
  <2>1. I!Answers(r, o, outcome, slow, part0, {})
    BY <1>4 DEF I!WsAnswers, o
  <2>2. o.state = "handling"
    BY <2>1 DEF I!Answers
  <2>. QED  BY <1>1, <2>1, <2>2, AnswersTypes DEF o
<1>. QED  BY <1>2, <1>3, <1>4

\* The exporter hands spans over, or drops them; none comes back.
LEMMA ExportTypes ==
  ASSUME IncomingTypes, NEW batch \in SUBSET ended, I!Export(batch)
  PROVE  IncomingTypes'
<1>1. /\ ended' = ended \ batch /\ exported' = exported \cup I!Forwarded(batch)
      /\ I!Forwarded(batch) \subseteq batch
      /\ UNCHANGED <<incoming, certificate, certs, provider>>
  BY DEF I!Export, I!Forwarded
<1>2. SpansInv'
  BY <1>1 DEF IncomingTypes, SpansInv, SpansOf
<1>. QED  BY <1>1, <1>2 DEF IncomingTypes, KnownTypes

LEMMA IncomingTypesKeep ==
  ASSUME IncomingInv, IncomingTypes, [I!Next]_(I!vars)
  PROVE  IncomingTypes'
<1>1. CASE UNCHANGED I!vars
  BY <1>1 DEF I!vars, IncomingTypes, KnownTypes, SpansInv, SpansOf
<1>2. CASE I!AuthStep \/ I!ProviderChanges
  BY <1>2 DEF I!AuthStep, I!ProviderChanges, I!GotNone, I!GotCertificate, I!CertsFail, I!AskAgain,
              IncomingTypes, KnownTypes, SpansInv, SpansOf
<1>3. ASSUME NEW batch \in SUBSET ended, I!Export(batch)  PROVE IncomingTypes'
  BY <1>3, ExportTypes
<1>4. ASSUME NEW r \in Incoming, NEW ignored, NEW token, NEW d \in Decorators,
             I!ArriveHttp(r, ignored, token, d) \/ I!ArriveGrpc(r, token, d) \/ I!ArriveWs(r, token, d)
      PROVE  IncomingTypes'
  <2>1. ASSUME NEW adapter \in {"http", "grpc", "ws"}, NEW ignored0, I!Arrives(r, adapter, ignored0, token, d),
               NEW fresh, ended' = ended \cup fresh,
               \A s \in fresh : /\ s.of = r
                                /\ s.name \in CASE adapter = "http" -> {"task"} [] adapter = "grpc" -> {}
                                                [] adapter = "ws" -> {"task", "server"}
        PROVE  IncomingTypes'
    <3>1. PICK p : /\ incoming' = [incoming EXCEPT ![r] = p] /\ incoming[r].state = "new"
                   /\ KnownTypes(p) /\ p.state = "authenticating" /\ p.transport = adapter
      BY <2>1, ArrivalTypes
    <3>2. SpansOf(incoming[r]) = {}
      BY <3>1 DEF SpansOf
    <3>3. \A s \in fresh : s.of = r /\ s.name \in SpansOf(p)
      BY <2>1, <3>1 DEF SpansOf
    <3>4. UNCHANGED <<certificate, certs, provider, exported>>
      BY <2>1 DEF I!Arrives
    <3>. QED  BY <2>1, <3>1, <3>2, <3>3, <3>4, OneStepTypes
  <2>2. CASE I!ArriveHttp(r, ignored, token, d)
    <3>. DEFINE spans == {I!Span(r, "task", FALSE, FALSE)}
    <3>1. I!Arrives(r, "http", ignored, token, d) /\ ended' = ended \cup spans
      BY <2>2 DEF I!ArriveHttp
    <3>2. \A s \in spans : s.of = r /\ s.name = "task"
      BY DEF I!Span
    <3>. HIDE DEF spans
    <3>. QED  BY <2>1, <3>1, <3>2
  <2>3. CASE I!ArriveGrpc(r, token, d)
    <3>1. PICK no \in BOOLEAN : no = FALSE
      OBVIOUS
    <3>2. I!Arrives(r, "grpc", no, token, d) /\ ended' = ended \cup {}
      BY <2>3, <3>1 DEF I!ArriveGrpc
    <3>. QED  BY <2>1, <3>2
  <2>4. CASE I!ArriveWs(r, token, d)
    <3>1. PICK no \in BOOLEAN : no = FALSE
      OBVIOUS
    <3>2. I!Arrives(r, "ws", no, token, d) /\ ended' = ended \cup I!Begun(r)
      BY <2>4, <3>1 DEF I!ArriveWs
    <3>3. \A s \in I!Begun(r) : s.of = r /\ s.name \in {"task", "server"}
      BY DEF I!Begun, I!Span
    <3>. QED  BY <2>1, <3>2, <3>3
  <2>. QED  BY <1>4, <2>2, <2>3, <2>4
<1>5. ASSUME NEW r \in Incoming, I!HttpAuthGuard(r) \/ I!GrpcAuthGuard(r) \/ I!WsAuthGuard(r)
      PROVE  IncomingTypes'
  <2>1. PICK adapter \in {"http", "grpc", "ws"} :
           /\ I!Guarded(r, adapter)
           /\ IF adapter = "grpc" THEN ended' = ended \cup I!Begun(r) ELSE ended' = ended \cup {}
    BY <1>5 DEF I!HttpAuthGuard, I!GrpcAuthGuard, I!WsAuthGuard
  <2>2. PICK p : /\ incoming' = [incoming EXCEPT ![r] = p] /\ incoming[r].state = "authenticating"
                 /\ incoming[r].transport = adapter
                 /\ KnownTypes(p) /\ p.state \in {"handling", "answered"} /\ p.transport = adapter
    BY <2>1, GuardTypes
  <2>3. /\ SpansOf(incoming[r]) \subseteq SpansOf(p)
        /\ adapter = "grpc" => SpansOf(incoming[r]) = {} /\ {"task", "server"} \subseteq SpansOf(p)
    BY <2>2, SpansByState
  <2>4. \A s \in I!Begun(r) : s.of = r /\ s.name \in {"task", "server"}
    BY DEF I!Begun, I!Span
  <2>5. PICK fresh : /\ ended' = ended \cup fresh
                     /\ \A s \in fresh : s.of = r /\ s.name \in SpansOf(p) \ SpansOf(incoming[r])
    BY <2>1, <2>3, <2>4
  <2>6. UNCHANGED <<certificate, certs, provider, exported>>
    BY <2>1 DEF I!Guarded
  <2>. QED  BY <2>2, <2>3, <2>5, <2>6, OneStepTypes
<1>6. ASSUME NEW r \in Incoming, NEW outcome, NEW slow, NEW part0,
             \/ I!HttpAnswers(r, outcome, slow, part0) \/ I!GrpcAnswers(r, outcome, slow, part0)
             \/ I!WsAnswers(r, outcome, slow, part0)
      PROVE  IncomingTypes'
  <2>1. incoming[r].state = "handling"
    BY <1>6, InterceptedTypes
  <2>2. PICK p : incoming' = [incoming EXCEPT ![r] = p] /\ KnownTypes(p) /\ p.state = "answered"
    BY <1>6, InterceptedTypes
  <2>3. SpansOf(p) = {"task", "server", "handler"}
    BY <2>2, SpansByState
  <2>4. SpansOf(incoming[r]) = IF incoming[r].transport = "http" THEN {"task"} ELSE {"task", "server"}
    BY <2>1, SpansByState
  <2>5. PICK fresh : /\ ended' = ended \cup fresh
                     /\ \A s \in fresh : /\ s.of = r
                                          /\ \/ s.name = "handler"
                                             \/ s.name = "server" /\ incoming[r].transport = "http"
    <3>1. CASE I!HttpAnswers(r, outcome, slow, part0)
      <4>1. incoming[r].transport = "http"
        BY <3>1 DEF I!HttpAnswers
      <4>2. PICK more \in {{}, {I!Span(r, "server", slow, FALSE)}} :
               ended' = ended \cup {I!Span(r, "handler", part0, outcome # "ok")} \cup more
        BY <3>1 DEF I!HttpAnswers, I!Answers
      <4>. DEFINE spans == {I!Span(r, "handler", part0, outcome # "ok")} \cup more
      <4>3. ended' = ended \cup spans
        BY <4>2
      <4>4. \A s \in spans : s.of = r /\ s.name \in {"handler", "server"}
        BY <4>2 DEF I!Span
      <4>. HIDE DEF spans
      <4>. QED  BY <4>1, <4>3, <4>4
    <3>2. CASE I!GrpcAnswers(r, outcome, slow, part0) \/ I!WsAnswers(r, outcome, slow, part0)
      <4>. DEFINE spans == {I!Span(r, "handler", part0, outcome # "ok")}
      <4>1. ended' = ended \cup spans
        BY <3>2 DEF I!GrpcAnswers, I!WsAnswers, I!Answers
      <4>2. \A s \in spans : s.of = r /\ s.name = "handler"
        BY DEF I!Span
      <4>. HIDE DEF spans
      <4>. QED  BY <4>1, <4>2
    <3>. QED  BY <1>6, <3>1, <3>2
  <2>6. UNCHANGED <<certificate, certs, provider, exported>>
    BY <1>6 DEF I!HttpAnswers, I!GrpcAnswers, I!WsAnswers, I!Answers
  <2>. QED  BY <2>2, <2>3, <2>4, <2>5, <2>6, OneStepTypes
<1>. QED  BY <1>1, <1>2, <1>3, <1>4, <1>5, <1>6 DEF I!Next

LEMMA IncomingTypesAlways == PartsSpec => []I!TypeOK
<1>1. PartsInit => IncomingInv /\ IncomingTypes
  <2>1. I!Init => IncomingTypes
    <3>. SUFFICES ASSUME I!Init  PROVE IncomingTypes
      OBVIOUS
    <3>1. KnownTypes(I!New)
      BY DEF KnownTypes, I!New
    <3>2. \A r \in Incoming : KnownTypes(incoming[r])
      BY <3>1 DEF I!Init
    <3>. QED  BY <3>2 DEF I!Init, IncomingTypes, SpansInv
  <2>. QED  BY <2>1, IncomingInit DEF PartsInit
<1>2. IncomingInv /\ IncomingTypes /\ [PartsNext]_partVars => (IncomingInv /\ IncomingTypes)'
  BY IncomingStep, IncomingNextKeeps, IncomingTypesKeep
<1>3. IncomingInv /\ IncomingTypes => I!TypeOK
  BY DEF IncomingInv, RequestIs, Shape, IncomingTypes, KnownTypes, SpansInv, I!TypeOK
<1>. QED  BY <1>1, <1>2, <1>3, PTL DEF PartsSpec

-----------------------------------------------------------------------------
\* Every service on the way was called over one of the carriers, with headers.
PathTypes ==
    /\ Len(path) <= MaxHops
    /\ \A i \in DOMAIN path : path[i].carrier \in Carriers /\ DOMAIN path[i].headers = H!Names

LEMMA ServiceHasHeaders ==
  ASSUME NEW carrier, NEW m, NEW id, NEW toAnswer
  PROVE  /\ H!Service(carrier, m, id, toAnswer).carrier = carrier
         /\ DOMAIN H!Service(carrier, m, id, toAnswer).headers = H!Names
<1>1. DOMAIN H!Received(carrier, m) = H!Names
  BY DEF H!Received, H!normalizeGrpc, H!normalizeRabbit, H!normalize
<1>. HIDE DEF H!Names
<1>. QED  BY <1>1 DEF H!Service

LEMMA PathTypesKeep ==
  ASSUME PathInv, PathTypes, [H!Next]_path
  PROVE  PathTypes'
<1>1. ASSUME Len(path) < MaxHops, NEW called, path' = Append(path, called),
             called.carrier \in Carriers, DOMAIN called.headers = H!Names
      PROVE  PathTypes'
  <2>1. /\ Len(path) \in Nat /\ Len(path') = Len(path) + 1
        /\ DOMAIN path = 1 .. Len(path) /\ DOMAIN path' = 1 .. Len(path) + 1
        /\ \A i \in 1 .. Len(path) : path'[i] = path[i]
        /\ path'[Len(path) + 1] = called
    BY <1>1, OneMore DEF PathInv
  <2>2. ASSUME NEW i \in DOMAIN path'
        PROVE  path'[i].carrier \in Carriers /\ DOMAIN path'[i].headers = H!Names
    <3>1. CASE i = Len(path) + 1
      BY <1>1, <2>1, <3>1
    <3>2. CASE i # Len(path) + 1
      <4>1. i \in DOMAIN path /\ path'[i] = path[i]
        BY <2>1, <2>2, <3>2
      <4>. QED  BY <4>1 DEF PathTypes
    <3>. QED  BY <3>1, <3>2
  <2>3. Len(path') <= MaxHops
    <3>1. Len(path) < MaxHops /\ MaxHops \in Nat
      BY <1>1, HopsAssumption
    <3>. QED  BY <2>1, <3>1
  <2>. QED  BY <2>2, <2>3 DEF PathTypes
<1>2. ASSUME NEW carrier \in Carriers, NEW h, H!Enter(carrier, h)  PROVE PathTypes'
  <2>1. PICK m, toAnswer : path = <<>> /\ path' = <<H!Service(carrier, m, 1, toAnswer)>>
    BY <1>2 DEF H!Enter
  <2>2. PICK called : called = H!Service(carrier, m, 1, toAnswer)
    OBVIOUS
  <2>3. called.carrier \in Carriers /\ DOMAIN called.headers = H!Names
    BY <2>2, ServiceHasHeaders
  <2>. HIDE DEF H!Names
  <2>4. Len(path) < MaxHops /\ path' = Append(path, called)
    BY <2>1, <2>2, HopsAssumption
  <2>. QED  BY <1>1, <2>3, <2>4
<1>3. ASSUME NEW carrier \in Carriers, H!Call(carrier)  PROVE PathTypes'
  <2>0. PICK no \in BOOLEAN : no = FALSE
    OBVIOUS
  <2>1. PICK own : /\ Len(path) < MaxHops
                   /\ path' = Append(path, H!Service(carrier, H!Request(carrier, path[Len(path)].context, own),
                                                     Len(path) + 1, no))
    BY <1>3, <2>0 DEF H!Call
  <2>. DEFINE called == H!Service(carrier, H!Request(carrier, path[Len(path)].context, own), Len(path) + 1, no)
  <2>2. called.carrier \in Carriers /\ DOMAIN called.headers = H!Names
    BY ServiceHasHeaders
  <2>. HIDE DEF called
  <2>. QED  BY <1>1, <2>1, <2>2 DEF called
<1>4. CASE H!Answer
  <2>1. PICK called, m, id, toAnswer :
           /\ path # <<>> /\ Len(path) < MaxHops /\ path' = Append(path, called)
           /\ called = H!Service(path[Len(path)].carrier, m, id, toAnswer)
    BY <1>4 DEF H!Answer
  <2>2. Len(path) \in DOMAIN path
    <3>1. Len(path) \in Nat /\ DOMAIN path = 1 .. Len(path)
      BY OneMore DEF PathInv
    <3>2. Len(path) # 0
      BY <2>1 DEF PathInv, IsSequence
    <3>. QED  BY <3>1, <3>2
  <2>3. called.carrier \in Carriers /\ DOMAIN called.headers = H!Names
    BY <2>1, <2>2, ServiceHasHeaders DEF PathTypes
  <2>. QED  BY <1>1, <2>1, <2>3
<1>5. CASE UNCHANGED path
  BY <1>5 DEF PathTypes
<1>. QED  BY <1>2, <1>3, <1>4, <1>5 DEF H!Next

LEMMA PathTypesAlways == PartsSpec => []H!TypeOK
<1>1. PartsInit => PathInv /\ PathTypes
  <2>1. IsSequence(<<>>)
    BY DEF IsSequence
  <2>. QED  BY <2>1, HopsAssumption DEF PartsInit, H!Init, PathInv, PathTypes, H!ContextSurvives
<1>2. PathInv /\ PathTypes /\ [PartsNext]_partVars => (PathInv /\ PathTypes)'
  BY HopsStep, PathNextKeeps, PathTypesKeep
<1>3. PathInv /\ PathTypes => H!TypeOK
  BY DEF PathInv, PathTypes, ContextOk, H!TypeOK
<1>. QED  BY <1>1, <1>2, <1>3, PTL DEF PartsSpec

-----------------------------------------------------------------------------
\* The theorems about migrations, for the migrations of Parts: two files, the first of which
\* changes the schema, one pool, Postgres and no faults.
DP == INSTANCE MigrationsProofs WITH at <- query, Files <- {1, 2}, Ddl <- {1}, PoolSize <- 4,
                                     Dialect <- "postgres", Crashes <- FALSE, Breaks <- FALSE

LEMMA TwoFiles == DP!Cardinality({1, 2}) = 2 /\ DP!IsFiniteSet({1, 2})
<1>1. \A S : DP!Cardinality(S) = Cardinality(S)
  BY DEF DP!Cardinality, Cardinality
<1>2. \A S : DP!IsFiniteSet(S) = IsFiniteSet(S)
  BY DEF DP!IsFiniteSet, IsFiniteSet
<1>3. IsFiniteSet({1}) /\ Cardinality({1}) = 1
  BY FS_Singleton
<1>4. {1, 2} = {1} \cup {2} /\ 2 \notin {1}
  OBVIOUS
<1>5. IsFiniteSet({1, 2}) /\ Cardinality({1, 2}) = 2
  BY <1>3, <1>4, FS_AddElement
<1>. QED  BY <1>1, <1>2, <1>5

\* What Migrations assumes of its constants holds of these.
LEMMA MigrationsAssumed ==
  /\ NULL \notin DP!Conns
  /\ FALSE \in BOOLEAN /\ FALSE \in BOOLEAN
  /\ "postgres" \in {"postgres", "mysql"}
  /\ 4 \in Nat /\ 4 > DP!Cardinality({1, 2}) + 1
  /\ {1, 2} \subseteq Nat /\ DP!IsFiniteSet({1, 2}) /\ {1} \subseteq {1, 2}
BY TwoFiles, InstancesAssumption DEF D!Conns, DP!Conns

\* The inductive invariant of MigrationsProofs, for these migrations.
LEMMA MigrationsBegin == D!Init => DP!MigrationsInv
<1>1. D!Init => DP!Init
  BY DEF D!Init, DP!Init, D!Conns, DP!Conns
<1>. QED  BY <1>1, MigrationsAssumed, DP!InitInv

LEMMA MigrationsGoOn == DP!MigrationsInv /\ [DP!Next]_(DP!vars) => DP!MigrationsInv'
BY MigrationsAssumed, DP!MigrationsStep

LEMMA MigrationsMean == DP!MigrationsInv => D!TypeOK
BY DEF DP!MigrationsInv, DP!TypeOK, D!TypeOK, D!Conns, DP!Conns

\* The migrations of Parts are those of the theorems, definition by definition.
LEMMA SameConnections ==
  /\ D!Conns = DP!Conns
  /\ D!Postgres <=> DP!Postgres
  /\ \A S : D!Min(S) = DP!Min(S)
  /\ \A k : D!TableFree(k) <=> DP!TableFree(k)
  /\ D!Busy = DP!Busy
BY DEF D!Conns, DP!Conns, D!Postgres, DP!Postgres, D!Min, DP!Min, D!TableFree, DP!TableFree, D!Busy, DP!Busy

LEMMA SameAcquire == 
 \A i, step, conns, busy : D!Acquire(i, step, conns, busy) <=> DP!Acquire(i, step, conns, busy)
BY DEF D!Acquire, DP!Acquire, D!Of, DP!Of

LEMMA SameQueries == 
   /\ \A i, step : D!Query(i, step) <=> DP!Query(i, step)
   /\ \A i, ok, conns, busy : D!Finish(i, ok, conns, busy) <=> DP!Finish(i, ok, conns, busy)
BY SameConnections, SameAcquire DEF D!Query, DP!Query, D!Finish, DP!Finish

LEMMA SameTransactions == 
   /\ \A i, rest : D!NextTask(i, rest) <=> DP!NextTask(i, rest)
   /\ \A k, commits : D!EndTransaction(k, commits) <=> DP!EndTransaction(k, commits)
BY SameConnections, SameQueries DEF D!NextTask, DP!NextTask, D!EndTransaction, DP!EndTransaction,
                            D!Postgres, DP!Postgres

LEMMA SameSteps ==
  ASSUME NEW i \in Instances
  PROVE  D!Step(i) => DP!Step(i)
<1>1. D!Start(i) => DP!Start(i)
  BY SameQueries DEF D!Start, DP!Start, D!database, DP!database
<1>2. D!Created(i) => DP!Created(i)
  BY SameConnections, SameQueries DEF D!Created, DP!Created, D!database, DP!database, D!Postgres, DP!Postgres
<1>3. D!GotLock(i) => DP!GotLock(i)
  BY SameQueries DEF D!GotLock, DP!GotLock
<1>4. D!Begun(i) => DP!Begun(i)
  BY SameQueries DEF D!Begun, DP!Begun, D!Postgres, DP!Postgres
<1>5. D!TableLocked(i) => DP!TableLocked(i)
  BY SameConnections, SameQueries DEF D!TableLocked, DP!TableLocked
<1>6. D!ReadCompleted(i) => DP!ReadCompleted(i)
  BY SameConnections, SameTransactions DEF D!ReadCompleted, DP!ReadCompleted, D!database, DP!database
<1>7. D!Up(i) => DP!Up(i)
  BY SameConnections, SameAcquire DEF D!Up, DP!Up, D!QueryAfterUp, DP!QueryAfterUp, D!Postgres, DP!Postgres
<1>8. D!Inserted(i) => DP!Inserted(i)
  BY SameConnections, SameTransactions DEF D!Inserted, DP!Inserted
<1>9. D!Committed(i) => DP!Committed(i)
  BY SameConnections, SameQueries, SameTransactions DEF D!Committed, DP!Committed
<1>10. D!RolledBack(i) => DP!RolledBack(i)
  BY SameConnections, SameQueries, SameTransactions DEF D!RolledBack, DP!RolledBack
<1>11. D!Released(i) => DP!Released(i)
  BY DEF D!Released, DP!Released
<1>. QED  BY <1>1, <1>2, <1>3, <1>4, <1>5, <1>6, <1>7, <1>8, <1>9, <1>10, <1>11 DEF D!Step, DP!Step

LEMMA SameNext == [D!Next]_(D!vars) => [DP!Next]_(DP!vars)
<1>2. ASSUME NEW i \in Instances  PROVE ~D!Killed(i) /\ \A k \in D!Conns : ~D!ConnectionLost(i, k)
  BY DEF D!Killed, D!ConnectionLost
<1>3. ASSUME NEW k \in D!Conns, D!FileTransactionEnds(k)  PROVE DP!FileTransactionEnds(k)
  BY <1>3, SameTransactions DEF D!FileTransactionEnds, DP!FileTransactionEnds, D!instance, DP!instance
<1>4. ASSUME D!Next  PROVE DP!Next
  <2>1. CASE \E i \in Instances : D!Step(i)
    BY <2>1, SameSteps DEF DP!Next
  <2>2. CASE \E k \in D!Conns : D!FileTransactionEnds(k)
    BY <2>2, <1>3, SameConnections DEF DP!Next
  <2>. QED  BY <1>2, <1>4, <2>1, <2>2 DEF D!Next
<1>5. UNCHANGED D!vars => UNCHANGED DP!vars
  BY DEF D!vars, DP!vars, D!instance, DP!instance, D!database, DP!database
<1>. QED  BY <1>4, <1>5

LEMMA MigrationsStepOfParts ==
  ASSUME [PartsNext]_partVars
  PROVE  [D!Next]_(D!vars)
BY DEF PartsNext, partVars, Others, migrationVars, D!vars, D!instance, D!database

LEMMA MigrationsTypes == PartsSpec => []D!TypeOK
<1>1. PartsInit => DP!MigrationsInv
  BY MigrationsBegin DEF PartsInit
<1>2. DP!MigrationsInv /\ [PartsNext]_partVars => DP!MigrationsInv'
  BY MigrationsStepOfParts, SameNext, MigrationsGoOn
<1>. QED  BY <1>1, <1>2, MigrationsMean, PTL DEF PartsSpec

-----------------------------------------------------------------------------
\* Every variable of every part keeps its type: for any sets of callers, calls, sockets and
\* requests a client never refers to a producer that was not created, no span waits for
\* the exporter that was exported, the stores of AsyncLocalStorage always have the keys of a
\* context, and what a call counts as failed is within the bounds of its attempts or its batch.
THEOREM PartsTypeCorrect == PartsSpec => []PartsTypeOK
<1>1. MethodInv /\ MetricsInv => O!TypeOK /\ P!TypeOK
  BY MethodMeans, MetricsTypes
<1>. QED  BY <1>1, MethodAlways, MetricsAlways, KafkaTypes, RabbitTypes, RequestTypesAlways, CacheTypes,
             MessagesTypesAlways, IncomingTypesAlways, PathTypesAlways, GatewayTypes, MigrationsTypes, PTL
          DEF PartsTypeOK
=============================================================================
