----------------------------- MODULE ContextHops -----------------------------
(***************************************************************************)
(* A request on its way through several services: each takes its context    *)
(* from the headers it was called with, and builds from its context the     *)
(* headers of its own requests, over HTTP, gRPC, Kafka or RabbitMQ.         *)
(*                                                                         *)
(* A header is known by the field of the context that it carries.  A value  *)
(* is a text, "array" for several values, "emptyArray", or "blank" for a    *)
(* text of spaces only.                                                     *)
(***************************************************************************)
EXTENDS Naturals, Sequences, AsyncContext

CONSTANTS Carriers,    \* of "http", "grpc", "kafka", "rabbit"
          MaxHops      \* bound: services on the way, at most three

Names == {"traceId", "spanId", "requestId", "correlationId", "reply"}
NoHeaders == [n \in Names |-> Undefined]

\* The ids of the spans that the services begin.
ServerSpan == <<"server 1", "server 2", "server 3">>
TaskSpan   == <<"task 1", "task 2", "task 3">>

\* What an outside client sends: only Kafka and RabbitMQ carry several values as such,
\* and have a reply; a span has a trace.
Outside(carrier) ==
    {h \in [Names -> {Undefined, "blank", "array", "id"}] :
        /\ \A n \in {"traceId", "spanId", "requestId", "reply"} : h[n] \in {Undefined, "id"}
        /\ h.spanId # Undefined => h.traceId # Undefined
        /\ carrier \in {"http", "grpc"} => h.correlationId # "array" /\ h.reply = Undefined}

VARIABLE path    \* the services: how each was called, with which headers, and its context

TypeOK ==
    /\ Len(path) <= MaxHops
    /\ \A i \in DOMAIN path : /\ path[i].carrier \in Carriers
                              /\ DOMAIN path[i].headers = Names
                              /\ DOMAIN path[i].context = Fields

Init == path = <<>>

-----------------------------------------------------------------------------
\* Headers as they are read.

normalize(headers) == [n \in Names |-> IF headers[n] = "blank" THEN "" ELSE headers[n]]

\* RabbitMqMessageHelper.normalize() also leaves out what is empty.
normalizeRabbit(headers) ==
    [n \in Names |-> IF normalize(headers)[n] = "emptyArray" THEN Undefined ELSE normalize(headers)[n]]

Join(value) == CASE value = "array" -> "a-b"
                 [] value = "emptyArray" -> ""
                 [] OTHER -> value

\* searchValue(): the empty value is no value.
searchValue(value) == IF value \in {"", "emptyArray"} THEN Undefined ELSE value
searchHeaderAsString(value) == IF searchValue(value) = Undefined THEN Undefined ELSE Join(value)
Found(headers) == [n \in Names |-> searchHeaderAsString(headers[n])]

\* RabbitMqMessageHelper reads the headers of a message by functions of its own, the
\* reply not among them.
RabbitValue(value) == IF value = "emptyArray" THEN Undefined ELSE Join(value)
normalizeTraceSpanHeaders(headers) ==
    [n \in Names |-> IF n = "reply" THEN Undefined ELSE RabbitValue(headers[n])]

-----------------------------------------------------------------------------
\* Requests on their way: metadata has lists under names of their own, a message of
\* RabbitMQ two of the values among its properties.
Plain(headers) == [headers |-> headers, lists |-> NoHeaders, properties |-> NoHeaders]

\* GrpcHeadersHelper.normalize(): a list is written under a name that ends with -bin.
normalizeGrpc(m) == [n \in Names |-> IF m.lists[n] # Undefined THEN m.lists[n] ELSE normalize(m.headers)[n]]

Received(carrier, m) == CASE carrier = "grpc" -> normalizeGrpc(m)
                          [] carrier = "rabbit" -> normalizeRabbit(m.headers)
                          [] OTHER -> normalize(m.headers)

\* The context in which the handler of the service with this id works.
HttpContext(found, id) ==
    wrapWithTelemetry([EmptyContext EXCEPT !.requestId = IF found.requestId # Undefined THEN found.requestId
                                                         ELSE "generated",
                                           !.correlationId = found.correlationId],
                      Telemetry(found, ServerSpan[id]), TaskSpan[id]).store

GrpcContext(found, id) ==
    wrapWithTelemetry([EmptyContext EXCEPT !.requestId = found.requestId,
                                           !.correlationId = found.correlationId],
                      Telemetry(found, ServerSpan[id]), TaskSpan[id]).store

KafkaContext(found, id) ==
    LET wrapped == wrapWithTelemetry(EmptyContext, Telemetry(found, ServerSpan[id]), TaskSpan[id])
    IN  setMultiple(wrapped.store, toAsyncContext(found, wrapped.span))

\* RabbitMqMessageHelper.toAsyncContext(): the properties come first.
RabbitContext(found, properties, id) ==
    KafkaContext([found EXCEPT !.correlationId = IF properties.correlationId # Undefined
                                                 THEN properties.correlationId ELSE @,
                               !.reply = properties.reply], id)

Service(carrier, m, id, answer) ==
    LET headers == Received(carrier, m)
    IN  [carrier |-> carrier, headers |-> headers, answer |-> answer,
         context |->
            CASE carrier = "http"   -> HttpContext(Found(headers), id)
              [] carrier = "grpc"   -> GrpcContext(Found(headers), id)
              [] carrier = "kafka"  -> KafkaContext(Found(headers), id)
              [] carrier = "rabbit" -> RabbitContext(Found(normalizeTraceSpanHeaders(headers)), m.properties, id)]

-----------------------------------------------------------------------------
\* Headers as they are built: the context comes first, then what the caller gives.

\* A mutant: what the caller gives comes first.
ValueOfCaller(context, own, n) == IF own[n] # Undefined THEN Join(own[n]) ELSE context[n]

Value(context, own, n) == IF context[n] # Undefined THEN context[n]
                          ELSE IF own[n] # Undefined THEN Join(own[n]) ELSE Undefined

Build(context, own, names) ==
    [n \in Names |-> IF n \in names /\ Value(context, own, n) \notin {Undefined, ""}
                     THEN Value(context, own, n) ELSE own[n]]

HttpHeadersBuilder(context, own) ==
    Plain(Build(context, own, {"traceId", "spanId", "correlationId", "requestId"}))

KafkaHeadersBuilder(context, own) == Plain(Build(context, own, Names))

GrpcMetadataBuilder(context, own) ==
    LET headers == HttpHeadersBuilder(context, own).headers
        IsList(n) == headers[n] \in {"array", "emptyArray"}
    IN  [Plain(headers) EXCEPT !.headers = [n \in Names |-> IF IsList(n) THEN Undefined ELSE headers[n]],
                               !.lists = [n \in Names |-> IF IsList(n) THEN headers[n] ELSE Undefined]]

\* The correlation id and the reply queue are properties of the message.
RabbitMqPublishOptionsBuilder(context, own) ==
    [Plain(Build(context, own, {"traceId", "spanId", "requestId"})) EXCEPT
        !.properties = [NoHeaders EXCEPT !.correlationId = context.correlationId, !.reply = context.reply]]

Request(carrier, context, own) ==
    CASE carrier = "http"   -> HttpHeadersBuilder(context, own)
      [] carrier = "grpc"   -> GrpcMetadataBuilder(context, own)
      [] carrier = "kafka"  -> KafkaHeadersBuilder(context, own)
      [] carrier = "rabbit" -> RabbitMqPublishOptionsBuilder(context, own)

-----------------------------------------------------------------------------
\* A message has its correlation id among its properties or among its headers.
Enter(carrier, headers) ==
    /\ path = <<>>
    /\ \E correlationId \in {Undefined, headers.correlationId} \ {"array"} :
          path' = <<Service(carrier, [Plain(headers) EXCEPT
                      !.properties.correlationId = IF carrier = "rabbit" THEN correlationId ELSE @,
                      !.properties.reply = IF carrier = "rabbit" THEN headers.reply ELSE @], 1, FALSE)>>

\* The caller gives no headers, hands on those it was called with, or has a
\* correlation id of its own.
Call(carrier) ==
    LET at == path[Len(path)]
    IN  /\ path # <<>> /\ Len(path) < MaxHops
        /\ \E own \in {NoHeaders, at.headers, [NoHeaders EXCEPT !.correlationId = "own"]} :
              path' = Append(path, Service(carrier, Request(carrier, at.context, own), Len(path) + 1, FALSE))

\* search() takes the reply out of the headers of the answer.  RabbitMqApiService sends
\* it as it is; KafkaDemoController has the client build the headers once more.
Answer ==
    LET at      == path[Len(path)]
        without == [at.context EXCEPT !.reply = Undefined]
        own     == [at.headers EXCEPT !.reply = Undefined]
    IN  /\ path # <<>> /\ Len(path) < MaxHops
        /\ at.carrier \in {"kafka", "rabbit"} /\ at.context.reply # Undefined
        /\ LET once == Request(at.carrier, without, own)
               m    == IF at.carrier = "kafka" THEN KafkaHeadersBuilder(at.context, once.headers) ELSE once
           IN  path' = Append(path, Service(at.carrier, m, Len(path) + 1, TRUE))

Next ==
    \/ \E carrier \in Carriers : \E h \in Outside(carrier) : Enter(carrier, h)
    \/ \E carrier \in Carriers : Call(carrier)
    \/ Answer

Spec == Init /\ [][Next]_path

-----------------------------------------------------------------------------
\* What one service works under, the next does as well, over any transport and whatever
\* headers the callers give: trace, correlation id and request id (a blank one, which
\* only RabbitMQ keeps as it is, is none to the others).  The answer to a message of
\* RabbitMQ asks for no answer.
ContextSurvives ==
    \A i \in 2 .. Len(path) : LET from == path[i - 1].context
                                  to   == path[i].context IN
       /\ to.traceId = from.traceId
       /\ \A n \in {"correlationId", "requestId"} : from[n] \notin {Undefined, "blank"} => to[n] = from[n]
       /\ path[i].answer /\ path[i].carrier = "rabbit" => to.reply = Undefined
=============================================================================
