---------------------------- MODULE AsyncContext ----------------------------
(***************************************************************************)
(* The asynchronous context of a request and its spans: AbstractAsyncContext *)
(* and the helpers that read a context from headers.  AsyncLocalStorage and  *)
(* the OpenTelemetry SDK are external: a store is a function from the keys   *)
(* of a context to values, a span is its trace with an id.                  *)
(***************************************************************************)
CONSTANT Undefined    \* the value of a key or a header that is not there

Fields == {"traceId", "spanId", "parentSpanId", "requestId", "correlationId", "reply"}
EmptyContext == [f \in Fields |-> Undefined]

\* ProcessTraceSpanStore.get(): outside of requests there is one for the process.
process == [traceId |-> "process", spanId |-> "process"]

\* tracer.startSpan() below a parent.
StartSpan(parent, id) == [traceId |-> parent.traceId, spanId |-> id]

\* wrapWithTelemetry(): the span and the store in which a method is executed.
\* An active span decides; otherwise the fields of the caller, or the process.
wrapWithTelemetry(fields, active, id) ==
    LET parent == IF active # Undefined THEN active
                  ELSE IF fields.traceId # Undefined
                  THEN [traceId |-> fields.traceId, spanId |-> fields.parentSpanId]
                  ELSE process
        span   == StartSpan(parent, id)
    IN  [span  |-> span,
         store |-> [fields EXCEPT
                      !.traceId = span.traceId,
                      !.spanId = span.spanId,
                      !.parentSpanId = IF active = Undefined /\ @ # Undefined THEN @
                                       ELSE parent.spanId]]

\* setMultiple(): every key that is given is written, with undefined as well.
setMultiple(store, values) ==
    [f \in DOMAIN store \cup DOMAIN values |-> IF f \in DOMAIN values THEN values[f] ELSE store[f]]

\* KafkaTelemetry, RabbitMqTelemetry: the headers name a trace only together
\* with a span; otherwise a new trace begins.
Telemetry(headers, id) ==
    StartSpan(IF headers.traceId # Undefined /\ headers.spanId # Undefined
              THEN [traceId |-> headers.traceId, spanId |-> headers.spanId]
              ELSE [traceId |-> id, spanId |-> id], id)

\* toAsyncContext(): the trace is that of the active span, never of the headers.
toAsyncContext(headers, active) ==
    [traceId |-> active.traceId,
     spanId |-> active.spanId,
     parentSpanId |-> IF headers.spanId # Undefined THEN headers.spanId ELSE active.spanId,
     requestId |-> headers.requestId,
     correlationId |-> headers.correlationId,
     reply |-> headers.reply]
=============================================================================
