--------------------------- MODULE IncomingRequest ---------------------------
(***************************************************************************)
(* A request to the HTTP or gRPC server, or an event of a WebSocket, on its *)
(* way through the adapter that begins its trace, the guard, the            *)
(* interceptors, the handler and the filter of exceptions; the certificate  *)
(* of AuthService; and the exporter that decides which spans are forwarded. *)
(*                                                                         *)
(* An action is what runs up to the next await.  Log records are kept with  *)
(* the span they name; a duration is either below the threshold or not.     *)
(***************************************************************************)
EXTENDS Naturals, Sequences, SequencesExt, AsyncContext

CONSTANTS Requests,     \* requests and events
          Transports,   \* of "http", "grpc", "ws"
          Decorators    \* of handlers: records [skip, keep] of sets of Targets, skip of SkipAll too

\* The guards and interceptors that a decorator may leave out.
Targets == {"guard", "logging", "prometheus", "headers"}
SkipAll == "all"

\* What a client sends instead of a valid token, in a header or in a cookie.
Tokens == {"absent", "garbled", "forged", "valid"}

\* The results of a handler: a value; an exception of the transport that names the
\* client's fault, the server's, a loop or a status without a level; any other exception.
\* That of gRPC is also a text that names a status, or an object; of these "bare" is one
\* that carries no Metadata.
Results(transport) ==
    CASE transport = "http" -> {"ok", "refused", "failed", "loop", "unlisted", "error"}
      [] transport = "grpc" -> {"ok", "refused", "failed", "bare", "named", "error"}
      [] transport = "ws"   -> {"ok", "refused", "error"}

Providers == {"ready", "empty", "broken"}

VARIABLES request,      \* what is known of each request
          certificate,  \* has AuthService its certificate?
          certs,        \* where certs() is: "asking", "pausing", "done", "failed"
          provider,     \* the service of certificates: "ready", "empty" or "broken"
          ended,        \* spans that have ended and wait for the exporter
          exported      \* spans that were forwarded to the collector

vars == <<request, certificate, certs, provider, ended, exported>>

New == [state |-> "new", transport |-> "http", ignored |-> FALSE, token |-> "absent", decorators |-> [skip |-> {}, keep |-> {}],
        context |-> Undefined, auth |-> "none", slow |-> FALSE, records |-> <<>>,
        timer |-> "off", counted |-> <<>>, headers |-> Undefined, status |-> "none", result |-> "none"]

TypeOK ==
    /\ \A r \in Requests :
          /\ request[r].state \in {"new", "authenticating", "handling", "answered"}
          /\ request[r].auth \in {"none", "TOKEN_ABSENT", "TOKEN_PARSE_ERROR", "VERIFY_FAILED", "SUCCESS"}
          /\ request[r].decorators.skip \subseteq Targets \cup {SkipAll}
          /\ request[r].timer \in {"off", "running", "stopped"}
          /\ Len(request[r].counted) <= 1
    /\ certificate \in BOOLEAN /\ provider \in Providers
    /\ certs \in {"asking", "pausing", "done", "failed"}
    /\ ended \cap exported = {}

Init ==
    /\ request = [r \in Requests |-> New]
    /\ certificate = FALSE
    /\ certs = "asking"
    /\ provider \in Providers
    /\ ended = {}
    /\ exported = {}

-----------------------------------------------------------------------------
\* AuthService: certs() from onModuleInit(), again after five seconds.

\* A mutant: certs() does not ask again.
GotNoneForGood ==
    /\ certs = "asking" /\ provider = "empty"
    /\ certs' = "failed"
    /\ UNCHANGED <<request, certificate, provider, ended, exported>>

GotNone ==
    /\ certs = "asking" /\ provider = "empty"
    /\ certs' = "pausing"
    /\ UNCHANGED <<request, certificate, provider, ended, exported>>

GotCertificate ==
    /\ certs = "asking" /\ provider = "ready"
    /\ certs' = "done"
    /\ certificate' = TRUE
    /\ UNCHANGED <<request, provider, ended, exported>>

\* The promise of getCert() rejects: nobody asks again.
CertsFail ==
    /\ certs = "asking" /\ provider = "broken"
    /\ certs' = "failed"
    /\ UNCHANGED <<request, certificate, provider, ended, exported>>

AskAgain ==
    /\ certs = "pausing"
    /\ certs' = "asking"
    /\ UNCHANGED <<request, certificate, provider, ended, exported>>

ProviderChanges ==
    /\ provider' \in Providers \ {provider}
    /\ UNCHANGED <<request, certificate, certs, ended, exported>>

\* HttpAuthHelper: a cookie counts where the header is absent or empty.
Token(header, cookie) == IF header # "absent" THEN header ELSE cookie

verifyToken(token) == token = "valid" /\ certificate

authenticate(token) ==
    CASE token = "absent"    -> "TOKEN_ABSENT"
      [] token = "garbled"   -> "TOKEN_PARSE_ERROR"
      [] verifyToken(token)  -> "SUCCESS"
      [] OTHER -> "VERIFY_FAILED"

isSkipped(decorators, target) ==
    target \notin decorators.keep /\ {SkipAll, target} \cap decorators.skip # {}

-----------------------------------------------------------------------------
\* The spans of a request: that of the server, the one below it in which the
\* request is taken on, and that of the handler.
Span(r, name, slow, error) == [of |-> r, name |-> name, slow |-> slow, error |-> error]
Active(r) == [traceId |-> r, spanId |-> "task"]

\* A mutant: the context is adapted again inside of a span of its own.
ContextOfSpan(q, r, name) == toAsyncContext(EmptyContext, [Active(r) EXCEPT !.spanId = name])

\* The context that is stored with the request by whoever adapts it first.
ContextFor(q, r, name) == IF q.context # Undefined THEN q.context
                          ELSE toAsyncContext(EmptyContext, Active(r))

Record(q, r, name, kind, level) ==
    [kind |-> kind, level |-> level, spanId |-> ContextFor(q, r, name).spanId]

\* The span of the task, and that of the server, when the adapter is through.
Begun(r) == {Span(r, "task", FALSE, FALSE), Span(r, "server", FALSE, FALSE)}

Arrives(r, transport, ignored, token, decorators) ==
    /\ request[r].state = "new"
    /\ transport \in Transports
    /\ request' = [request EXCEPT ![r] =
          [New EXCEPT !.state = "authenticating", !.transport = transport, !.ignored = ignored,
                      !.token = token, !.decorators = decorators, !.context = ContextFor(New, r, "guard")]]
    /\ UNCHANGED <<certificate, certs, provider, exported>>

\* The span of the task ends as soon as the next middleware has returned.
ArriveHttp(r, ignored, token, decorators) ==
    /\ Arrives(r, "http", ignored, token, decorators)
    /\ ended' = ended \cup {Span(r, "task", FALSE, FALSE)}

ArriveGrpc(r, token, decorators) ==
    /\ Arrives(r, "grpc", FALSE, token, decorators)
    /\ UNCHANGED ended

\* Both spans of an event end before its handler is called.
ArriveWs(r, token, decorators) ==
    /\ Arrives(r, "ws", FALSE, token, decorators)
    /\ ended' = ended \cup Begun(r)

-----------------------------------------------------------------------------
\* Statuses, the levels they are logged with, and the filters that answer an exception:
\* "failed" is the internal error that an exception without a status becomes, "refused"
\* in gRPC is NOT_FOUND; a guard denies a gRPC call with the text that names UNAUTHENTICATED.
HttpStatus(result) == IF result = "error" THEN "failed" ELSE result
GrpcStatus(result) == IF result \in {"error", "bare"} THEN "failed" ELSE result
WsStatus(result) == IF result = "error" THEN "failed" ELSE result

\* A mutant: a status that is not in the list is told as a success.
HttpLevelByDefault(status) == CASE status \in {"refused", "denied"} -> "warn"
                                [] status = "failed" -> "error"
                                [] OTHER -> "info"

HttpLevel(status) == CASE status = "ok" -> "info"
                       [] status \in {"refused", "denied", "unlisted"} -> "warn"
                       [] status = "failed" -> "error"
                       [] status = "loop" -> "fatal"

GrpcLevel(status) == CASE status = "ok" -> "info"
                       [] status = "refused" -> "warn"
                       [] OTHER -> "error"

WsLevel(status) == IF status = "failed" THEN "error" ELSE "warn"

\* HttpResponseHelper.addHeaders() leaves headers that are there.
WithHeaders(q) == IF q.headers = Undefined THEN q.context ELSE q.headers

HttpFilter(q, r, result) ==
    [q EXCEPT !.status = HttpStatus(result),
              !.headers = WithHeaders(q),
              !.records = Append(@, Record(q, r, "filter", "response", HttpLevel(HttpStatus(result))))]

\* handleError() puts its metadata in place of that of the exception, or makes a status
\* with it; an object that has none is left as it is.
GrpcHeaders(q, result) == IF result = "bare" THEN q.headers ELSE q.context

GrpcFilter(q, r, result) ==
    [q EXCEPT !.status = GrpcStatus(result),
              !.headers = GrpcHeaders(q, result),
              !.records = Append(@, Record(q, r, "filter", "response", GrpcLevel(GrpcStatus(result))))]

WsFilter(q, r, result) ==
    [q EXCEPT !.status = WsStatus(result),
              !.records = Append(@, Record(q, r, "filter", "response", WsLevel(WsStatus(result))))]

\* HybridErrorResponseFilter.catch()
Filter(q, r, result) == CASE q.transport = "http" -> HttpFilter(q, r, result)
                          [] q.transport = "grpc" -> GrpcFilter(q, r, result)
                          [] q.transport = "ws"   -> WsFilter(q, r, result)

-----------------------------------------------------------------------------
\* canActivate() authenticates also where the guard is skipped.  Then the interceptors
\* begin with the record of the request and the timer of the metric; a request that is
\* denied is seen neither by them nor by the handler.
Logs(q)    == q.transport # "ws" /\ ~isSkipped(q.decorators, "logging")
Metrics(q) == q.transport # "ws" /\ ~isSkipped(q.decorators, "prometheus")

Guarded(r, transport) ==
    LET q == [request[r] EXCEPT !.auth = authenticate(request[r].token)]
    IN  /\ q.state = "authenticating" /\ q.transport = transport
        /\ request' = [request EXCEPT ![r] =
              IF isSkipped(q.decorators, "guard") \/ q.auth = "SUCCESS"
              THEN [q EXCEPT !.state = "handling",
                             !.records = IF Logs(q) THEN <<Record(q, r, "guard", "request", "info")>> ELSE <<>>,
                             !.timer = IF Metrics(q) THEN "running" ELSE "off"]
              ELSE [Filter(q, r, "denied") EXCEPT !.state = "answered"]]
        /\ UNCHANGED <<certificate, certs, provider, exported>>

HttpAuthGuard(r) == Guarded(r, "http") /\ UNCHANGED ended

\* A gRPC call returns its Observable, and ends its spans, before the handler is called.
GrpcAuthGuard(r) == Guarded(r, "grpc") /\ ended' = ended \cup Begun(r)

WsAuthGuard(r) == Guarded(r, "ws") /\ UNCHANGED ended

-----------------------------------------------------------------------------
\* A mutant: the timer is stopped in tap(), which an error does not reach.
TimerAfterTap(timer, result) == IF timer = "running" /\ result = "ok" THEN "stopped" ELSE timer

\* finalize() stops the timer on success and on error.
TimerAfter(timer, result) == IF timer = "running" THEN "stopped" ELSE timer

\* The counters of failures see what the handler threw: an HTTP exception has a status,
\* a gRPC one that is a text is unknown.
HttpCounted(q, result) == IF result # "ok" /\ Metrics(q) THEN <<HttpStatus(result)>> ELSE <<>>
GrpcCounted(q, result) ==
    IF result = "ok" \/ ~Metrics(q) THEN <<>>
    ELSE <<IF result \in {"named", "error"} THEN "unknown" ELSE GrpcStatus(result)>>

HttpLogged(q, r, result) ==
    IF Logs(q) THEN <<Record(q, r, "handler", "response", HttpLevel(HttpStatus(result)))>> ELSE <<>>
GrpcLogged(q, r, result) ==
    IF Logs(q) THEN <<Record(q, r, "handler", "response", GrpcLevel(GrpcStatus(result)))>> ELSE <<>>

\* HttpHeadersResponse: on success and on error.
HttpHeadersResponse(q) == IF isSkipped(q.decorators, "headers") THEN q.headers ELSE WithHeaders(q)

\* The handler has returned or thrown, after a time that may be spent in its own span
\* in part; what it threw goes on to the filter, which logs it once more.
Answers(r, q, result, slow, part, spans) ==
    /\ q.state = "handling" /\ result \in Results(q.transport)
    /\ part => slow
    /\ LET told == [q EXCEPT !.timer = TimerAfter(@, result), !.slow = slow, !.result = result,
                             !.state = "answered", !.status = "ok"]
       IN  request' = [request EXCEPT ![r] = IF result = "ok" THEN told ELSE Filter(told, r, result)]
    /\ ended' = ended \cup {Span(r, "handler", part, result # "ok")} \cup spans
    /\ UNCHANGED <<certificate, certs, provider, exported>>

\* HttpOpentelemetryAdapter.reply() ends the span of the server; the filter goes round it.
HttpAnswers(r, result, slow, part) ==
    LET q == request[r]
    IN  /\ q.transport = "http"
        /\ Answers(r, [q EXCEPT !.records = @ \o HttpLogged(q, r, result),
                                !.counted = HttpCounted(q, result),
                                !.headers = HttpHeadersResponse(q)],
                   result, slow, part, IF result = "ok" THEN {Span(r, "server", slow, FALSE)} ELSE {})

GrpcAnswers(r, result, slow, part) ==
    LET q == request[r]
    IN  /\ q.transport = "grpc"
        /\ Answers(r, [q EXCEPT !.records = @ \o GrpcLogged(q, r, result),
                                !.counted = GrpcCounted(q, result)],
                   result, slow, part, {})

WsAnswers(r, result, slow, part) ==
    request[r].transport = "ws" /\ Answers(r, request[r], result, slow, part, {})

-----------------------------------------------------------------------------
\* The endpoint in the name of a span is in the list of those that are not exported.
Ignored(s) == request[s.of].ignored /\ s.name # "handler"

\* A mutant: only the spans that are slow or failed themselves are forwarded.
ForwardedAlone(batch) == {s \in batch : s.slow \/ s.error}

\* From the first start to the last end of the spans of a trace: also a span of the
\* beginning and that of the handler make up the time of a slow request.
IsAnomalyDuration(trace) ==
    \/ \E t \in trace : t.slow
    \/ \E t, u \in trace : t.name # "handler" /\ u.name = "handler" /\ request[u.of].slow

\* ContextualTailSamplingExporter.export(): a trace, as far as it is in the batch, is
\* forwarded if none of its spans is ignored, and one failed or it took the threshold.
Forwarded(batch) ==
    {s \in batch : LET trace == {t \in batch : t.of = s.of}
                   IN  /\ \A t \in trace : ~Ignored(t)
                       /\ (\E t \in trace : t.error) \/ IsAnomalyDuration(trace)}

\* The batch processor hands over what waits, at most so many spans at a time.
Export(batch) ==
    /\ batch # {}
    /\ ended' = ended \ batch
    /\ exported' = exported \cup Forwarded(batch)
    /\ UNCHANGED <<request, certificate, certs, provider>>

AuthStep == GotNone \/ GotCertificate \/ CertsFail \/ AskAgain

Next ==
    \/ AuthStep
    \/ ProviderChanges
    \/ \E r \in Requests :
          \/ \E header, cookie \in Tokens, d \in Decorators :
                \/ \E ignored \in BOOLEAN : ArriveHttp(r, ignored, Token(header, cookie), d)
                \/ ArriveGrpc(r, Token(header, "absent"), d)
                \/ ArriveWs(r, Token(header, cookie), d)
          \/ HttpAuthGuard(r) \/ GrpcAuthGuard(r) \/ WsAuthGuard(r)
          \/ \E slow, part \in BOOLEAN, result \in Results(request[r].transport) :
                \/ HttpAnswers(r, result, slow, part)
                \/ GrpcAnswers(r, result, slow, part)
                \/ WsAnswers(r, result, slow, part)
    \/ \E batch \in SUBSET ended : Export(batch)

Spec == Init /\ [][Next]_vars

\* Timers fire and getCert() answers.
Fairness == WF_vars(AuthStep)

-----------------------------------------------------------------------------
\* README of opentelemetry: the span ids of log records and of the trace agree.  All
\* records of a request, and the headers of its answer, name one span of it, whoever
\* adapts its context first and whatever is left out.
ContextIsOne ==
    \A r \in Requests : LET q == request[r] IN
       /\ \A i \in DOMAIN q.records : q.records[i].spanId = "task"
       /\ q.headers # Undefined => q.headers.spanId = "task"

\* An answered request is told consistently: the timer of its metric is stopped; a
\* failure is counted exactly when the handler failed under the metric's eyes, with
\* the status an HTTP client is given; and every failure leaves a record that does not
\* tell it as a success, and gives an HTTP client the ids of the request.
ToldOnce ==
    \A r \in Requests : LET q == request[r] IN
       q.state = "answered" =>
          /\ q.timer # "running"
          /\ (q.counted # <<>>) <=> (q.timer = "stopped" /\ q.result # "ok")
          /\ q.counted # <<>> /\ q.transport = "http" => q.counted[1] = q.status
          /\ q.status # "ok" =>
                /\ \E i \in DOMAIN q.records : q.records[i].kind = "response"
                /\ \A i \in DOMAIN q.records : q.records[i].kind = "response" => q.records[i].level # "info"
                /\ q.transport = "http" => q.headers # Undefined

\* What the collector gets of a trace can be read: a failed span comes with all spans
\* of its request that waited with it.
FailuresInContext ==
    [][\A s \in exported' \ exported : s.error => {t \in ended \ ended' : t.of = s.of} \subseteq exported']_vars

\* However long the service of certificates has none: once it keeps one ready the
\* certificate is loaded, unless a call to it was rejected.
CertificateArrives == [](provider # "broken") /\ <>[](provider = "ready") => <>certificate

\* README of opentelemetry: everything that takes longer than the threshold is sent
\* to the collector.  It does not hold: a failed HTTP request never ends its server
\* span, and those of gRPC and WebSocket end before the handler.  Nothing rests on it.
SlowIsExported ==
    \A r \in Requests : request[r].state = "answered" /\ request[r].slow /\ ended = {} =>
       Span(r, "server", TRUE, FALSE) \in exported
=============================================================================
