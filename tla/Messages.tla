------------------------------ MODULE Messages ------------------------------
(***************************************************************************)
(* What becomes of the messages that kafkajs and amqplib hand over: each     *)
(* message or each batch, from the handler of the server through the         *)
(* asynchronous context, the deserializer and the controller to the answers. *)
(* Acknowledgements to RabbitMQ are in RabbitMqServer, the client that sends  *)
(* answers is in KafkaClient and RabbitMqClient.                            *)
(***************************************************************************)
EXTENDS Naturals, Sequences, FiniteSets, SequencesExt, AsyncContext

CONSTANTS Calls,      \* calls of handleEachMessage(), ..., one per partition or delivery
          Modes,      \* of "each", "batch", "rabbit"
          Topics,     \* where answers may be wanted
          MaxBatch    \* bound: messages in a batch

VARIABLES mode,       \* how this server consumes
          fetch,      \* the messages of a call
          at,         \* where the call is suspended
          store,      \* the stores of AsyncLocalStorage
          span,       \* the span of the call, and that of its context
          asked,      \* what the controller gave to the client, unsettled
          sent,       \* the answers that the broker has
          failures,   \* what the call added to the counter of failed messages
          unhandled   \* a promise nobody awaits was rejected

vars == <<mode, fetch, at, store, span, asked, sent, failures, unhandled>>

\* The store in which listen() ran, which is that of kafkajs and of amqplib.
Listen == "listen"

Message == [id : Calls \X (1..MaxBatch), value : {"data", "empty", "garbled"},
            traced : BOOLEAN, reply : Topics \cup {Undefined}]

\* The headers of a message, normalized.
Headers(m) ==
    [traceId |-> IF m.traced THEN <<"trace", m.id>> ELSE Undefined,
     spanId |-> IF m.traced THEN <<"span", m.id>> ELSE Undefined,
     requestId |-> Undefined,
     correlationId |-> m.id,
     reply |-> m.reply]

\* What a broker delivers: the reply topic of a message that cannot be decoded
\* is never looked at.
Delivered(c, i) ==
    {m \in Message : /\ m.id = <<c, i>>
                     /\ m.value = "garbled" => m.reply = Undefined
                     /\ m.traced <=> m.reply # Undefined}

Fetches(c) ==
    {<<m>> : m \in Delivered(c, 1)} \cup
    IF mode = "batch" THEN Delivered(c, 1) \X Delivered(c, 2) ELSE {}

Answer == [to : Topics, of : Calls \X (1..MaxBatch), key : Calls \X (1..MaxBatch)]

TypeOK ==
    /\ mode \in Modes
    /\ \A c \in Calls : \A i \in DOMAIN fetch[c] : fetch[c][i] \in Message
    /\ at \in [Calls -> {"idle", "decoding", "handling", "searching", "answering"}]
    /\ \A s \in Calls \cup {Listen} : DOMAIN store[s] = Fields
    /\ \A c \in Calls : sent[c] \cup UNION asked[c] \subseteq Answer
    /\ failures \in [Calls -> 0..MaxBatch]
    /\ unhandled \in BOOLEAN

Init ==
    /\ mode \in Modes
    /\ fetch = [c \in Calls |-> <<>>]
    /\ at = [c \in Calls |-> "idle"]
    /\ store = [s \in Calls \cup {Listen} |-> EmptyContext]
    /\ span = [c \in Calls |-> Undefined]
    /\ asked = [c \in Calls |-> {}]
    /\ sent = [c \in Calls |-> {}]
    /\ failures = [c \in Calls |-> 0]
    /\ unhandled = FALSE

-----------------------------------------------------------------------------
\* A mutant: without define() the call writes to the store of listen().
StoreOfListen(c) == Listen

\* define(): AsyncLocalStorage.run() gives the call a store of its own.
StoreOf(c) == c

Context(c) == store[StoreOf(c)]

\* KafkaTelemetry or RabbitMqTelemetry, then define(), then the method up to its
\* first await.  The spans of a batch follow the headers of its first message.
Receive(c, messages) ==
    LET active  == Telemetry(Headers(messages[1]), <<"telemetry", c>>)
        wrapped == wrapWithTelemetry(EmptyContext, active, <<"define", c>>)
    IN  /\ fetch[c] = <<>>
        /\ fetch' = [fetch EXCEPT ![c] = messages]
        /\ at' = [at EXCEPT ![c] = "decoding"]
        /\ store' = [store EXCEPT ![StoreOf(c)] = wrapped.store]
        /\ span' = [span EXCEPT ![c] = wrapped.span]
        /\ UNCHANGED <<mode, asked, sent, failures, unhandled>>

\* The call is over: its promise never rejects, both spans end.
Return(c, failed) ==
    /\ at' = [at EXCEPT ![c] = "idle"]
    /\ span' = [span EXCEPT ![c] = Undefined]
    /\ failures' = [failures EXCEPT ![c] = failed]

Values(c) == {fetch[c][i].value : i \in DOMAIN fetch[c]}
WithData(c) == {m \in ToSet(fetch[c]) : m.value = "data"}

\* Deserialization of one message fails: the whole call is given up.
DecodingFails(c) ==
    /\ at[c] = "decoding"
    /\ "garbled" \in Values(c)
    /\ Return(c, Len(fetch[c]))
    /\ UNCHANGED <<mode, fetch, store, asked, sent, unhandled>>

\* All messages are there.  The context becomes that of the first one, also if
\* that one has no data; what has none is left out.
Decoded(c) ==
    /\ at[c] = "decoding"
    /\ "garbled" \notin Values(c)
    /\ store' = IF mode # "batch" /\ WithData(c) = {} THEN store
                ELSE [store EXCEPT ![StoreOf(c)] =
                        setMultiple(@, toAsyncContext(Headers(fetch[c][1]), span[c]))]
    /\ \/ /\ WithData(c) = {}
          /\ Return(c, 0)
       \/ /\ WithData(c) # {}
          /\ at' = [at EXCEPT ![c] = IF mode = "each" THEN "handling" ELSE "searching"]
          /\ UNCHANGED <<span, failures>>
    /\ UNCHANGED <<mode, fetch, asked, sent, unhandled>>

\* handleEvent(): the handler of a pattern is executed; one that fails is logged
\* by the filter and counted.
Handled(c) ==
    /\ at[c] = "handling"
    /\ \E failed \in {0, 1} : Return(c, failed)
    /\ UNCHANGED <<mode, fetch, store, asked, sent, unhandled>>

-----------------------------------------------------------------------------
\* search(): no answer without a reply topic in the context, which also gives
\* the key.
search(c, m) ==
    IF Context(c).reply = Undefined THEN {}
    ELSE {[to |-> Context(c).reply, of |-> m.id, key |-> Context(c).correlationId]}

\* The answers of a call, and the requests they are grouped into.
Responses(c) == UNION {search(c, m) : m \in WithData(c)}

\* A mutant: an answer to the same topic replaces the one before.
RequestsOfLast(answers) == {{CHOOSE a \in answers : a.to = t} : t \in {a.to : a \in answers}}

RequestsOf(answers) == {{a \in answers : a.to = t} : t \in {a.to : a \in answers}}

\* The user is found or not.  KafkaDemoController gives the answers to the client
\* and does not wait; RabbitMqApiService waits.
Found(c) ==
    /\ at[c] = "searching"
    /\ asked' = [asked EXCEPT ![c] = RequestsOf(Responses(c))]
    /\ IF mode = "rabbit" /\ Responses(c) # {}
       THEN at' = [at EXCEPT ![c] = "answering"] /\ UNCHANGED <<span, failures>>
       ELSE Return(c, 0)
    /\ UNCHANGED <<mode, fetch, store, sent, unhandled>>

\* The database fails for one of the messages, and with it the handler.
SearchFails(c) ==
    /\ at[c] = "searching"
    /\ Return(c, Len(fetch[c]))
    /\ UNCHANGED <<mode, fetch, store, asked, sent, unhandled>>

\* request() of the client succeeds.
Sent(c) ==
    \E r \in asked[c] :
       /\ asked' = [asked EXCEPT ![c] = @ \ {r}]
       /\ sent' = [sent EXCEPT ![c] = @ \cup r]
       /\ IF at[c] = "answering" THEN Return(c, 0) ELSE UNCHANGED <<at, span, failures>>
       /\ UNCHANGED <<mode, fetch, store, unhandled>>

\* It fails: the handler of RabbitMQ with it, while the promise that eachBatch()
\* has dropped stops the application.
SendFails(c) ==
    \E r \in asked[c] :
       /\ asked' = [asked EXCEPT ![c] = @ \ {r}]
       /\ IF at[c] = "answering"
          THEN Return(c, 1) /\ UNCHANGED unhandled
          ELSE unhandled' = TRUE /\ UNCHANGED <<at, span, failures>>
       /\ UNCHANGED <<mode, fetch, store, sent>>

Next ==
    \E c \in Calls :
       \/ \E f \in Fetches(c) : Receive(c, f)
       \/ DecodingFails(c) \/ Decoded(c) \/ Handled(c)
       \/ Found(c) \/ SearchFails(c) \/ Sent(c) \/ SendFails(c)

Spec == Init /\ [][Next]_vars

-----------------------------------------------------------------------------
\* Whatever other calls do meanwhile, the code that handles one message finds
\* that message's correlation id, reply topic and trace in its context.
ContextIsOwn ==
    \A c \in Calls : at[c] \in {"handling", "searching", "answering"} /\ Len(fetch[c]) = 1 =>
       LET own == Headers(fetch[c][1]) IN
       /\ Context(c).correlationId = own.correlationId
       /\ Context(c).reply = own.reply
       /\ own.traceId # Undefined => Context(c).traceId = own.traceId

\* A batch is answered as a whole or not at all: of a call that succeeds with a
\* reply topic every message with data is in one request, or sent, or its sending
\* failed; a call that was counted as failed has sent nothing.
AnsweredOrCounted ==
    \A c \in Calls : at[c] = "idle" =>
       LET answered == {a.of : a \in sent[c] \cup UNION asked[c]} IN
       /\ failures[c] # 0 => answered = {}
       /\ failures[c] = 0 /\ mode = "batch" /\ ~unhandled /\ fetch[c] # <<>> /\ Context(c).reply # Undefined
            => answered = {m.id : m \in WithData(c)}

\* The README of kafka-common: replyTopic is the topic for the answer to the
\* message that was received.
AnswersOwnRequest ==
    \A c \in Calls : \A a \in sent[c] : \A i \in DOMAIN fetch[c] :
       fetch[c][i].id = a.of => a.to = fetch[c][i].reply
=============================================================================
