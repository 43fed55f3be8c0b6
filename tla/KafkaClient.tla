----------------------------- MODULE KafkaClient -----------------------------
(***************************************************************************)
(* One Kafka client: KafkaClientProxy with KafkaClientService in front.     *)
(* Callers send requests and may close the client at any time; the kafkajs  *)
(* producers and the broker are external.  One action is one run of the     *)
(* event loop.  The contents of messages are left out.                      *)
(***************************************************************************)
EXTENDS FiniteSets, ClientErrors

CONSTANTS Requests,    \* callers of request()
          Producers,   \* kafkajs producers the client may create
          None

ASSUME NoneAssumption == None \notin Producers

VARIABLES producer,    \* the field producer
          kafka,       \* what each kafkajs producer is doing
          request,     \* where the request of a caller is suspended
          via,         \* the producer that request waits for
          reply,       \* what its last request came to
          closing,     \* the producers that calls of close() are waiting for
          calm         \* history: each close() began with a connected producer, alone

vars == <<producer, kafka, request, via, reply, closing, calm>>

States == {"unused", "connecting", "connected", "unconnected", "gone"}

TypeOK ==
    /\ producer \in Producers \cup {None}
    /\ kafka \in [Producers -> States]
    /\ request \in [Requests -> {"idle", "connecting", "encoding", "sending"}]
    /\ via \in [Requests -> Producers \cup {None}]
    /\ reply \in [Requests -> Kinds \cup {"none", "sent"}]
    /\ closing \subseteq (Producers \cup {None})
    /\ calm \in BOOLEAN
    /\ \A r \in Requests : request[r] \in {"connecting", "sending"} => kafka[via[r]] # "unused"

Init ==
    /\ producer = None
    /\ kafka = [p \in Producers |-> "unused"]
    /\ request = [r \in Requests |-> "idle"]
    /\ via = [r \in Requests |-> None]
    /\ reply = [r \in Requests |-> "none"]
    /\ closing = {}
    /\ calm = TRUE

-----------------------------------------------------------------------------
\* request() ends: the promise of firstValueFrom() is settled, the handler has
\* named the error, the timer of the histogram is stopped.
Settle(R, result) ==
    /\ request' = [r \in Requests |-> IF r \in R THEN "idle" ELSE request[r]]
    /\ via' = [r \in Requests |-> IF r \in R THEN None ELSE via[r]]
    /\ reply' = [r \in Requests |-> IF r \in R THEN result ELSE reply[r]]

Wait(r, where, p) ==
    /\ request' = [request EXCEPT ![r] = where]
    /\ via' = [via EXCEPT ![r] = p]
    /\ reply' = [reply EXCEPT ![r] = "none"]

\* A mutant: the producer is stored only when it is connected.
ConnectLate(r) ==
    \E p \in Producers :
       /\ kafka[p] = "unused"
       /\ kafka' = [kafka EXCEPT ![p] = "connecting"]
       /\ Wait(r, "connecting", p)
       /\ UNCHANGED producer

\* connect(): the field is set before connect() of kafkajs is awaited.
connect(r) ==
    \/ /\ producer # None
       /\ Wait(r, "encoding", None)
       /\ UNCHANGED <<producer, kafka>>
    \/ /\ producer = None
       /\ \E p \in Producers :
             /\ kafka[p] = "unused"
             /\ producer' = p
             /\ kafka' = [kafka EXCEPT ![p] = "connecting"]
             /\ Wait(r, "connecting", p)

\* request() -> send() or sendBatch() of a valid message, or of several.
Send(r) ==
    /\ request[r] = "idle"
    /\ connect(r)
    /\ UNCHANGED <<closing, calm>>

\* A message without topic or data, or an empty batch.
SendInvalid(r) ==
    /\ request[r] = "idle"
    /\ Settle({r}, handleKafkaError(<<"Error">>))
    /\ UNCHANGED <<producer, kafka, closing, calm>>

Awaiting(p) == {r \in Requests : request[r] = "connecting" /\ via[r] = p}

\* connect() of kafkajs is over.
Connected(p) ==
    /\ kafka[p] = "connecting"
    /\ kafka' = [kafka EXCEPT ![p] = "connected"]
    /\ request' = [r \in Requests |-> IF r \in Awaiting(p) THEN "encoding" ELSE request[r]]
    /\ via' = [r \in Requests |-> IF r \in Awaiting(p) THEN None ELSE via[r]]
    /\ UNCHANGED <<producer, reply, closing, calm>>

\* A mutant: the callers are not told.
ConnectFailsSilently(p) ==
    /\ kafka[p] = "connecting"
    /\ kafka' = [kafka EXCEPT ![p] = "unconnected"]
    /\ UNCHANGED <<producer, request, via, reply, closing, calm>>

\* connect() of kafkajs fails: the field keeps the producer.
ConnectFails(p) ==
    /\ kafka[p] = "connecting"
    /\ kafka' = [kafka EXCEPT ![p] = "unconnected"]
    /\ \E e \in {<<"KafkaJSConnectionError">>,
                <<"KafkaJSNumberOfRetriesExceeded", "KafkaJSConnectionError">>,
                <<"KafkaJSNumberOfRetriesExceeded", "KafkaJSError", "KafkaJSRequestTimeoutError">>} :
          Settle(Awaiting(p), handleKafkaError(e))
    /\ UNCHANGED <<producer, closing, calm>>

\* dispatchMessage() or dispatchBatchMessage() once requestAsMessages() is over:
\* it looks at the field again.
Dispatch(r) ==
    /\ request[r] = "encoding"
    /\ \/ /\ producer = None
          /\ Settle({r}, handleKafkaError(<<"Error">>))
       \/ /\ producer # None
          /\ Wait(r, "sending", producer)
    /\ UNCHANGED <<producer, kafka, closing, calm>>

\* The serializer or the builder of the headers throws.
EncodingFails(r) ==
    /\ request[r] = "encoding"
    /\ Settle({r}, handleKafkaError(<<"Error">>))
    /\ UNCHANGED <<producer, kafka, closing, calm>>

\* kafkajs answers.  A producer that is not connected refuses.
Sent(r) ==
    /\ request[r] = "sending"
    /\ kafka[via[r]] = "connected"
    /\ Settle({r}, "sent")
    /\ UNCHANGED <<producer, kafka, closing, calm>>

SendFails(r) ==
    /\ request[r] = "sending"
    /\ \E e \in IF kafka[via[r]] = "connected"
                THEN {<<"KafkaJSRequestTimeoutError">>, <<"KafkaJSError">>}
                ELSE {<<"KafkaJSNonRetriableError">>} :
          Settle({r}, handleKafkaError(e))
    /\ UNCHANGED <<producer, kafka, closing, calm>>

\* close() awaits the disconnect() of the producer the field holds, or nothing.
Close ==
    /\ producer \notin closing
    /\ closing' = closing \cup {producer}
    /\ calm' = (calm /\ closing = {} /\ producer # None /\ kafka[producer] = "connected")
    /\ UNCHANGED <<producer, kafka, request, via, reply>>

\* It then clears the field, whatever the field holds by now.  kafkajs has ended
\* a connected producer; what it makes of one that is connecting is its choice.
CloseReturns(p) ==
    /\ p \in closing
    /\ closing' = closing \ {p}
    /\ UNCHANGED calm
    /\ producer' = None
    /\ IF p = None
       THEN UNCHANGED kafka
       ELSE \/ kafka' = [kafka EXCEPT ![p] = "gone"]
            \/ kafka[p] = "connecting" /\ UNCHANGED kafka
    /\ IF p # None /\ kafka'[p] = "gone"
       THEN Settle(Awaiting(p), "internal")
       ELSE UNCHANGED <<request, via, reply>>

\* A producer that is gone and that nobody waits for stands for the next new one.
Reclaimed(p) ==
    /\ kafka[p] = "gone"
    /\ p \notin closing \cup {producer} \cup {via[r] : r \in Requests}
    /\ kafka' = [kafka EXCEPT ![p] = "unused"]
    /\ UNCHANGED <<producer, request, via, reply, closing, calm>>

-----------------------------------------------------------------------------
ProducerStep(p) == Connected(p) \/ ConnectFails(p)
RequestStep(r) == Dispatch(r) \/ EncodingFails(r) \/ Sent(r) \/ SendFails(r)

Next ==
    \/ \E r \in Requests : Send(r) \/ SendInvalid(r) \/ RequestStep(r)
    \/ \E p \in Producers : ProducerStep(p) \/ Reclaimed(p)
    \/ Close
    \/ \E p \in Producers \cup {None} : CloseReturns(p)

\* kafkajs bounds connect(), send() and disconnect() by timeouts.
Fairness ==
    /\ \A p \in Producers : WF_vars(ProducerStep(p))
    /\ \A r \in Requests : WF_vars(RequestStep(r))
    /\ \A p \in Producers \cup {None} : WF_vars(CloseReturns(p))

Spec == Init /\ [][Next]_vars /\ Fairness

-----------------------------------------------------------------------------
\* Callers that send at the same time share one producer, also while it is being
\* connected and after that has failed, and close() of a connected client leaves
\* none behind: whatever is alive is what the field holds.  (A close() that
\* overlaps connect() or another close() does leave one behind, hence calm.)
OneProducer ==
    calm => \A p \in Producers : kafka[p] \in {"connecting", "connected"} => p = producer

\* Every request ends, with the message sent or with an error of the client.
RequestsSettle == \A r \in Requests : request[r] # "idle" ~> request[r] = "idle"
=============================================================================
