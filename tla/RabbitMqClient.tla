---------------------------- MODULE RabbitMqClient ----------------------------
(***************************************************************************)
(* One RabbitMQ client: RabbitMqClientProxy with RabbitMqClientService in   *)
(* front.  The connection manager (amqp-connection-manager), its channel    *)
(* wrappers and the broker are external.  One action is one run of the      *)
(* event loop; the contents and options of messages are left out.           *)
(***************************************************************************)
EXTENDS FiniteSets, ClientErrors

CONSTANTS Requests,   \* callers of request()
          Urls,       \* number of urls of the broker, tried in turn
          MaxClients, \* managers the client creates in a behaviour: one more after each close()
          None

VARIABLES client,     \* the field client: the number of its manager, 0 for none
          created,    \* managers created so far
          conn,       \* the connection of the present manager, and the url it tries
          url,
          chans,      \* its open channel wrappers: "listener" and "stream" name their creator
          ready,      \* those that are set up on the present connection
          channel,    \* the field channel
          stream,     \* the stream connection$ of the present manager
          promise,    \* the field connectionPromise
          isInitialConnect,
          settled,    \* promises of createChannel() that are resolved
          request,    \* what the request of a caller awaits
          reply,      \* what its last request came to
          closing,    \* where close() is suspended
          reachable   \* does the broker accept connections

fields == <<client, created, channel, promise, isInitialConnect>>
manager == <<conn, url, chans, ready, settled, stream>>
vars == <<fields, manager, request, reply, closing, reachable>>

Wrappers == {"listener", "stream"}
Promises == {"resolved", "rejected", "stream"} \cup Wrappers

TypeOK ==
    /\ created \in 0 .. MaxClients
    /\ client \in {0, created}
    /\ conn \in {"none", "trying", "up", "down", "closed"}
    /\ url \in 1 .. Urls
    /\ chans \subseteq Wrappers /\ ready \subseteq chans /\ settled \subseteq Wrappers
    /\ channel \in Wrappers \cup {None}
    /\ stream \in {"none", "waiting", "creating", "ok", "failed"}
    /\ promise \in Promises \cup {None}
    /\ isInitialConnect \in BOOLEAN
    /\ request \in [Requests -> {"idle", "publishing", "lost"} \cup Promises]
    /\ reply \in [Requests -> Kinds \cup {"none", "sent"}]
    /\ closing \in {"no", "channel", "client"}
    /\ reachable \in BOOLEAN
    /\ ready # {} => conn = "up"

Init ==
    /\ client = 0 /\ created = 0
    /\ conn = "none" /\ url = 1
    /\ chans = {} /\ ready = {} /\ settled = {}
    /\ channel = None
    /\ stream = "none"
    /\ promise = None
    /\ isInitialConnect = TRUE
    /\ request = [r \in Requests |-> "idle"]
    /\ reply = [r \in Requests |-> "none"]
    /\ closing = "no"
    /\ reachable = TRUE

-----------------------------------------------------------------------------
Ends(R, result) ==
    /\ request' = [r \in Requests |-> IF r \in R THEN "idle" ELSE request[r]]
    /\ reply' = [r \in Requests |-> IF r \in R THEN result ELSE reply[r]]

Awaits(r, what) ==
    /\ request' = [request EXCEPT ![r] = what]
    /\ reply' = [reply EXCEPT ![r] = "none"]

\* connect() without a client: a new manager, the listeners, the stream, its promise.
CreateClient ==
    /\ created < MaxClients
    /\ created' = created + 1
    /\ client' = created + 1
    /\ conn' = "trying" /\ url' = 1
    /\ chans' = {} /\ ready' = {} /\ settled' = {}
    /\ stream' = "waiting"
    /\ promise' = "stream"
    /\ UNCHANGED <<channel, isInitialConnect>>

\* request() -> send() of a valid message: connect() and the promise it returns.
Send(r) ==
    /\ request[r] = "idle"
    /\ \/ /\ client # 0
          /\ Awaits(r, IF promise = None THEN "resolved" ELSE promise)
          /\ UNCHANGED <<fields, manager>>
       \/ /\ client = 0 /\ CreateClient
          /\ Awaits(r, "stream")
    /\ UNCHANGED <<closing, reachable>>

\* Neither a queue nor an exchange.
SendInvalid(r) ==
    /\ request[r] = "idle"
    /\ Ends({r}, handleRabbitError("Error"))
    /\ UNCHANGED <<fields, manager, closing, reachable>>

\* What the promise a request awaits has come to.
Resolved(what) == what = "resolved" \/ what \in settled \/ (what = "stream" /\ stream = "ok")
Rejected(what) == what = "rejected" \/ (what = "stream" /\ stream = "failed")

\* dispatchMessage() when the connection is there: the wrapper queues the message.
Dispatch(r) ==
    /\ Resolved(request[r])
    /\ \/ channel = None /\ Ends({r}, handleRabbitError("RabbitMqError"))
       \/ channel # None /\ Awaits(r, "publishing")
    /\ UNCHANGED <<fields, manager, closing, reachable>>

ConnectRejected(r) ==
    /\ Rejected(request[r])
    /\ Ends({r}, handleRabbitError("RabbitMqError"))
    /\ UNCHANGED <<fields, manager, closing, reachable>>

\* The serializer or the builder of the options throws.
SerializeFails(r) ==
    /\ Resolved(request[r])
    /\ Ends({r}, handleRabbitError("Error"))
    /\ UNCHANGED <<fields, manager, closing, reachable>>

\* A wrapper sends what it has queued once it is set up, and calls back.
Published(r) ==
    /\ request[r] = "publishing"
    /\ channel \in ready
    /\ Ends({r}, "sent")
    /\ UNCHANGED <<fields, manager, closing, reachable>>

\* The broker refuses the message.
PublishFails(r) ==
    /\ request[r] = "publishing"
    /\ channel \in ready
    /\ Ends({r}, handleRabbitError("RabbitMqError"))
    /\ UNCHANGED <<fields, manager, closing, reachable>>

-----------------------------------------------------------------------------
\* A mutant: the listener leaves the promise of the failed attempt in place.
ConnectHeardOnce ==
    /\ isInitialConnect' = FALSE
    /\ chans' = chans \cup (IF stream = "waiting" THEN {"stream"} ELSE {})
    /\ channel' = IF stream = "waiting" THEN "stream" ELSE channel
    /\ UNCHANGED promise

\* The listener of `connect`, and after it the stream, which creates a channel of
\* its own at the first connect event and replaces the listener's.
ConnectHeard ==
    LET byListener == isInitialConnect /\ channel = None
        byStream   == stream = "waiting"
    IN  /\ isInitialConnect' = FALSE
        /\ chans' = chans \cup {w \in Wrappers : \/ w = "listener" /\ byListener
                                                 \/ w = "stream" /\ byStream}
        /\ channel' = CASE byStream -> "stream"
                        [] byListener /\ ~byStream -> "listener"
                        [] OTHER -> channel
        /\ promise' = CASE byListener -> "listener"
                        [] ~isInitialConnect -> "resolved"
                        [] OTHER -> promise

\* The manager has a connection, also when an attempt ends during its close().  Any
\* later connect event resolves the stream.
Connected ==
    /\ conn \in {"trying", "down"}
    /\ reachable
    /\ conn' = "up"
    /\ ConnectHeard
    /\ stream' = CASE stream = "waiting" -> "creating"
                   [] stream = "creating" -> "ok"
                   [] OTHER -> stream
    /\ UNCHANGED <<client, created, url, ready, settled, request, reply, closing, reachable>>

\* connectFailed: with a further url the stream goes on waiting, else it fails.
ConnectFailed ==
    /\ conn \in {"trying", "down"}
    /\ closing # "client"
    /\ ~reachable
    /\ url' = IF url = Urls THEN 1 ELSE url + 1
    /\ stream' = IF stream = "waiting" /\ url = Urls THEN "failed" ELSE stream
    /\ UNCHANGED <<fields, conn, chans, ready, settled, request, reply, closing, reachable>>

\* setupChannel() of a wrapper on the present connection is over: resolve().
SetUp(w) ==
    /\ conn = "up"
    /\ w \in chans \ ready
    /\ ready' = ready \cup {w}
    /\ settled' = settled \cup {w}
    /\ stream' = IF w = "stream" /\ stream = "creating" THEN "ok" ELSE stream
    /\ UNCHANGED <<fields, conn, url, chans, request, reply, closing, reachable>>

\* disconnect: the promise is replaced by a rejected one.  A message that waits
\* for its confirmation is queued again by the wrapper.
ConnectionLost ==
    /\ conn = "up" /\ closing # "client" /\ ~reachable
    /\ conn' = "down"
    /\ ready' = {}
    /\ promise' = IF isInitialConnect THEN promise ELSE "rejected"
    /\ UNCHANGED <<client, created, channel, isInitialConnect, url, chans, settled, stream,
                   request, reply, closing, reachable>>

BrokerChanges ==
    /\ reachable' = ~reachable
    /\ UNCHANGED <<fields, manager, request, reply, closing>>

-----------------------------------------------------------------------------
\* close() awaits close() of the channel, which rejects what it has queued and
\* never sends again.  (One call of close() at a time.)
Close ==
    /\ closing = "no" /\ client # 0
    /\ closing' = IF channel = None THEN "client" ELSE "channel"
    /\ chans' = chans \ {channel}
    /\ ready' = ready \ {channel}
    /\ Ends({r \in Requests : request[r] = "publishing"}, handleRabbitError("RabbitMqError"))
    /\ UNCHANGED <<fields, conn, url, settled, stream, reachable>>

ChannelClosed ==
    /\ closing = "channel"
    /\ closing' = "client"
    /\ UNCHANGED <<fields, manager, request, reply, reachable>>

\* What is left of a request when its manager is closed: it goes on when its
\* promise is settled, else nobody answers it any more.
AfterClose(what) ==
    CASE what = "idle" -> "idle"
      [] Resolved(what) -> "resolved"
      [] Rejected(what) -> "rejected"
      [] OTHER -> "lost"

\* It awaits close() of the manager, and then clears the fields but not
\* connectionPromise.
Closed ==
    /\ closing = "client"
    /\ closing' = "no"
    /\ client' = 0
    /\ channel' = None
    /\ isInitialConnect' = TRUE
    /\ conn' = "closed"
    /\ ready' = {}
    /\ request' = [r \in Requests |-> AfterClose(request[r])]
    /\ UNCHANGED <<created, promise, url, chans, settled, stream, reply, reachable>>

-----------------------------------------------------------------------------
RequestStep(r) == Dispatch(r) \/ ConnectRejected(r) \/ SerializeFails(r) \/ Published(r) \/ PublishFails(r)
ManagerStep == Connected \/ ConnectFailed

Next ==
    \/ \E r \in Requests : Send(r) \/ SendInvalid(r) \/ RequestStep(r)
    \/ ManagerStep
    \/ \E w \in Wrappers : SetUp(w)
    \/ ConnectionLost
    \/ BrokerChanges
    \/ Close \/ ChannelClosed \/ Closed

\* The manager goes on trying, the broker answers while it is reachable, and the
\* event loop runs every callback.
Fairness ==
    /\ WF_vars(ManagerStep)
    /\ \A w \in Wrappers : WF_vars(SetUp(w))
    /\ \A r \in Requests : WF_vars(RequestStep(r))

Spec == Init /\ [][Next]_vars /\ Fairness

-----------------------------------------------------------------------------
\* Unless the client is closed, and once the broker stays reachable, every request
\* ends: none waits for a promise that no listener settles.
RequestsSettle ==
    <>[]reachable /\ [](closing = "no") =>
        \A r \in Requests : request[r] # "idle" ~> request[r] = "idle"

\* Then also no request is refused any more for a connection that was lost, or
\* for a first attempt that failed: connectionPromise is replaced in time.
Recovers ==
    <>[]reachable /\ [](closing = "no") =>
        <>[][\A r \in Requests : ~ConnectRejected(r)]_vars
=============================================================================
