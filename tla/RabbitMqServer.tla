--------------------------- MODULE RabbitMqServer ---------------------------
(***************************************************************************)
(* One RabbitMQ server of the microservice (src/modules/rabbit-mq/         *)
(* rabbit-mq-server): start(), the events of the connection, the channel   *)
(* of every consumer, the messages it handles and answers, and close().    *)
(*                                                                         *)
(* The connection manager (amqp-connection-manager) and the broker are     *)
(* external: the manager connects again by itself and gives every channel  *)
(* wrapper a new channel, and what was not answered on the old one is      *)
(* delivered again.  An action is one run of the event loop.               *)
(***************************************************************************)
EXTENDS Integers, FiniteSets

CONSTANTS
  Patterns,     \* the consumers registered with @EventRabbitMqMessage
  Messages,     \* messages of the queues
  QueueOf,      \* the consumer that each message is for
  Runs,         \* calls of handleMessage() that are under way at a time
  MaxAttempts,  \* maxConnectionAttempts; -1: no limit
  NoAck,        \* noAck of the consumers
  NULL

ASSUME PatternsAssumption == Patterns # {}
ASSUME QueueAssumption    == QueueOf \in [Messages -> Patterns]
ASSUME AttemptsAssumption == MaxAttempts \in Int /\ NoAck \in BOOLEAN
ASSUME NullAssumption     == NULL \notin Messages

\* close() is called by the shutdown and by the listener of connectFailed.
Closers == {"destroy", "connectFailed"}

VARIABLES
  client,     \* is `client` set?
  manager,    \* state of the connection manager
  conn,       \* state of its connection
  once,       \* the listeners registered with once() that have not run
  attempts,   \* connectionAttempts
  channels,   \* the keys of the map `channels`
  chan,       \* state of the channel of each consumer
  listen,     \* outcome of listen()
  closing,    \* progress of each close()
  status,     \* last value of status$
  queue,      \* state of each message in the broker; "left": delivered, and its
              \* handler has returned without an answer
  run,        \* progress of each call of handleMessage()
  msg,        \* the message it handles
  alive,      \* the calls whose channel is still open
  unhandled,  \* has a promise been rejected that nobody awaits?
  brokerUp    \* can the broker be reached?

link  == <<client, manager, conn, once, attempts, channels, listen, status>>
work  == <<queue, run, msg, alive, unhandled>>
vars  == <<link, chan, closing, work, brokerUp>>

TypeOK ==
  /\ client \in BOOLEAN
  /\ manager \in {"none", "open", "closing", "closed"}
  /\ conn \in {"down", "trying", "up"}
  /\ once \subseteq {"connect", "connectFailed"}
  /\ attempts \in Nat
  /\ channels \subseteq Patterns
  /\ chan \in [Patterns -> {"none", "setup", "consuming", "down", "closed"}]
  /\ listen \in {"not called", "pending", "started", "failed"}
  /\ closing \in [Closers -> {"no", "channels", "client", "again", "done"}]
  /\ status \in {"CONNECTED", "DISCONNECTED", "CRASHED"}
  /\ queue \in [Messages -> {"queued", "unacked", "left", "acked", "dropped"}]
  /\ run \in [Runs -> {"idle", "deserialize", "handler"}]
  /\ msg \in [Runs -> Messages \cup {NULL}]
  /\ alive \subseteq Runs
  /\ unhandled \in BOOLEAN
  /\ brokerUp \in BOOLEAN

Init ==
  /\ client = FALSE
  /\ manager = "none"
  /\ conn = "down"
  /\ once = {}
  /\ attempts = 0
  /\ channels = {}
  /\ chan = [p \in Patterns |-> "none"]
  /\ listen = "not called"
  /\ closing = [w \in Closers |-> "no"]
  /\ status = "DISCONNECTED"
  /\ queue = [m \in Messages |-> "queued"]
  /\ run = [r \in Runs |-> "idle"]
  /\ msg = [r \in Runs |-> NULL]
  /\ alive = {}
  /\ unhandled = FALSE
  /\ brokerUp \in BOOLEAN

----------------------------------------------------------------------------
(* What is lost with a channel, and the pieces of close().                 *)

Handles(r, patterns) == r \in alive /\ msg[r] # NULL /\ QueueOf[msg[r]] \in patterns

\* The open channels of these consumers become `next`: what was delivered on
\* them and not answered goes back to the queue.
ChannelsEnd(patterns, next) ==
  /\ chan' = [p \in Patterns |->
                IF p \in patterns /\ chan[p] # "none" /\ chan[p] # "closed" THEN next ELSE chan[p]]
  /\ queue' = [m \in Messages |->
                 IF QueueOf[m] \in patterns /\ queue[m] \in {"unacked", "left"} THEN "queued" ELSE queue[m]]
  /\ alive' = {r \in alive : ~Handles(r, patterns)}

\* Mutant of CloseClient: without channels there is nothing to close.
CloseClientIfUsed(w, anyChannel) ==
  /\ closing' = [closing EXCEPT ![w] = IF client /\ anyChannel THEN "client" ELSE "done"]
  /\ manager' = IF client /\ anyChannel THEN "closing" ELSE manager

\* close() once its channels are closed: client.close() answers at once when it
\* was called before.
CloseClient(w, anyChannel) ==
  \/ /\ ~client
     /\ closing' = [closing EXCEPT ![w] = "done"]
     /\ UNCHANGED manager
  \/ /\ client /\ manager = "open"
     /\ closing' = [closing EXCEPT ![w] = "client"]
     /\ manager' = "closing"
  \/ /\ client /\ manager # "open"
     /\ closing' = [closing EXCEPT ![w] = "again"]
     /\ UNCHANGED manager

----------------------------------------------------------------------------
(* listen() and start().                                                   *)

\* createClient() begins to connect; the listeners are registered.
Listen ==
  /\ listen = "not called"
  /\ listen' = "pending"
  /\ client' = TRUE
  /\ manager' = "open"
  /\ conn' = "trying"
  /\ once' = {"connect", "connectFailed"}
  /\ UNCHANGED <<attempts, channels, chan, closing, status, work, brokerUp>>

\* The manager tries again after its pause, until it is closed.
TriesAgain ==
  /\ manager = "open"
  /\ conn = "down"
  /\ conn' = "trying"
  /\ UNCHANGED <<client, manager, once, attempts, channels, chan, listen, closing, status, work, brokerUp>>

\* runConsumers() creates a channel for every registered consumer.
RunConsumers == IF client THEN Patterns ELSE {}

\* The event connect.  The once() listener of start() runs first: it creates the
\* channels, whose set-up nobody awaits, and calls back.
Connected ==
  LET starts == "connect" \in once /\ channels = {}
      created == IF starts THEN RunConsumers ELSE {}
  IN
  /\ conn = "trying"
  /\ brokerUp
  /\ conn' = "up"
  /\ once' = once \ {"connect"}
  /\ channels' = channels \cup created
  /\ listen' = IF starts THEN "started" ELSE listen
  /\ chan' = [p \in Patterns |-> IF p \in created \/ chan[p] = "down" THEN "setup" ELSE chan[p]]
  /\ attempts' = 0
  /\ status' = "CONNECTED"
  /\ UNCHANGED <<client, manager, closing, work, brokerUp>>

\* Mutant of GivesUp: one attempt more than maxConnectionAttempts.
GivesUpTooLate == MaxAttempts # -1 /\ channels = {} /\ attempts + 1 > MaxAttempts

\* Is this the last attempt before start() gives up?
GivesUp == MaxAttempts # -1 /\ channels = {} /\ attempts + 1 >= MaxAttempts

\* Mutant of ConnectFailed: the attempts are counted down.
ConnectFailedCountingDown ==
  LET heard == "connectFailed" \in once
  IN
  /\ conn = "trying"
  /\ ~brokerUp
  /\ conn' = "down"
  /\ once' = once \ {"connectFailed"}
  /\ attempts' = IF heard THEN attempts - 1 ELSE attempts
  /\ UNCHANGED <<client, manager, channels, chan, listen, closing, status, work, brokerUp>>

\* The event connectFailed: only the first one has a listener.
ConnectFailed ==
  LET heard == "connectFailed" \in once
  IN
  /\ conn = "trying"
  /\ ~brokerUp
  /\ conn' = "down"
  /\ once' = once \ {"connectFailed"}
  /\ status' = IF heard THEN "CRASHED" ELSE status
  /\ attempts' = IF heard /\ MaxAttempts # -1 /\ channels = {} THEN attempts + 1 ELSE attempts
  /\ \/ heard /\ GivesUp /\ CloseClient("connectFailed", FALSE)
     \/ ~(heard /\ GivesUp) /\ UNCHANGED <<closing, manager>>
  /\ UNCHANGED <<client, channels, chan, listen, work, brokerUp>>

\* Mutant of ConnectionLost: there is no listener of disconnect.
ConnectionLostUnheard ==
  /\ conn = "up" /\ ~brokerUp
  /\ conn' = "down"
  /\ ChannelsEnd(Patterns, "down")
  /\ UNCHANGED <<client, manager, once, attempts, channels, listen, closing, status, run, msg,
                 unhandled, brokerUp>>

\* The event disconnect, with or without an error.
ConnectionLost ==
  /\ conn = "up" /\ ~brokerUp
  /\ conn' = "down"
  /\ status' \in {"CRASHED", "DISCONNECTED"}
  /\ ChannelsEnd(Patterns, "down")
  /\ UNCHANGED <<client, manager, once, attempts, channels, listen, closing, run, msg,
                 unhandled, brokerUp>>

\* setupChannel() has asserted, bound and consumes.
SetUp(p) ==
  /\ chan[p] = "setup"
  /\ chan' = [chan EXCEPT ![p] = "consuming"]
  /\ UNCHANGED <<link, closing, work, brokerUp>>

----------------------------------------------------------------------------
(* close().                                                                *)

\* The shutdown closes the server; before listen() there is nothing to close.
Close ==
  /\ listen # "not called"
  /\ closing["destroy"] = "no"
  /\ \/ /\ channels = {}
        /\ CloseClient("destroy", FALSE)
        /\ UNCHANGED <<chan, queue, alive>>
     \/ /\ channels # {}
        /\ closing' = [closing EXCEPT !["destroy"] = "channels"]
        /\ ChannelsEnd(channels, "closed")
        /\ UNCHANGED manager
  /\ UNCHANGED <<client, conn, once, attempts, channels, listen, status, run, msg, unhandled, brokerUp>>

ChannelsClosed ==
  /\ closing["destroy"] = "channels"
  /\ channels' = {}
  /\ CloseClient("destroy", TRUE)
  /\ UNCHANGED <<client, conn, once, attempts, chan, listen, status, work, brokerUp>>

\* The manager lets an attempt under way finish, then closes channels and
\* connection; there is no disconnect event.
ManagerCloses ==
  /\ manager = "closing"
  /\ conn # "trying"
  /\ manager' = "closed"
  /\ conn' = "down"
  /\ ChannelsEnd(Patterns, "closed")
  /\ UNCHANGED <<client, once, attempts, channels, listen, closing, status, run, msg, unhandled, brokerUp>>

\* client.close() returns; start() that has given up calls back with the error.
CloseReturns(w) ==
  /\ \/ closing[w] = "client" /\ manager = "closed"
     \/ closing[w] = "again"
  /\ client' = FALSE
  /\ closing' = [closing EXCEPT ![w] = "done"]
  /\ listen' = IF w = "connectFailed" /\ listen = "pending" THEN "failed" ELSE listen
  /\ UNCHANGED <<manager, conn, once, attempts, channels, chan, status, work, brokerUp>>

----------------------------------------------------------------------------
(* handleMessage() and handleEvent().                                      *)

\* The broker delivers a message: handleMessage() awaits deserialize().
Deliver(m, r) ==
  /\ chan[QueueOf[m]] = "consuming"
  /\ queue[m] = "queued"
  /\ run[r] = "idle"
  /\ queue' = [queue EXCEPT ![m] = IF NoAck THEN "acked" ELSE "unacked"]
  /\ run' = [run EXCEPT ![r] = "deserialize"]
  /\ msg' = [msg EXCEPT ![r] = m]
  /\ alive' = alive \cup {r}
  /\ UNCHANGED <<link, chan, closing, unhandled, brokerUp>>

\* ack() or nack(), and the call is over.  On a channel that is closed both
\* throw; a failed ack() is answered by a nack(), and that of
\* handleErrorInProcessMessage() rejects a promise that nobody awaits.
Answer(r, outcome) ==
  /\ run' = [run EXCEPT ![r] = "idle"]
  /\ msg' = [msg EXCEPT ![r] = NULL]
  /\ alive' = alive \ {r}
  /\ \/ NoAck /\ UNCHANGED <<queue, unhandled>>
     \/ /\ ~NoAck /\ r \in alive
        /\ queue' = [queue EXCEPT ![msg[r]] = outcome]
        /\ UNCHANGED unhandled
     \/ /\ ~NoAck /\ r \notin alive
        /\ unhandled' = TRUE
        /\ UNCHANGED queue
  /\ UNCHANGED <<link, chan, closing, brokerUp>>

\* Mutant of Filtered: handleMessage() returns without an answer.
FilteredUnanswered(r) ==
  /\ run[r] = "deserialize"
  /\ run' = [run EXCEPT ![r] = "idle"]
  /\ msg' = [msg EXCEPT ![r] = NULL]
  /\ alive' = alive \ {r}
  /\ UNCHANGED <<link, chan, closing, queue, unhandled, brokerUp>>

\* The deserializer leaves no data: the message is acknowledged and dropped.
Filtered(r) == run[r] = "deserialize" /\ Answer(r, "acked")

DeserializeFails(r) == run[r] = "deserialize" /\ Answer(r, "dropped")

\* Mutant of Handle: the message is acknowledged before its handler has run.
HandleAcknowledged(r) ==
  /\ run[r] = "deserialize"
  /\ run' = [run EXCEPT ![r] = "handler"]
  /\ queue' = IF r \in alive THEN [queue EXCEPT ![msg[r]] = "acked"] ELSE queue
  /\ UNCHANGED <<link, chan, closing, msg, alive, unhandled, brokerUp>>

\* handleEvent() calls the handler.
Handle(r) ==
  /\ run[r] = "deserialize"
  /\ run' = [run EXCEPT ![r] = "handler"]
  /\ UNCHANGED <<link, chan, closing, queue, msg, alive, unhandled, brokerUp>>

\* The handler has returned: handleEvent() answers nothing in its place, so the
\* message stays with its channel.
HandlerEnds(r) ==
  /\ run[r] = "handler"
  /\ run' = [run EXCEPT ![r] = "idle"]
  /\ msg' = [msg EXCEPT ![r] = NULL]
  /\ alive' = alive \ {r}
  /\ queue' = IF ~NoAck /\ r \in alive THEN [queue EXCEPT ![msg[r]] = "left"] ELSE queue
  /\ UNCHANGED <<link, chan, closing, unhandled, brokerUp>>

\* The handler calls ack() itself, as the last thing it does.  Its own nack() is
\* that of HandlerFails.
HandlerAnswers(r) == run[r] = "handler" /\ Answer(r, "acked")

HandlerFails(r) == run[r] = "handler" /\ Answer(r, "dropped")

BrokerChanges ==
  /\ brokerUp' = ~brokerUp
  /\ UNCHANGED <<link, chan, closing, work>>

----------------------------------------------------------------------------
ConnectionStep == TriesAgain \/ Connected \/ ConnectFailed \/ ManagerCloses
CloseStep == ChannelsClosed \/ \E w \in Closers : CloseReturns(w)
RunStep(r) ==
  \/ Filtered(r) \/ DeserializeFails(r) \/ Handle(r)
  \/ HandlerEnds(r) \/ HandlerAnswers(r) \/ HandlerFails(r)

Next ==
  \/ Listen \/ Close \/ CloseStep
  \/ ConnectionStep \/ ConnectionLost
  \/ \E p \in Patterns : SetUp(p)
  \/ \E r \in Runs : RunStep(r) \/ \E m \in Messages : Deliver(m, r)
  \/ BrokerChanges

Spec == Init /\ [][Next]_vars

\* The manager goes on trying, pending calls are answered, handlers return, with
\* or without an answer, and the broker delivers what is queued for an open
\* consumer.
Fairness ==
  /\ WF_vars(ConnectionStep)
  /\ WF_vars(CloseStep)
  /\ \A p \in Patterns : WF_vars(SetUp(p))
  /\ \A r \in Runs : WF_vars(RunStep(r))
  /\ \A m \in Messages : WF_vars(\E r \in Runs : Deliver(m, r))

FairSpec == Spec /\ Fairness

----------------------------------------------------------------------------
(* Properties.                                                             *)

\* While a message is being handled on an open channel, the broker still waits
\* for the answer of this call and of no other: whatever connections were lost
\* in between, no delivery is answered twice, and none too early.
AnswerIsOwed ==
  ~NoAck => \A r \in alive :
    /\ queue[msg[r]] = "unacked"
    /\ \A s \in alive \ {r} : msg[s] # msg[r]

\* After close() nothing consumes and nothing is connected, even if close() was
\* called while the first connection was being made.
ClosedMeansQuiet ==
  closing["destroy"] = "done" =>
    conn = "down" /\ \A p \in Patterns : chan[p] \notin {"setup", "consuming"}

\* The health indicator is not up while the connection is down.
HealthTellsLoss == status = "CONNECTED" /\ manager = "open" => conn = "up"

InService == closing["destroy"] = "no" /\ listen \in {"pending", "started"}

\* The server has answered the message, or its handler has returned and the answer
\* was the handler's to give.
Handled(m) == queue[m] \in {"acked", "dropped", "left"}

\* Once the broker stays reachable, no message stays behind in the queue or in a
\* handleMessage() that has ended: each is answered or has been through its handler,
\* however often its delivery was cut short by a lost connection.
AllHandled ==
  <>[]brokerUp /\ <>[]InService => \A m \in Messages : <>[]Handled(m)

\* With a limit of one attempt listen() calls back, whatever the broker does.
StartEnds == (listen = "pending") ~> (listen # "pending" \/ closing["destroy"] # "no")

\* README of rabbit-mq-server: the server recovers from a lost connection by
\* itself; until close(), the answer to a message of an old one harms nobody.
NoUnhandledRejection == closing["destroy"] = "no" => ~unhandled
=============================================================================
