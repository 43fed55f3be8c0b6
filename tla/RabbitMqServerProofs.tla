------------------------ MODULE RabbitMqServerProofs ------------------------
(* Proofs about RabbitMqServer, for any consumers, messages, queues and    *)
(* calls of handleMessage(), any limit of attempts, with and without noAck. *)
EXTENDS RabbitMqServer, TLAPS

\* Where the connection can be while the server is closed.  A close() that finds
\* the manager closed by another one returns at once, so the connection must be
\* down by then; only the first one waits for an attempt under way.
ConnectionInv ==
  /\ listen = "not called" =>
       /\ manager = "none" /\ conn = "down" /\ ~client
       /\ status = "DISCONNECTED"
       /\ \A w \in Closers : closing[w] = "no"
  /\ listen # "not called" => manager # "none" /\ (client \/ manager # "open")
  /\ ~client => conn = "down"
  /\ conn # "down" => manager \in {"open", "closing"}
  /\ manager # "open" /\ conn # "down" => closing["destroy"] = "client"
  /\ closing["destroy"] \in {"client", "again", "done"} => manager # "open"
  /\ closing["destroy"] \in {"again", "done"} => conn = "down"
  /\ closing["connectFailed"] # "no" => manager # "open" /\ conn = "down"

\* A consumer's channel is only open on an open connection.
ChannelsNeedConnection ==
  \A p \in Patterns : chan[p] \in {"setup", "consuming"} => conn = "up"

\* A call whose channel is open handles a message.
AliveHandles == \A r \in alive : msg[r] # NULL

----------------------------------------------------------------------------
(* Types.                                                                  *)

ChanType  == [Patterns -> {"none", "setup", "consuming", "down", "closed"}]
QueueType == [Messages -> {"queued", "unacked", "left", "acked", "dropped"}]

LEMMA ChannelsEndType ==
  ASSUME TypeOK, NEW S, NEW next \in {"down", "closed"}, ChannelsEnd(S, next)
  PROVE  chan' \in ChanType /\ queue' \in QueueType /\ alive' \subseteq Runs
BY DEF TypeOK, ChannelsEnd, ChanType, QueueType

LEMMA CloseClientType ==
  ASSUME TypeOK, NEW w \in Closers, NEW b, CloseClient(w, b)
  PROVE  /\ manager' \in {"none", "open", "closing", "closed"}
         /\ closing' \in [Closers -> {"no", "channels", "client", "again", "done"}]
BY DEF TypeOK, CloseClient

\* A step that changes only messages, calls and the channels.
LEMMA TypeOfWork ==
  ASSUME TypeOK, UNCHANGED <<link, closing, brokerUp>>,
         chan' \in ChanType, queue' \in QueueType, alive' \subseteq Runs,
         run' \in [Runs -> {"idle", "deserialize", "handler"}],
         msg' \in [Runs -> Messages \cup {NULL}],
         unhandled' \in BOOLEAN
  PROVE  TypeOK'
<1>1. UNCHANGED <<client, manager, conn, once, attempts, channels, listen, status, closing, brokerUp>>
  BY DEF link
<1>2. client' \in BOOLEAN /\ brokerUp' \in BOOLEAN
  BY <1>1 DEF TypeOK
<1>3. /\ manager' \in {"none", "open", "closing", "closed"}
      /\ conn' \in {"down", "trying", "up"}
      /\ listen' \in {"not called", "pending", "started", "failed"}
      /\ status' \in {"CONNECTED", "DISCONNECTED", "CRASHED"}
  BY <1>1 DEF TypeOK
<1>4. /\ once' \subseteq {"connect", "connectFailed"}
      /\ attempts' \in Nat
      /\ channels' \subseteq Patterns
      /\ closing' \in [Closers -> {"no", "channels", "client", "again", "done"}]
  BY <1>1 DEF TypeOK
<1> QED BY <1>2, <1>3, <1>4, Zenon DEF TypeOK, ChanType, QueueType

LEMMA TypeStart ==
  ASSUME TypeOK, Listen \/ TriesAgain \/ Connected \/ ConnectionLost \/ ManagerCloses
                 \/ (\E p \in Patterns : SetUp(p)) \/ BrokerChanges
  PROVE  TypeOK'
<1>1. CASE Listen
  BY <1>1 DEF TypeOK, Listen, work
<1>2. CASE TriesAgain
  BY <1>2 DEF TypeOK, TriesAgain, work
<1>3. CASE Connected
  BY <1>3 DEF TypeOK, Connected, RunConsumers, work
<1>4. CASE ConnectionLost
  BY <1>4, ChannelsEndType DEF TypeOK, ConnectionLost, ChanType, QueueType
<1>5. CASE ManagerCloses
  BY <1>5, ChannelsEndType DEF TypeOK, ManagerCloses, ChanType, QueueType
<1>6. ASSUME NEW p \in Patterns, SetUp(p) PROVE TypeOK'
  <2>1. /\ chan' = [chan EXCEPT ![p] = "consuming"]
        /\ UNCHANGED <<link, closing, queue, run, msg, alive, unhandled, brokerUp>>
    BY <1>6 DEF SetUp, work
  <2>2. chan' \in ChanType
    BY <2>1 DEF TypeOK, ChanType
  <2> QED BY <2>1, <2>2, TypeOfWork DEF TypeOK, QueueType
<1>7. CASE BrokerChanges
  BY <1>7 DEF TypeOK, BrokerChanges, link, work
<1> QED BY <1>1, <1>2, <1>3, <1>4, <1>5, <1>6, <1>7

LEMMA TypeConnectFailed ==
  ASSUME TypeOK, ConnectFailed
  PROVE  TypeOK'
<1>1. attempts' \in Nat
  <2>1. attempts' = attempts + 1 \/ attempts' = attempts
    BY Zenon DEF ConnectFailed
  <2>2. attempts \in Nat
    BY DEF TypeOK
  <2> QED BY <2>1, <2>2
<1>2. /\ manager' \in {"none", "open", "closing", "closed"}
      /\ closing' \in [Closers -> {"no", "channels", "client", "again", "done"}]
  BY CloseClientType DEF TypeOK, ConnectFailed, Closers
<1> QED BY <1>1, <1>2 DEF TypeOK, ConnectFailed, work

LEMMA TypeClose ==
  ASSUME TypeOK, Close \/ ChannelsClosed \/ \E w \in Closers : CloseReturns(w)
  PROVE  TypeOK'
<1>1. CASE Close
  <2>1. "destroy" \in Closers
    BY DEF Closers
  <2>2. CASE CloseClient("destroy", FALSE) /\ UNCHANGED <<chan, queue, alive>>
    BY <1>1, <2>1, <2>2, CloseClientType DEF TypeOK, Close
  <2>3. CASE closing' = [closing EXCEPT !["destroy"] = "channels"]
             /\ ChannelsEnd(channels, "closed") /\ UNCHANGED manager
    <3>1. chan' \in ChanType /\ queue' \in QueueType /\ alive' \subseteq Runs
      BY <2>3, ChannelsEndType
    <3>2. closing' \in [Closers -> {"no", "channels", "client", "again", "done"}]
      BY <2>3 DEF TypeOK
    <3>3. UNCHANGED <<client, manager, conn, once, attempts, channels, listen, status, run, msg, unhandled,
                      brokerUp>>
      BY <1>1, <2>3 DEF Close
    <3> QED BY <3>1, <3>2, <3>3 DEF TypeOK, ChanType, QueueType
  <2> QED BY <1>1, <2>2, <2>3 DEF Close
<1>2. CASE ChannelsClosed
  BY <1>2, CloseClientType DEF TypeOK, ChannelsClosed, Closers, work
<1>3. ASSUME NEW w \in Closers, CloseReturns(w) PROVE TypeOK'
  BY <1>3 DEF TypeOK, CloseReturns, work
<1> QED BY <1>1, <1>2, <1>3

LEMMA TypeRun ==
  ASSUME TypeOK, NEW r \in Runs, RunStep(r) \/ \E m \in Messages : Deliver(m, r)
  PROVE  TypeOK'
<1>1. /\ chan \in ChanType /\ queue \in QueueType /\ alive \subseteq Runs
      /\ run \in [Runs -> {"idle", "deserialize", "handler"}]
      /\ msg \in [Runs -> Messages \cup {NULL}]
      /\ unhandled \in BOOLEAN
  BY DEF TypeOK, ChanType, QueueType
<1>2. ASSUME NEW o \in {"acked", "dropped"}, Answer(r, o) PROVE TypeOK'
  <2>1. queue' = queue \/ queue' = [queue EXCEPT ![msg[r]] = o]
    BY <1>2 DEF Answer
  <2>2. queue' \in QueueType
    BY <1>1, <2>1 DEF QueueType
  <2>3. /\ run' = [run EXCEPT ![r] = "idle"] /\ msg' = [msg EXCEPT ![r] = NULL]
        /\ alive' = alive \ {r} /\ UNCHANGED <<link, chan, closing, brokerUp>>
    BY <1>2, Zenon DEF Answer
  <2>4. unhandled' \in BOOLEAN
    BY <1>1, <1>2 DEF Answer
  <2>5. /\ run' \in [Runs -> {"idle", "deserialize", "handler"}]
        /\ msg' \in [Runs -> Messages \cup {NULL}]
        /\ alive' \subseteq Runs
    BY <1>1, <2>3
  <2> QED BY <1>1, <2>2, <2>3, <2>4, <2>5, TypeOfWork
<1>3. CASE Handle(r)
  <2>1. /\ run' = [run EXCEPT ![r] = "handler"]
        /\ UNCHANGED <<link, chan, closing, queue, msg, alive, unhandled, brokerUp>>
    BY <1>3 DEF Handle
  <2>2. run' \in [Runs -> {"idle", "deserialize", "handler"}]
    BY <1>1, <2>1
  <2> QED BY <1>1, <2>1, <2>2, TypeOfWork
<1>4. ASSUME NEW m \in Messages, Deliver(m, r) PROVE TypeOK'
  <2>1. /\ run' \in [Runs -> {"idle", "deserialize", "handler"}]
        /\ msg' \in [Runs -> Messages \cup {NULL}]
        /\ alive' \subseteq Runs
    BY <1>1, <1>4 DEF Deliver
  <2>2. PICK answer \in {"acked", "unacked"} : queue' = [queue EXCEPT ![m] = answer]
    BY <1>4, Zenon DEF Deliver
  <2>3. queue' \in QueueType
    BY <1>1, <2>2 DEF QueueType
  <2>4. UNCHANGED <<link, chan, closing, unhandled, brokerUp>>
    BY <1>4, Zenon DEF Deliver
  <2> QED BY <1>1, <2>1, <2>3, <2>4, TypeOfWork
<1>5. CASE HandlerEnds(r)
  <2>1. /\ run' = [run EXCEPT ![r] = "idle"] /\ msg' = [msg EXCEPT ![r] = NULL]
        /\ alive' = alive \ {r} /\ UNCHANGED <<link, chan, closing, unhandled, brokerUp>>
    BY <1>5, Zenon DEF HandlerEnds
  <2>2. queue' = queue \/ queue' = [queue EXCEPT ![msg[r]] = "left"]
    BY <1>5 DEF HandlerEnds
  <2>3. queue' \in QueueType
    BY <1>1, <2>2 DEF QueueType
  <2>4. /\ run' \in [Runs -> {"idle", "deserialize", "handler"}]
        /\ msg' \in [Runs -> Messages \cup {NULL}]
        /\ alive' \subseteq Runs
    BY <1>1, <2>1
  <2> QED BY <1>1, <2>1, <2>3, <2>4, TypeOfWork
<1> QED BY <1>2, <1>3, <1>4, <1>5 DEF RunStep, Filtered, DeserializeFails, HandlerAnswers, HandlerFails

LEMMA TypeNext ==
  ASSUME TypeOK, [Next]_vars
  PROVE  TypeOK'
<1>1. CASE UNCHANGED vars
  <2>1. UNCHANGED <<link, chan, closing, queue, run, msg, alive, unhandled, brokerUp>>
    BY <1>1 DEF vars, work
  <2> QED BY <2>1, TypeOfWork DEF TypeOK, ChanType, QueueType
<1>2. CASE Next
  BY <1>2, TypeStart, TypeConnectFailed, TypeClose, TypeRun
     DEF Next, CloseStep, ConnectionStep
<1> QED BY <1>1, <1>2

LEMMA TypeInit == Init => TypeOK
<1> SUFFICES ASSUME Init PROVE TypeOK
  OBVIOUS
<1>1. client \in BOOLEAN /\ unhandled \in BOOLEAN /\ brokerUp \in BOOLEAN
  BY Zenon DEF Init
<1>2. /\ chan \in ChanType
      /\ queue \in QueueType
      /\ closing \in [Closers -> {"no", "channels", "client", "again", "done"}]
  BY DEF Init, ChanType, QueueType
<1>3. /\ run \in [Runs -> {"idle", "deserialize", "handler"}]
      /\ msg \in [Runs -> Messages \cup {NULL}]
      /\ alive \subseteq Runs
  BY DEF Init
<1>4. /\ manager = "none" /\ conn = "down" /\ once = {} /\ attempts = 0 /\ channels = {}
      /\ listen = "not called" /\ status = "DISCONNECTED"
  BY DEF Init
<1> QED BY <1>1, <1>2, <1>3, <1>4 DEF TypeOK, ChanType, QueueType

\* The variables of the server keep their types: the attempts never fall below zero, and every call
\* of handleMessage() handles at most one message.
THEOREM TypeCorrect == Spec => []TypeOK
BY TypeInit, TypeNext, PTL DEF Spec

----------------------------------------------------------------------------
(* The answer to a delivery.  AnswerIsOwed is inductive for typed states in *)
(* which an open call handles a message: a channel that ends takes its      *)
(* calls and its deliveries at once.                                        *)

DeliveryInv == AliveHandles /\ AnswerIsOwed

LEMMA DeliverySame ==
  ASSUME DeliveryInv, UNCHANGED <<queue, msg, alive>>
  PROVE  DeliveryInv'
BY DEF DeliveryInv, AliveHandles, AnswerIsOwed

LEMMA DeliveryChannelsEnd ==
  ASSUME TypeOK, DeliveryInv, NEW S, NEW next, ChannelsEnd(S, next), msg' = msg
  PROVE  DeliveryInv'
<1>1. alive' = {r \in alive : ~Handles(r, S)}
  BY DEF ChannelsEnd
<1>2. AliveHandles'
  BY <1>1 DEF DeliveryInv, AliveHandles
<1>3. ASSUME ~NoAck, NEW r \in alive' PROVE queue'[msg[r]] = "unacked"
  <2>1. r \in alive /\ msg[r] \in Messages /\ QueueOf[msg[r]] \notin S
    BY <1>1 DEF TypeOK, DeliveryInv, AliveHandles, Handles
  <2>2. queue[msg[r]] = "unacked"
    BY <1>3, <2>1, Zenon DEF DeliveryInv, AnswerIsOwed
  <2>3. queue'[msg[r]] = queue[msg[r]]
    BY <2>1 DEF ChannelsEnd
  <2> QED BY <2>2, <2>3
<1>4. ASSUME ~NoAck, NEW r \in alive', NEW s \in alive' \ {r} PROVE msg[s] # msg[r]
  BY <1>1, <1>4, Zenon DEF DeliveryInv, AnswerIsOwed
<1>5. AnswerIsOwed'
  BY <1>3, <1>4, Zenon DEF AnswerIsOwed
<1> QED BY <1>2, <1>5 DEF DeliveryInv

LEMMA DeliveryDeliver ==
  ASSUME TypeOK, DeliveryInv, NEW m \in Messages, NEW r \in Runs, Deliver(m, r)
  PROVE  DeliveryInv'
<1>1. alive' = alive \cup {r} /\ msg' = [msg EXCEPT ![r] = m] /\ queue[m] = "queued"
  BY Zenon DEF Deliver
<1>2. msg'[r] = m /\ \A s \in alive \ {r} : msg'[s] = msg[s]
  BY <1>1 DEF TypeOK
<1>3. AliveHandles'
  <2>1. m # NULL
    BY NullAssumption
  <2> QED BY <1>1, <1>2, <2>1 DEF DeliveryInv, AliveHandles
<1>4. CASE ~NoAck
  <2>1. queue' = [queue EXCEPT ![m] = "unacked"]
    BY <1>4, Zenon DEF Deliver
  <2>2. queue'[m] = "unacked" /\ \A n \in Messages \ {m} : queue'[n] = queue[n]
    BY <2>1 DEF TypeOK
  <2>3. ASSUME NEW s \in alive PROVE msg[s] \in Messages \ {m} /\ queue[msg[s]] = "unacked"
    <3>1. msg[s] \in Messages
      BY DEF TypeOK, DeliveryInv, AliveHandles
    <3>2. queue[msg[s]] = "unacked"
      BY <1>4, Zenon DEF DeliveryInv, AnswerIsOwed
    <3> QED BY <1>1, <3>1, <3>2
  <2>4. \A s \in alive' : queue'[msg'[s]] = "unacked"
    BY <1>1, <1>2, <2>2, <2>3
  <2>5. ASSUME NEW s \in alive, NEW t \in alive \ {s} PROVE msg[s] # msg[t]
    BY <1>4, Zenon DEF DeliveryInv, AnswerIsOwed
  <2>6. \A s \in alive' : \A t \in alive' \ {s} : msg'[t] # msg'[s]
    BY <1>1, <1>2, <2>3, <2>5
  <2> QED BY <1>3, <2>4, <2>6, Zenon DEF DeliveryInv, AnswerIsOwed
<1>5. CASE NoAck
  BY <1>3, <1>5, Zenon DEF DeliveryInv, AnswerIsOwed
<1> QED BY <1>4, <1>5

\* A call is over: with an answer, or because its handler has returned without one.
LEMMA DeliveryEnds ==
  ASSUME TypeOK, DeliveryInv, NEW r \in Runs, NEW o,
         alive' = alive \ {r}, msg' = [msg EXCEPT ![r] = NULL],
         ~NoAck => \/ r \in alive /\ queue' = [queue EXCEPT ![msg[r]] = o]
                   \/ queue' = queue
  PROVE  DeliveryInv'
<1>1. alive' = alive \ {r} /\ msg' = [msg EXCEPT ![r] = NULL]
  OBVIOUS
<1>2. \A s \in alive' : s \in alive /\ s # r /\ msg'[s] = msg[s]
  BY <1>1 DEF TypeOK
<1>3. AliveHandles'
  BY <1>2 DEF DeliveryInv, AliveHandles
<1>4. CASE ~NoAck
  <2>1. \/ r \in alive /\ queue' = [queue EXCEPT ![msg[r]] = o]
        \/ queue' = queue
    BY <1>4
  <2>2. ASSUME NEW s \in alive' PROVE queue'[msg'[s]] = "unacked"
    <3>1. queue[msg[s]] = "unacked" /\ msg[s] \in Messages
      <4>1. queue[msg[s]] = "unacked"
        BY <1>2, <1>4, Zenon DEF DeliveryInv, AnswerIsOwed
      <4> QED BY <1>2, <4>1 DEF TypeOK, DeliveryInv, AliveHandles
    <3>2. ASSUME r \in alive PROVE msg[s] # msg[r]
      BY <1>2, <1>4, <3>2, Zenon DEF DeliveryInv, AnswerIsOwed
    <3>3. CASE r \in alive /\ queue' = [queue EXCEPT ![msg[r]] = o]
      <4>1. queue'[msg[s]] = queue[msg[s]]
        BY <3>1, <3>2, <3>3 DEF TypeOK
      <4> QED BY <1>2, <3>1, <4>1
    <3> QED BY <1>2, <2>1, <3>1, <3>3
  <2>3. ASSUME NEW s \in alive', NEW t \in alive' \ {s} PROVE msg'[t] # msg'[s]
    <3>1. msg[t] # msg[s]
      BY <1>2, <1>4, Zenon DEF DeliveryInv, AnswerIsOwed
    <3> QED BY <1>2, <3>1
  <2> QED BY <1>3, <2>2, <2>3, Zenon DEF DeliveryInv, AnswerIsOwed
<1>5. CASE NoAck
  BY <1>3, <1>5, Zenon DEF DeliveryInv, AnswerIsOwed
<1> QED BY <1>4, <1>5

LEMMA DeliveryNext ==
  ASSUME TypeOK, DeliveryInv, [Next]_vars
  PROVE  DeliveryInv'
<1>1. CASE UNCHANGED vars
  BY <1>1, DeliverySame DEF vars, work
<1>2. CASE Listen \/ TriesAgain \/ Connected \/ ConnectFailed \/ ChannelsClosed \/ BrokerChanges
           \/ (\E w \in Closers : CloseReturns(w)) \/ (\E p \in Patterns : SetUp(p))
  BY <1>2, DeliverySame, Zenon
     DEF Listen, TriesAgain, Connected, ConnectFailed, ChannelsClosed, BrokerChanges, CloseReturns, SetUp, work
<1>3. CASE ConnectionLost
  BY <1>3, DeliveryChannelsEnd, Zenon DEF ConnectionLost
<1>4. CASE ManagerCloses
  BY <1>4, DeliveryChannelsEnd, Zenon DEF ManagerCloses
<1>5. CASE Close
  BY <1>5, DeliverySame, DeliveryChannelsEnd, Zenon DEF Close
<1>6. ASSUME NEW r \in Runs, RunStep(r) PROVE DeliveryInv'
  <2>1. CASE Handle(r)
    BY <2>1, DeliverySame, Zenon DEF Handle
  <2>2. ASSUME NEW o, Answer(r, o) PROVE DeliveryInv'
    <3>1. alive' = alive \ {r} /\ msg' = [msg EXCEPT ![r] = NULL]
      BY <2>2, Zenon DEF Answer
    <3>2. ~NoAck => (r \in alive /\ queue' = [queue EXCEPT ![msg[r]] = o]) \/ queue' = queue
      BY <2>2, Zenon DEF Answer
    <3> QED BY <3>1, <3>2, DeliveryEnds
  <2>3. CASE HandlerEnds(r)
    <3>1. alive' = alive \ {r} /\ msg' = [msg EXCEPT ![r] = NULL]
      BY <2>3, Zenon DEF HandlerEnds
    <3>2. (r \in alive /\ queue' = [queue EXCEPT ![msg[r]] = "left"]) \/ queue' = queue
      BY <2>3 DEF HandlerEnds
    <3> QED BY <3>1, <3>2, DeliveryEnds
  <2> QED BY <1>6, <2>1, <2>2, <2>3 DEF RunStep, Filtered, DeserializeFails, HandlerAnswers, HandlerFails
<1>7. ASSUME NEW r \in Runs, NEW m \in Messages, Deliver(m, r) PROVE DeliveryInv'
  BY <1>7, DeliveryDeliver
<1> QED BY <1>1, <1>2, <1>3, <1>4, <1>5, <1>6, <1>7 DEF Next, CloseStep, ConnectionStep

\* handleMessage() answers each delivery once and none too early: on an open channel the broker still
\* waits for the answer of exactly this call, however many connections were lost before.
THEOREM AnswersOnce == Spec => []AnswerIsOwed
<1>1. Init => TypeOK /\ DeliveryInv
  BY TypeInit DEF Init, DeliveryInv, AliveHandles, AnswerIsOwed
<1>2. TypeOK /\ DeliveryInv /\ [Next]_vars => (TypeOK /\ DeliveryInv)'
  BY TypeNext, DeliveryNext
<1>3. DeliveryInv => AnswerIsOwed
  BY DEF DeliveryInv
<1> QED BY <1>1, <1>2, <1>3, PTL DEF Spec

----------------------------------------------------------------------------
(* close() and the connection.  ConnectionInv says what each close() may    *)
(* rely on when it finds the manager as it is.                              *)

ServerInv == ConnectionInv /\ ChannelsNeedConnection /\ HealthTellsLoss

\* A step that leaves the connection and its channels alone.
LEMMA ServerSame ==
  ASSUME ServerInv, UNCHANGED <<client, manager, conn, listen, chan, closing, status>>
  PROVE  ServerInv'
BY DEF ServerInv, ConnectionInv, ChannelsNeedConnection, HealthTellsLoss

\* No channel is open once its channels have ended.
LEMMA ChannelsStayClosed ==
  ASSUME TypeOK, ChannelsNeedConnection, NEW S, NEW next \in {"down", "closed"}, ChannelsEnd(S, next),
         conn' = conn \/ S = Patterns
  PROVE  ChannelsNeedConnection'
<1>1. \A p \in Patterns : chan'[p] \in {"setup", "consuming"} => p \notin S /\ chan'[p] = chan[p]
  BY DEF TypeOK, ChannelsEnd
<1> QED BY <1>1 DEF ChannelsNeedConnection

LEMMA ServerStart ==
  ASSUME TypeOK, ServerInv, Listen \/ TriesAgain
  PROVE  ServerInv'
<1>1. ChannelsNeedConnection'
  BY DEF ServerInv, ConnectionInv, ChannelsNeedConnection, Listen, TriesAgain
<1>2. CASE Listen
  <2>1. ConnectionInv'
    BY <1>2 DEF TypeOK, ServerInv, ConnectionInv, Listen, Closers
  <2>2. HealthTellsLoss'
    BY <1>2 DEF ServerInv, ConnectionInv, HealthTellsLoss, Listen
  <2> QED BY <1>1, <2>1, <2>2 DEF ServerInv
<1>3. CASE TriesAgain
  <2>1. ConnectionInv'
    BY <1>3 DEF TypeOK, ServerInv, ConnectionInv, TriesAgain, Closers
  <2>2. HealthTellsLoss'
    BY <1>3 DEF ServerInv, HealthTellsLoss, TriesAgain
  <2> QED BY <1>1, <2>1, <2>2 DEF ServerInv
<1> QED BY <1>2, <1>3

LEMMA ServerConnected ==
  ASSUME TypeOK, ServerInv, Connected
  PROVE  ServerInv'
<1>1. conn = "trying" /\ conn' = "up" /\ UNCHANGED <<client, manager, closing>>
  BY Zenon DEF Connected
<1>2. ChannelsNeedConnection' /\ HealthTellsLoss'
  BY <1>1 DEF ChannelsNeedConnection, HealthTellsLoss
<1>3. listen # "not called" /\ listen' # "not called"
  <2>1. listen' = "started" \/ listen' = listen
    BY Zenon DEF Connected
  <2> QED BY <1>1, <2>1 DEF ServerInv, ConnectionInv
<1>4. ConnectionInv'
  BY <1>1, <1>3 DEF ServerInv, ConnectionInv, Closers
<1> QED BY <1>2, <1>4 DEF ServerInv

\* A close() that comes to the client finds one of three situations.
LEMMA CloseClientCases ==
  ASSUME TypeOK, NEW w \in Closers, NEW b, CloseClient(w, b)
  PROVE  /\ \A v \in Closers \ {w} : closing'[v] = closing[v]
         /\ \/ ~client /\ closing'[w] = "done" /\ manager' = manager
            \/ client /\ manager = "open" /\ closing'[w] = "client" /\ manager' = "closing"
            \/ client /\ manager # "open" /\ closing'[w] = "again" /\ manager' = manager
BY DEF TypeOK, CloseClient

LEMMA ServerConnectFailed ==
  ASSUME TypeOK, ServerInv, ConnectFailed
  PROVE  ServerInv'
<1>1. conn = "trying" /\ conn' = "down" /\ UNCHANGED <<client, channels, chan, listen>>
  BY Zenon DEF ConnectFailed
<1>2. \/ CloseClient("connectFailed", FALSE)
      \/ UNCHANGED <<closing, manager>>
  BY Zenon DEF ConnectFailed
<1>3. listen # "not called" /\ client
  BY <1>1 DEF ServerInv, ConnectionInv
<1>4. ChannelsNeedConnection'
  BY <1>1 DEF ServerInv, ChannelsNeedConnection
<1>5. status' = "CRASHED" \/ status' = status
  BY Zenon DEF ConnectFailed
<1>6. CASE CloseClient("connectFailed", FALSE)
  <2>1. /\ manager' # "open" /\ manager' # "none"
        /\ closing'["destroy"] = closing["destroy"]
        /\ manager' = manager \/ manager = "open"
    BY <1>3, <1>6, CloseClientCases DEF Closers, ServerInv, ConnectionInv
  <2>2. ConnectionInv'
    BY <1>1, <1>3, <2>1 DEF ServerInv, ConnectionInv
  <2> QED BY <1>4, <2>1, <2>2 DEF ServerInv, HealthTellsLoss
<1>7. CASE UNCHANGED <<closing, manager>>
  <2>1. ConnectionInv'
    BY <1>1, <1>3, <1>7 DEF ServerInv, ConnectionInv
  <2>2. HealthTellsLoss'
    BY <1>1, <1>5, <1>7 DEF ServerInv, HealthTellsLoss
  <2> QED BY <1>4, <2>1, <2>2 DEF ServerInv
<1> QED BY <1>2, <1>6, <1>7

LEMMA ServerConnectionEnds ==
  ASSUME TypeOK, ServerInv, ConnectionLost \/ ManagerCloses
  PROVE  ServerInv'
<1>1. CASE ConnectionLost
  <2>1. /\ conn' = "down" /\ conn = "up" /\ status' # "CONNECTED"
        /\ UNCHANGED <<client, manager, listen, closing>>
        /\ ChannelsEnd(Patterns, "down")
    BY <1>1 DEF ConnectionLost
  <2>2. ChannelsNeedConnection'
    BY <2>1, ChannelsStayClosed DEF ServerInv
  <2>3. ConnectionInv'
    BY <2>1 DEF ServerInv, ConnectionInv
  <2> QED BY <2>1, <2>2, <2>3 DEF ServerInv, HealthTellsLoss
<1>2. CASE ManagerCloses
  <2>1. /\ conn' = "down" /\ manager = "closing" /\ manager' = "closed"
        /\ UNCHANGED <<client, listen, closing, status>>
        /\ ChannelsEnd(Patterns, "closed")
    BY <1>2 DEF ManagerCloses
  <2>2. ChannelsNeedConnection'
    BY <2>1, ChannelsStayClosed DEF ServerInv
  <2>3. ConnectionInv'
    BY <2>1 DEF ServerInv, ConnectionInv
  <2> QED BY <2>1, <2>2, <2>3 DEF ServerInv, HealthTellsLoss
<1> QED BY <1>1, <1>2

LEMMA ServerSetUp ==
  ASSUME TypeOK, ServerInv, NEW p \in Patterns, SetUp(p)
  PROVE  ServerInv'
<1>1. ChannelsNeedConnection'
  BY DEF TypeOK, ServerInv, ChannelsNeedConnection, SetUp, link
<1> QED BY <1>1 DEF ServerInv, ConnectionInv, HealthTellsLoss, SetUp, link

\* The close() of the shutdown comes to the client.
LEMMA ServerDestroys ==
  ASSUME TypeOK, ServerInv, NEW b, CloseClient("destroy", b), listen # "not called",
         closing["destroy"] \in {"no", "channels"},
         UNCHANGED <<client, conn, listen, status>>
  PROVE  ConnectionInv' /\ HealthTellsLoss'
<1>1. /\ closing'["connectFailed"] = closing["connectFailed"]
      /\ \/ ~client /\ closing'["destroy"] = "done" /\ manager' = manager
         \/ client /\ manager = "open" /\ closing'["destroy"] = "client" /\ manager' = "closing"
         \/ client /\ manager # "open" /\ closing'["destroy"] = "again" /\ manager' = manager
  BY CloseClientCases DEF Closers
<1>2. ConnectionInv'
  BY <1>1 DEF ServerInv, ConnectionInv
<1>3. HealthTellsLoss'
  BY <1>1 DEF ServerInv, HealthTellsLoss
<1> QED BY <1>2, <1>3

LEMMA ServerCloses ==
  ASSUME TypeOK, ServerInv, Close \/ ChannelsClosed
  PROVE  ServerInv'
<1>1. CASE Close
  <2>1. listen # "not called" /\ closing["destroy"] = "no" /\ UNCHANGED <<client, conn, listen, status>>
    BY <1>1, Zenon DEF Close
  <2>2. CASE CloseClient("destroy", FALSE) /\ UNCHANGED chan
    BY <2>1, <2>2, ServerDestroys DEF ServerInv, ChannelsNeedConnection
  <2>3. CASE /\ closing' = [closing EXCEPT !["destroy"] = "channels"]
             /\ ChannelsEnd(channels, "closed") /\ UNCHANGED manager
    <3>1. ChannelsNeedConnection'
      BY <2>1, <2>3, ChannelsStayClosed DEF ServerInv
    <3>2. closing'["destroy"] = "channels" /\ closing'["connectFailed"] = closing["connectFailed"]
      BY <2>3 DEF TypeOK, Closers
    <3>3. ConnectionInv'
      BY <2>1, <2>3, <3>2 DEF ServerInv, ConnectionInv
    <3> QED BY <2>1, <2>3, <3>1, <3>3 DEF ServerInv, HealthTellsLoss
  <2> QED BY <1>1, <2>2, <2>3, Zenon DEF Close
<1>2. CASE ChannelsClosed
  <2>1. /\ closing["destroy"] = "channels" /\ CloseClient("destroy", TRUE)
        /\ UNCHANGED <<client, conn, chan, listen, status>>
    BY <1>2, Zenon DEF ChannelsClosed
  <2>2. listen # "not called"
    BY <2>1 DEF ServerInv, ConnectionInv, Closers
  <2> QED BY <2>1, <2>2, ServerDestroys DEF ServerInv, ChannelsNeedConnection
<1> QED BY <1>1, <1>2

LEMMA ServerCloseReturns ==
  ASSUME TypeOK, ServerInv, NEW w \in Closers, CloseReturns(w)
  PROVE  ServerInv'
<1>1. /\ client' = FALSE /\ UNCHANGED <<manager, conn, chan, status>>
      /\ closing' = [closing EXCEPT ![w] = "done"]
      /\ (closing[w] = "client" /\ manager = "closed") \/ closing[w] = "again"
  BY Zenon DEF CloseReturns
<1>2. listen # "not called" /\ listen' # "not called"
  <2>1. listen # "not called"
    BY <1>1 DEF ServerInv, ConnectionInv
  <2>2. listen' = "failed" \/ listen' = listen
    BY Zenon DEF CloseReturns
  <2> QED BY <2>1, <2>2
<1>3. manager # "open" /\ conn = "down"
  BY <1>1 DEF ServerInv, ConnectionInv, Closers
<1>4. closing'["connectFailed"] = "no" => closing["connectFailed"] = "no"
  BY <1>1 DEF TypeOK, Closers
<1>5. ConnectionInv'
  BY <1>1, <1>2, <1>3, <1>4 DEF ServerInv, ConnectionInv
<1> QED BY <1>1, <1>5 DEF ServerInv, ChannelsNeedConnection, HealthTellsLoss

LEMMA ServerNext ==
  ASSUME TypeOK, ServerInv, [Next]_vars
  PROVE  ServerInv'
<1>1. CASE UNCHANGED vars
  BY <1>1, ServerSame DEF vars, link
<1>2. CASE BrokerChanges
  BY <1>2, ServerSame DEF BrokerChanges, link
<1>3. ASSUME NEW r \in Runs, RunStep(r) \/ \E m \in Messages : Deliver(m, r)
      PROVE  ServerInv'
  <2>1. UNCHANGED <<link, chan, closing>>
    BY <1>3, Zenon
       DEF RunStep, Filtered, DeserializeFails, Handle, HandlerEnds, HandlerAnswers, HandlerFails, Answer, Deliver
  <2> QED BY <2>1, ServerSame DEF link
<1>4. CASE Listen \/ TriesAgain \/ Connected \/ ConnectFailed \/ ConnectionLost \/ ManagerCloses
           \/ (\E p \in Patterns : SetUp(p))
  BY <1>4, ServerStart, ServerConnected, ServerConnectFailed, ServerConnectionEnds, ServerSetUp
<1>5. CASE Close \/ ChannelsClosed \/ \E w \in Closers : CloseReturns(w)
  BY <1>5, ServerCloses, ServerCloseReturns
<1> QED BY <1>1, <1>2, <1>3, <1>4, <1>5 DEF Next, CloseStep, ConnectionStep

LEMMA ServerAlways == Spec => []ServerInv
<1>1. Init => TypeOK /\ ServerInv
  <2> SUFFICES ASSUME Init PROVE ServerInv
    BY TypeInit
  <2>1. /\ manager = "none" /\ conn = "down" /\ ~client /\ listen = "not called"
        /\ status = "DISCONNECTED" /\ (\A w \in Closers : closing[w] = "no")
        /\ (\A p \in Patterns : chan[p] = "none")
    BY DEF Init
  <2> QED BY <2>1 DEF ServerInv, ConnectionInv, ChannelsNeedConnection, HealthTellsLoss, Closers
<1>2. TypeOK /\ ServerInv /\ [Next]_vars => (TypeOK /\ ServerInv)'
  BY TypeNext, ServerNext
<1> QED BY <1>1, <1>2, PTL DEF Spec

\* After close() has returned nothing is connected and no channel consumes, even if close() was called
\* while the first connection was being made or start() was giving up.
THEOREM ClosedIsQuiet == Spec => []ClosedMeansQuiet
<1>1. ServerInv => ClosedMeansQuiet
  BY DEF ServerInv, ConnectionInv, ChannelsNeedConnection, ClosedMeansQuiet
<1> QED BY <1>1, ServerAlways, PTL

\* The status that the health indicator shows never says CONNECTED while the connection of an open
\* manager is down or being made.
THEOREM HealthIsHonest == Spec => []HealthTellsLoss
<1>1. ServerInv => HealthTellsLoss
  BY DEF ServerInv
<1> QED BY <1>1, ServerAlways, PTL
=============================================================================
