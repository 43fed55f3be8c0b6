---------------------------- MODULE KafkaServer ----------------------------
(***************************************************************************)
(* The life cycle of one Kafka server of the microservice: listen(), the   *)
(* connect/start/retry loop, reconnect() after a crash, disconnect() and   *)
(* close() of KafkaServerBase and KafkaServerService                       *)
(* (src/modules/kafka/kafka-server/services).                              *)
(*                                                                         *)
(* A server owns at most two kafkajs consumers, one for the eachMessage    *)
(* and one for the eachBatch topics.  Consumers are objects: the fields    *)
(* `consumer` and `batchConsumer` only refer to them, and a disconnect()   *)
(* that is still awaited nulls whatever the fields hold when it returns.   *)
(*                                                                         *)
(* An action is one run of the event loop: the code from the resolution of *)
(* one awaited call, or one emitted event, to the next pending call.       *)
(***************************************************************************)
EXTENDS Naturals, FiniteSets

CONSTANTS
  Consumers,    \* kafkajs consumer objects; an unreachable one is used again
  Tasks,        \* activations of run() and reconnect()
  Modes,        \* the modes that have subscribed topics
  ReviveOnRun,  \* may consumer.run() bring a disconnected consumer back?
  NULL

EACH  == "each-message"
BATCH == "each-batch"
Closer == "close()"

ASSUME ModesAssumption == Modes \subseteq {EACH, BATCH} /\ Modes # {}
ASSUME NullAssumption  == NULL \notin Consumers
ASSUME TasksAssumption == Closer \notin Tasks
ASSUME ReviveAssumption == ReviveOnRun \in BOOLEAN

VARIABLES
  isStop, isConnecting, isReconnecting,  \* the flags of KafkaServerBase
  client,     \* is `client` set?
  ref,        \* the fields `consumer` (EACH) and `batchConsumer` (BATCH)
  pc,         \* where each activation is suspended
  kind,       \* what each activation runs
  cur,        \* the consumer whose connect() an activation awaits
  binds,      \* the consumers whose bind*Events() an activation awaits
  dis,        \* the consumers whose disconnect() a caller still awaits
  st,         \* kafkajs: state of each consumer
  bind,       \* progress of bind*Events() for each consumer
  closing,    \* progress of close()
  optStop,    \* KafkaOptionsBuilder.isStop
  listen,     \* outcome of listen()
  status,     \* last value of status$
  brokerUp    \* does the broker answer?

flags   == <<isStop, isConnecting, isReconnecting>>
taskVars == <<pc, kind, cur, binds>>
vars == <<flags, client, ref, taskVars, dis, st, bind, closing, optStop,
          listen, status, brokerUp>>

Waiters == Tasks \cup {Closer}

ConsumerStates == {"off", "connecting", "connected", "joining", "joined",
                   "stopping", "restarting", "dead"}

TypeOK ==
  /\ isStop \in BOOLEAN /\ isConnecting \in BOOLEAN /\ isReconnecting \in BOOLEAN
  /\ client \in BOOLEAN
  /\ ref \in [{EACH, BATCH} -> Consumers \cup {NULL}]
  /\ pc \in [Tasks -> {"idle", "connectEach", "connectBatch", "start", "disc",
                       "delay", "reconnectDisc"}]
  /\ kind \in [Tasks -> {"run", "reconnect"}]
  /\ cur \in [Tasks -> Consumers \cup {NULL}]
  /\ binds \in [Tasks -> SUBSET Consumers]
  /\ dis \in [Waiters -> SUBSET Consumers]
  /\ st \in [Consumers -> ConsumerStates]
  /\ bind \in [Consumers -> {"none", "subscribe", "run", "done", "failed"}]
  /\ closing \in {"open", "closing", "closed"}
  /\ optStop \in BOOLEAN
  /\ listen \in {"not called", "pending", "started", "failed", "silent"}
  /\ status \in {"CONNECTED", "DISCONNECTED", "REBALANCING", "STOPPED", "CRASHED"}
  /\ brokerUp \in BOOLEAN

Init ==
  /\ isStop = FALSE /\ isConnecting = FALSE /\ isReconnecting = FALSE
  /\ client = FALSE
  /\ ref = [m \in {EACH, BATCH} |-> NULL]
  /\ pc = [t \in Tasks |-> "idle"]
  /\ kind = [t \in Tasks |-> "run"]
  /\ cur = [t \in Tasks |-> NULL]
  /\ binds = [t \in Tasks |-> {}]
  /\ dis = [w \in Waiters |-> {}]
  /\ st = [c \in Consumers |-> "off"]
  /\ bind = [c \in Consumers |-> "none"]
  /\ closing = "open"
  /\ optStop = FALSE
  /\ listen = "not called"
  /\ status = "DISCONNECTED"
  /\ brokerUp \in BOOLEAN

----------------------------------------------------------------------------
(* Pieces of the code that several handlers run.                           *)

NoRefs == [m \in {EACH, BATCH} |-> NULL]

\* The consumers that given values of the two fields refer to.
Held(fields) == {fields[m] : m \in {EACH, BATCH}} \ {NULL}

\* A consumer object that nobody can reach any more may stand for a new one.
Reusable(c, fields) ==
  /\ st[c] \in {"off", "dead"}
  /\ bind[c] \notin {"subscribe", "run"}
  /\ c \notin Held(fields)
  /\ \A t \in Tasks : c # cur[t] /\ c \notin binds[t]
  /\ \A w \in Waiters : c \notin dis[w]

\* createConsumer(): a new consumer whose connect() is now pending; s is the
\* state of the others.
CreateConsumer(t, where, fields, s) ==
  \E c \in Consumers :
    /\ Reusable(c, fields)
    /\ st' = [s EXCEPT ![c] = "connecting"]
    /\ bind' = [bind EXCEPT ![c] = "none"]
    /\ cur' = [cur EXCEPT ![t] = c]
    /\ pc' = [pc EXCEPT ![t] = where]

\* connect() from its first line to the first pending connect().
Attempt(t, fields) ==
  /\ client' = TRUE
  /\ CreateConsumer(t, IF EACH \in Modes THEN "connectEach" ELSE "connectBatch", fields, st)

\* disconnect(), called by w, up to its await.  Without a consumer to wait for
\* it runs to its end.
DisconnectBegins(w, fields, s) ==
  /\ st' = [c \in Consumers |-> IF c \in Held(fields) THEN "stopping" ELSE s[c]]
  /\ dis' = [dis EXCEPT ![w] = Held(fields)]
  /\ client' = (client /\ Held(fields) # {})

\* Mutant of DisconnectReturns: the field batchConsumer is left out.
DisconnectReturnsEachOnly(w) ==
  /\ dis[w] = {}
  /\ ref' = [m \in {EACH} |-> NULL]

\* Every awaited disconnect() is over: disconnect() nulls its fields.
DisconnectReturns(w) ==
  /\ dis[w] = {}
  /\ ref' = NoRefs

\* Mutant of AttemptFails: the next attempt starts without a disconnect().
AttemptFailsKeepingConsumers(t, fields, s) ==
  /\ st' = s
  /\ pc' = [pc EXCEPT ![t] = "delay"]
  /\ cur' = [cur EXCEPT ![t] = NULL]
  /\ binds' = [binds EXCEPT ![t] = {}]
  /\ UNCHANGED <<dis, client>>

\* An attempt has thrown: the catch block of connectAndStart() up to its first
\* pending call.
AttemptFails(t, fields, s) ==
  /\ DisconnectBegins(t, fields, s)
  /\ pc' = [pc EXCEPT ![t] = IF Held(fields) = {} THEN "delay" ELSE "disc"]
  /\ cur' = [cur EXCEPT ![t] = NULL]
  /\ binds' = [binds EXCEPT ![t] = {}]

\* start(): bind*Events() of every mode is called; a mode whose field is null
\* throws at once, and the other one has begun all the same.
Start(t, fields, s) ==
  LET bound == {fields[m] : m \in Modes} \ {NULL}
  IN  /\ bind' = [c \in Consumers |-> IF c \in bound THEN "subscribe" ELSE bind[c]]
      /\ \/ /\ \E m \in Modes : fields[m] = NULL
            /\ AttemptFails(t, fields, s)
         \/ /\ \A m \in Modes : fields[m] # NULL
            /\ st' = s
            /\ pc' = [pc EXCEPT ![t] = "start"]
            /\ cur' = [cur EXCEPT ![t] = NULL]
            /\ binds' = [binds EXCEPT ![t] = bound]
            /\ UNCHANGED <<dis, client>>

\* Mutant of TaskEnds: reconnect() does not reset isReconnecting.
TaskEndsReconnecting(t, outcome) ==
  /\ pc' = [pc EXCEPT ![t] = "idle"]
  /\ isConnecting' = FALSE
  /\ listen' = IF kind[t] = "run" THEN outcome ELSE listen
  /\ UNCHANGED isReconnecting

\* connectAndStart() is over: its finally block, that of reconnect(), and the
\* callback of run().
TaskEnds(t, outcome) ==
  /\ pc' = [pc EXCEPT ![t] = "idle"]
  /\ isConnecting' = FALSE
  /\ isReconnecting' = (isReconnecting /\ kind[t] # "reconnect")
  /\ listen' = IF kind[t] = "run" THEN outcome ELSE listen

----------------------------------------------------------------------------
(* The calls of the framework.                                             *)

\* listen() -> run() -> connectAndStart()
Listen(t) ==
  /\ listen = "not called"
  /\ pc[t] = "idle"
  /\ listen' = "pending"
  /\ isStop' = FALSE
  /\ isConnecting' = TRUE
  /\ kind' = [kind EXCEPT ![t] = "run"]
  /\ Attempt(t, ref)
  /\ UNCHANGED <<isReconnecting, ref, binds, dis, closing, optStop, status, brokerUp>>

\* beforeDestroy() of KafkaServerStatusService: stop() of the options builder
\* and close() of the server.
Close ==
  /\ closing = "open"
  /\ optStop' = TRUE
  /\ isStop' = TRUE
  /\ DisconnectBegins(Closer, ref, st)
  /\ closing' = IF Held(ref) = {} THEN "closed" ELSE "closing"
  /\ UNCHANGED <<isConnecting, isReconnecting, ref, taskVars, bind, listen, status, brokerUp>>

CloseReturns ==
  /\ closing = "closing"
  /\ DisconnectReturns(Closer)
  /\ client' = FALSE
  /\ closing' = "closed"
  /\ UNCHANGED <<flags, taskVars, dis, st, bind, optStop, listen, status, brokerUp>>

----------------------------------------------------------------------------
(* connectAndStart().                                                      *)

\* consumer.connect() of the eachMessage consumer resolves.  When close() has
\* nulled the client meanwhile, the batch consumer cannot be created.
EachConnected(t) ==
  LET fields == [ref EXCEPT ![EACH] = cur[t]]
      now    == [st EXCEPT ![cur[t]] = "connected"]
  IN  /\ pc[t] = "connectEach"
      /\ brokerUp
      /\ status' = "CONNECTED"
      /\ ref' = fields
      /\ \/ /\ BATCH \in Modes /\ client
            /\ CreateConsumer(t, "connectBatch", fields, now)
            /\ UNCHANGED <<binds, dis, client>>
         \/ /\ BATCH \in Modes /\ ~client
            /\ AttemptFails(t, fields, now)
            /\ UNCHANGED bind
         \/ /\ BATCH \notin Modes
            /\ Start(t, fields, now)
      /\ UNCHANGED <<flags, kind, closing, optStop, listen, brokerUp>>

BatchConnected(t) ==
  LET fields == [ref EXCEPT ![BATCH] = cur[t]]
  IN  /\ pc[t] = "connectBatch"
      /\ brokerUp
      /\ status' = "CONNECTED"
      /\ ref' = fields
      /\ Start(t, fields, [st EXCEPT ![cur[t]] = "connected"])
      /\ UNCHANGED <<flags, kind, closing, optStop, listen, brokerUp>>

\* consumer.connect() rejects.
ConnectFails(t) ==
  /\ pc[t] \in {"connectEach", "connectBatch"}
  /\ ~brokerUp
  /\ AttemptFails(t, ref, [st EXCEPT ![cur[t]] = "off"])
  /\ UNCHANGED <<flags, ref, kind, bind, closing, optStop, listen, status, brokerUp>>

\* The Promise.all() of start() rejects with the first bind*Events() that fails.
StartFails(t) ==
  /\ pc[t] = "start"
  /\ \E c \in binds[t] : bind[c] = "failed"
  /\ AttemptFails(t, ref, st)
  /\ UNCHANGED <<flags, ref, kind, bind, closing, optStop, listen, status, brokerUp>>

\* disconnect() in the catch block returns; delay(startTimeout) is pending.
FailedAttemptDisconnected(t) ==
  /\ pc[t] = "disc"
  /\ DisconnectReturns(t)
  /\ client' = FALSE
  /\ pc' = [pc EXCEPT ![t] = "delay"]
  /\ UNCHANGED <<flags, kind, cur, binds, dis, st, bind, closing, optStop, listen, status, brokerUp>>

\* Mutant of GiveUp: the first failed attempt ends listen(), stopped or not.
GiveUpAtOnce(t) ==
  /\ pc[t] = "delay"
  /\ TaskEnds(t, "failed")
  /\ UNCHANGED <<isStop, client, ref, kind, cur, binds, dis, st, bind, closing, optStop, status, brokerUp>>

\* delay() is over and the server is stopped: the error is thrown.
GiveUp(t) ==
  /\ pc[t] = "delay"
  /\ isStop
  /\ TaskEnds(t, "failed")
  /\ UNCHANGED <<isStop, client, ref, kind, cur, binds, dis, st, bind, closing, optStop, status, brokerUp>>

\* Mutant of Retry: isStop is not looked at after the delay.
RetryWhenStopped(t) ==
  /\ pc[t] = "delay"
  /\ Attempt(t, ref)
  /\ UNCHANGED <<flags, ref, kind, binds, dis, closing, optStop, listen, status, brokerUp>>

\* delay() is over: connection retry.
Retry(t) ==
  /\ pc[t] = "delay"
  /\ ~isStop
  /\ Attempt(t, ref)
  /\ UNCHANGED <<flags, ref, kind, binds, dis, closing, optStop, listen, status, brokerUp>>

\* reconnect() after its disconnect(): connectAndStart() loops unless stopped.
ReconnectDisconnected(t) ==
  /\ pc[t] = "reconnectDisc"
  /\ DisconnectReturns(t)
  /\ \/ /\ isStop
        /\ client' = FALSE
        /\ TaskEnds(t, "silent")
        /\ UNCHANGED <<isStop, cur, st, bind>>
     \/ /\ ~isStop
        /\ isConnecting' = TRUE
        /\ Attempt(t, NoRefs)
        /\ UNCHANGED <<isStop, isReconnecting, listen>>
  /\ UNCHANGED <<kind, binds, dis, closing, optStop, status, brokerUp>>

----------------------------------------------------------------------------
(* bind*Events() of a consumer, and the events of kafkajs.  A bind whose    *)
(* attempt has failed meanwhile goes on: nothing cancels it.               *)

\* subscribe() resolves: the ready listeners are set and run() is called.  On
\* a consumer that is disconnected (or about to be) run() throws, or brings it
\* back when ReviveOnRun.
Subscribed(c) ==
  /\ bind[c] = "subscribe"
  /\ brokerUp
  /\ \/ /\ st[c] = "connected" \/ ReviveOnRun
        /\ bind' = [bind EXCEPT ![c] = "run"]
        /\ st' = [st EXCEPT ![c] = "joining"]
        /\ dis' = [w \in Waiters |-> dis[w] \ {c}]
     \/ /\ st[c] # "connected"
        /\ bind' = [bind EXCEPT ![c] = "failed"]
        /\ UNCHANGED <<st, dis>>
  /\ UNCHANGED <<flags, client, ref, taskVars, closing, optStop, listen, status, brokerUp>>

\* subscribe() rejects.
SubscribeFails(c) ==
  /\ bind[c] = "subscribe"
  /\ ~brokerUp
  /\ bind' = [bind EXCEPT ![c] = "failed"]
  /\ UNCHANGED <<flags, client, ref, taskVars, dis, st, closing, optStop, listen, status, brokerUp>>

\* GROUP_JOIN: the ready promise of a starting consumer resolves, and the last
\* one of an attempt lets start() and connectAndStart() return.
GroupJoin(c) ==
  /\ st[c] = "joining"
  /\ brokerUp
  /\ st' = [st EXCEPT ![c] = "joined"]
  /\ status' = "CONNECTED"
  /\ bind' = [bind EXCEPT ![c] = IF @ = "run" THEN "done" ELSE @]
  /\ \/ \E t \in Tasks :
          /\ pc[t] = "start"
          /\ c \in binds[t]
          /\ \A d \in binds[t] : bind'[d] = "done"
          /\ binds' = [binds EXCEPT ![t] = {}]
          /\ TaskEnds(t, IF isStop THEN "silent" ELSE "started")
     \/ /\ \A t \in Tasks : pc[t] = "start" /\ c \in binds[t] =>
                              \E d \in binds[t] : bind'[d] # "done"
        /\ UNCHANGED <<pc, binds, isConnecting, isReconnecting, listen>>
  /\ UNCHANGED <<isStop, client, ref, kind, cur, dis, closing, optStop, brokerUp>>

\* REBALANCING of a running consumer, and the GROUP_JOIN that ends it.
Rebalance(c) ==
  /\ st[c] = "joined"
  /\ status' \in {"REBALANCING", "CONNECTED"}
  /\ UNCHANGED <<flags, client, ref, taskVars, dis, st, bind, closing, optStop, listen, brokerUp>>

\* Mutant of OnCrash: isConnecting does not keep reconnect() from starting.
OnCrashWhileConnecting(restart, s) ==
  \/ /\ ~restart /\ ~isStop /\ ~isReconnecting
     /\ isReconnecting' = TRUE
     /\ \E t \in Tasks :
          /\ pc[t] = "idle"
          /\ pc' = [pc EXCEPT ![t] = "reconnectDisc"]
          /\ kind' = [kind EXCEPT ![t] = "reconnect"]
          /\ DisconnectBegins(t, ref, s)
  \/ /\ restart \/ isStop \/ isReconnecting
     /\ st' = s
     /\ UNCHANGED <<isReconnecting, pc, kind, dis, client>>

\* The CRASH listener: reconnect() up to its first pending call.
OnCrash(restart, s) ==
  \/ /\ ~restart /\ ~isStop /\ ~isConnecting /\ ~isReconnecting
     /\ isReconnecting' = TRUE
     /\ \E t \in Tasks :
          /\ pc[t] = "idle"
          /\ pc' = [pc EXCEPT ![t] = "reconnectDisc"]
          /\ kind' = [kind EXCEPT ![t] = "reconnect"]
          /\ DisconnectBegins(t, ref, s)
  \/ /\ restart \/ isStop \/ isConnecting \/ isReconnecting
     /\ st' = s
     /\ UNCHANGED <<isReconnecting, pc, kind, dis, client>>

\* Mutant of Crash: a crash that kafkajs will restart does not change the status.
CrashUnnoticed(c, restart) ==
  /\ st[c] \in {"joining", "joined"}
  /\ ~brokerUp
  /\ restart => ~optStop
  /\ status' = IF restart THEN status ELSE "CRASHED"
  /\ bind' = [bind EXCEPT ![c] = IF @ = "run" THEN "failed" ELSE @]
  /\ OnCrash(restart, [st EXCEPT ![c] = IF restart THEN "restarting" ELSE "dead"])
  /\ UNCHANGED <<isStop, isConnecting, ref, cur, binds, closing, optStop, listen, brokerUp>>

\* A consumer crashes: kafkajs disconnects it (STOP), asks restartOnFailure()
\* whether to restart it, and emits CRASH.
Crash(c, restart) ==
  /\ st[c] \in {"joining", "joined"}
  /\ ~brokerUp
  /\ restart => ~optStop
  /\ status' = "CRASHED"
  /\ bind' = [bind EXCEPT ![c] = IF @ = "run" THEN "failed" ELSE @]
  /\ OnCrash(restart, [st EXCEPT ![c] = IF restart THEN "restarting" ELSE "dead"])
  /\ UNCHANGED <<isStop, isConnecting, ref, cur, binds, closing, optStop, listen, brokerUp>>

\* kafkajs restarts a crashed consumer by itself.
SelfRestart(c) ==
  /\ st[c] = "restarting"
  /\ st' = [st EXCEPT ![c] = "joining"]
  /\ UNCHANGED <<flags, client, ref, taskVars, dis, bind, closing, optStop, listen, status, brokerUp>>

\* consumer.disconnect() resolves (STOP, then DISCONNECT) or rejects, which
\* ends the Promise.all() of every disconnect() waiting for it.
ConsumerDisconnected(c) ==
  /\ st[c] = "stopping"
  /\ st' = [st EXCEPT ![c] = "off"]
  /\ bind' = [bind EXCEPT ![c] = IF @ = "run" THEN "failed" ELSE @]
  /\ \/ /\ status' = "DISCONNECTED"
        /\ dis' = [w \in Waiters |-> dis[w] \ {c}]
     \/ /\ ~brokerUp
        /\ dis' = [w \in Waiters |-> IF c \in dis[w] THEN {} ELSE dis[w]]
        /\ UNCHANGED status
  /\ UNCHANGED <<flags, client, ref, taskVars, closing, optStop, listen, brokerUp>>

\* The environment: the broker becomes reachable or unreachable.
BrokerChanges ==
  /\ brokerUp' = ~brokerUp
  /\ UNCHANGED <<flags, client, ref, taskVars, dis, st, bind, closing, optStop, listen, status>>

----------------------------------------------------------------------------
TaskStep(t) ==
  \/ EachConnected(t) \/ BatchConnected(t) \/ ConnectFails(t)
  \/ StartFails(t) \/ FailedAttemptDisconnected(t)
  \/ GiveUp(t) \/ Retry(t) \/ ReconnectDisconnected(t)

\* The answers kafkajs owes: to subscribe(), to the join of a group, to
\* disconnect(), and the restart it has announced.
ConsumerStep(c) ==
  \/ Subscribed(c) \/ SubscribeFails(c)
  \/ GroupJoin(c) \/ (st[c] = "joining" /\ \E restart \in BOOLEAN : Crash(c, restart))
  \/ SelfRestart(c) \/ ConsumerDisconnected(c)

Next ==
  \/ \E t \in Tasks : Listen(t) \/ TaskStep(t)
  \/ \E c \in Consumers :
       ConsumerStep(c) \/ Rebalance(c) \/ \E restart \in BOOLEAN : Crash(c, restart)
  \/ Close \/ CloseReturns
  \/ BrokerChanges

Spec == Init /\ [][Next]_vars

\* Pending calls are answered: kafkajs bounds its requests with timeouts and the
\* event loop runs every callback.  Nothing is assumed of the broker, of
\* crashes or of the caller of close().
Fairness ==
  /\ \A t \in Tasks : WF_vars(TaskStep(t))
  /\ \A c \in Consumers : WF_vars(ConsumerStep(c))
  /\ WF_vars(CloseReturns)

FairSpec == Spec /\ Fairness

----------------------------------------------------------------------------
(* Properties.                                                             *)

Busy(t) == pc[t] # "idle"

\* Two activations never run connectAndStart() or reconnect() at the same time:
\* isConnecting and isReconnecting keep every CRASH event that arrives during
\* one from starting another, whatever consumers crash and when.
OneConnector == \A s, t \in Tasks : Busy(s) /\ Busy(t) => s = t

\* Once close() has set isStop, no consumer is created: not by a retry, nor by a
\* reconnect(), nor by the second createConsumer() of a connect() that close()
\* has overtaken.
NoCreateAfterStop ==
  [][\A c \in Consumers : isStop /\ isStop' /\ st[c] # "connecting" => st'[c] # "connecting"]_vars

Live(c) == st[c] \in {"connected", "joining", "joined", "restarting"}

\* Until close(), every live consumer is one the fields refer to, so a later
\* disconnect() will stop it: no failed attempt leaves one behind.
NoLeak == closing = "open" => \A c \in Consumers : Live(c) => c \in Held(ref)

\* The server runs and no (re)connection is under way.
Settled == /\ listen = "started" /\ ~isStop
           /\ \A t \in Tasks : ~Busy(t)

\* A settled server has a consumer for every mode, and kafkajs has not given any
\* of them up: no crash without restart goes unnoticed.
SettledMeansServing ==
  Settled => \A m \in Modes : ref[m] # NULL /\ Live(ref[m])

\* The health indicator is not up while a settled server's consumer is down.
HealthTellsCrash ==
  closing = "open" /\ (\E m \in Modes : ref[m] # NULL /\ st[ref[m]] \in {"dead", "restarting"})
    => status \notin {"CONNECTED", "REBALANCING"}

\* close() returned and nothing is under way: nothing consumes messages.
Consuming(c) == st[c] \in {"joining", "joined", "restarting"}
ClosedMeansQuiet ==
  closing = "closed" /\ (\A t \in Tasks : ~Busy(t)) => \A c \in Consumers : ~Consuming(c)

\* Once the broker answers for good, the server settles for good or is stopped.
Recovers ==
  <>[]brokerUp => <>[](Settled \/ closing # "open" \/ listen = "not called")

\* close() returns, and the activations it overtakes come to their end.
CloseEnds ==
  /\ (closing = "closing") ~> (closing = "closed")
  /\ [](isStop => <>(~isStop \/ \A t \in Tasks : ~Busy(t)))
=============================================================================
