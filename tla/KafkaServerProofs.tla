------------------------- MODULE KafkaServerProofs -------------------------
(* Theorems about KafkaServer for any sets of consumers, activations and    *)
(* modes: type correctness, that the flags of KafkaServerBase admit one     *)
(* activation at a time, that a stopped server creates no consumer, that no *)
(* live consumer is leaked, and, for a server with one mode, that a settled *)
(* server serves and that the status tells of a crash.                      *)
EXTENDS KafkaServer, TLAPS

Fields == [{EACH, BATCH} -> Consumers \cup {NULL}]

\* The consumers held by values of the two fields are consumers.
LEMMA HeldType ==
  ASSUME NEW fields \in Fields
  PROVE  Held(fields) \subseteq Consumers
BY DEF Fields, Held

LEMMA FieldsUpdate ==
  ASSUME NEW fields \in Fields, NEW m \in {EACH, BATCH}, NEW c \in Consumers \cup {NULL}
  PROVE  [fields EXCEPT ![m] = c] \in Fields
BY DEF Fields

LEMMA NoRefsType == NoRefs \in Fields
BY DEF NoRefs, Fields

Places == {"idle", "connectEach", "connectBatch", "start", "disc", "delay", "reconnectDisc"}
BindStates == {"none", "subscribe", "run", "done", "failed"}

\* What the shared pieces of the handlers leave well typed.
LEMMA CreateConsumerType ==
  ASSUME TypeOK, NEW t \in Tasks, NEW fields \in Fields,
         NEW s \in [Consumers -> ConsumerStates],
         NEW where \in {"connectEach", "connectBatch"},
         CreateConsumer(t, where, fields, s)
  PROVE  /\ st' \in [Consumers -> ConsumerStates]
         /\ bind' \in [Consumers -> BindStates]
         /\ cur' \in [Tasks -> Consumers \cup {NULL}]
         /\ pc' \in [Tasks -> Places]
<1>1. PICK c \in Consumers :
        /\ st' = [s EXCEPT ![c] = "connecting"]
        /\ bind' = [bind EXCEPT ![c] = "none"]
        /\ cur' = [cur EXCEPT ![t] = c]
        /\ pc' = [pc EXCEPT ![t] = where]
  BY DEF CreateConsumer
<1>2. st' \in [Consumers -> ConsumerStates]
  BY <1>1 DEF ConsumerStates
<1>3. bind' \in [Consumers -> BindStates]
  BY <1>1 DEF TypeOK, BindStates
<1>4. cur' \in [Tasks -> Consumers \cup {NULL}]
  BY <1>1 DEF TypeOK
<1>5. pc' \in [Tasks -> Places]
  BY <1>1 DEF TypeOK, Places
<1> QED BY <1>2, <1>3, <1>4, <1>5

LEMMA DisconnectBeginsType ==
  ASSUME TypeOK, NEW w \in Waiters, NEW fields \in Fields,
         NEW s \in [Consumers -> ConsumerStates],
         DisconnectBegins(w, fields, s)
  PROVE  /\ st' \in [Consumers -> ConsumerStates]
         /\ dis' \in [Waiters -> SUBSET Consumers]
         /\ client' \in BOOLEAN
BY HeldType DEF TypeOK, DisconnectBegins, ConsumerStates

LEMMA AttemptType ==
  ASSUME TypeOK, NEW t \in Tasks, NEW fields \in Fields, Attempt(t, fields)
  PROVE  /\ client' \in BOOLEAN
         /\ st' \in [Consumers -> ConsumerStates]
         /\ bind' \in [Consumers -> BindStates]
         /\ cur' \in [Tasks -> Consumers \cup {NULL}]
         /\ pc' \in [Tasks -> Places]
<1>1. st \in [Consumers -> ConsumerStates]
  BY DEF TypeOK
<1>2. PICK where \in {"connectEach", "connectBatch"} : CreateConsumer(t, where, fields, st)
  BY Zenon DEF Attempt
<1>3. client' \in BOOLEAN
  BY DEF Attempt
<1> QED BY <1>1, <1>2, <1>3, CreateConsumerType

LEMMA AttemptFailsType ==
  ASSUME TypeOK, NEW t \in Tasks, NEW fields \in Fields,
         NEW s \in [Consumers -> ConsumerStates],
         AttemptFails(t, fields, s)
  PROVE  /\ st' \in [Consumers -> ConsumerStates]
         /\ dis' \in [Waiters -> SUBSET Consumers]
         /\ client' \in BOOLEAN
         /\ pc' \in [Tasks -> Places]
         /\ cur' \in [Tasks -> Consumers \cup {NULL}]
         /\ binds' \in [Tasks -> SUBSET Consumers]
<1>1. t \in Waiters /\ DisconnectBegins(t, fields, s)
  BY DEF AttemptFails, Waiters
<1>2. pc' \in [Tasks -> Places]
  BY DEF AttemptFails, TypeOK, Places
<1>3. cur' \in [Tasks -> Consumers \cup {NULL}] /\ binds' \in [Tasks -> SUBSET Consumers]
  BY DEF AttemptFails, TypeOK
<1> QED BY <1>1, <1>2, <1>3, DisconnectBeginsType

LEMMA StartType ==
  ASSUME TypeOK, NEW t \in Tasks, NEW fields \in Fields,
         NEW s \in [Consumers -> ConsumerStates],
         Start(t, fields, s)
  PROVE  /\ st' \in [Consumers -> ConsumerStates]
         /\ dis' \in [Waiters -> SUBSET Consumers]
         /\ client' \in BOOLEAN
         /\ pc' \in [Tasks -> Places]
         /\ cur' \in [Tasks -> Consumers \cup {NULL}]
         /\ binds' \in [Tasks -> SUBSET Consumers]
         /\ bind' \in [Consumers -> BindStates]
<1> DEFINE bound == {fields[m] : m \in Modes} \ {NULL}
<1>1. bound \subseteq Consumers
  BY ModesAssumption DEF Fields
<1>2. bind' = [c \in Consumers |-> IF c \in bound THEN "subscribe" ELSE bind[c]]
  BY DEF Start
<1>3. bind' \in [Consumers -> BindStates]
  BY <1>2 DEF TypeOK, BindStates
<1>4. CASE AttemptFails(t, fields, s)
  BY <1>3, <1>4, AttemptFailsType
<1>5. CASE /\ st' = s
           /\ pc' = [pc EXCEPT ![t] = "start"]
           /\ cur' = [cur EXCEPT ![t] = NULL]
           /\ binds' = [binds EXCEPT ![t] = bound]
           /\ UNCHANGED <<dis, client>>
  <2>1. pc' \in [Tasks -> Places]
    BY <1>5 DEF TypeOK, Places
  <2>2. cur' \in [Tasks -> Consumers \cup {NULL}]
    BY <1>5 DEF TypeOK
  <2>3. binds' \in [Tasks -> SUBSET Consumers]
    BY <1>1, <1>5 DEF TypeOK
  <2> QED BY <1>3, <1>5, <2>1, <2>2, <2>3 DEF TypeOK
<1> QED BY <1>4, <1>5 DEF Start

LEMMA TaskEndsType ==
  ASSUME TypeOK, NEW t \in Tasks, NEW outcome \in {"started", "failed", "silent"},
         TaskEnds(t, outcome)
  PROVE  /\ pc' \in [Tasks -> Places]
         /\ isConnecting' \in BOOLEAN
         /\ isReconnecting' \in BOOLEAN
         /\ listen' \in {"not called", "pending", "started", "failed", "silent"}
BY DEF TypeOK, TaskEnds, Places

----------------------------------------------------------------------------
(* Type correctness.                                                       *)

Scalars ==
  /\ isStop \in BOOLEAN /\ isConnecting \in BOOLEAN /\ isReconnecting \in BOOLEAN
  /\ client \in BOOLEAN /\ optStop \in BOOLEAN /\ brokerUp \in BOOLEAN
  /\ closing \in {"open", "closing", "closed"}
  /\ listen \in {"not called", "pending", "started", "failed", "silent"}
  /\ status \in {"CONNECTED", "DISCONNECTED", "REBALANCING", "STOPPED", "CRASHED"}
TaskTypes ==
  /\ pc \in [Tasks -> Places]
  /\ kind \in [Tasks -> {"run", "reconnect"}]
  /\ cur \in [Tasks -> Consumers \cup {NULL}]
  /\ binds \in [Tasks -> SUBSET Consumers]
ConsumerTypes ==
  /\ dis \in [Waiters -> SUBSET Consumers]
  /\ st \in [Consumers -> ConsumerStates]
  /\ bind \in [Consumers -> BindStates]

\* TypeOK by the kind of variable: most handlers change only some of them.
LEMMA TypeParts ==
  /\ TypeOK <=> Scalars /\ ref \in Fields /\ TaskTypes /\ ConsumerTypes
  /\ TypeOK' <=> Scalars' /\ ref' \in Fields /\ TaskTypes' /\ ConsumerTypes'
<1>1. TypeOK <=> Scalars /\ ref \in Fields /\ TaskTypes /\ ConsumerTypes
  BY Zenon DEF TypeOK, Scalars, TaskTypes, ConsumerTypes, Fields, Places, BindStates
<1>2. TypeOK' <=> Scalars' /\ ref' \in Fields /\ TaskTypes' /\ ConsumerTypes'
  BY Zenon DEF TypeOK, Scalars, TaskTypes, ConsumerTypes, Fields, Places, BindStates
<1> QED BY <1>1, <1>2

LEMMA ScalarsKept ==
  ASSUME Scalars, client' \in BOOLEAN, status' \in {status, "CONNECTED"},
         UNCHANGED <<flags, closing, optStop, listen, brokerUp>>
  PROVE  Scalars'
<1>1. UNCHANGED <<isStop, isConnecting, isReconnecting, closing, optStop, listen, brokerUp>>
  BY DEF flags
<1>2. /\ isStop' \in BOOLEAN /\ isConnecting' \in BOOLEAN /\ isReconnecting' \in BOOLEAN
      /\ optStop' \in BOOLEAN /\ brokerUp' \in BOOLEAN
  BY <1>1 DEF Scalars
<1>3. /\ closing' \in {"open", "closing", "closed"}
      /\ listen' \in {"not called", "pending", "started", "failed", "silent"}
      /\ status' \in {"CONNECTED", "DISCONNECTED", "REBALANCING", "STOPPED", "CRASHED"}
  BY <1>1 DEF Scalars
<1> QED BY <1>2, <1>3 DEF Scalars

\* An attempt that fails changes nothing but what AttemptFails says.
LEMMA AttemptFailsKeep ==
  ASSUME TypeOK, NEW t \in Tasks, NEW s \in [Consumers -> ConsumerStates], AttemptFails(t, ref, s),
         UNCHANGED <<flags, ref, kind, bind, closing, optStop, listen, status, brokerUp>>
  PROVE  TypeOK'
<1>1. Scalars /\ ref \in Fields /\ TaskTypes /\ ConsumerTypes
  BY TypeParts
<1>2. /\ st' \in [Consumers -> ConsumerStates]
      /\ dis' \in [Waiters -> SUBSET Consumers]
      /\ client' \in BOOLEAN
      /\ pc' \in [Tasks -> Places]
      /\ cur' \in [Tasks -> Consumers \cup {NULL}]
      /\ binds' \in [Tasks -> SUBSET Consumers]
  BY <1>1, AttemptFailsType
<1>3. Scalars'
  BY <1>1, <1>2, ScalarsKept
<1>4. TaskTypes' /\ ConsumerTypes'
  BY <1>1, <1>2 DEF TaskTypes, ConsumerTypes
<1> QED BY <1>1, <1>3, <1>4, TypeParts

LEMMA TypeTask ==
  ASSUME TypeOK, NEW t \in Tasks, Listen(t) \/ TaskStep(t)
  PROVE  TypeOK'
<1> USE DEF flags, taskVars, Places, BindStates
<1>1. ref \in Fields /\ st \in [Consumers -> ConsumerStates] /\ cur[t] \in Consumers \cup {NULL}
  BY DEF TypeOK, Fields
<1>2. CASE Listen(t)
  BY <1>1, <1>2, AttemptType DEF Listen, TypeOK
<1>3. CASE EachConnected(t)
  <2> DEFINE fields == [ref EXCEPT ![EACH] = cur[t]]
  <2> DEFINE now == [st EXCEPT ![cur[t]] = "connected"]
  <2>1. fields \in Fields
    BY <1>1, FieldsUpdate
  <2>2. now \in [Consumers -> ConsumerStates]
    BY <1>1 DEF ConsumerStates
  <2>3. ref' \in Fields /\ status' = "CONNECTED"
    BY <1>3, <2>1 DEF EachConnected
  <2> HIDE DEF fields, now
  <2>4. CASE CreateConsumer(t, "connectBatch", fields, now) /\ UNCHANGED <<binds, dis, client>>
    <3>1. /\ st' \in [Consumers -> ConsumerStates] /\ bind' \in [Consumers -> BindStates]
          /\ cur' \in [Tasks -> Consumers \cup {NULL}] /\ pc' \in [Tasks -> Places]
      BY <2>1, <2>2, <2>4, CreateConsumerType
    <3>2. kind' = kind /\ UNCHANGED <<flags, closing, optStop, listen, brokerUp>>
      BY <1>3 DEF EachConnected
    <3>3. Scalars'
      BY <2>3, <2>4, <3>2, TypeParts, ScalarsKept DEF Scalars
    <3>4. TaskTypes' /\ ConsumerTypes'
      BY <2>4, <3>1, <3>2, TypeParts DEF TaskTypes, ConsumerTypes
    <3> QED BY <2>3, <3>3, <3>4, TypeParts
  <2>5. CASE AttemptFails(t, fields, now) /\ UNCHANGED bind
    BY <1>3, <2>1, <2>2, <2>3, <2>5, AttemptFailsType DEF EachConnected, TypeOK, Fields
  <2>6. CASE Start(t, fields, now)
    BY <1>3, <2>1, <2>2, <2>3, <2>6, StartType DEF EachConnected, TypeOK, Fields
  <2> QED BY <1>3, <2>4, <2>5, <2>6 DEF EachConnected, fields, now
<1>4. CASE BatchConnected(t)
  <2> DEFINE fields == [ref EXCEPT ![BATCH] = cur[t]]
  <2> DEFINE now == [st EXCEPT ![cur[t]] = "connected"]
  <2>1. fields \in Fields
    BY <1>1, FieldsUpdate
  <2>2. now \in [Consumers -> ConsumerStates]
    BY <1>1 DEF ConsumerStates
  <2>3. Start(t, fields, now)
    BY <1>4 DEF BatchConnected
  <2> QED BY <1>4, <2>1, <2>2, <2>3, StartType DEF BatchConnected, TypeOK, Fields
<1>5. CASE ConnectFails(t)
  <2> DEFINE now == [st EXCEPT ![cur[t]] = "off"]
  <2>1. now \in [Consumers -> ConsumerStates]
    BY <1>1 DEF ConsumerStates
  <2>2. AttemptFails(t, ref, now)
    BY <1>5 DEF ConnectFails
  <2>3. UNCHANGED <<flags, ref, kind, bind, closing, optStop, listen, status, brokerUp>>
    BY <1>5 DEF ConnectFails
  <2> QED BY <1>1, <2>1, <2>2, <2>3, AttemptFailsKeep
<1>6. CASE StartFails(t)
  <2>1. AttemptFails(t, ref, st)
    BY <1>6 DEF StartFails
  <2>2. UNCHANGED <<flags, ref, kind, bind, closing, optStop, listen, status, brokerUp>>
    BY <1>6 DEF StartFails
  <2> QED BY <1>1, <2>1, <2>2, AttemptFailsKeep
<1>7. CASE FailedAttemptDisconnected(t)
  <2>1. /\ ref' = NoRefs /\ client' = FALSE /\ pc' = [pc EXCEPT ![t] = "delay"]
        /\ UNCHANGED <<flags, kind, cur, binds, dis, st, bind, closing, optStop, listen, status, brokerUp>>
    BY <1>7 DEF FailedAttemptDisconnected, DisconnectReturns
  <2>2. Scalars'
    BY <2>1, TypeParts, ScalarsKept
  <2>3. TaskTypes' /\ ConsumerTypes'
    BY <2>1, TypeParts DEF TaskTypes, ConsumerTypes
  <2> QED BY <2>1, <2>2, <2>3, NoRefsType, TypeParts
<1>8. CASE GiveUp(t)
  BY <1>8, TaskEndsType DEF GiveUp, TypeOK
<1>9. CASE Retry(t)
  <2>1. /\ Attempt(t, ref)
        /\ UNCHANGED <<flags, ref, kind, binds, dis, closing, optStop, listen, status, brokerUp>>
    BY <1>9 DEF Retry
  <2>2. /\ client' \in BOOLEAN /\ st' \in [Consumers -> ConsumerStates]
        /\ bind' \in [Consumers -> BindStates] /\ cur' \in [Tasks -> Consumers \cup {NULL}]
        /\ pc' \in [Tasks -> Places]
    BY <1>1, <2>1, AttemptType
  <2>3. Scalars'
    BY <2>1, <2>2, TypeParts, ScalarsKept
  <2>4. TaskTypes' /\ ConsumerTypes'
    BY <2>1, <2>2, TypeParts DEF TaskTypes, ConsumerTypes
  <2> QED BY <1>1, <2>1, <2>3, <2>4, TypeParts
<1>10. CASE ReconnectDisconnected(t)
  <2>1. ref' = NoRefs
    BY <1>10 DEF ReconnectDisconnected, DisconnectReturns
  <2>2. CASE /\ client' = FALSE
             /\ TaskEnds(t, "silent")
             /\ UNCHANGED <<isStop, cur, st, bind>>
    BY <1>10, <2>1, <2>2, NoRefsType, TaskEndsType DEF ReconnectDisconnected, TypeOK, Fields
  <2>3. CASE /\ isConnecting' = TRUE
             /\ Attempt(t, NoRefs)
             /\ UNCHANGED <<isStop, isReconnecting, listen>>
    <3>1. /\ client' \in BOOLEAN /\ st' \in [Consumers -> ConsumerStates]
          /\ bind' \in [Consumers -> BindStates] /\ cur' \in [Tasks -> Consumers \cup {NULL}]
          /\ pc' \in [Tasks -> Places]
      BY <2>3, NoRefsType, AttemptType
    <3>2. UNCHANGED <<kind, binds, dis, closing, optStop, status, brokerUp>>
      BY <1>10 DEF ReconnectDisconnected
    <3>3. Scalars'
      BY <2>3, <3>1, <3>2, TypeParts DEF Scalars
    <3>4. TaskTypes' /\ ConsumerTypes'
      BY <3>1, <3>2, TypeParts DEF TaskTypes, ConsumerTypes
    <3> QED BY <2>1, <3>3, <3>4, NoRefsType, TypeParts
  <2> QED BY <1>10, <2>2, <2>3 DEF ReconnectDisconnected
<1> QED BY <1>2, <1>3, <1>4, <1>5, <1>6, <1>7, <1>8, <1>9, <1>10 DEF TaskStep

\* A step of kafkajs that changes only consumers and the status.
LEMMA TypeConsumerOnly ==
  ASSUME TypeOK,
         st' \in [Consumers -> ConsumerStates],
         bind' \in [Consumers -> BindStates],
         dis' \in [Waiters -> SUBSET Consumers],
         status' \in {status, "DISCONNECTED"},
         UNCHANGED <<flags, client, ref, taskVars, closing, optStop, listen, brokerUp>>
  PROVE  TypeOK'
<1>1. UNCHANGED <<isStop, isConnecting, isReconnecting, client, ref, pc, kind, cur, binds>>
  BY DEF flags, taskVars
<1>2. UNCHANGED <<closing, optStop, listen, brokerUp>>
  OBVIOUS
<1>3. status' \in {"CONNECTED", "DISCONNECTED", "REBALANCING", "STOPPED", "CRASHED"}
  BY DEF TypeOK
<1>4. /\ isStop' \in BOOLEAN /\ isConnecting' \in BOOLEAN /\ isReconnecting' \in BOOLEAN
      /\ client' \in BOOLEAN /\ optStop' \in BOOLEAN /\ brokerUp' \in BOOLEAN
  BY <1>1, <1>2 DEF TypeOK
<1>5. /\ ref' \in [{EACH, BATCH} -> Consumers \cup {NULL}]
      /\ pc' \in [Tasks -> {"idle", "connectEach", "connectBatch", "start", "disc",
                           "delay", "reconnectDisc"}]
      /\ kind' \in [Tasks -> {"run", "reconnect"}]
      /\ cur' \in [Tasks -> Consumers \cup {NULL}]
      /\ binds' \in [Tasks -> SUBSET Consumers]
  BY <1>1 DEF TypeOK
<1>6. /\ closing' \in {"open", "closing", "closed"}
      /\ listen' \in {"not called", "pending", "started", "failed", "silent"}
  BY <1>2 DEF TypeOK
<1> QED BY <1>3, <1>4, <1>5, <1>6 DEF TypeOK, BindStates

\* A disconnect() stops waiting for some consumers.
LEMMA FewerAwaited ==
  ASSUME NEW d \in [Waiters -> SUBSET Consumers], NEW w \in Waiters, NEW C
  PROVE  d[w] \ C \in SUBSET Consumers
OBVIOUS

LEMMA TypeConsumer ==
  ASSUME TypeOK, NEW c \in Consumers,
         ConsumerStep(c) \/ Rebalance(c) \/ \E restart \in BOOLEAN : Crash(c, restart)
  PROVE  TypeOK'
<1> USE DEF BindStates
<1>1. CASE Subscribed(c)
  <2>1. st' \in [Consumers -> ConsumerStates]
    BY <1>1 DEF Subscribed, TypeOK, ConsumerStates
  <2>2. bind' \in [Consumers -> BindStates]
    BY <1>1 DEF Subscribed, TypeOK
  <2>3. dis \in [Waiters -> SUBSET Consumers]
    BY DEF TypeOK
  <2>4. dis' = dis \/ dis' = [w \in Waiters |-> dis[w] \ {c}]
    BY <1>1 DEF Subscribed
  <2>5. dis' \in [Waiters -> SUBSET Consumers]
    BY <2>3, <2>4, FewerAwaited
  <2>6. UNCHANGED <<flags, client, ref, taskVars, closing, optStop, listen, status, brokerUp>>
    BY <1>1 DEF Subscribed
  <2> QED BY <2>1, <2>2, <2>5, <2>6, TypeConsumerOnly
<1>2. CASE SubscribeFails(c)
  <2>1. bind' \in [Consumers -> BindStates]
    BY <1>2 DEF SubscribeFails, TypeOK
  <2>2. UNCHANGED <<flags, client, ref, taskVars, dis, st, closing, optStop, listen, status, brokerUp>>
    BY <1>2 DEF SubscribeFails
  <2>3. st \in [Consumers -> ConsumerStates] /\ dis \in [Waiters -> SUBSET Consumers]
    BY DEF TypeOK
  <2> QED BY <2>1, <2>2, <2>3, TypeConsumerOnly
<1>3. CASE GroupJoin(c)
  <2>1. /\ st' \in [Consumers -> ConsumerStates]
        /\ bind' \in [Consumers -> BindStates]
        /\ status' = "CONNECTED"
        /\ UNCHANGED <<isStop, client, ref, kind, cur, dis, closing, optStop, brokerUp>>
    BY <1>3 DEF GroupJoin, TypeOK, ConsumerStates
  <2>2. CASE UNCHANGED <<pc, binds, isConnecting, isReconnecting, listen>>
    <3>1. Scalars'
      BY <2>1, <2>2, TypeParts DEF Scalars
    <3>2. TaskTypes' /\ ConsumerTypes'
      BY <2>1, <2>2, TypeParts DEF TaskTypes, ConsumerTypes
    <3> QED BY <2>1, <3>1, <3>2, TypeParts
  <2>3. CASE \E t \in Tasks : /\ binds' = [binds EXCEPT ![t] = {}]
                              /\ TaskEnds(t, IF isStop THEN "silent" ELSE "started")
    <3>1. PICK t \in Tasks : /\ binds' = [binds EXCEPT ![t] = {}]
                             /\ TaskEnds(t, IF isStop THEN "silent" ELSE "started")
      BY <2>3
    <3>2. PICK outcome \in {"started", "silent"} : TaskEnds(t, outcome)
      BY <3>1, Zenon
    <3> QED BY <2>1, <3>1, <3>2, TaskEndsType DEF TypeOK, Places
  <2> QED BY <1>3, <2>2, <2>3 DEF GroupJoin
<1>4. CASE Rebalance(c)
  <2>1. /\ status' \in {"REBALANCING", "CONNECTED"}
        /\ UNCHANGED <<flags, client, ref, taskVars, dis, st, bind, closing, optStop, listen, brokerUp>>
    BY <1>4 DEF Rebalance
  <2>2. Scalars'
    BY <2>1, TypeParts DEF Scalars, flags
  <2>3. TaskTypes' /\ ConsumerTypes'
    BY <2>1, TypeParts DEF TaskTypes, ConsumerTypes, taskVars
  <2> QED BY <2>1, <2>2, <2>3, TypeParts
<1>5. ASSUME NEW restart \in BOOLEAN, Crash(c, restart)
      PROVE  TypeOK'
  <2> DEFINE now == [st EXCEPT ![c] = IF restart THEN "restarting" ELSE "dead"]
  <2>1. now \in [Consumers -> ConsumerStates]
    BY DEF TypeOK, ConsumerStates
  <2>2. /\ bind' \in [Consumers -> BindStates]
        /\ status' = "CRASHED"
        /\ UNCHANGED <<isStop, isConnecting, ref, cur, binds, closing, optStop, listen, brokerUp>>
    BY <1>5 DEF Crash, TypeOK
  <2>3. OnCrash(restart, now)
    BY <1>5 DEF Crash
  <2> HIDE DEF now
  <2>4. CASE st' = now /\ UNCHANGED <<isReconnecting, pc, kind, dis, client>>
    <3>1. Scalars'
      BY <2>2, <2>4, TypeParts DEF Scalars
    <3>2. TaskTypes' /\ ConsumerTypes'
      BY <2>1, <2>2, <2>4, TypeParts DEF TaskTypes, ConsumerTypes
    <3> QED BY <2>2, <3>1, <3>2, TypeParts
  <2>5. CASE /\ isReconnecting' = TRUE
             /\ \E t \in Tasks : /\ pc' = [pc EXCEPT ![t] = "reconnectDisc"]
                                 /\ kind' = [kind EXCEPT ![t] = "reconnect"]
                                 /\ DisconnectBegins(t, ref, now)
    <3>1. PICK t \in Tasks : /\ pc' = [pc EXCEPT ![t] = "reconnectDisc"]
                             /\ kind' = [kind EXCEPT ![t] = "reconnect"]
                             /\ DisconnectBegins(t, ref, now)
      BY <2>5
    <3>2. t \in Waiters /\ ref \in Fields
      BY DEF Waiters, TypeOK, Fields
    <3>3. pc' \in [Tasks -> Places] /\ kind' \in [Tasks -> {"run", "reconnect"}]
      BY <3>1 DEF TypeOK, Places
    <3> QED BY <2>1, <2>2, <2>5, <3>1, <3>2, <3>3, DisconnectBeginsType DEF TypeOK, Places
  <2> QED BY <2>3, <2>4, <2>5 DEF OnCrash
<1>6. CASE SelfRestart(c)
  <2>1. st' \in [Consumers -> ConsumerStates]
    BY <1>6 DEF SelfRestart, TypeOK, ConsumerStates
  <2>2. UNCHANGED <<flags, client, ref, taskVars, dis, bind, closing, optStop, listen, status, brokerUp>>
    BY <1>6 DEF SelfRestart
  <2>3. bind \in [Consumers -> BindStates] /\ dis \in [Waiters -> SUBSET Consumers]
    BY DEF TypeOK
  <2> QED BY <2>1, <2>2, <2>3, TypeConsumerOnly
<1>7. CASE ConsumerDisconnected(c)
  <2>1. st' \in [Consumers -> ConsumerStates]
    BY <1>7 DEF ConsumerDisconnected, TypeOK, ConsumerStates
  <2>2. bind' \in [Consumers -> BindStates]
    BY <1>7 DEF ConsumerDisconnected, TypeOK
  <2>3. dis \in [Waiters -> SUBSET Consumers]
    BY DEF TypeOK
  <2>4. \/ dis' = [w \in Waiters |-> dis[w] \ {c}]
        \/ dis' = [w \in Waiters |-> IF c \in dis[w] THEN {} ELSE dis[w]]
    BY <1>7 DEF ConsumerDisconnected
  <2>5. dis' \in [Waiters -> SUBSET Consumers]
    BY <2>3, <2>4, FewerAwaited
  <2>6. status' \in {status, "DISCONNECTED"}
    BY <1>7 DEF ConsumerDisconnected
  <2>7. UNCHANGED <<flags, client, ref, taskVars, closing, optStop, listen, brokerUp>>
    BY <1>7 DEF ConsumerDisconnected
  <2> QED BY <2>1, <2>2, <2>5, <2>6, <2>7, TypeConsumerOnly
<1> QED BY <1>1, <1>2, <1>3, <1>4, <1>5, <1>6, <1>7 DEF ConsumerStep

LEMMA TypeRest ==
  ASSUME TypeOK, Close \/ CloseReturns \/ BrokerChanges \/ UNCHANGED vars
  PROVE  TypeOK'
<1> USE DEF flags, taskVars
<1>1. CASE Close
  <2>1. /\ Closer \in Waiters /\ ref \in Fields /\ st \in [Consumers -> ConsumerStates]
        /\ DisconnectBegins(Closer, ref, st)
    BY <1>1 DEF Close, Waiters, TypeOK, Fields
  <2> QED BY <1>1, <2>1, DisconnectBeginsType DEF Close, TypeOK
<1>2. CASE CloseReturns
  BY <1>2, NoRefsType DEF CloseReturns, DisconnectReturns, TypeOK, Fields
<1>3. CASE BrokerChanges
  <2>1. /\ brokerUp' \in BOOLEAN
        /\ UNCHANGED <<flags, client, ref, taskVars, dis, st, bind, closing, optStop, listen, status>>
    BY <1>3 DEF BrokerChanges
  <2>2. Scalars'
    BY <2>1, TypeParts DEF Scalars
  <2>3. TaskTypes' /\ ConsumerTypes'
    BY <2>1, TypeParts DEF TaskTypes, ConsumerTypes
  <2> QED BY <2>1, <2>2, <2>3, TypeParts
<1>4. CASE UNCHANGED vars
  <2>1. /\ UNCHANGED <<isStop, isConnecting, isReconnecting, client>>
        /\ UNCHANGED <<optStop, brokerUp>>
    BY <1>4 DEF vars
  <2>2. UNCHANGED <<ref, pc, kind, cur, binds>>
    BY <1>4 DEF vars
  <2>3. UNCHANGED <<dis, st, bind, closing, listen, status>>
    BY <1>4 DEF vars
  <2>4. /\ isStop' \in BOOLEAN /\ isConnecting' \in BOOLEAN /\ isReconnecting' \in BOOLEAN
        /\ client' \in BOOLEAN /\ optStop' \in BOOLEAN /\ brokerUp' \in BOOLEAN
    BY <2>1 DEF TypeOK
  <2> QED BY <2>2, <2>3, <2>4 DEF TypeOK
<1> QED BY <1>1, <1>2, <1>3, <1>4

LEMMA TypeInit == Init => TypeOK
<1> SUFFICES ASSUME Init PROVE TypeOK
  OBVIOUS
<1>1. ref \in [{EACH, BATCH} -> Consumers \cup {NULL}]
  BY DEF Init
<1>2. /\ pc \in [Tasks -> Places]
      /\ kind \in [Tasks -> {"run", "reconnect"}]
      /\ cur \in [Tasks -> Consumers \cup {NULL}]
      /\ binds \in [Tasks -> SUBSET Consumers]
  BY DEF Init, Places
<1>3. /\ dis \in [Waiters -> SUBSET Consumers]
      /\ st \in [Consumers -> ConsumerStates]
      /\ bind \in [Consumers -> BindStates]
  BY DEF Init, ConsumerStates, BindStates
<1> QED BY <1>1, <1>2, <1>3 DEF Init, TypeOK, Places, BindStates

LEMMA TypeStep == TypeOK /\ [Next]_vars => TypeOK'
BY TypeTask, TypeConsumer, TypeRest DEF Next

\* Every variable keeps its type, for any number of consumers and activations.
THEOREM TypeCorrect == Spec => []TypeOK
BY TypeInit, TypeStep, PTL DEF Spec

----------------------------------------------------------------------------
(* One activation at a time.  OneConnector is not inductive: the flags have *)
(* to tell of every activation, a server that was never started must have   *)
(* no consumer that could crash, and for NoCreateAfterStop a connect() in   *)
(* progress must find close() with nothing to wait for.                     *)

NoConsumers(fields) == \A m \in {EACH, BATCH} : fields[m] = NULL

FlagsTell ==
  \A t \in Tasks :
    /\ pc[t] = "reconnectDisc" => kind[t] = "reconnect"
    /\ Busy(t) /\ kind[t] = "reconnect" => isReconnecting
    /\ Busy(t) /\ pc[t] # "reconnectDisc" => isConnecting

BeforeListen ==
  listen = "not called" =>
    /\ \A t \in Tasks : ~Busy(t)
    /\ \A c \in Consumers : st[c] = "off" /\ bind[c] = "none"
    /\ NoConsumers(ref)

ConnectAlone ==
  \A t \in Tasks :
    /\ pc[t] \in {"connectEach", "delay"} => NoConsumers(ref)
    /\ pc[t] = "connectEach" /\ isStop => ~client

ControlInv == OneConnector /\ FlagsTell /\ BeforeListen /\ ConnectAlone

LEMMA HeldNone ==
  ASSUME NEW fields
  PROVE  Held(fields) = {} <=> NoConsumers(fields)
BY DEF Held, NoConsumers

LEMMA ControlInit == Init => ControlInv
<1> SUFFICES ASSUME Init PROVE ControlInv
  OBVIOUS
<1>1. \A t \in Tasks : ~Busy(t) /\ pc[t] = "idle"
  BY DEF Init, Busy
<1>2. NoConsumers(ref) /\ \A c \in Consumers : st[c] = "off" /\ bind[c] = "none"
  BY DEF Init, NoConsumers
<1> QED BY <1>1, <1>2 DEF ControlInv, OneConnector, FlagsTell, BeforeListen, ConnectAlone

\* Where the shared pieces send the activation t; the others stay where they are.
Moves(t, places) ==
  /\ pc'[t] \in places
  /\ \A s \in Tasks \ {t} : pc'[s] = pc[s]

LEMMA AttemptMoves ==
  ASSUME TypeOK, NEW t \in Tasks, NEW fields, Attempt(t, fields)
  PROVE  Moves(t, {"connectEach", "connectBatch"})
<1>1. PICK where \in {"connectEach", "connectBatch"} : pc' = [pc EXCEPT ![t] = where]
  BY Zenon DEF Attempt, CreateConsumer
<1> QED BY <1>1 DEF TypeOK, Moves

LEMMA AttemptFailsMoves ==
  ASSUME TypeOK, NEW t \in Tasks, NEW fields, NEW s, AttemptFails(t, fields, s)
  PROVE  /\ Moves(t, {"disc", "delay"})
         /\ pc'[t] = "delay" => NoConsumers(fields)
BY HeldNone DEF AttemptFails, TypeOK, Moves

LEMMA StartMoves ==
  ASSUME TypeOK, NEW t \in Tasks, NEW fields, NEW s, Start(t, fields, s)
  PROVE  /\ Moves(t, {"disc", "delay", "start"})
         /\ pc'[t] = "delay" => NoConsumers(fields)
<1>1. CASE AttemptFails(t, fields, s)
  BY <1>1, AttemptFailsMoves DEF Moves
<1>2. CASE pc' = [pc EXCEPT ![t] = "start"]
  BY <1>2 DEF TypeOK, Moves
<1> QED BY <1>1, <1>2 DEF Start

LEMMA TaskEndsMoves ==
  ASSUME TypeOK, NEW t \in Tasks, NEW outcome, TaskEnds(t, outcome)
  PROVE  Moves(t, {"idle"})
BY DEF TaskEnds, TypeOK, Moves

\* A step of the running activation, in terms of the control state alone.
TaskControl(t) ==
  /\ Busy(t)
  /\ Moves(t, {"idle", "connectEach", "connectBatch", "start", "disc", "delay"})
  /\ UNCHANGED <<isStop, kind>>
  /\ Busy(t)' => isConnecting' /\ isReconnecting' = isReconnecting
  /\ listen # "not called" => listen' # "not called"
  /\ pc'[t] \in {"connectEach", "delay"} => NoConsumers(ref)'
  /\ pc'[t] = "connectEach" => ~isStop

LEMMA TaskStepControl ==
  ASSUME TypeOK, ControlInv, NEW t \in Tasks, TaskStep(t)
  PROVE  TaskControl(t)
<1> USE DEF flags, Busy
<1>1. CASE EachConnected(t)
  <2> DEFINE fields == [ref EXCEPT ![EACH] = cur[t]]
  <2> DEFINE now == [st EXCEPT ![cur[t]] = "connected"]
  <2>1. pc[t] = "connectEach" /\ ref' = fields /\ UNCHANGED <<flags, kind, listen>>
    BY <1>1 DEF EachConnected
  <2>2. isConnecting
    BY <2>1 DEF ControlInv, FlagsTell
  <2>3. CASE CreateConsumer(t, "connectBatch", fields, now)
    <3>1. pc' = [pc EXCEPT ![t] = "connectBatch"]
      BY <2>3 DEF CreateConsumer
    <3> QED BY <2>1, <2>2, <3>1 DEF TaskControl, Moves, TypeOK
  <2> HIDE DEF fields, now
  <2>4. CASE AttemptFails(t, fields, now)
    BY <2>1, <2>2, <2>4, AttemptFailsMoves DEF TaskControl, Moves, NoConsumers
  <2>5. CASE Start(t, fields, now)
    BY <2>1, <2>2, <2>5, StartMoves DEF TaskControl, Moves, NoConsumers
  <2> QED BY <1>1, <2>3, <2>4, <2>5 DEF EachConnected, fields, now
<1>2. CASE BatchConnected(t)
  <2> DEFINE fields == [ref EXCEPT ![BATCH] = cur[t]]
  <2> DEFINE now == [st EXCEPT ![cur[t]] = "connected"]
  <2>1. pc[t] = "connectBatch" /\ ref' = fields /\ UNCHANGED <<flags, kind, listen>>
    BY <1>2 DEF BatchConnected
  <2>2. isConnecting
    BY <2>1 DEF ControlInv, FlagsTell
  <2>3. Start(t, fields, now)
    BY <1>2 DEF BatchConnected
  <2> HIDE DEF fields, now
  <2> QED BY <2>1, <2>2, <2>3, StartMoves DEF TaskControl, Moves, NoConsumers
<1>3. CASE ConnectFails(t)
  <2>1. /\ pc[t] \in {"connectEach", "connectBatch"}
        /\ UNCHANGED <<flags, kind, listen, ref>>
        /\ AttemptFails(t, ref, [st EXCEPT ![cur[t]] = "off"])
    BY <1>3 DEF ConnectFails
  <2>2. isConnecting
    BY <2>1 DEF ControlInv, FlagsTell
  <2> QED BY <2>1, <2>2, AttemptFailsMoves DEF TaskControl, Moves, NoConsumers
<1>4. CASE StartFails(t)
  <2>1. /\ pc[t] = "start"
        /\ UNCHANGED <<flags, kind, listen, ref>>
        /\ AttemptFails(t, ref, st)
    BY <1>4 DEF StartFails
  <2>2. isConnecting
    BY <2>1 DEF ControlInv, FlagsTell
  <2> QED BY <2>1, <2>2, AttemptFailsMoves DEF TaskControl, Moves, NoConsumers
<1>5. CASE FailedAttemptDisconnected(t)
  <2>1. /\ pc[t] = "disc"
        /\ UNCHANGED <<flags, kind, listen>>
        /\ ref' = NoRefs
        /\ pc' = [pc EXCEPT ![t] = "delay"]
    BY <1>5 DEF FailedAttemptDisconnected, DisconnectReturns
  <2>2. isConnecting
    BY <2>1 DEF ControlInv, FlagsTell
  <2>3. NoConsumers(ref)'
    BY <2>1 DEF NoRefs, NoConsumers
  <2> QED BY <2>1, <2>2, <2>3 DEF TaskControl, Moves, TypeOK
<1>6. CASE GiveUp(t)
  <2>1. pc[t] = "delay" /\ UNCHANGED <<isStop, kind>> /\ TaskEnds(t, "failed")
    BY <1>6 DEF GiveUp
  <2> QED BY <2>1, TaskEndsMoves DEF TaskControl, Moves, TaskEnds
<1>7. CASE Retry(t)
  <2>1. /\ pc[t] = "delay" /\ ~isStop
        /\ UNCHANGED <<flags, kind, listen, ref>>
        /\ Attempt(t, ref)
    BY <1>7 DEF Retry
  <2>2. isConnecting /\ NoConsumers(ref)
    BY <2>1 DEF ControlInv, FlagsTell, ConnectAlone
  <2> QED BY <2>1, <2>2, AttemptMoves DEF TaskControl, Moves, NoConsumers
<1>8. CASE ReconnectDisconnected(t)
  <2>1. pc[t] = "reconnectDisc" /\ ref' = NoRefs /\ UNCHANGED kind
    BY <1>8 DEF ReconnectDisconnected, DisconnectReturns
  <2>2. NoConsumers(ref)'
    BY <2>1 DEF NoRefs, NoConsumers
  <2>3. CASE UNCHANGED isStop /\ TaskEnds(t, "silent")
    BY <2>1, <2>3, TaskEndsMoves DEF TaskControl, Moves, TaskEnds
  <2>4. CASE /\ ~isStop /\ isConnecting' = TRUE /\ Attempt(t, NoRefs)
             /\ UNCHANGED <<isStop, isReconnecting, listen>>
    BY <2>1, <2>2, <2>4, AttemptMoves DEF TaskControl, Moves
  <2> QED BY <1>8, <2>3, <2>4 DEF ReconnectDisconnected
<1> QED BY <1>1, <1>2, <1>3, <1>4, <1>5, <1>6, <1>7, <1>8 DEF TaskStep

LEMMA ControlTask ==
  ASSUME TypeOK, ControlInv, NEW t \in Tasks, TaskStep(t)
  PROVE  ControlInv'
<1>1. TaskControl(t)
  BY TaskStepControl
<1>2. listen' # "not called"
  BY <1>1 DEF TaskControl, ControlInv, BeforeListen
<1>3. \A s \in Tasks \ {t} : ~Busy(s) /\ pc'[s] = pc[s] /\ ~Busy(s)'
  BY <1>1 DEF TaskControl, Moves, ControlInv, OneConnector, Busy
<1>4. OneConnector'
  BY <1>3 DEF OneConnector
<1>5. FlagsTell'
  <2>1. pc'[t] # "reconnectDisc" /\ (Busy(t)' => isConnecting')
    BY <1>1 DEF TaskControl, Moves
  <2>2. Busy(t)' /\ kind'[t] = "reconnect" => isReconnecting'
    <3>1. Busy(t) /\ kind' = kind /\ (Busy(t)' => (isReconnecting' = isReconnecting))
      BY <1>1 DEF TaskControl
    <3>2. kind[t] = "reconnect" => isReconnecting
      BY <3>1 DEF ControlInv, FlagsTell
    <3> QED BY <3>1, <3>2
  <2>3. \A s \in Tasks \ {t} : pc'[s] # "reconnectDisc"
    BY <1>3 DEF Busy
  <2> QED BY <1>3, <2>1, <2>2, <2>3 DEF FlagsTell
<1>6. BeforeListen'
  BY <1>2 DEF BeforeListen
<1>7. ConnectAlone'
  <2>1. pc'[t] \in {"connectEach", "delay"} => NoConsumers(ref)'
    BY <1>1 DEF TaskControl
  <2>2. pc'[t] = "connectEach" => ~isStop'
    BY <1>1 DEF TaskControl
  <2>3. \A s \in Tasks \ {t} : pc'[s] = "idle"
    BY <1>3 DEF Busy
  <2> QED BY <2>1, <2>2, <2>3 DEF ConnectAlone
<1> QED BY <1>4, <1>5, <1>6, <1>7 DEF ControlInv

LEMMA ControlListen ==
  ASSUME TypeOK, ControlInv, NEW t \in Tasks, Listen(t)
  PROVE  ControlInv'
<1>1. /\ listen = "not called" /\ listen' = "pending"
      /\ isStop' = FALSE /\ isConnecting' = TRUE
      /\ kind' = [kind EXCEPT ![t] = "run"]
      /\ Attempt(t, ref)
      /\ ref' = ref
  BY DEF Listen
<1>2. NoConsumers(ref)' /\ \A s \in Tasks : pc[s] = "idle"
  BY <1>1 DEF ControlInv, BeforeListen, Busy, NoConsumers
<1>3. Moves(t, {"connectEach", "connectBatch"})
  BY <1>1, AttemptMoves
<1>4. kind'[t] = "run"
  BY <1>1 DEF TypeOK
<1>5. OneConnector'
  BY <1>2, <1>3 DEF Moves, OneConnector, Busy
<1>6. FlagsTell'
  BY <1>1, <1>2, <1>3, <1>4 DEF Moves, FlagsTell, Busy
<1>7. BeforeListen'
  BY <1>1 DEF BeforeListen
<1>8. ConnectAlone'
  BY <1>1, <1>2 DEF ConnectAlone
<1> QED BY <1>5, <1>6, <1>7, <1>8 DEF ControlInv

\* A step that changes nothing of the control state of a started server.
LEMMA ControlSame ==
  ASSUME TypeOK, ControlInv, listen # "not called",
         UNCHANGED <<flags, pc, kind, client, ref, listen>>
  PROVE  ControlInv'
<1>1. UNCHANGED <<isStop, isConnecting, isReconnecting, pc, kind, client, ref, listen>>
  BY DEF flags
<1>2. OneConnector'
  BY <1>1 DEF ControlInv, OneConnector, Busy
<1>3. FlagsTell'
  BY <1>1 DEF ControlInv, FlagsTell, Busy
<1>4. BeforeListen'
  BY <1>1 DEF BeforeListen
<1>5. ConnectAlone'
  <2> SUFFICES ASSUME NEW t \in Tasks
               PROVE  /\ pc'[t] \in {"connectEach", "delay"} => NoConsumers(ref)'
                      /\ pc'[t] = "connectEach" /\ isStop' => ~client'
    BY DEF ConnectAlone
  <2>1. /\ pc[t] \in {"connectEach", "delay"} => NoConsumers(ref)
        /\ pc[t] = "connectEach" /\ isStop => ~client
    BY DEF ControlInv, ConnectAlone
  <2>2. NoConsumers(ref) => NoConsumers(ref)'
    BY <1>1 DEF NoConsumers
  <2>3. isStop' = isStop
    BY <1>1
  <2>4. client' = client
    BY <1>1
  <2>5. isStop \in BOOLEAN /\ client \in BOOLEAN
    BY DEF TypeOK
  <2>6. isStop' => isStop
    BY <2>3, <2>5
  <2>7. client' => client
    <3>1. CASE client = TRUE
      BY <3>1
    <3>2. CASE client = FALSE
      <4>1. client' = FALSE
        BY <2>4, <3>2
      <4> QED BY <4>1
    <3> QED BY <3>1, <3>2, <2>5
  <2>8. pc'[t] = pc[t]
    BY <1>1
  <2> QED BY <2>1, <2>2, <2>6, <2>7, <2>8
<1> QED BY <1>2, <1>3, <1>4, <1>5 DEF ControlInv

\* A server that was never started has no consumer that could take a step.
LEMMA StepsNeedListen ==
  ASSUME ControlInv, NEW c \in Consumers, st[c] # "off" \/ bind[c] # "none"
  PROVE  listen # "not called"
BY DEF ControlInv, BeforeListen

LEMMA ControlGroupJoin ==
  ASSUME TypeOK, ControlInv, NEW c \in Consumers, GroupJoin(c)
  PROVE  ControlInv'
<1>1. listen # "not called" /\ UNCHANGED <<isStop, client, ref, kind>>
  BY StepsNeedListen DEF GroupJoin
<1>2. CASE UNCHANGED <<pc, binds, isConnecting, isReconnecting, listen>>
  BY <1>1, <1>2, ControlSame DEF flags
<1>3. ASSUME NEW t \in Tasks, pc[t] = "start",
             TaskEnds(t, IF isStop THEN "silent" ELSE "started")
      PROVE  ControlInv'
  <2>1. PICK outcome \in {"silent", "started"} : TaskEnds(t, outcome)
    BY <1>3, Zenon
  <2>2. Moves(t, {"idle"}) /\ listen' # "not called"
    BY <1>1, <2>1, TaskEndsMoves DEF TaskEnds
  <2>3. \A s \in Tasks : pc'[s] = "idle"
    BY <1>3, <2>2 DEF Moves, ControlInv, OneConnector, Busy
  <2> QED BY <2>2, <2>3 DEF ControlInv, OneConnector, FlagsTell, BeforeListen, ConnectAlone, Busy
<1> QED BY <1>2, <1>3 DEF GroupJoin

LEMMA ControlCrash ==
  ASSUME TypeOK, ControlInv, NEW c \in Consumers, NEW restart \in BOOLEAN, Crash(c, restart)
  PROVE  ControlInv'
<1> DEFINE now == [st EXCEPT ![c] = IF restart THEN "restarting" ELSE "dead"]
<1>1. listen # "not called" /\ UNCHANGED <<isStop, isConnecting, ref, listen>>
  BY StepsNeedListen DEF Crash
<1>2. OnCrash(restart, now)
  BY DEF Crash
<1> HIDE DEF now
<1>3. CASE UNCHANGED <<isReconnecting, pc, kind, dis, client>>
  BY <1>1, <1>3, ControlSame DEF flags
<1>4. ASSUME ~isConnecting, ~isReconnecting, isReconnecting' = TRUE, NEW t \in Tasks,
             pc' = [pc EXCEPT ![t] = "reconnectDisc"],
             kind' = [kind EXCEPT ![t] = "reconnect"]
      PROVE  ControlInv'
  <2>1. \A s \in Tasks : pc[s] = "idle"
    BY <1>4 DEF ControlInv, FlagsTell, Busy, TypeOK
  <2>2. /\ pc'[t] = "reconnectDisc" /\ kind'[t] = "reconnect"
        /\ \A s \in Tasks \ {t} : pc'[s] = "idle"
    BY <1>4, <2>1 DEF TypeOK
  <2>3. OneConnector' /\ FlagsTell'
    BY <1>4, <2>2 DEF OneConnector, FlagsTell, Busy
  <2>4. BeforeListen'
    BY <1>1 DEF BeforeListen
  <2>5. ConnectAlone'
    BY <2>2 DEF ConnectAlone
  <2> QED BY <2>3, <2>4, <2>5 DEF ControlInv
<1> QED BY <1>2, <1>3, <1>4 DEF OnCrash

LEMMA ControlConsumer ==
  ASSUME TypeOK, ControlInv, NEW c \in Consumers,
         ConsumerStep(c) \/ Rebalance(c) \/ \E restart \in BOOLEAN : Crash(c, restart)
  PROVE  ControlInv'
<1>1. CASE Subscribed(c) \/ SubscribeFails(c)
  BY <1>1, StepsNeedListen, ControlSame DEF Subscribed, SubscribeFails, taskVars
<1>2. CASE GroupJoin(c)
  BY <1>2, ControlGroupJoin
<1>3. CASE \E restart \in BOOLEAN : Crash(c, restart)
  BY <1>3, ControlCrash
<1>4. CASE SelfRestart(c) \/ ConsumerDisconnected(c) \/ Rebalance(c)
  BY <1>4, StepsNeedListen, ControlSame DEF SelfRestart, ConsumerDisconnected, Rebalance, taskVars
<1> QED BY <1>1, <1>2, <1>3, <1>4 DEF ConsumerStep

LEMMA ControlRest ==
  ASSUME TypeOK, ControlInv, Close \/ CloseReturns \/ BrokerChanges \/ UNCHANGED vars
  PROVE  ControlInv'
<1>1. UNCHANGED <<isConnecting, isReconnecting, pc, kind, bind, listen>>
  BY DEF Close, CloseReturns, BrokerChanges, vars, flags, taskVars
<1>2. OneConnector' /\ FlagsTell'
  BY <1>1 DEF ControlInv, OneConnector, FlagsTell, Busy
<1>3. NoConsumers(ref) => NoConsumers(ref)'
  BY DEF Close, CloseReturns, DisconnectReturns, BrokerChanges, vars, NoConsumers, NoRefs
<1>4. NoConsumers(ref) => \A c \in Consumers : st'[c] = st[c]
  <2>1. CASE Close
    BY <2>1, HeldNone DEF Close, DisconnectBegins
  <2>2. CASE CloseReturns \/ BrokerChanges \/ UNCHANGED vars
    BY <2>2 DEF CloseReturns, BrokerChanges, vars
  <2> QED BY <2>1, <2>2
<1>5. BeforeListen'
  BY <1>1, <1>3, <1>4 DEF ControlInv, BeforeListen, Busy
<1>6. ConnectAlone'
  <2> SUFFICES ASSUME NEW t \in Tasks, pc[t] = "connectEach", isStop' PROVE ~client'
    BY <1>1, <1>3 DEF ControlInv, ConnectAlone
  <2>1. NoConsumers(ref) /\ (isStop => ~client)
    BY DEF ControlInv, ConnectAlone
  <2>2. CASE Close
    BY <2>1, <2>2, HeldNone DEF Close, DisconnectBegins
  <2>3. CASE CloseReturns
    BY <2>3 DEF CloseReturns
  <2>4. CASE BrokerChanges \/ UNCHANGED vars
    BY <2>1, <2>4 DEF BrokerChanges, vars, flags
  <2> QED BY <2>2, <2>3, <2>4
<1> QED BY <1>2, <1>5, <1>6 DEF ControlInv

LEMMA ControlStep == TypeOK /\ ControlInv /\ [Next]_vars => ControlInv'
BY ControlTask, ControlListen, ControlConsumer, ControlRest DEF Next

\* run() and reconnect() never work at the same time, whatever consumers crash and
\* when, because of isConnecting and isReconnecting alone.
THEOREM OneActivation == Spec => []OneConnector
<1>1. TypeOK /\ ControlInv /\ [Next]_vars => (TypeOK /\ ControlInv)'
  BY TypeStep, ControlStep
<1>2. Init => TypeOK /\ ControlInv
  BY TypeInit, ControlInit
<1>3. ControlInv => OneConnector
  BY DEF ControlInv
<1> QED BY <1>1, <1>2, <1>3, PTL DEF Spec

----------------------------------------------------------------------------
(* Nothing is created once the server is stopped.                           *)

LEMMA DisconnectCreatesNothing ==
  ASSUME NEW w, NEW fields, NEW s, DisconnectBegins(w, fields, s), NEW c \in Consumers,
         s[c] # "connecting"
  PROVE  st'[c] # "connecting"
BY DEF DisconnectBegins

LEMMA StartCreatesNothing ==
  ASSUME NEW t, NEW fields, NEW s, Start(t, fields, s), NEW c \in Consumers,
         s[c] # "connecting"
  PROVE  st'[c] # "connecting"
BY DisconnectCreatesNothing DEF Start, AttemptFails

LEMMA TaskCreatesNothing ==
  ASSUME TypeOK, ControlInv, NEW t \in Tasks, TaskStep(t), isStop, NEW c \in Consumers,
         st[c] # "connecting"
  PROVE  st'[c] # "connecting"
<1>0. st \in [Consumers -> ConsumerStates]
  BY DEF TypeOK
<1>1. CASE EachConnected(t)
  <2> DEFINE fields == [ref EXCEPT ![EACH] = cur[t]]
  <2> DEFINE now == [st EXCEPT ![cur[t]] = "connected"]
  <2>1. now[c] # "connecting"
    BY <1>0
  <2>2. ~client
    BY <1>1 DEF EachConnected, ControlInv, ConnectAlone
  <2> HIDE DEF fields, now
  <2>3. AttemptFails(t, fields, now) \/ Start(t, fields, now)
    BY <1>1, <2>2 DEF EachConnected, fields, now
  <2> QED BY <2>1, <2>3, StartCreatesNothing, DisconnectCreatesNothing DEF AttemptFails
<1>2. CASE BatchConnected(t)
  <2> DEFINE fields == [ref EXCEPT ![BATCH] = cur[t]]
  <2> DEFINE now == [st EXCEPT ![cur[t]] = "connected"]
  <2>1. now[c] # "connecting"
    BY <1>0
  <2>2. Start(t, fields, now)
    BY <1>2 DEF BatchConnected
  <2> HIDE DEF fields, now
  <2> QED BY <2>1, <2>2, StartCreatesNothing
<1>3. CASE ConnectFails(t)
  <2> DEFINE now == [st EXCEPT ![cur[t]] = "off"]
  <2>1. now[c] # "connecting"
    BY <1>0
  <2>2. DisconnectBegins(t, ref, now)
    BY <1>3 DEF ConnectFails, AttemptFails
  <2> HIDE DEF now
  <2> QED BY <2>1, <2>2, DisconnectCreatesNothing
<1>4. CASE StartFails(t)
  BY <1>4, DisconnectCreatesNothing DEF StartFails, AttemptFails
<1>5. CASE FailedAttemptDisconnected(t) \/ GiveUp(t)
  BY <1>5 DEF FailedAttemptDisconnected, GiveUp
<1>6. CASE Retry(t)
  BY <1>6 DEF Retry
<1>7. CASE ReconnectDisconnected(t)
  BY <1>7 DEF ReconnectDisconnected
<1> QED BY <1>1, <1>2, <1>3, <1>4, <1>5, <1>6, <1>7 DEF TaskStep

LEMMA ConsumerCreatesNothing ==
  ASSUME TypeOK, NEW d \in Consumers,
         ConsumerStep(d) \/ Rebalance(d) \/ \E restart \in BOOLEAN : Crash(d, restart),
         NEW c \in Consumers, st[c] # "connecting"
  PROVE  st'[c] # "connecting"
<1>0. st \in [Consumers -> ConsumerStates]
  BY DEF TypeOK
<1>1. CASE Subscribed(d) \/ SubscribeFails(d) \/ GroupJoin(d) \/ SelfRestart(d)
  BY <1>0, <1>1 DEF Subscribed, SubscribeFails, GroupJoin, SelfRestart
<1>2. CASE ConsumerDisconnected(d) \/ Rebalance(d)
  BY <1>0, <1>2 DEF ConsumerDisconnected, Rebalance
<1>3. ASSUME NEW restart \in BOOLEAN, Crash(d, restart)
      PROVE  st'[c] # "connecting"
  <2> DEFINE now == [st EXCEPT ![d] = IF restart THEN "restarting" ELSE "dead"]
  <2>1. now[c] # "connecting"
    BY <1>0
  <2>2. OnCrash(restart, now)
    BY <1>3 DEF Crash
  <2> HIDE DEF now
  <2> QED BY <2>1, <2>2, DisconnectCreatesNothing DEF OnCrash
<1> QED BY <1>1, <1>2, <1>3 DEF ConsumerStep

LEMMA StopIsFinal ==
  TypeOK /\ ControlInv /\ [Next]_vars =>
    [\A c \in Consumers : isStop /\ isStop' /\ st[c] # "connecting" => st'[c] # "connecting"]_vars
<1> SUFFICES ASSUME TypeOK, ControlInv, [Next]_vars, isStop, isStop',
                    NEW c \in Consumers, st[c] # "connecting"
             PROVE  st'[c] # "connecting"
  OBVIOUS
<1>1. ASSUME NEW t \in Tasks, Listen(t) PROVE FALSE
  BY <1>1 DEF Listen
<1>2. ASSUME NEW t \in Tasks, TaskStep(t) PROVE st'[c] # "connecting"
  BY <1>2, TaskCreatesNothing
<1>3. ASSUME NEW d \in Consumers,
             ConsumerStep(d) \/ Rebalance(d) \/ \E restart \in BOOLEAN : Crash(d, restart)
      PROVE  st'[c] # "connecting"
  BY <1>3, ConsumerCreatesNothing
<1>4. CASE Close
  BY <1>4, DisconnectCreatesNothing DEF Close
<1>5. CASE CloseReturns \/ BrokerChanges \/ UNCHANGED vars
  BY <1>5 DEF CloseReturns, BrokerChanges, vars
<1> QED BY <1>1, <1>2, <1>3, <1>4, <1>5 DEF Next

\* After close() has set isStop, neither a retry nor a reconnect() nor the second
\* createConsumer() of a connect() that close() overtook creates a consumer.
THEOREM StoppedCreatesNothing == Spec => NoCreateAfterStop
<1>1. TypeOK /\ ControlInv /\ [Next]_vars => (TypeOK /\ ControlInv)'
  BY TypeStep, ControlStep
<1>2. Init => TypeOK /\ ControlInv
  BY TypeInit, ControlInit
<1> QED BY <1>1, <1>2, StopIsFinal, PTL DEF Spec, NoCreateAfterStop

----------------------------------------------------------------------------
(* What the fields and the flags say of the running activation.  Besides    *)
(* ControlInv the later invariants rest on these facts, for any modes.      *)

\* The fields and the connect() of a mode without topics are not used.
ModesInv ==
  /\ \A m \in {EACH, BATCH} \ Modes : ref[m] = NULL
  /\ \A t \in Tasks :
       /\ pc[t] = "connectEach" => EACH \in Modes
       /\ pc[t] = "connectBatch" => BATCH \in Modes /\ ref[BATCH] = NULL

\* Only close() sets isStop, and a close() that waits keeps it set.
CloseInv ==
  /\ isStop => closing # "open"
  /\ closing = "closing" => isStop /\ listen # "not called"

\* start() waits for what the fields hold.
BindsInv ==
  \A t \in Tasks : pc[t] = "start" /\ ~isStop =>
    /\ binds[t] = {ref[m] : m \in Modes}
    /\ NULL \notin binds[t]

\* A flag that is set is reset by an activation that still runs.
FlagsMean ==
  /\ isConnecting => \E t \in Tasks : Busy(t)
  /\ isReconnecting => \E t \in Tasks : Busy(t) /\ kind[t] = "reconnect"

FieldsInv == ModesInv /\ CloseInv /\ BindsInv /\ FlagsMean

LEMMA FieldsInit == Init => FieldsInv
<1> SUFFICES ASSUME Init PROVE FieldsInv
  OBVIOUS
<1>1. ~isStop /\ ~isConnecting /\ ~isReconnecting /\ closing = "open"
  BY DEF Init
<1>2. \A t \in Tasks : pc[t] = "idle"
  BY DEF Init
<1>3. \A m \in {EACH, BATCH} : ref[m] = NULL
  BY DEF Init
<1> QED BY <1>1, <1>2, <1>3 DEF FieldsInv, ModesInv, CloseInv, BindsInv, FlagsMean

\* A step of the running activation, in terms of its fields.
TaskFields(t) ==
  /\ UNCHANGED closing
  /\ \A m \in {EACH, BATCH} \ Modes : ref'[m] = NULL
  /\ pc'[t] = "connectEach" => EACH \in Modes
  /\ pc'[t] = "connectBatch" => BATCH \in Modes /\ ref'[BATCH] = NULL
  /\ pc'[t] = "start" => binds'[t] = {ref'[m] : m \in Modes} /\ NULL \notin binds'[t]
  /\ pc'[t] = "idle" => ~isConnecting' /\ (isReconnecting' => isReconnecting /\ kind[t] # "reconnect")

LEMMA AttemptPlace ==
  ASSUME TypeOK, NEW t \in Tasks, NEW fields, Attempt(t, fields)
  PROVE  pc'[t] = IF EACH \in Modes THEN "connectEach" ELSE "connectBatch"
BY DEF Attempt, CreateConsumer, TypeOK

LEMMA StartBinds ==
  ASSUME TypeOK, NEW t \in Tasks, NEW fields, NEW s, Start(t, fields, s)
  PROVE  pc'[t] = "start" => binds'[t] = {fields[m] : m \in Modes} /\ NULL \notin binds'[t]
<1> DEFINE bound == {fields[m] : m \in Modes} \ {NULL}
<1>1. CASE AttemptFails(t, fields, s)
  BY <1>1, AttemptFailsMoves DEF Moves
<1>2. CASE /\ \A m \in Modes : fields[m] # NULL
           /\ binds' = [binds EXCEPT ![t] = bound]
  <2>1. bound = {fields[m] : m \in Modes}
    BY <1>2
  <2>2. binds'[t] = bound
    BY <1>2 DEF TypeOK
  <2> QED BY <2>1, <2>2
<1> QED BY <1>1, <1>2 DEF Start

LEMMA TaskStepFields ==
  ASSUME TypeOK, ControlInv, FieldsInv, NEW t \in Tasks, TaskStep(t)
  PROVE  TaskFields(t)
<1>0. ref \in Fields /\ \A m \in {EACH, BATCH} \ Modes : ref[m] = NULL
  BY DEF TypeOK, Fields, FieldsInv, ModesInv
<1>1. CASE EachConnected(t)
  <2> DEFINE fields == [ref EXCEPT ![EACH] = cur[t]]
  <2> DEFINE now == [st EXCEPT ![cur[t]] = "connected"]
  <2>1. pc[t] = "connectEach" /\ ref' = fields /\ UNCHANGED closing
    BY <1>1 DEF EachConnected
  <2>2. EACH \in Modes /\ NoConsumers(ref)
    BY <2>1 DEF FieldsInv, ModesInv, ControlInv, ConnectAlone
  <2>3. /\ \A m \in {EACH, BATCH} \ Modes : ref'[m] = NULL
        /\ ref'[BATCH] = NULL
    BY <1>0, <2>1, <2>2 DEF NoConsumers, Fields, EACH, BATCH
  <2>4. CASE BATCH \in Modes /\ CreateConsumer(t, "connectBatch", fields, now)
    <3>1. pc'[t] = "connectBatch"
      BY <2>4 DEF CreateConsumer, TypeOK
    <3> QED BY <2>1, <2>3, <2>4, <3>1 DEF TaskFields
  <2>5. CASE AttemptFails(t, fields, now)
    BY <2>1, <2>3, <2>5, AttemptFailsMoves DEF TaskFields, Moves
  <2>6. CASE Start(t, fields, now)
    <3> HIDE DEF fields, now
    <3> QED BY <2>1, <2>3, <2>6, StartMoves, StartBinds DEF TaskFields, Moves
  <2> QED BY <1>1, <2>4, <2>5, <2>6 DEF EachConnected
<1>2. CASE BatchConnected(t)
  <2> DEFINE fields == [ref EXCEPT ![BATCH] = cur[t]]
  <2> DEFINE now == [st EXCEPT ![cur[t]] = "connected"]
  <2>1. pc[t] = "connectBatch" /\ ref' = fields /\ Start(t, fields, now) /\ UNCHANGED closing
    BY <1>2 DEF BatchConnected
  <2>2. BATCH \in Modes
    BY <2>1 DEF FieldsInv, ModesInv
  <2>3. \A m \in {EACH, BATCH} \ Modes : ref'[m] = NULL
    BY <1>0, <2>1, <2>2 DEF Fields
  <2> HIDE DEF fields, now
  <2> QED BY <2>1, <2>3, StartMoves, StartBinds DEF TaskFields, Moves
<1>3. CASE ConnectFails(t) \/ StartFails(t)
  <2>1. PICK s : AttemptFails(t, ref, s)
    BY <1>3 DEF ConnectFails, StartFails
  <2>2. UNCHANGED <<ref, closing>>
    BY <1>3 DEF ConnectFails, StartFails
  <2> QED BY <1>0, <2>1, <2>2, AttemptFailsMoves DEF TaskFields, Moves
<1>4. CASE FailedAttemptDisconnected(t)
  BY <1>4 DEF FailedAttemptDisconnected, DisconnectReturns, NoRefs, TaskFields, TypeOK
<1>5. CASE GiveUp(t)
  BY <1>0, <1>5 DEF GiveUp, TaskEnds, TaskFields, TypeOK
<1>6. CASE Retry(t)
  <2>1. pc[t] = "delay" /\ Attempt(t, ref) /\ UNCHANGED <<ref, closing>>
    BY <1>6 DEF Retry
  <2>2. NoConsumers(ref)
    BY <2>1 DEF ControlInv, ConnectAlone
  <2> QED BY <1>0, <2>1, <2>2, AttemptPlace, ModesAssumption DEF TaskFields, NoConsumers
<1>7. CASE ReconnectDisconnected(t)
  <2>1. ref' = NoRefs /\ UNCHANGED closing
    BY <1>7 DEF ReconnectDisconnected, DisconnectReturns
  <2>2. TaskEnds(t, "silent") \/ Attempt(t, NoRefs)
    BY <1>7 DEF ReconnectDisconnected
  <2>3. CASE TaskEnds(t, "silent")
    BY <2>1, <2>3 DEF TaskEnds, NoRefs, TaskFields, TypeOK
  <2>4. CASE Attempt(t, NoRefs)
    BY <2>1, <2>4, AttemptPlace, ModesAssumption DEF TaskFields, NoRefs
  <2> QED BY <2>2, <2>3, <2>4
<1> QED BY <1>1, <1>2, <1>3, <1>4, <1>5, <1>6, <1>7 DEF TaskStep

LEMMA FieldsTask ==
  ASSUME TypeOK, ControlInv, FieldsInv, NEW t \in Tasks, TaskStep(t)
  PROVE  FieldsInv'
<1>1. TaskControl(t) /\ TaskFields(t)
  BY TaskStepControl, TaskStepFields
<1>2. \A s \in Tasks \ {t} : ~Busy(s) /\ pc'[s] = "idle"
  BY <1>1 DEF TaskControl, Moves, ControlInv, OneConnector, Busy
<1>3. ModesInv'
  BY <1>1, <1>2 DEF TaskFields, ModesInv
<1>4. CloseInv'
  BY <1>1 DEF TaskControl, TaskFields, FieldsInv, CloseInv
<1>5. BindsInv'
  BY <1>1, <1>2 DEF TaskFields, BindsInv
<1>6. FlagsMean'
  <2>1. CASE Busy(t)'
    <3>1. isReconnecting' => isReconnecting
      BY <1>1, <2>1 DEF TaskControl
    <3>2. isReconnecting => kind[t] = "reconnect"
      BY <1>2 DEF FieldsInv, FlagsMean
    <3> QED BY <1>1, <2>1, <3>1, <3>2 DEF FlagsMean, TaskControl
  <2>2. CASE ~Busy(t)'
    <3>1. pc'[t] = "idle"
      BY <2>2 DEF Busy
    <3>2. ~isConnecting' /\ (isReconnecting' => isReconnecting /\ kind[t] # "reconnect")
      BY <1>1, <3>1 DEF TaskFields
    <3>3. isReconnecting => kind[t] = "reconnect"
      BY <1>2 DEF FieldsInv, FlagsMean
    <3> QED BY <3>2, <3>3 DEF FlagsMean
  <2> QED BY <2>1, <2>2
<1> QED BY <1>3, <1>4, <1>5, <1>6 DEF FieldsInv

LEMMA FieldsListen ==
  ASSUME TypeOK, ControlInv, FieldsInv, NEW t \in Tasks, Listen(t)
  PROVE  FieldsInv'
<1>1. /\ listen = "not called" /\ isStop' = FALSE /\ isConnecting' = TRUE
      /\ Attempt(t, ref)
      /\ UNCHANGED <<isReconnecting, ref, binds, closing>>
  BY DEF Listen
<1>2. NoConsumers(ref) /\ \A s \in Tasks : ~Busy(s) /\ pc[s] = "idle"
  BY <1>1 DEF ControlInv, BeforeListen, Busy
<1>3. Moves(t, {"connectEach", "connectBatch"})
  BY <1>1, AttemptMoves
<1>4. pc'[t] = IF EACH \in Modes THEN "connectEach" ELSE "connectBatch"
  BY <1>1, AttemptPlace
<1>5. closing # "closing"
  BY <1>1 DEF FieldsInv, CloseInv
<1>6. ModesInv'
  BY <1>1, <1>2, <1>3, <1>4, ModesAssumption DEF ModesInv, Moves, NoConsumers
<1>7. CloseInv'
  BY <1>1, <1>5 DEF CloseInv
<1>8. BindsInv'
  BY <1>2, <1>3 DEF BindsInv, Moves
<1>9. FlagsMean'
  <2>1. ~isReconnecting
    BY <1>2 DEF FieldsInv, FlagsMean
  <2>2. Busy(t)'
    BY <1>3 DEF Moves, Busy
  <2> QED BY <1>1, <2>1, <2>2 DEF FlagsMean
<1> QED BY <1>6, <1>7, <1>8, <1>9 DEF FieldsInv

LEMMA FieldsSame ==
  ASSUME FieldsInv,
         UNCHANGED <<isStop, isConnecting, isReconnecting, ref, pc, kind, binds, closing, listen>>
  PROVE  FieldsInv'
<1>1. ModesInv'
  BY DEF FieldsInv, ModesInv
<1>2. CloseInv'
  BY DEF FieldsInv, CloseInv
<1>3. BindsInv'
  BY DEF FieldsInv, BindsInv
<1>4. FlagsMean'
  BY DEF FieldsInv, FlagsMean, Busy
<1> QED BY <1>1, <1>2, <1>3, <1>4 DEF FieldsInv

LEMMA FieldsConsumer ==
  ASSUME TypeOK, ControlInv, FieldsInv, NEW c \in Consumers,
         ConsumerStep(c) \/ Rebalance(c) \/ \E restart \in BOOLEAN : Crash(c, restart)
  PROVE  FieldsInv'
<1>1. CASE Subscribed(c) \/ SubscribeFails(c) \/ SelfRestart(c) \/ ConsumerDisconnected(c) \/ Rebalance(c)
  <2>1. UNCHANGED <<flags, ref, taskVars, closing, listen>>
    BY <1>1 DEF Subscribed, SubscribeFails, SelfRestart, ConsumerDisconnected, Rebalance
  <2> QED BY <2>1, FieldsSame DEF flags, taskVars
<1>2. CASE GroupJoin(c)
  <2>0. UNCHANGED <<isStop, ref, kind, closing>> /\ listen # "not called"
    BY <1>2, StepsNeedListen DEF GroupJoin
  <2>1. CASE UNCHANGED <<pc, binds, isConnecting, isReconnecting, listen>>
    BY <2>0, <2>1, FieldsSame
  <2>2. ASSUME NEW t \in Tasks, pc[t] = "start",
               TaskEnds(t, IF isStop THEN "silent" ELSE "started")
        PROVE  FieldsInv'
    <3>1. PICK outcome \in {"silent", "started"} : TaskEnds(t, outcome)
      BY <2>2, Zenon
    <3>2. /\ isConnecting' = FALSE
          /\ isReconnecting' = (isReconnecting /\ kind[t] # "reconnect")
          /\ listen' # "not called"
      BY <2>0, <3>1 DEF TaskEnds
    <3>3. \A s \in Tasks : s # t => ~Busy(s)
      BY <2>2 DEF ControlInv, OneConnector, Busy
    <3>4. \A s \in Tasks : pc'[s] = "idle"
      BY <3>1, <3>3 DEF TaskEnds, TypeOK, Busy
    <3>5. isReconnecting => kind[t] = "reconnect"
      BY <3>3 DEF FieldsInv, FlagsMean
    <3>6. FlagsMean'
      BY <3>2, <3>5 DEF FlagsMean
    <3>7. ModesInv'
      BY <2>0, <3>4 DEF FieldsInv, ModesInv
    <3>8. CloseInv'
      BY <2>0, <3>2 DEF FieldsInv, CloseInv
    <3> QED BY <3>4, <3>6, <3>7, <3>8 DEF FieldsInv, BindsInv
  <2> QED BY <1>2, <2>1, <2>2 DEF GroupJoin
<1>3. ASSUME NEW restart \in BOOLEAN, Crash(c, restart)
      PROVE  FieldsInv'
  <2>1. UNCHANGED <<isStop, isConnecting, ref, binds, closing, listen>>
    BY <1>3 DEF Crash
  <2>2. CASE UNCHANGED <<isReconnecting, pc, kind>>
    BY <2>1, <2>2, FieldsSame
  <2>3. ASSUME isReconnecting' = TRUE, ~isConnecting, NEW t \in Tasks,
               pc' = [pc EXCEPT ![t] = "reconnectDisc"],
               kind' = [kind EXCEPT ![t] = "reconnect"]
        PROVE  FieldsInv'
    <3>1. /\ pc'[t] = "reconnectDisc" /\ kind'[t] = "reconnect"
          /\ \A s \in Tasks \ {t} : pc'[s] = pc[s]
      BY <2>3 DEF TypeOK
    <3>2. ModesInv'
      BY <2>1, <3>1 DEF FieldsInv, ModesInv
    <3>3. CloseInv'
      BY <2>1 DEF FieldsInv, CloseInv
    <3>4. BindsInv'
      BY <2>1, <3>1 DEF FieldsInv, BindsInv
    <3>5. FlagsMean'
      BY <2>1, <2>3, <3>1 DEF FlagsMean, Busy
    <3> QED BY <3>2, <3>3, <3>4, <3>5 DEF FieldsInv
  <2> QED BY <1>3, <2>2, <2>3 DEF Crash, OnCrash
<1> QED BY <1>1, <1>2, <1>3 DEF ConsumerStep

LEMMA FieldsRest ==
  ASSUME TypeOK, ControlInv, FieldsInv, Close \/ CloseReturns \/ BrokerChanges \/ UNCHANGED vars
  PROVE  FieldsInv'
<1>1. CASE Close
  <2>1. isStop' = TRUE /\ UNCHANGED <<isConnecting, isReconnecting, ref, pc, kind, binds, listen>>
    BY <1>1 DEF Close, taskVars
  <2>2. closing' = IF Held(ref) = {} THEN "closed" ELSE "closing"
    BY <1>1 DEF Close
  <2>3. listen = "not called" => closing' = "closed"
    BY <2>2, HeldNone DEF ControlInv, BeforeListen
  <2>4. ModesInv'
    BY <2>1 DEF FieldsInv, ModesInv
  <2>5. CloseInv'
    BY <2>1, <2>2, <2>3 DEF CloseInv
  <2>6. FlagsMean'
    BY <2>1 DEF FieldsInv, FlagsMean, Busy
  <2> QED BY <2>1, <2>4, <2>5, <2>6 DEF FieldsInv, BindsInv
<1>2. CASE CloseReturns
  <2>1. closing = "closing" /\ closing' = "closed" /\ ref' = NoRefs
    BY <1>2 DEF CloseReturns, DisconnectReturns
  <2>2. UNCHANGED <<isStop, isConnecting, isReconnecting, pc, kind, binds, listen>>
    BY <1>2 DEF CloseReturns, flags, taskVars
  <2>3. isStop
    BY <2>1 DEF FieldsInv, CloseInv
  <2>4. ModesInv'
    BY <2>1, <2>2 DEF FieldsInv, ModesInv, NoRefs
  <2>5. CloseInv'
    BY <2>1 DEF CloseInv
  <2>6. FlagsMean'
    BY <2>2 DEF FieldsInv, FlagsMean, Busy
  <2>7. BindsInv'
    BY <2>2, <2>3 DEF BindsInv
  <2> QED BY <2>4, <2>5, <2>6, <2>7 DEF FieldsInv
<1>3. CASE BrokerChanges \/ UNCHANGED vars
  <2>1. UNCHANGED <<flags, ref, taskVars, closing, listen>>
    BY <1>3 DEF BrokerChanges, vars
  <2> QED BY <2>1, FieldsSame DEF flags, taskVars
<1> QED BY <1>1, <1>2, <1>3

LEMMA FieldsStep == TypeOK /\ ControlInv /\ FieldsInv /\ [Next]_vars => FieldsInv'
BY FieldsTask, FieldsListen, FieldsConsumer, FieldsRest DEF Next

ServerInv == TypeOK /\ ControlInv /\ FieldsInv

LEMMA ServerInit == Init => ServerInv
BY TypeInit, ControlInit, FieldsInit DEF ServerInv

LEMMA ServerStep == ServerInv /\ [Next]_vars => ServerInv'
BY TypeStep, ControlStep, FieldsStep DEF ServerInv

----------------------------------------------------------------------------
(* No consumer is leaked.  NoLeak is not inductive: what a disconnect() is   *)
(* waiting for must not come alive again before the fields are nulled, and   *)
(* where run() may revive a consumer only one mode keeps it from doing so.   *)

OneMode == \E m \in {EACH, BATCH} : Modes = {m}

\* While an activation waits for its disconnect(), no held consumer is live.
HeldStops ==
  closing = "open" =>
    \A t \in Tasks : pc[t] \in {"disc", "reconnectDisc"} => \A c \in Held(ref) : ~Live(c)

\* With one mode a bind*Events() that waits for subscribe() belongs to the running
\* attempt, and its consumer is still connected.
SubscribeInv ==
  closing = "open" =>
    \A c \in Consumers : bind[c] = "subscribe" =>
      /\ st[c] = "connected"
      /\ \E t \in Tasks : pc[t] = "start" /\ c \in binds[t]

\* What the shared pieces make of the consumers, whose states were s.
LEMMA PieceStates ==
  ASSUME TypeOK, NEW t \in Tasks, NEW fields, NEW s \in [Consumers -> ConsumerStates], NEW where,
         \/ AttemptFails(t, fields, s)
         \/ Start(t, fields, s)
         \/ CreateConsumer(t, where, fields, s) /\ where # "disc"
  PROVE  \A c \in Consumers :
           /\ st'[c] \in {s[c], "stopping", "connecting"}
           /\ pc'[t] = "disc" /\ c \in Held(fields) => st'[c] = "stopping"
<1>1. CASE AttemptFails(t, fields, s)
  BY <1>1 DEF AttemptFails, DisconnectBegins
<1>2. CASE Start(t, fields, s)
  <2>1. CASE st' = s /\ pc' = [pc EXCEPT ![t] = "start"]
    BY <2>1 DEF TypeOK
  <2> QED BY <1>1, <1>2, <2>1 DEF Start
<1>3. CASE CreateConsumer(t, where, fields, s) /\ where # "disc"
  <2>1. PICK c \in Consumers : st' = [s EXCEPT ![c] = "connecting"]
    BY <1>3 DEF CreateConsumer
  <2>2. pc'[t] = where
    BY <1>3 DEF CreateConsumer, TypeOK
  <2> QED BY <1>3, <2>1, <2>2
<1> QED BY <1>1, <1>2, <1>3

\* createConsumer() takes an unreachable consumer.
LEMMA AttemptStates ==
  ASSUME TypeOK, NEW t \in Tasks, NEW fields, Attempt(t, fields)
  PROVE  \A c \in Consumers : st'[c] \in {st[c], "connecting"} /\ bind'[c] \in {bind[c], "none"}
<1>1. PICK d \in Consumers : st' = [st EXCEPT ![d] = "connecting"] /\ bind' = [bind EXCEPT ![d] = "none"]
  BY DEF Attempt, CreateConsumer
<1> QED BY <1>1 DEF TypeOK

LEMMA LeakTask ==
  ASSUME ServerInv, NoLeak, HeldStops, NEW t \in Tasks, TaskStep(t)
  PROVE  NoLeak' /\ HeldStops'
<1> SUFFICES ASSUME closing = "open"
             PROVE  /\ \A c \in Consumers : Live(c)' => c \in Held(ref)'
                    /\ pc'[t] = "disc" => \A c \in Held(ref)' : ~Live(c)'
  <2>1. closing' = closing
    BY TaskStepFields DEF ServerInv, TaskFields
  <2>2. TaskControl(t)
    BY TaskStepControl DEF ServerInv
  <2>3. \A s \in Tasks : pc'[s] \in {"disc", "reconnectDisc"} => s = t /\ pc'[t] = "disc"
    BY <2>2 DEF TaskControl, Moves, ServerInv, ControlInv, OneConnector, Busy
  <2> QED BY <2>1, <2>3 DEF NoLeak, HeldStops
<1>0. /\ TypeOK /\ ref \in Fields /\ st \in [Consumers -> ConsumerStates]
      /\ \A c \in Consumers : Live(c) => c \in Held(ref)
  BY DEF ServerInv, TypeOK, Fields, NoLeak
<1>1. CASE EachConnected(t) \/ BatchConnected(t)
  <2> DEFINE m == IF pc[t] = "connectEach" THEN EACH ELSE BATCH
  <2> DEFINE fields == [ref EXCEPT ![m] = cur[t]]
  <2> DEFINE now == [st EXCEPT ![cur[t]] = "connected"]
  <2>1. /\ ref' = fields
        /\ AttemptFails(t, fields, now) \/ Start(t, fields, now)
             \/ CreateConsumer(t, "connectBatch", fields, now)
        /\ pc[t] \in {"connectEach", "connectBatch"}
    BY <1>1 DEF EachConnected, BatchConnected
  <2>2. ref[m] = NULL
    BY <2>1 DEF ServerInv, ControlInv, ConnectAlone, NoConsumers, FieldsInv, ModesInv
  <2>3. \A c \in Consumers : now[c] = IF c = cur[t] THEN "connected" ELSE st[c]
    BY <1>0
  <2>4. now \in [Consumers -> ConsumerStates]
    BY <1>0 DEF ConsumerStates
  <2>5. \A c \in Consumers : c = cur[t] \/ c \in Held(ref) => c \in Held(fields)
    BY <1>0, <2>2, NullAssumption DEF Held, Fields
  <2>6. Held(fields) \subseteq Consumers
    <3>1. cur[t] \in Consumers \cup {NULL}
      BY <1>0 DEF TypeOK
    <3> QED BY <1>0, <3>1, FieldsUpdate, HeldType
  <2> HIDE DEF m, fields, now
  <2>7. \A c \in Consumers :
           /\ st'[c] \in {now[c], "stopping", "connecting"}
           /\ pc'[t] = "disc" /\ c \in Held(fields) => st'[c] = "stopping"
    BY <1>0, <2>1, <2>4, PieceStates
  <2>8. ASSUME NEW c \in Consumers, Live(c)' PROVE c \in Held(ref)'
    <3>1. st'[c] = now[c]
      BY <2>7, <2>8 DEF Live
    <3>2. c = cur[t] \/ Live(c)
      BY <2>3, <2>8, <3>1 DEF Live
    <3>3. c \in Held(fields)
      BY <1>0, <2>5, <3>2
    <3> QED BY <2>1, <3>3
  <2>9. ASSUME pc'[t] = "disc", NEW c \in Held(ref)' PROVE ~Live(c)'
    <3>1. c \in Held(fields)
      BY <2>1
    <3> QED BY <2>6, <2>7, <2>9, <3>1 DEF Live
  <2> QED BY <2>8, <2>9
<1>2. CASE ConnectFails(t) \/ StartFails(t)
  <2>1. PICK s \in [Consumers -> ConsumerStates] :
          /\ AttemptFails(t, ref, s)
          /\ \A c \in Consumers : s[c] \in {st[c], "off"}
    <3>1. CASE ConnectFails(t)
      <4> DEFINE now == [st EXCEPT ![cur[t]] = "off"]
      <4>1. now \in [Consumers -> ConsumerStates] /\ \A c \in Consumers : now[c] \in {st[c], "off"}
        BY <1>0 DEF ConsumerStates
      <4>2. AttemptFails(t, ref, now)
        BY <3>1 DEF ConnectFails
      <4> QED BY <4>1, <4>2
    <3>2. CASE StartFails(t)
      <4>1. AttemptFails(t, ref, st)
        BY <3>2 DEF StartFails
      <4> QED BY <1>0, <4>1
    <3> QED BY <1>2, <3>1, <3>2
  <2>2. ref' = ref
    BY <1>2 DEF ConnectFails, StartFails
  <2>3. \A c \in Consumers : st'[c] = IF c \in Held(ref) THEN "stopping" ELSE s[c]
    BY <2>1 DEF AttemptFails, DisconnectBegins
  <2>4. Held(ref)' = Held(ref) /\ Held(ref) \subseteq Consumers
    BY <1>0, <2>2, HeldType DEF Held
  <2> QED BY <1>0, <2>1, <2>3, <2>4 DEF Live
<1>3. CASE FailedAttemptDisconnected(t) \/ ReconnectDisconnected(t)
  <2>1. \A c \in Consumers : ~Live(c)
    BY <1>0, <1>3 DEF HeldStops, FailedAttemptDisconnected, ReconnectDisconnected
  <2>2. \A c \in Consumers : st'[c] \in {st[c], "connecting"}
    BY <1>0, <1>3, AttemptStates DEF FailedAttemptDisconnected, ReconnectDisconnected
  <2>3. \A c \in Consumers : ~Live(c)'
    BY <2>1, <2>2 DEF Live
  <2>4. Held(ref)' = {}
    BY <1>3 DEF FailedAttemptDisconnected, ReconnectDisconnected, DisconnectReturns, NoRefs, Held
  <2> QED BY <2>3, <2>4
<1>4. CASE GiveUp(t) \/ Retry(t)
  <2>1. ref' = ref /\ \A c \in Consumers : st'[c] \in {st[c], "connecting"}
    BY <1>0, <1>4, AttemptStates DEF GiveUp, Retry
  <2>2. \A c \in Consumers : Live(c)' => c \in Held(ref)'
    BY <1>0, <2>1 DEF Live, Held
  <2>3. pc'[t] # "disc"
    BY <1>0, <1>4, AttemptMoves DEF GiveUp, Retry, TaskEnds, TypeOK, Moves
  <2> QED BY <2>2, <2>3
<1> QED BY <1>1, <1>2, <1>3, <1>4 DEF TaskStep

\* Until close() only createConsumer() makes a consumer come alive.
LEMMA LeakConsumer ==
  ASSUME ServerInv, ~ReviveOnRun \/ SubscribeInv, NoLeak, HeldStops, NEW c \in Consumers,
         ConsumerStep(c) \/ Rebalance(c) \/ \E restart \in BOOLEAN : Crash(c, restart)
  PROVE  NoLeak' /\ HeldStops'
<1> DEFINE Stopping == \A d \in Held(ref) : st'[d] = "stopping"
<1>0. TypeOK /\ st \in [Consumers -> ConsumerStates] /\ Held(ref) \subseteq Consumers
  BY HeldType DEF ServerInv, TypeOK, Fields
<1>1. UNCHANGED <<ref, closing>>
  BY DEF ConsumerStep, Subscribed, SubscribeFails, GroupJoin, Crash, SelfRestart,
         ConsumerDisconnected, Rebalance
<1>2. /\ closing = "open" => \A d \in Consumers : Live(d)' => Live(d)
      /\ \A t \in Tasks : pc'[t] \in {"disc", "reconnectDisc"} => pc'[t] = pc[t] \/ Stopping
  <2>1. CASE Subscribed(c)
    <3>1. CASE st[c] = "connected" \/ ReviveOnRun
      <4>1. closing = "open" => st[c] = "connected"
        BY <2>1, <3>1 DEF Subscribed, SubscribeInv
      <4> QED BY <1>0, <2>1, <4>1 DEF Subscribed, Live, taskVars
    <3>2. CASE UNCHANGED st
      BY <2>1, <3>2 DEF Subscribed, Live, taskVars
    <3> QED BY <2>1, <3>1, <3>2 DEF Subscribed
  <2>2. CASE SubscribeFails(c) \/ Rebalance(c) \/ SelfRestart(c) \/ ConsumerDisconnected(c)
    <3>1. UNCHANGED pc
      BY <2>2 DEF SubscribeFails, Rebalance, SelfRestart, ConsumerDisconnected, taskVars
    <3>2. \A d \in Consumers : Live(d)' => Live(d)
      BY <1>0, <2>2 DEF SubscribeFails, Rebalance, SelfRestart, ConsumerDisconnected, Live
    <3> QED BY <3>1, <3>2
  <2>3. CASE GroupJoin(c)
    <3>1. st[c] = "joining" /\ st' = [st EXCEPT ![c] = "joined"]
      BY <2>3 DEF GroupJoin
    <3>2. UNCHANGED pc \/ \E t \in Tasks : pc' = [pc EXCEPT ![t] = "idle"]
      BY <2>3 DEF GroupJoin, TaskEnds
    <3>3. \A d \in Consumers : Live(d)' => Live(d)
      BY <1>0, <3>1 DEF Live
    <3>4. \A t \in Tasks : pc'[t] = pc[t] \/ pc'[t] = "idle"
      BY <1>0, <3>2 DEF TypeOK
    <3> QED BY <3>3, <3>4
  <2>4. ASSUME NEW restart \in BOOLEAN, Crash(c, restart)
        PROVE  <1>2!1 /\ <1>2!2
    <3> DEFINE s == [st EXCEPT ![c] = IF restart THEN "restarting" ELSE "dead"]
    <3>1. st[c] \in {"joining", "joined"} /\ OnCrash(restart, s)
      BY <2>4 DEF Crash
    <3>2. \A d \in Consumers : s[d] \in {st[d], "restarting", "dead"} /\ (s[d] # st[d] => Live(d))
      BY <1>0, <3>1 DEF Live
    <3> HIDE DEF s
    <3>3. CASE st' = s /\ UNCHANGED pc
      BY <3>2, <3>3 DEF Live
    <3>4. ASSUME NEW t \in Tasks, pc' = [pc EXCEPT ![t] = "reconnectDisc"], DisconnectBegins(t, ref, s)
          PROVE  <1>2!1 /\ <1>2!2
      <4>1. \A d \in Consumers : st'[d] = IF d \in Held(ref) THEN "stopping" ELSE s[d]
        BY <3>4 DEF DisconnectBegins
      <4>2. \A d \in Consumers : Live(d)' => Live(d)
        BY <3>2, <4>1 DEF Live
      <4>3. Stopping
        BY <1>0, <4>1
      <4> QED BY <4>2, <4>3
    <3> QED BY <3>1, <3>3, <3>4 DEF OnCrash
  <2> QED BY <2>1, <2>2, <2>3, <2>4 DEF ConsumerStep
<1>3. Held(ref)' = Held(ref)
  BY <1>1 DEF Held
<1>4. NoLeak'
  BY <1>1, <1>2, <1>3 DEF NoLeak
<1>5. HeldStops'
  <2> SUFFICES ASSUME closing = "open", NEW t \in Tasks, pc'[t] \in {"disc", "reconnectDisc"},
                      NEW d \in Held(ref)
               PROVE  ~Live(d)'
    BY <1>1, <1>3 DEF HeldStops
  <2>1. CASE pc'[t] = pc[t]
    BY <1>0, <1>2, <2>1 DEF HeldStops
  <2>2. CASE Stopping
    BY <2>2 DEF Live
  <2> QED BY <1>2, <2>1, <2>2
<1> QED BY <1>4, <1>5

LEMMA LeakRest ==
  ASSUME ServerInv, NoLeak, HeldStops,
         (\E t \in Tasks : Listen(t)) \/ Close \/ CloseReturns \/ BrokerChanges \/ UNCHANGED vars
  PROVE  NoLeak' /\ HeldStops'
<1>1. ASSUME NEW t \in Tasks, Listen(t)
      PROVE  NoLeak' /\ HeldStops'
  <2>1. TypeOK /\ Attempt(t, ref) /\ listen = "not called"
    BY <1>1 DEF ServerInv, Listen
  <2>2. \A c \in Consumers : st'[c] \in {"off", "connecting"}
    BY <2>1, AttemptStates DEF ServerInv, ControlInv, BeforeListen
  <2>3. NoLeak'
    BY <2>2 DEF NoLeak, Live
  <2>4. \A s \in Tasks : pc'[s] \in {"idle", "connectEach", "connectBatch"}
    BY <2>1, AttemptMoves DEF Moves, ServerInv, ControlInv, BeforeListen, Busy
  <2> QED BY <2>3, <2>4 DEF HeldStops
<1>2. CASE Close \/ CloseReturns
  <2>1. closing' # "open"
    BY <1>2 DEF Close, CloseReturns
  <2> QED BY <2>1 DEF NoLeak, HeldStops
<1>3. CASE BrokerChanges \/ UNCHANGED vars
  <2>1. UNCHANGED <<closing, st, ref, pc>>
    BY <1>3 DEF BrokerChanges, vars, taskVars
  <2> QED BY <2>1 DEF NoLeak, HeldStops, Live, Held
<1> QED BY <1>1, <1>2, <1>3

LEMMA LeakInit == Init => NoLeak /\ HeldStops
BY DEF Init, NoLeak, HeldStops, Live

LEMMA LeakStep ==
  ServerInv /\ (~ReviveOnRun \/ SubscribeInv) /\ NoLeak /\ HeldStops /\ [Next]_vars => NoLeak' /\ HeldStops'
BY LeakTask, LeakConsumer, LeakRest DEF Next

\* A subscribe() is pending only while the one activation waits in start().
LEMMA SubscribeWaits ==
  ASSUME ServerInv, SubscribeInv, closing = "open", NEW t \in Tasks, Busy(t),
         NEW c \in Consumers, bind[c] = "subscribe"
  PROVE  pc[t] = "start" /\ c \in binds[t] /\ isConnecting /\ st[c] = "connected"
<1>1. PICK s \in Tasks : pc[s] = "start" /\ c \in binds[s]
  BY DEF SubscribeInv
<1>2. s = t
  BY <1>1 DEF ServerInv, ControlInv, OneConnector, Busy
<1> QED BY <1>1, <1>2 DEF SubscribeInv, ServerInv, ControlInv, FlagsTell, Busy

LEMMA StartSubscribes ==
  ASSUME TypeOK, NEW t \in Tasks, NEW fields, NEW s, Start(t, fields, s),
         NEW m, Modes = {m}, \A c \in Consumers : bind[c] # "subscribe", NEW c \in Consumers,
         bind'[c] = "subscribe"
  PROVE  c = fields[m] /\ st' = s /\ pc'[t] = "start" /\ c \in binds'[t]
<1> DEFINE bound == {fields[k] : k \in Modes} \ {NULL}
<1>1. bind' = [d \in Consumers |-> IF d \in bound THEN "subscribe" ELSE bind[d]]
  BY DEF Start
<1>2. c \in bound
  BY <1>1
<1>3. c = fields[m] /\ c # NULL
  BY <1>2
<1>4. st' = s /\ pc' = [pc EXCEPT ![t] = "start"] /\ binds' = [binds EXCEPT ![t] = bound]
  BY <1>3 DEF Start
<1>5. binds'[t] = bound
  BY <1>4 DEF TypeOK
<1> QED BY <1>2, <1>3, <1>4, <1>5 DEF TypeOK

LEMMA SubscribeTask ==
  ASSUME ServerInv, OneMode, SubscribeInv, NEW t \in Tasks, TaskStep(t)
  PROVE  SubscribeInv'
<1> SUFFICES ASSUME closing = "open", NEW c \in Consumers, bind'[c] = "subscribe"
             PROVE  st'[c] = "connected" /\ \E s \in Tasks : pc'[s] = "start" /\ c \in binds'[s]
  <2>1. closing' = closing
    BY TaskStepFields DEF ServerInv, TaskFields
  <2> QED BY <2>1 DEF SubscribeInv
<1>0. TypeOK /\ ~isStop /\ Busy(t)
  BY TaskStepControl DEF ServerInv, FieldsInv, CloseInv, TaskControl
<1>1. PICK m \in {EACH, BATCH} : Modes = {m}
  BY DEF OneMode
<1>2. CASE EachConnected(t) \/ BatchConnected(t)
  <2> DEFINE fields == [ref EXCEPT ![m] = cur[t]]
  <2> DEFINE now == [st EXCEPT ![cur[t]] = "connected"]
  <2>1. pc[t] \in {"connectEach", "connectBatch"}
    BY <1>2 DEF EachConnected, BatchConnected
  <2>2. m = IF pc[t] = "connectEach" THEN EACH ELSE BATCH
    BY <1>1, <2>1 DEF ServerInv, FieldsInv, ModesInv
  <2>3. Start(t, fields, now)
    BY <1>1, <1>2, <2>2 DEF EachConnected, BatchConnected, EACH, BATCH
  <2>4. \A d \in Consumers : bind[d] # "subscribe"
    BY <1>0, <2>1, SubscribeWaits
  <2>5. fields[m] = cur[t]
    BY <1>0 DEF TypeOK
  <2> HIDE DEF fields
  <2>6. c = fields[m] /\ st' = now /\ pc'[t] = "start" /\ c \in binds'[t]
    BY <1>0, <1>1, <2>3, <2>4, StartSubscribes
  <2>7. now[c] = "connected"
    BY <1>0, <2>5, <2>6 DEF TypeOK
  <2> QED BY <2>6, <2>7
<1>3. bind' = bind \/ Attempt(t, ref) \/ Attempt(t, NoRefs)
      => pc[t] = "start" /\ c \in binds[t] /\ bind[c] = "subscribe"
  <2>1. bind[c] = "subscribe" => pc[t] = "start" /\ c \in binds[t]
    BY <1>0, SubscribeWaits
  <2> QED BY <1>0, <2>1, AttemptStates
<1>4. CASE StartFails(t)
  <2>1. PICK d \in binds[t] : bind[d] = "failed"
    BY <1>4 DEF StartFails
  <2>2. binds[t] = {ref[m]} /\ bind' = bind
    BY <1>0, <1>1, <1>4 DEF StartFails, ServerInv, FieldsInv, BindsInv
  <2> QED BY <1>3, <2>1, <2>2
<1>5. CASE ConnectFails(t) \/ FailedAttemptDisconnected(t) \/ GiveUp(t) \/ Retry(t) \/ ReconnectDisconnected(t)
  <2>1. pc[t] # "start"
    BY <1>5 DEF ConnectFails, FailedAttemptDisconnected, GiveUp, Retry, ReconnectDisconnected
  <2>2. bind' = bind \/ Attempt(t, ref) \/ Attempt(t, NoRefs)
    BY <1>5 DEF ConnectFails, FailedAttemptDisconnected, GiveUp, Retry, ReconnectDisconnected
  <2> QED BY <1>3, <2>1, <2>2
<1> QED BY <1>2, <1>4, <1>5 DEF TaskStep

LEMMA SubscribeConsumer ==
  ASSUME ServerInv, SubscribeInv, NEW c \in Consumers,
         ConsumerStep(c) \/ Rebalance(c) \/ \E restart \in BOOLEAN : Crash(c, restart)
  PROVE  SubscribeInv'
<1> SUFFICES ASSUME closing = "open", NEW d \in Consumers, bind'[d] = "subscribe"
             PROVE  st'[d] = "connected" /\ \E t \in Tasks : pc'[t] = "start" /\ d \in binds'[t]
  <2>1. closing' = closing
    BY DEF ConsumerStep, Subscribed, SubscribeFails, GroupJoin, Crash, SelfRestart,
           ConsumerDisconnected, Rebalance
  <2> QED BY <2>1 DEF SubscribeInv
<1>0. TypeOK
  BY DEF ServerInv
<1>1. bind[d] = "subscribe"
  <2>1. CASE Subscribed(c) \/ SubscribeFails(c)
    BY <1>0, <2>1 DEF Subscribed, SubscribeFails, TypeOK
  <2>2. CASE \/ SelfRestart(c) \/ ConsumerDisconnected(c) \/ Rebalance(c)
             \/ \E restart \in BOOLEAN : Crash(c, restart)
    BY <1>0, <2>2 DEF SelfRestart, ConsumerDisconnected, Rebalance, Crash, TypeOK
  <2>3. CASE GroupJoin(c)
    BY <1>0, <2>3 DEF GroupJoin, TypeOK
  <2> QED BY <2>1, <2>2, <2>3 DEF ConsumerStep
<1>2. PICK t \in Tasks : pc[t] = "start" /\ d \in binds[t]
  BY <1>1 DEF SubscribeInv
<1>3. st[d] = "connected" /\ isConnecting
  BY <1>1, <1>2, SubscribeWaits DEF Busy
<1>4. CASE Subscribed(c) \/ SubscribeFails(c)
  <2>1. d # c
    BY <1>0, <1>4 DEF Subscribed, SubscribeFails, TypeOK
  <2> QED BY <1>0, <1>2, <1>3, <1>4, <2>1 DEF Subscribed, SubscribeFails, TypeOK, taskVars
<1>5. CASE SelfRestart(c) \/ ConsumerDisconnected(c) \/ Rebalance(c)
  <2>1. UNCHANGED <<pc, binds>>
    BY <1>5 DEF SelfRestart, ConsumerDisconnected, Rebalance, taskVars
  <2>2. st'[d] = st[d]
    BY <1>0, <1>3, <1>5 DEF SelfRestart, ConsumerDisconnected, Rebalance, TypeOK
  <2> QED BY <1>2, <1>3, <2>1, <2>2
<1>6. CASE GroupJoin(c)
  <2>1. c # d /\ st' = [st EXCEPT ![c] = "joined"]
    BY <1>3, <1>6 DEF GroupJoin
  <2>2. bind'[d] # "done" /\ st'[d] = st[d]
    BY <2>1 DEF ServerInv, TypeOK
  <2>3. UNCHANGED <<pc, binds>>
    <3>1. ASSUME NEW s \in Tasks, pc[s] = "start", \A e \in binds[s] : bind'[e] = "done"
          PROVE  FALSE
      <4>1. s = t
        BY <1>2, <3>1 DEF ServerInv, ControlInv, OneConnector, Busy
      <4> QED BY <1>2, <2>2, <3>1, <4>1
    <3> QED BY <1>6, <3>1 DEF GroupJoin
  <2> QED BY <1>2, <1>3, <2>2, <2>3
<1>7. ASSUME NEW restart \in BOOLEAN, Crash(c, restart)
      PROVE  st'[d] = "connected" /\ \E s \in Tasks : pc'[s] = "start" /\ d \in binds'[s]
  <2>1. c # d
    BY <1>3, <1>7 DEF Crash
  <2>2. /\ st' = [st EXCEPT ![c] = IF restart THEN "restarting" ELSE "dead"]
        /\ UNCHANGED <<pc, binds>>
    BY <1>3, <1>7 DEF Crash, OnCrash
  <2> QED BY <1>0, <1>2, <1>3, <2>1, <2>2 DEF TypeOK
<1> QED BY <1>4, <1>5, <1>6, <1>7 DEF ConsumerStep

LEMMA SubscribeRest ==
  ASSUME ServerInv, SubscribeInv,
         (\E t \in Tasks : Listen(t)) \/ Close \/ CloseReturns \/ BrokerChanges \/ UNCHANGED vars
  PROVE  SubscribeInv'
<1>1. ASSUME NEW t \in Tasks, Listen(t)
      PROVE  SubscribeInv'
  <2>1. TypeOK /\ Attempt(t, ref) /\ listen = "not called"
    BY <1>1 DEF ServerInv, Listen
  <2>2. \A c \in Consumers : bind'[c] = "none"
    BY <2>1, AttemptStates DEF ServerInv, ControlInv, BeforeListen
  <2> QED BY <2>2 DEF SubscribeInv
<1>2. CASE Close \/ CloseReturns
  <2>1. closing' # "open"
    BY <1>2 DEF Close, CloseReturns
  <2> QED BY <2>1 DEF SubscribeInv
<1>3. CASE BrokerChanges \/ UNCHANGED vars
  <2>1. UNCHANGED <<closing, st, bind, pc, binds>>
    BY <1>3 DEF BrokerChanges, vars, taskVars
  <2> QED BY <2>1 DEF SubscribeInv
<1> QED BY <1>1, <1>2, <1>3

LEMMA SubscribeStep == OneMode /\ ServerInv /\ SubscribeInv /\ [Next]_vars => SubscribeInv'
BY SubscribeTask, SubscribeConsumer, SubscribeRest DEF Next

----------------------------------------------------------------------------
(* A settled server serves.                                                *)

\* Before close() only a connected server ends its activation.
LEMMA EndsWhenStopped ==
  ASSUME TypeOK, NEW t \in Tasks, TaskStep(t)
  PROVE  pc'[t] # "idle" \/ isStop'
<1>1. CASE EachConnected(t) \/ BatchConnected(t)
  <2>1. PICK fields, s : \/ AttemptFails(t, fields, s)
                         \/ Start(t, fields, s)
                         \/ CreateConsumer(t, "connectBatch", fields, s)
    BY <1>1 DEF EachConnected, BatchConnected
  <2>2. CASE CreateConsumer(t, "connectBatch", fields, s)
    BY <2>2 DEF CreateConsumer, TypeOK
  <2> QED BY <2>1, <2>2, AttemptFailsMoves, StartMoves DEF Moves
<1>2. CASE ConnectFails(t) \/ StartFails(t)
  BY <1>2, AttemptFailsMoves DEF ConnectFails, StartFails, Moves
<1>3. CASE FailedAttemptDisconnected(t)
  BY <1>3 DEF FailedAttemptDisconnected, TypeOK
<1>4. CASE GiveUp(t)
  BY <1>4 DEF GiveUp
<1>5. CASE Retry(t)
  BY <1>5, AttemptMoves DEF Retry, Moves
<1>6. CASE ReconnectDisconnected(t)
  BY <1>6, AttemptMoves DEF ReconnectDisconnected, Moves
<1> QED BY <1>1, <1>2, <1>3, <1>4, <1>5, <1>6 DEF TaskStep

LEMMA SettledConsumer ==
  ASSUME ServerInv, OneMode, SettledMeansServing, NEW c \in Consumers,
         ConsumerStep(c) \/ Rebalance(c) \/ \E restart \in BOOLEAN : Crash(c, restart)
  PROVE  SettledMeansServing'
<1> SUFFICES ASSUME Settled', NEW m \in Modes
             PROVE  ref'[m] # NULL /\ Live(ref[m])'
  BY DEF SettledMeansServing
<1>0. TypeOK /\ isStop' = isStop /\ ref' = ref
  BY DEF ServerInv, ConsumerStep, Subscribed, SubscribeFails, GroupJoin, Crash, SelfRestart,
         ConsumerDisconnected, Rebalance, flags
<1>a. ref[m] \in Consumers \cup {NULL}
  BY <1>0, ModesAssumption DEF TypeOK
<1>1. CASE Subscribed(c) \/ SubscribeFails(c) \/ SelfRestart(c) \/ ConsumerDisconnected(c) \/ Rebalance(c)
  <2>1. UNCHANGED <<isStop, listen, pc>>
    BY <1>1 DEF Subscribed, SubscribeFails, SelfRestart, ConsumerDisconnected, Rebalance, flags, taskVars
  <2>2. ref[m] # NULL /\ Live(ref[m])
    BY <2>1 DEF SettledMeansServing, Settled, Busy
  <2>3. st'[ref[m]] = st[ref[m]] \/ st'[ref[m]] = "joining"
    BY <1>0, <1>a, <1>1, <2>2 DEF Subscribed, SubscribeFails, SelfRestart, ConsumerDisconnected,
                            Rebalance, TypeOK, Live
  <2> QED BY <1>0, <2>2, <2>3 DEF Live
<1>2. CASE GroupJoin(c)
  <2>1. st' = [st EXCEPT ![c] = "joined"]
    BY <1>2 DEF GroupJoin
  <2>2. CASE UNCHANGED <<pc, listen>>
    <3>1. ref[m] # NULL /\ Live(ref[m])
      BY <1>0, <2>2 DEF SettledMeansServing, Settled, Busy
    <3> QED BY <1>0, <1>a, <2>1, <3>1 DEF Live, TypeOK
  <2>3. ASSUME NEW t \in Tasks, pc[t] = "start", c \in binds[t]
        PROVE  ref'[m] # NULL /\ Live(ref[m])'
    <3>1. binds[t] = {ref[m]}
      BY <1>0, <2>3 DEF ServerInv, FieldsInv, BindsInv, OneMode, Settled
    <3> QED BY <1>0, <2>1, <2>3, <3>1, NullAssumption DEF Live, TypeOK
  <2> QED BY <1>2, <2>2, <2>3 DEF GroupJoin
<1>3. ASSUME NEW restart \in BOOLEAN, Crash(c, restart)
      PROVE  ref'[m] # NULL /\ Live(ref[m])'
  <2>1. UNCHANGED <<listen, pc>>
    <3>1. ASSUME NEW t \in Tasks, pc' = [pc EXCEPT ![t] = "reconnectDisc"]
          PROVE  FALSE
      BY <1>0, <3>1 DEF Settled, Busy, TypeOK
    <3> QED BY <1>3, <3>1 DEF Crash, OnCrash
  <2>2. Settled
    BY <1>0, <2>1 DEF Settled, Busy
  <2>3. ~isConnecting /\ ~isReconnecting /\ ~isStop
    BY <2>2 DEF Settled, ServerInv, FieldsInv, FlagsMean
  <2>4. restart /\ st' = [st EXCEPT ![c] = IF restart THEN "restarting" ELSE "dead"]
    <3>1. ASSUME NEW t \in Tasks, pc' = [pc EXCEPT ![t] = "reconnectDisc"]
          PROVE  FALSE
      BY <1>0, <3>1 DEF Settled, Busy, TypeOK
    <3> QED BY <1>3, <2>3, <3>1 DEF Crash, OnCrash
  <2>5. ref[m] # NULL /\ Live(ref[m])
    BY <2>2 DEF SettledMeansServing
  <2> QED BY <1>0, <1>a, <2>4, <2>5 DEF Live, TypeOK
<1> QED BY <1>1, <1>2, <1>3 DEF ConsumerStep

LEMMA SettledStep ==
  OneMode /\ ServerInv /\ SettledMeansServing /\ [Next]_vars => SettledMeansServing'
<1> SUFFICES ASSUME OneMode, ServerInv, SettledMeansServing, [Next]_vars
             PROVE  SettledMeansServing'
  OBVIOUS
<1>1. ASSUME NEW t \in Tasks, Listen(t) \/ TaskStep(t)
      PROVE  SettledMeansServing'
  <2>1. pc'[t] # "idle" \/ isStop'
    BY <1>1, EndsWhenStopped, AttemptMoves DEF Listen, Moves, ServerInv
  <2> QED BY <2>1 DEF SettledMeansServing, Settled, Busy
<1>2. CASE Close \/ CloseReturns
  <2>1. isStop'
    BY <1>2 DEF Close, CloseReturns, ServerInv, FieldsInv, CloseInv, flags
  <2> QED BY <2>1 DEF SettledMeansServing, Settled
<1>3. CASE BrokerChanges \/ UNCHANGED vars
  <2>1. UNCHANGED <<isStop, listen, pc, ref, st>>
    BY <1>3 DEF BrokerChanges, vars, flags, taskVars
  <2> QED BY <2>1 DEF SettledMeansServing, Settled, Busy, Live
<1> QED BY <1>1, <1>2, <1>3, SettledConsumer DEF Next

----------------------------------------------------------------------------
(* The health indicator tells of a crash.                                  *)

LEMMA HealthTask ==
  ASSUME ServerInv, OneMode, HealthTellsCrash, NEW t \in Tasks, TaskStep(t)
  PROVE  HealthTellsCrash'
<1> SUFFICES ASSUME closing = "open", NEW m \in Modes, ref'[m] # NULL,
                    st'[ref'[m]] \in {"dead", "restarting"}
             PROVE  status' \notin {"CONNECTED", "REBALANCING"}
  <2>1. closing' = closing
    BY TaskStepFields DEF ServerInv, TaskFields
  <2> QED BY <2>1 DEF HealthTellsCrash
<1>0. TypeOK /\ st \in [Consumers -> ConsumerStates] /\ m \in {EACH, BATCH} /\ Modes = {m}
  <2>1. TypeOK
    BY DEF ServerInv
  <2>2. st \in [Consumers -> ConsumerStates]
    BY <2>1 DEF TypeOK
  <2> QED BY <2>1, <2>2, ModesAssumption DEF OneMode
<1>1. CASE EachConnected(t) \/ BatchConnected(t)
  <2> DEFINE fields == [ref EXCEPT ![m] = cur[t]]
  <2> DEFINE now == [st EXCEPT ![cur[t]] = "connected"]
  <2>1. pc[t] \in {"connectEach", "connectBatch"}
    BY <1>1 DEF EachConnected, BatchConnected
  <2>2. m = IF pc[t] = "connectEach" THEN EACH ELSE BATCH
    BY <1>0, <2>1 DEF ServerInv, FieldsInv, ModesInv
  <2>3. ref' = fields /\ Start(t, fields, now)
    BY <1>0, <1>1, <2>2 DEF EachConnected, BatchConnected, EACH, BATCH
  <2>4. ref'[m] = cur[t] /\ cur[t] \in Consumers
    BY <1>0, <2>3 DEF TypeOK
  <2>5. now \in [Consumers -> ConsumerStates] /\ now[cur[t]] = "connected"
    BY <1>0, <2>4 DEF ConsumerStates
  <2> HIDE DEF fields, now
  <2>6. st'[cur[t]] \in {now[cur[t]], "stopping", "connecting"}
    BY <1>0, <2>3, <2>4, <2>5, PieceStates
  <2> QED BY <2>4, <2>5, <2>6
<1>2. CASE ConnectFails(t) \/ StartFails(t) \/ FailedAttemptDisconnected(t) \/ GiveUp(t)
           \/ Retry(t) \/ ReconnectDisconnected(t)
  <2>1. status' = status /\ ref' \in {ref, NoRefs}
    BY <1>2 DEF ConnectFails, StartFails, FailedAttemptDisconnected, GiveUp, Retry,
                ReconnectDisconnected, DisconnectReturns
  <2>2. ref' = ref /\ ref[m] \in Consumers
    <3>1. ref' # NoRefs
      BY <1>0 DEF NoRefs
    <3> QED BY <1>0, <2>1, <3>1 DEF TypeOK
  <2>3. \A c \in Consumers : st'[c] \in {st[c], "off", "stopping", "connecting"}
    <3>1. CASE ConnectFails(t)
      <4> DEFINE s == [st EXCEPT ![cur[t]] = "off"]
      <4>1. \A c \in Consumers : s[c] \in {st[c], "off"}
        BY <1>0
      <4>2. \A c \in Consumers : st'[c] \in {s[c], "stopping"}
        BY <3>1 DEF ConnectFails, AttemptFails, DisconnectBegins
      <4> QED BY <4>1, <4>2
    <3>2. CASE StartFails(t)
      BY <3>2 DEF StartFails, AttemptFails, DisconnectBegins
    <3>3. CASE FailedAttemptDisconnected(t) \/ GiveUp(t)
      BY <3>3 DEF FailedAttemptDisconnected, GiveUp
    <3>4. CASE Retry(t) \/ ReconnectDisconnected(t)
      BY <1>0, <3>4, AttemptStates DEF Retry, ReconnectDisconnected
    <3> QED BY <1>2, <3>1, <3>2, <3>3, <3>4
  <2>4. st[ref[m]] \in {"dead", "restarting"}
    BY <2>2, <2>3
  <2> QED BY <2>1, <2>2, <2>4 DEF HealthTellsCrash
<1> QED BY <1>1, <1>2 DEF TaskStep

LEMMA HealthConsumer ==
  ASSUME ServerInv, OneMode, NoLeak, HealthTellsCrash, NEW c \in Consumers,
         ConsumerStep(c) \/ Rebalance(c) \/ \E restart \in BOOLEAN : Crash(c, restart)
  PROVE  HealthTellsCrash'
<1> SUFFICES ASSUME closing = "open", NEW m \in Modes, ref[m] # NULL,
                    st'[ref[m]] \in {"dead", "restarting"}
             PROVE  status' \notin {"CONNECTED", "REBALANCING"}
  <2>1. UNCHANGED <<ref, closing>>
    BY DEF ConsumerStep, Subscribed, SubscribeFails, GroupJoin, Crash, SelfRestart,
           ConsumerDisconnected, Rebalance
  <2> QED BY <2>1 DEF HealthTellsCrash
<1>0. TypeOK /\ m \in {EACH, BATCH} /\ Modes = {m} /\ ref[m] \in Consumers
  <2>1. TypeOK
    BY DEF ServerInv
  <2>2. m \in {EACH, BATCH} /\ Modes = {m}
    BY ModesAssumption DEF OneMode
  <2>3. ref \in [{EACH, BATCH} -> Consumers \cup {NULL}]
    BY <2>1 DEF TypeOK
  <2> QED BY <2>1, <2>2, <2>3
<1>1. CASE Subscribed(c) \/ SubscribeFails(c) \/ SelfRestart(c) \/ ConsumerDisconnected(c)
  <2>1. status' \in {status, "DISCONNECTED"}
    BY <1>1 DEF Subscribed, SubscribeFails, SelfRestart, ConsumerDisconnected
  <2>2. st'[ref[m]] \in {st[ref[m]], "joining", "off"}
    BY <1>0, <1>1 DEF Subscribed, SubscribeFails, SelfRestart, ConsumerDisconnected, TypeOK
  <2> QED BY <2>1, <2>2 DEF HealthTellsCrash
<1>2. CASE GroupJoin(c) \/ Rebalance(c)
  <2>1. st[c] \in {"joining", "joined"} /\ st'[c] = "joined"
    BY <1>0, <1>2 DEF GroupJoin, Rebalance, TypeOK
  <2>2. c \in Held(ref)
    BY <2>1 DEF NoLeak, Live
  <2>3. c = ref[m]
    BY <1>0, <2>2 DEF Held, ServerInv, FieldsInv, ModesInv
  <2> QED BY <2>1, <2>3
<1>3. CASE \E restart \in BOOLEAN : Crash(c, restart)
  BY <1>3 DEF Crash
<1> QED BY <1>1, <1>2, <1>3 DEF ConsumerStep

LEMMA HealthStep ==
  OneMode /\ ServerInv /\ NoLeak /\ HealthTellsCrash /\ [Next]_vars => HealthTellsCrash'
<1> SUFFICES ASSUME OneMode, ServerInv, NoLeak, HealthTellsCrash, [Next]_vars
             PROVE  HealthTellsCrash'
  OBVIOUS
<1>1. ASSUME NEW t \in Tasks, Listen(t)
      PROVE  HealthTellsCrash'
  <2>1. NoConsumers(ref) /\ ref' = ref
    BY <1>1 DEF Listen, ServerInv, ControlInv, BeforeListen
  <2> QED BY <2>1, ModesAssumption DEF HealthTellsCrash, NoConsumers
<1>2. CASE Close \/ CloseReturns
  <2>1. closing' # "open"
    BY <1>2 DEF Close, CloseReturns
  <2> QED BY <2>1 DEF HealthTellsCrash
<1>3. CASE BrokerChanges \/ UNCHANGED vars
  <2>1. UNCHANGED <<closing, ref, st, status>>
    BY <1>3 DEF BrokerChanges, vars
  <2> QED BY <2>1 DEF HealthTellsCrash
<1> QED BY <1>1, <1>2, <1>3, HealthTask, HealthConsumer DEF Next

----------------------------------------------------------------------------
LEMMA OneModeInit == Init => SubscribeInv /\ SettledMeansServing /\ HealthTellsCrash
<1>1. Init => \A t \in Tasks, c \in Consumers : bind[c] = "none" /\ st[c] = "off"
  BY DEF Init
<1>2. Init => SubscribeInv
  BY DEF Init, SubscribeInv
<1> QED BY <1>2, ModesAssumption DEF Init, SettledMeansServing, Settled, HealthTellsCrash

\* Before close() no live consumer is unreachable: every attempt that fails, and
\* every reconnect(), disconnects what it has connected.  Where kafkajs brings a
\* consumer back that is disconnected before it runs, the server must have one
\* mode: with two, the slower bind*Events() of a failed attempt revives its
\* consumer after the fields have been cleared.
THEOREM NoConsumerLeaks ==
  ASSUME ~ReviveOnRun \/ OneMode
  PROVE  Spec => []NoLeak
<1>1. CASE ~ReviveOnRun
  <2>1. Init => ServerInv /\ NoLeak /\ HeldStops
    BY ServerInit, LeakInit
  <2>2. ServerInv /\ NoLeak /\ HeldStops /\ [Next]_vars => (ServerInv /\ NoLeak /\ HeldStops)'
    BY <1>1, ServerStep, LeakStep
  <2> QED BY <2>1, <2>2, PTL DEF Spec
<1>2. CASE OneMode
  <2> DEFINE IInv == ServerInv /\ SubscribeInv /\ NoLeak /\ HeldStops
  <2>1. Init => IInv
    BY ServerInit, LeakInit, OneModeInit
  <2>2. IInv /\ [Next]_vars => IInv'
    BY <1>2, ServerStep, LeakStep, SubscribeStep
  <2>3. IInv => NoLeak
    OBVIOUS
  <2> QED BY <2>1, <2>2, <2>3, PTL DEF Spec
<1> QED BY <1>1, <1>2

\* A server with one mode that has started and is not reconnecting has a live
\* consumer: every CRASH that kafkajs does not restart starts a reconnect().  With
\* two modes a consumer may crash while the other one is still being started.
THEOREM SettledServes ==
  ASSUME OneMode
  PROVE  Spec => []SettledMeansServing
<1>1. Init => ServerInv /\ SettledMeansServing
  BY ServerInit, OneModeInit
<1>2. ServerInv /\ SettledMeansServing /\ [Next]_vars => (ServerInv /\ SettledMeansServing)'
  BY ServerStep, SettledStep
<1> QED BY <1>1, <1>2, PTL DEF Spec

\* With one mode the status that feeds the health indicator never shows a crashed
\* consumer as connected.  With two, the status is the one of the last event of
\* either consumer.
THEOREM HealthTellsOfCrash ==
  ASSUME OneMode
  PROVE  Spec => []HealthTellsCrash
<1> DEFINE IInv == ServerInv /\ SubscribeInv /\ NoLeak /\ HeldStops /\ HealthTellsCrash
<1>1. Init => IInv
  BY ServerInit, LeakInit, OneModeInit
<1>2. IInv /\ [Next]_vars => IInv'
  BY ServerStep, LeakStep, SubscribeStep, HealthStep
<1>3. IInv => HealthTellsCrash
  OBVIOUS
<1> QED BY <1>1, <1>2, <1>3, PTL DEF Spec
=============================================================================
