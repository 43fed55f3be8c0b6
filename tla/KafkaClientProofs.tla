-------------------------- MODULE KafkaClientProofs --------------------------
(* Proofs about KafkaClient, for any number of callers and producers.       *)
EXTENDS KafkaClient, TLAPS

\* Nobody refers to a producer that has not been created.
Referred ==
  /\ producer # None => kafka[producer] # "unused"
  /\ \A r \in Requests : request[r] \in {"connecting", "sending"} =>
        via[r] \in Producers /\ kafka[via[r]] # "unused"

\* While each close() began with a connected producer and alone, the one that is
\* running disconnects the producer the field holds, which stays connected.
CloseIsAlone ==
  calm => \A p \in closing : p \in Producers /\ p = producer /\ kafka[p] = "connected"

ClientInv == TypeOK /\ Referred /\ CloseIsAlone /\ OneProducer

----------------------------------------------------------------------------
(* What the operators of the module give.                                  *)

LEMMA ErrorIsKind == \A e : handleKafkaError(e) \in Kinds
  BY DEF handleKafkaError, Kinds

\* Settled requests wait for nothing; the others stay where they are.
LEMMA SettleEffect ==
  ASSUME TypeOK, NEW R \in SUBSET Requests, NEW x \in Kinds \cup {"none", "sent"}, Settle(R, x)
  PROVE  /\ request' \in [Requests -> {"idle", "connecting", "encoding", "sending"}]
         /\ via' \in [Requests -> Producers \cup {None}]
         /\ reply' \in [Requests -> Kinds \cup {"none", "sent"}]
         /\ \A r \in Requests : request'[r] = "idle" \/ (request'[r] = request[r] /\ via'[r] = via[r])
  BY DEF TypeOK, Settle

LEMMA WaitEffect ==
  ASSUME TypeOK, NEW r \in Requests, NEW p \in Producers \cup {None},
         NEW where \in {"connecting", "encoding", "sending"}, Wait(r, where, p)
  PROVE  /\ request' \in [Requests -> {"idle", "connecting", "encoding", "sending"}]
         /\ via' \in [Requests -> Producers \cup {None}]
         /\ reply' \in [Requests -> Kinds \cup {"none", "sent"}]
         /\ request'[r] = where /\ via'[r] = p
         /\ \A q \in Requests \ {r} : request'[q] = request[q] /\ via'[q] = via[q]
  BY DEF TypeOK, Wait

\* A step that leaves the producers alone and settles requests.
LEMMA SettleKeeps ==
  ASSUME ClientInv, NEW R \in SUBSET Requests, NEW x \in Kinds \cup {"none", "sent"}, Settle(R, x),
         UNCHANGED <<producer, kafka, closing, calm>>
  PROVE  ClientInv'
  <1>0. TypeOK /\ Referred /\ CloseIsAlone /\ OneProducer
    BY DEF ClientInv
  <1>1. /\ request' \in [Requests -> {"idle", "connecting", "encoding", "sending"}]
        /\ via' \in [Requests -> Producers \cup {None}]
        /\ reply' \in [Requests -> Kinds \cup {"none", "sent"}]
        /\ \A r \in Requests : request'[r] = "idle" \/ (request'[r] = request[r] /\ via'[r] = via[r])
    BY <1>0, SettleEffect
  <1>2. Referred'
    BY <1>0, <1>1 DEF Referred
  <1>3. TypeOK'
    BY <1>0, <1>1, <1>2 DEF TypeOK, Referred
  <1>4. CloseIsAlone' /\ OneProducer'
    BY <1>0 DEF CloseIsAlone, OneProducer
  <1> QED BY <1>2, <1>3, <1>4 DEF ClientInv

----------------------------------------------------------------------------
LEMMA ClientInit == Init => ClientInv
<1> SUFFICES ASSUME Init PROVE ClientInv
  OBVIOUS
<1>1. /\ producer = None /\ kafka = [p \in Producers |-> "unused"]
      /\ request = [r \in Requests |-> "idle"] /\ via = [r \in Requests |-> None]
      /\ reply = [r \in Requests |-> "none"] /\ closing = {}
  BY Zenon DEF Init
<1>2. calm \in BOOLEAN
  BY Zenon DEF Init
<1>3. TypeOK
  BY <1>1, <1>2 DEF TypeOK, States
<1>4. Referred /\ CloseIsAlone /\ OneProducer
  BY <1>1 DEF Referred, CloseIsAlone, OneProducer
<1> QED BY <1>3, <1>4 DEF ClientInv

\* Steps of one request.
LEMMA RequestKeeps ==
  ASSUME ClientInv, NEW r \in Requests, Send(r) \/ SendInvalid(r) \/ RequestStep(r)
  PROVE  ClientInv'
<1>0. TypeOK /\ Referred /\ CloseIsAlone /\ OneProducer
  BY DEF ClientInv
<1>1. CASE Send(r)
  <2>0. connect(r) /\ UNCHANGED <<closing, calm>>
    BY <1>1, Zenon DEF Send
  <2>1. CASE producer # None /\ Wait(r, "encoding", None) /\ UNCHANGED <<producer, kafka>>
    <3>1. /\ request' \in [Requests -> {"idle", "connecting", "encoding", "sending"}]
          /\ via' \in [Requests -> Producers \cup {None}]
          /\ reply' \in [Requests -> Kinds \cup {"none", "sent"}]
          /\ request'[r] = "encoding"
          /\ \A q \in Requests \ {r} : request'[q] = request[q] /\ via'[q] = via[q]
      BY <1>0, <2>1, WaitEffect
    <3>2. Referred'
      BY <1>0, <2>1, <3>1 DEF Referred
    <3>3. TypeOK'
      BY <1>0, <2>0, <2>1, <3>1, <3>2 DEF TypeOK, Referred
    <3>4. CloseIsAlone' /\ OneProducer'
      BY <1>0, <2>0, <2>1 DEF CloseIsAlone, OneProducer
    <3> QED BY <3>2, <3>3, <3>4 DEF ClientInv
  <2>2. CASE /\ producer = None
             /\ \E p \in Producers : /\ kafka[p] = "unused" /\ producer' = p
                                     /\ kafka' = [kafka EXCEPT ![p] = "connecting"]
                                     /\ Wait(r, "connecting", p)
    <3>0. PICK p \in Producers : /\ kafka[p] = "unused" /\ producer' = p
                                 /\ kafka' = [kafka EXCEPT ![p] = "connecting"]
                                 /\ Wait(r, "connecting", p)
      BY <2>2
    <3>1. /\ request' \in [Requests -> {"idle", "connecting", "encoding", "sending"}]
          /\ via' \in [Requests -> Producers \cup {None}]
          /\ reply' \in [Requests -> Kinds \cup {"none", "sent"}]
          /\ request'[r] = "connecting" /\ via'[r] = p
          /\ \A q \in Requests \ {r} : request'[q] = request[q] /\ via'[q] = via[q]
      BY <1>0, <3>0, WaitEffect
    <3>2. /\ kafka' \in [Producers -> States] /\ kafka'[p] = "connecting"
          /\ \A q \in Producers \ {p} : kafka'[q] = kafka[q]
      BY <1>0, <3>0 DEF TypeOK, States
    <3>3. Referred'
      BY <1>0, <3>0, <3>1, <3>2 DEF Referred
    <3>4. TypeOK'
      BY <1>0, <2>0, <3>0, <3>1, <3>2, <3>3 DEF TypeOK, Referred
    <3>5. CloseIsAlone' /\ OneProducer'
      BY <1>0, <2>0, <2>2, <3>0, <3>2, NoneAssumption DEF CloseIsAlone, OneProducer
    <3> QED BY <3>3, <3>4, <3>5 DEF ClientInv
  <2> QED BY <2>0, <2>1, <2>2, Zenon DEF connect
<1>2. CASE Dispatch(r) /\ producer # None
  <2>1. PICK p \in Producers : p = producer
    BY <1>0, <1>2 DEF TypeOK
  <2>2. Wait(r, "sending", p) /\ UNCHANGED <<producer, kafka, closing, calm>>
    BY <1>2, <2>1, Zenon DEF Dispatch
  <2>3. /\ request' \in [Requests -> {"idle", "connecting", "encoding", "sending"}]
        /\ via' \in [Requests -> Producers \cup {None}]
        /\ reply' \in [Requests -> Kinds \cup {"none", "sent"}]
        /\ request'[r] = "sending" /\ via'[r] = p
        /\ \A q \in Requests \ {r} : request'[q] = request[q] /\ via'[q] = via[q]
    BY <1>0, <2>2, WaitEffect
  <2>4. Referred'
    BY <1>0, <1>2, <2>1, <2>2, <2>3 DEF Referred
  <2>5. TypeOK'
    BY <1>0, <2>2, <2>3, <2>4 DEF TypeOK, Referred
  <2>6. CloseIsAlone' /\ OneProducer'
    BY <1>0, <2>2 DEF CloseIsAlone, OneProducer
  <2> QED BY <2>4, <2>5, <2>6 DEF ClientInv
<1>3. CASE SendInvalid(r) \/ (Dispatch(r) /\ producer = None) \/ EncodingFails(r) \/ Sent(r) \/ SendFails(r)
  <2>1. PICK x \in Kinds \cup {"none", "sent"} :
           Settle({r}, x) /\ UNCHANGED <<producer, kafka, closing, calm>>
    BY <1>3, ErrorIsKind, Zenon DEF SendInvalid, Dispatch, EncodingFails, Sent, SendFails
  <2> QED BY <2>1, SettleKeeps
<1> QED BY <1>1, <1>2, <1>3, Zenon DEF RequestStep

\* The answers of kafkajs to connect().
LEMMA ProducerKeeps ==
  ASSUME ClientInv, NEW p \in Producers, ProducerStep(p) \/ Reclaimed(p)
  PROVE  ClientInv'
<1>0. TypeOK /\ Referred /\ CloseIsAlone /\ OneProducer
  BY DEF ClientInv
<1>1. CASE Connected(p)
  <2>1. /\ kafka[p] = "connecting" /\ kafka' = [kafka EXCEPT ![p] = "connected"]
        /\ request' = [r \in Requests |-> IF r \in Awaiting(p) THEN "encoding" ELSE request[r]]
        /\ via' = [r \in Requests |-> IF r \in Awaiting(p) THEN None ELSE via[r]]
        /\ UNCHANGED <<producer, reply, closing, calm>>
    BY <1>1, Zenon DEF Connected
  <2>2. /\ kafka' \in [Producers -> States] /\ kafka'[p] = "connected"
        /\ \A q \in Producers \ {p} : kafka'[q] = kafka[q]
    BY <1>0, <2>1 DEF TypeOK, States
  <2>3. \A r \in Requests : request'[r] = "encoding" \/ (request'[r] = request[r] /\ via'[r] = via[r])
    BY <2>1
  <2>4. Referred'
    BY <1>0, <2>1, <2>2, <2>3 DEF Referred, TypeOK
  <2>5. request' \in [Requests -> {"idle", "connecting", "encoding", "sending"}]
        /\ via' \in [Requests -> Producers \cup {None}]
    BY <1>0, <2>1 DEF TypeOK
  <2>6. TypeOK'
    BY <1>0, <2>1, <2>2, <2>4, <2>5 DEF TypeOK, Referred
  <2>7. CloseIsAlone' /\ OneProducer'
    BY <1>0, <2>1, <2>2 DEF CloseIsAlone, OneProducer
  <2> QED BY <2>4, <2>6, <2>7 DEF ClientInv
<1>2. CASE ConnectFails(p)
  <2>1. /\ kafka[p] = "connecting" /\ kafka' = [kafka EXCEPT ![p] = "unconnected"]
        /\ UNCHANGED <<producer, closing, calm>>
    BY <1>2, Zenon DEF ConnectFails
  <2>2. PICK x \in Kinds \cup {"none", "sent"} : Settle(Awaiting(p), x)
    BY <1>2, ErrorIsKind, Zenon DEF ConnectFails
  <2>3. /\ kafka' \in [Producers -> States] /\ kafka'[p] = "unconnected"
        /\ \A q \in Producers \ {p} : kafka'[q] = kafka[q]
    BY <1>0, <2>1 DEF TypeOK, States
  <2>4. Awaiting(p) \in SUBSET Requests
    BY DEF Awaiting
  <2>5. /\ request' \in [Requests -> {"idle", "connecting", "encoding", "sending"}]
        /\ via' \in [Requests -> Producers \cup {None}]
        /\ reply' \in [Requests -> Kinds \cup {"none", "sent"}]
        /\ \A r \in Requests : request'[r] = "idle" \/ (request'[r] = request[r] /\ via'[r] = via[r])
    BY <1>0, <2>2, <2>4, SettleEffect
  <2>6. Referred'
    BY <1>0, <2>1, <2>3, <2>5 DEF Referred, TypeOK
  <2>7. TypeOK'
    BY <1>0, <2>1, <2>3, <2>5, <2>6 DEF TypeOK, Referred
  <2>8. CloseIsAlone' /\ OneProducer'
    BY <1>0, <2>1, <2>3 DEF CloseIsAlone, OneProducer
  <2> QED BY <2>6, <2>7, <2>8 DEF ClientInv
<1>3. CASE Reclaimed(p)
  <2>1. /\ kafka[p] = "gone" /\ kafka' = [kafka EXCEPT ![p] = "unused"]
        /\ UNCHANGED <<producer, request, via, reply, closing, calm>>
    BY <1>3, Zenon DEF Reclaimed
  <2>2. p # producer /\ \A r \in Requests : p # via[r]
    BY <1>3, Zenon DEF Reclaimed
  <2>3. /\ kafka' \in [Producers -> States] /\ kafka'[p] = "unused"
        /\ \A q \in Producers \ {p} : kafka'[q] = kafka[q]
    BY <1>0, <2>1 DEF TypeOK, States
  <2>4. Referred'
    BY <1>0, <2>1, <2>2, <2>3 DEF Referred, TypeOK
  <2>5. TypeOK'
    BY <1>0, <2>1, <2>3, <2>4 DEF TypeOK, Referred
  <2>6. CloseIsAlone' /\ OneProducer'
    BY <1>0, <2>1, <2>2, <2>3 DEF CloseIsAlone, OneProducer
  <2> QED BY <2>4, <2>5, <2>6 DEF ClientInv
<1> QED BY <1>1, <1>2, <1>3, Zenon DEF ProducerStep

LEMMA CloseKeeps == ASSUME ClientInv, Close PROVE ClientInv'
<1>0. TypeOK /\ Referred /\ CloseIsAlone /\ OneProducer
  BY DEF ClientInv
<1>1. /\ closing' = closing \cup {producer}
      /\ UNCHANGED <<producer, kafka, request, via, reply>>
  BY Zenon DEF Close
<1>2. calm' = (calm /\ closing = {} /\ producer # None /\ kafka[producer] = "connected")
  BY Zenon DEF Close
<1>3. Referred'
  BY <1>0, <1>1 DEF Referred
<1>4. calm' \in BOOLEAN
  BY <1>2, Zenon
<1>5. TypeOK'
  BY <1>0, <1>1, <1>3, <1>4 DEF TypeOK, Referred
<1>6. calm' => calm /\ closing = {} /\ producer # None /\ kafka[producer] = "connected"
  BY <1>2, Zenon
<1>7. CloseIsAlone' /\ OneProducer'
  BY <1>0, <1>1, <1>6 DEF CloseIsAlone, OneProducer, TypeOK
<1> QED BY <1>3, <1>5, <1>7 DEF ClientInv

\* When a close() that was alone returns, the producer it clears is connected, and ends.
LEMMA CloseReturnsKeeps ==
  ASSUME ClientInv, NEW p \in Producers \cup {None}, CloseReturns(p)
  PROVE  ClientInv'
<1>0. TypeOK /\ Referred /\ CloseIsAlone /\ OneProducer
  BY DEF ClientInv
<1>1. /\ p \in closing /\ closing' = closing \ {p} /\ UNCHANGED calm /\ producer' = None
  BY Zenon DEF CloseReturns
<1>2. \/ UNCHANGED kafka /\ (p = None \/ kafka[p] = "connecting")
      \/ p # None /\ kafka' = [kafka EXCEPT ![p] = "gone"]
  BY Zenon DEF CloseReturns
<1>3. /\ kafka' \in [Producers -> States]
      /\ \A q \in Producers : kafka'[q] = kafka[q] \/ kafka'[q] = "gone"
  BY <1>0, <1>2 DEF TypeOK, States
<1>4. /\ request' \in [Requests -> {"idle", "connecting", "encoding", "sending"}]
      /\ via' \in [Requests -> Producers \cup {None}]
      /\ reply' \in [Requests -> Kinds \cup {"none", "sent"}]
      /\ \A r \in Requests : request'[r] = "idle" \/ (request'[r] = request[r] /\ via'[r] = via[r])
  <2>1. Awaiting(p) \in SUBSET Requests /\ "internal" \in Kinds \cup {"none", "sent"}
    BY DEF Awaiting, Kinds
  <2>2. CASE Settle(Awaiting(p), "internal")
    BY <1>0, <2>1, <2>2, SettleEffect
  <2>3. CASE UNCHANGED <<request, via, reply>>
    BY <1>0, <2>3 DEF TypeOK
  <2> QED BY <2>2, <2>3, Zenon DEF CloseReturns
<1>5. Referred'
  BY <1>0, <1>1, <1>3, <1>4 DEF Referred
<1>6. TypeOK'
  BY <1>0, <1>1, <1>3, <1>4, <1>5 DEF TypeOK, Referred
<1>7. CASE calm
  <2>1. p \in Producers /\ p = producer /\ kafka[p] = "connected"
    BY <1>0, <1>1, <1>7 DEF CloseIsAlone
  <2>2. closing' = {}
    BY <1>0, <1>1, <1>7, <2>1 DEF CloseIsAlone
  <2>3. kafka' = [kafka EXCEPT ![p] = "gone"]
    BY <1>2, <2>1, NoneAssumption
  <2>4. kafka'[p] = "gone" /\ \A q \in Producers \ {p} : kafka'[q] = kafka[q]
    BY <1>0, <2>1, <2>3 DEF TypeOK
  <2>5. CloseIsAlone' /\ OneProducer'
    BY <1>0, <1>1, <1>7, <2>1, <2>2, <2>4 DEF CloseIsAlone, OneProducer
  <2> QED BY <1>5, <1>6, <2>5 DEF ClientInv
<1>8. CASE ~calm
  <2>1. CloseIsAlone' /\ OneProducer'
    BY <1>1, <1>8 DEF CloseIsAlone, OneProducer
  <2> QED BY <1>5, <1>6, <2>1 DEF ClientInv
<1> QED BY <1>7, <1>8

LEMMA ClientNext == ClientInv /\ [Next]_vars => ClientInv'
<1> SUFFICES ASSUME ClientInv, [Next]_vars PROVE ClientInv'
  OBVIOUS
<1>1. CASE \E r \in Requests : Send(r) \/ SendInvalid(r) \/ RequestStep(r)
  BY <1>1, RequestKeeps
<1>2. CASE \E p \in Producers : ProducerStep(p) \/ Reclaimed(p)
  BY <1>2, ProducerKeeps
<1>3. CASE Close
  BY <1>3, CloseKeeps
<1>4. CASE \E p \in Producers \cup {None} : CloseReturns(p)
  BY <1>4, CloseReturnsKeeps
<1>5. CASE UNCHANGED vars
  BY <1>5 DEF vars, ClientInv, TypeOK, Referred, CloseIsAlone, OneProducer
<1> QED BY <1>1, <1>2, <1>3, <1>4, <1>5, Zenon DEF Next

LEMMA ClientAlways == Spec => []ClientInv
  BY ClientInit, ClientNext, PTL DEF Spec

\* The variables of a Kafka client keep their types, and no request waits for a
\* producer that was never created: KafkaClientProxy.connect(), send(), close().
THEOREM TypeCorrect == Spec => []TypeOK
<1>1. ClientInv => TypeOK
  BY DEF ClientInv
<1> QED BY <1>1, ClientAlways, PTL

\* However many callers send at the same time, they share the producer in the field,
\* and a close() of a connected client ends it (KafkaClientProxy.connect(), close()).
THEOREM CallersShareProducer == Spec => []OneProducer
<1>1. ClientInv => OneProducer
  BY DEF ClientInv
<1> QED BY <1>1, ClientAlways, PTL
=============================================================================
