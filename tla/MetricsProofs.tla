---------------------------- MODULE MetricsProofs ----------------------------
(***************************************************************************)
(* Theorems about methods decorated with PrometheusOnMethod, for any number *)
(* of concurrent calls and any of the hooks of Metrics: PrometheusManager   *)
(* and PrometheusEventService lose no timer and count every call, whichever *)
(* hook fails.  A step of a call emits up to three events and an event is   *)
(* up to ten operations; the lemmas go from the operations to the events,   *)
(* from the events to the steps, and from the steps to the invariant.       *)
(***************************************************************************)
EXTENDS PartsProofs, FiniteSetTheorems

\* The types of metrics.
MetricTypes == {"counter", "gauge", "histogram", "summary"}
TimerTypes == {"histogram", "summary"}

\* What the hooks of a method may ask, by their types.
Allowed(hook) ==
    CASE hook = "before" -> {<<"counter", "increment">>, <<"gauge", "increment">>,
                             <<"histogram", "startTimer">>, <<"summary", "startTimer">>}
      [] hook = "finally" -> {<<"counter", "increment">>, <<"gauge", "decrement">>,
                              <<"histogram", "observe">>, <<"custom", "call">>}
      [] OTHER -> {<<"counter", "increment">>, <<"histogram", "observe">>, <<"summary", "observe">>}

\* The hooks of a method ask what they may; prom-client refuses no labels of a gauge.
HooksOk ==
    /\ method.clash \in BOOLEAN
    /\ \A hook \in P!Hooks, op \in P!Operations :
          method.hooks[hook][op] # P!No =>
             /\ op \in Allowed(hook)
             /\ op[1] = "gauge" => "refused" \notin method.hooks[hook][op]

LEMMA AskedOps ==
  ASSUME NEW op \in P!Operations
  PROVE  /\ P!Nothing[op] = P!No
         /\ \A op1, option1 : P!Asks(op1, option1)[op] = IF op = op1 THEN option1 ELSE P!No
         /\ \A op1, option1, op2, option2 : P!AsksBoth(op1, option1, op2, option2)[op] =
               IF op = op2 THEN option2 ELSE IF op = op1 THEN option1 ELSE P!No
BY DEF P!Nothing, P!Asks, P!AsksBoth

LEMMA HooksInit == P!Init => HooksOk
<1>. SUFFICES ASSUME P!Init  PROVE HooksOk
  OBVIOUS
<1>1. PICK b \in P!BeforeAsks, m \in P!MiddleAsks, f \in P!FinallyAsks :
         /\ method.hooks = [before |-> b, after |-> m, throw |-> m, finally |-> f]
         /\ method.clash \in BOOLEAN
  BY DEF P!Init
<1>2. "refused" \notin P!Yes
  BY DEF P!Yes
<1>3. ASSUME NEW op \in P!Operations
      PROVE  /\ b[op] # P!No => /\ op \in Allowed("before")
                                /\ op[1] = "gauge" => "refused" \notin b[op]
             /\ m[op] # P!No => op \in Allowed("after") /\ op \in Allowed("throw") /\ op[1] # "gauge"
             /\ f[op] # P!No => /\ op \in Allowed("finally")
                                /\ op[1] = "gauge" => "refused" \notin f[op]
  <2>1. b[op] # P!No => /\ op \in Allowed("before")
                        /\ op[1] = "gauge" => "refused" \notin b[op]
    BY <1>2, AskedOps DEF P!BeforeAsks, Allowed
  <2>2. m[op] # P!No => op \in Allowed("after") /\ op \in Allowed("throw") /\ op[1] # "gauge"
    BY <1>2, AskedOps DEF P!MiddleAsks, Allowed
  <2>3. f[op] # P!No => /\ op \in Allowed("finally")
                        /\ op[1] = "gauge" => "refused" \notin f[op]
    BY <1>2, AskedOps DEF P!FinallyAsks, Allowed
  <2>. QED  BY <2>1, <2>2, <2>3
<1>6. /\ method.hooks["before"] = b /\ method.hooks["after"] = m
      /\ method.hooks["throw"] = m /\ method.hooks["finally"] = f
  BY <1>1
<1>. QED  BY <1>1, <1>3, <1>6 DEF HooksOk, P!Hooks

\* The name of a metric is of the option or of the class, and of one type only unless one
\* name stands for all.
NameIs(name, type) == \E k \in {"own", "default"} : name = IF method.clash THEN <<k>> ELSE <<k, type>>

\* The metric of an option is the one it names or that of the class, whether the option
\* is true or an object, and with whatever value.
LEMMA AskedMetric ==
  ASSUME NEW type, NEW option, NEW duration \in BOOLEAN, NEW given,
         given \in {P!AsObject(option), P!buildParams(P!AsObject(option), duration)}
  PROVE  /\ P!Ask(given, type).metric = P!buildMetricConfig(option, type)
         /\ P!Ask(given, type).params # P!Yes
         /\ "refused" \in P!Ask(given, type).params <=> "refused" \in option
         /\ P!buildMetricConfig(option, type) # Undefined => NameIs(P!buildMetricConfig(option, type), type)
<1>1. /\ "metricConfig" \in given <=> "metricConfig" \in option
      /\ "refused" \in given <=> "refused" \in option
      /\ given # P!Yes
  BY DEF P!AsObject, P!buildParams, P!Yes
<1>2. P!buildMetricConfig(given, type) = P!buildMetricConfig(option, type)
  BY <1>1 DEF P!buildMetricConfig
<1>3. P!buildMetricConfig(option, type) # Undefined => NameIs(P!buildMetricConfig(option, type), type)
  BY DEF P!buildMetricConfig, P!Own, P!Default, NameIs
<1>. QED  BY <1>1, <1>2, <1>3 DEF P!Ask

\* What a hook asks that is not faulty, with the parameters that its helper has built.
EventOk(event, hook, types) ==
    /\ DOMAIN event \subseteq P!Operations
    /\ \A op \in P!Operations : method.hooks[hook][op] # P!No => op \in DOMAIN event
    /\ \A type \in types : hook = "finally" => <<type, "end">> \in DOMAIN event
    /\ \A op \in DOMAIN event :
          /\ op \in Allowed(hook) \/ (hook = "finally" /\ op[2] = "end" /\ op[1] \in types)
          /\ op[2] # "end" => method.hooks[hook][op] # P!No
          /\ op[1] # "custom" => event[op].params # P!Yes
          /\ op[1] \in MetricTypes /\ op[2] # "end" =>
                /\ event[op].metric = P!buildMetricConfig(method.hooks[hook][op], op[1])
                /\ NameIs(event[op].metric, op[1])
                /\ "refused" \in event[op].params <=> "refused" \in method.hooks[hook][op]

\* Whatever a hook asks that is not faulty, the event it becomes asks the same.
LEMMA EventAsks ==
  ASSUME HooksOk, NEW hook \in P!Hooks, hook \notin P!Faulty, NEW types \in SUBSET TimerTypes,
         NEW event, event = P!Event(hook, types)
  PROVE  EventOk(event, hook, types)
<1>. DEFINE config == method.hooks[hook]
            duration == hook = "finally"
            plain == P!Event(hook, {})
<1>1. /\ DOMAIN event = {op \in P!Operations : config[op] # P!No \/ (duration /\ op[2] = "end" /\ op[1] \in types)}
      /\ DOMAIN plain = {op \in P!Operations : config[op] # P!No}
  BY DEF P!Event
<1>2. ASSUME NEW op \in P!Operations, NEW e, e \in {event, plain}, op \in DOMAIN e
      PROVE  /\ op[1] = "counter" => e[op] = P!CounterConfig(config[op])
             /\ op[1] = "gauge" => e[op] = P!GaugeConfig(config[op])
             /\ op[1] = "histogram" => e[op] = P!HistogramConfig(op[2], config[op], duration)
             /\ op[1] = "summary" => e[op] = P!SummaryConfig(op[2], config[op], duration)
  BY <1>2 DEF P!Event
<1>. HIDE DEF config, plain
<1>3. ASSUME NEW op \in P!Operations, op[1] \in MetricTypes, op[2] # "end", NEW e, e \in {event, plain}, op \in DOMAIN e
      PROVE  /\ e[op].metric = P!buildMetricConfig(config[op], op[1])
             /\ e[op].params # P!Yes
             /\ "refused" \in e[op].params <=> "refused" \in config[op]
             /\ P!buildMetricConfig(config[op], op[1]) # Undefined
                   => NameIs(P!buildMetricConfig(config[op], op[1]), op[1])
  <2>1. PICK given \in {P!AsObject(config[op]), P!buildParams(P!AsObject(config[op]), duration)} :
           e[op] = P!Ask(given, op[1])
    BY <1>2, <1>3 DEF MetricTypes, P!CounterConfig, P!GaugeConfig, P!HistogramConfig, P!SummaryConfig, P!Duration
  <2>2. duration \in BOOLEAN
    OBVIOUS
  <2>. HIDE DEF duration
  <2>. QED  BY <2>1, <2>2, AskedMetric
<1>4. \A op \in DOMAIN plain : plain[op].metric # Undefined
  BY DEF P!Faulty, P!CannotBeBuilt, plain
<1>5. ASSUME NEW op \in DOMAIN event
      PROVE  /\ op \in Allowed(hook) \/ (hook = "finally" /\ op[2] = "end" /\ op[1] \in types)
             /\ op[2] # "end" => config[op] # P!No
             /\ op[1] # "custom" => event[op].params # P!Yes
             /\ op[1] \in MetricTypes /\ op[2] # "end" =>
                   /\ event[op].metric = P!buildMetricConfig(config[op], op[1])
                   /\ NameIs(event[op].metric, op[1])
                   /\ "refused" \in event[op].params <=> "refused" \in config[op]
  <2>1. op \in P!Operations /\ (config[op] # P!No \/ (duration /\ op[2] = "end" /\ op[1] \in types))
    BY <1>1
  <2>2. op \in Allowed(hook) \/ (hook = "finally" /\ op[2] = "end" /\ op[1] \in types)
    BY <2>1 DEF HooksOk, config
  <2>3. CASE op[1] \in MetricTypes /\ op[2] # "end"
    <3>1. op \in DOMAIN plain
      BY <1>1, <2>1, <2>3
    <3>2. P!buildMetricConfig(config[op], op[1]) # Undefined
      BY <1>3, <1>4, <2>1, <2>3, <3>1
    <3>. QED  BY <1>3, <2>1, <2>2, <2>3, <3>2
  <2>4. CASE op[2] = "end"
    <3>1. op[1] \in {"histogram", "summary"}
      BY <2>1, <2>4 DEF P!Operations
    <3>2. event[op].params = {}
      BY <1>2, <2>1, <2>4, <3>1 DEF P!HistogramConfig, P!SummaryConfig, P!Duration
    <3>. QED  BY <2>2, <2>4, <3>2 DEF P!Yes
  <2>5. CASE op[1] \notin MetricTypes
    BY <2>1, <2>2, <2>5 DEF P!Operations, MetricTypes
  <2>. QED  BY <2>3, <2>4, <2>5
<1>6. \A type \in types : hook = "finally" => <<type, "end">> \in DOMAIN event
  BY <1>1 DEF P!Operations, TimerTypes
<1>. QED  BY <1>1, <1>5, <1>6 DEF config, EventOk

-----------------------------------------------------------------------------
\* The state of the service and of its metrics while it handles an event.
Start(type) == method.hooks["before"][<<type, "startTimer">>]
TimerOf(c, type) == [call |-> c, type |-> type, name |-> P!buildMetricConfig(Start(type), type),
                     refused |-> "refused" \in Start(type)]
Metric(n, type) == [name |-> n, type |-> type]

\* Registered metrics: a name has one type, and a value.
MetricsOk(m, v) == /\ \A a \in m : /\ a.type \in MetricTypes /\ NameIs(a.name, a.type)
                                   /\ a = Metric(a.name, a.type)
                   /\ \A a, b \in m : a.name = b.name => a = b
                   /\ v \in [{a.name : a \in m} -> Int]

\* A timer that is held is that of a call, for a metric that is registered.
CallbacksOk(k, m) == \A t \in k : \E c \in Calls, type \in TimerTypes :
                        /\ Start(type) # P!No /\ t = TimerOf(c, type)
                        /\ Metric(t.name, type) \in m

\* An operation is lost for one of three reasons only.
LostOk(l) == /\ l[1] \in Calls /\ l[2] \in P!Hooks
             /\ \/ method.clash
                \/ l[3][2] = "end" /\ "refused" \in Start(l[3][1])
                \/ l[3] = <<"custom", "call">>

StateOk(s) ==
    /\ s = [metrics |-> s.metrics, value |-> s.value, callbacks |-> s.callbacks, lost |-> s.lost,
            failed |-> s.failed]
    /\ MetricsOk(s.metrics, s.value)
    /\ CallbacksOk(s.callbacks, s.metrics)
    /\ \A l \in s.lost : LostOk(l)
    /\ s.failed \in BOOLEAN

\* The value of a metric that is not registered yet counts as none.
At(s, n) == IF n \in DOMAIN s.value THEN s.value[n] ELSE 0

\* Only metrics of this type change.
OnlyChanges(s, t, type) == \A n : At(t, n) # At(s, n) => Metric(n, type) \in t.metrics

\* build(): a metric is registered, without a value yet, or its name is that of another type.
LEMMA BuildEffect ==
  ASSUME NEW s, StateOk(s), ~s.failed, NEW type \in MetricTypes, NEW name, NameIs(name, type),
         NEW t, t = P!Build(s, name, type)
  PROVE  /\ StateOk(t) /\ t.callbacks = s.callbacks /\ t.lost = s.lost /\ s.metrics \subseteq t.metrics
         /\ t.failed => method.clash
         /\ ~t.failed => Metric(name, type) \in t.metrics /\ name \in DOMAIN t.value
         /\ \A n : At(t, n) = At(s, n)
<1>1. CASE \E m \in s.metrics : m.name = name /\ m.type # type
  <2>1. t = [s EXCEPT !.failed = TRUE]
    BY <1>1 DEF P!Build
  <2>2. /\ t = [metrics |-> s.metrics, value |-> s.value, callbacks |-> s.callbacks, lost |-> s.lost, failed |-> TRUE]
        /\ t.metrics = s.metrics /\ t.value = s.value /\ t.callbacks = s.callbacks /\ t.lost = s.lost
        /\ t.failed
    BY <2>1 DEF StateOk
  <2>3. method.clash
    <3>. SUFFICES ASSUME ~method.clash  PROVE FALSE
      OBVIOUS
    <3>1. PICK m \in s.metrics : m.name = name /\ m.type # type
      BY <1>1
    <3>2. PICK k : name = <<k, m.type>>
      BY <3>1 DEF StateOk, MetricsOk, NameIs
    <3>3. PICK j : name = <<j, type>>
      BY DEF NameIs
    <3>. QED  BY <3>1, <3>2, <3>3
  <2>4. StateOk(t)
    BY <2>2 DEF StateOk
  <2>5. \A n : At(t, n) = At(s, n)
    BY <2>2 DEF At
  <2>. QED  BY <2>2, <2>3, <2>4, <2>5
<1>2. CASE ~\E m \in s.metrics : m.name = name /\ m.type # type
  <2>. DEFINE m == s.metrics \cup {Metric(name, type)}
              v == [n \in DOMAIN s.value \cup {name} |-> IF n \in DOMAIN s.value THEN s.value[n] ELSE 0]
  <2>1. t = [s EXCEPT !.metrics = m, !.value = v]
    BY <1>2 DEF P!Build, Metric
  <2>2. /\ t = [metrics |-> m, value |-> v, callbacks |-> s.callbacks, lost |-> s.lost, failed |-> s.failed]
        /\ t.metrics = m /\ t.value = v /\ t.callbacks = s.callbacks /\ t.lost = s.lost
        /\ t.failed = s.failed
    BY <2>1 DEF StateOk
  <2>3. MetricsOk(m, v)
    <3>1. \A a \in m : /\ a.type \in MetricTypes /\ NameIs(a.name, a.type)
                       /\ a = Metric(a.name, a.type)
      BY DEF StateOk, MetricsOk, Metric
    <3>2. \A a, b \in m : a.name = b.name => a = b
      BY <1>2 DEF StateOk, MetricsOk, Metric
    <3>3. v \in [{a.name : a \in m} -> Int]
      <4>1. {a.name : a \in m} = {a.name : a \in s.metrics} \cup {name}
        <5>1. Metric(name, type).name = name
          BY DEF Metric
        <5>. QED  BY <5>1
      <4>2. DOMAIN s.value = {a.name : a \in s.metrics} /\ \A n \in DOMAIN s.value : s.value[n] \in Int
        BY DEF StateOk, MetricsOk
      <4>. QED  BY <4>1, <4>2
    <3>. QED  BY <3>1, <3>2, <3>3 DEF MetricsOk
  <2>4. \A n : At(t, n) = At(s, n)
    BY <2>2 DEF At
  <2>5. CallbacksOk(s.callbacks, m)
    BY DEF StateOk, CallbacksOk
  <2>6. StateOk(t)
    BY <2>2, <2>3, <2>5 DEF StateOk
  <2>8. name \in DOMAIN v /\ Metric(name, type) \in m /\ s.metrics \subseteq m
    OBVIOUS
  <2>. QED  BY <2>2, <2>4, <2>6, <2>8
<1>. QED  BY <1>1, <1>2

\* An answer of prom-client: the value changes, or it refuses and nothing does.
LEMMA ChangeEffect ==
  ASSUME NEW s, StateOk(s), NEW ask, NEW by \in Int, ~s.failed => ask.metric \in DOMAIN s.value,
         NEW t, t = P!Change(s, ask, by)
  PROVE  /\ StateOk(t) /\ t.callbacks = s.callbacks /\ t.lost = s.lost /\ t.metrics = s.metrics
         /\ t.failed = s.failed /\ DOMAIN t.value = DOMAIN s.value
         /\ \A n : n # ask.metric => At(t, n) = At(s, n)
         /\ ~s.failed /\ "refused" \notin ask.params => At(t, ask.metric) = At(s, ask.metric) + by
<1>1. CASE s.failed \/ "refused" \in ask.params
  <2>1. t = s
    BY <1>1 DEF P!Change
  <2>. QED  BY <1>1, <2>1
<1>2. CASE ~s.failed /\ "refused" \notin ask.params
  <2>. DEFINE v == [s.value EXCEPT ![ask.metric] = @ + by]
  <2>1. t = [s EXCEPT !.value = v]
    BY <1>2 DEF P!Change
  <2>2. /\ t = [metrics |-> s.metrics, value |-> v, callbacks |-> s.callbacks, lost |-> s.lost,
                failed |-> s.failed]
        /\ t.metrics = s.metrics /\ t.value = v /\ t.callbacks = s.callbacks /\ t.lost = s.lost
        /\ t.failed = s.failed
    BY <2>1 DEF StateOk
  <2>3. s.value \in [{a.name : a \in s.metrics} -> Int] /\ ask.metric \in DOMAIN s.value
    BY <1>2 DEF StateOk, MetricsOk
  <2>4. v \in [{a.name : a \in s.metrics} -> Int] /\ DOMAIN v = DOMAIN s.value
    BY <2>3
  <2>5. StateOk(t)
    BY <2>2, <2>4 DEF StateOk, MetricsOk
  <2>6. \A n \in DOMAIN s.value : v[n] = IF n = ask.metric THEN s.value[n] + by ELSE s.value[n]
    BY <2>3
  <2>7. /\ \A n : n # ask.metric => At(t, n) = At(s, n)
        /\ At(t, ask.metric) = At(s, ask.metric) + by
    BY <2>2, <2>3, <2>4, <2>6 DEF At
  <2>. QED  BY <2>2, <2>4, <2>5, <2>7
<1>. QED  BY <1>1, <1>2

\* A timer of a call is the only one of its type.
LEMMA HeldTimer ==
  ASSUME NEW s, StateOk(s), NEW c \in Calls, NEW type \in TimerTypes,
         NEW t \in s.callbacks, t.call = c, t.type = type
  PROVE  t = TimerOf(c, type) /\ Start(type) # P!No /\ Metric(t.name, type) \in s.metrics
BY DEF StateOk, CallbacksOk, TimerOf

\* A timer that is stopped is one observation more of its own metric, and stays held.
LEMMA StopEffect ==
  ASSUME NEW s, StateOk(s), ~s.failed, NEW c \in Calls, NEW type \in TimerTypes,
         NEW t, t = P!Stop(s, c, type)
  PROVE  /\ StateOk(t) /\ t.callbacks = s.callbacks /\ t.lost = s.lost /\ t.metrics = s.metrics
         /\ t.failed => "refused" \in Start(type)
         /\ OnlyChanges(s, t, type)
         /\ ~t.failed /\ TimerOf(c, type) \in s.callbacks =>
               At(t, TimerOf(c, type).name) = At(s, TimerOf(c, type).name) + 1
<1>. DEFINE held == {k \in s.callbacks : k.call = c /\ k.type = type}
<1>1. /\ \A k \in held : k = TimerOf(c, type) /\ Metric(k.name, type) \in s.metrics
      /\ TimerOf(c, type) \in s.callbacks => TimerOf(c, type) \in held
  <2>1. TimerOf(c, type).call = c /\ TimerOf(c, type).type = type
    BY DEF TimerOf
  <2>. QED  BY <2>1, HeldTimer
<1>2. CASE \E k \in held : k.refused
  <2>1. t = [s EXCEPT !.failed = TRUE]
    BY <1>2 DEF P!Stop
  <2>2. /\ t = [metrics |-> s.metrics, value |-> s.value, callbacks |-> s.callbacks, lost |-> s.lost, failed |-> TRUE]
        /\ t.metrics = s.metrics /\ t.value = s.value /\ t.callbacks = s.callbacks /\ t.lost = s.lost
        /\ t.failed
    BY <2>1 DEF StateOk
  <2>3. "refused" \in Start(type)
    <3>. DEFINE r == "refused" \in Start(type)
                n == P!buildMetricConfig(Start(type), type)
    <3>1. TimerOf(c, type) = [call |-> c, type |-> type, name |-> n, refused |-> r] /\ r \in BOOLEAN
      BY DEF TimerOf
    <3>. HIDE DEF r, n
    <3>2. TimerOf(c, type).refused <=> r
      BY <3>1
    <3>. QED  BY <1>1, <1>2, <3>2 DEF r
  <2>4. StateOk(t)
    BY <2>2 DEF StateOk
  <2>5. \A n : At(t, n) = At(s, n)
    BY <2>2 DEF At
  <2>. QED  BY <2>2, <2>3, <2>4, <2>5 DEF OnlyChanges
<1>3. CASE ~\E k \in held : k.refused
  <2>. DEFINE v == [n \in DOMAIN s.value |-> IF \E k \in held : k.name = n THEN s.value[n] + 1 ELSE s.value[n]]
  <2>1. t = [s EXCEPT !.value = v]
    BY <1>3 DEF P!Stop
  <2>2. /\ t = [metrics |-> s.metrics, value |-> v, callbacks |-> s.callbacks, lost |-> s.lost,
                failed |-> s.failed]
        /\ t.metrics = s.metrics /\ t.value = v /\ t.callbacks = s.callbacks /\ t.lost = s.lost
        /\ t.failed = s.failed
    BY <2>1 DEF StateOk
  <2>3. s.value \in [{a.name : a \in s.metrics} -> Int]
    BY DEF StateOk, MetricsOk
  <2>4. v \in [{a.name : a \in s.metrics} -> Int] /\ DOMAIN v = DOMAIN s.value
    BY <2>3
  <2>5. StateOk(t)
    BY <2>2, <2>4 DEF StateOk, MetricsOk
  <2>6. ASSUME NEW n, Metric(n, type) \notin s.metrics
        PROVE  At(t, n) = At(s, n)
    <3>1. \A k \in held : k.name # n
      BY <1>1, <2>6
    <3>2. n \in DOMAIN s.value => v[n] = s.value[n]
      BY <3>1
    <3>. QED  BY <2>2, <2>4, <3>2 DEF At
  <2>7. ASSUME TimerOf(c, type) \in s.callbacks
        PROVE  At(t, TimerOf(c, type).name) = At(s, TimerOf(c, type).name) + 1
    <3>. DEFINE n == TimerOf(c, type).name
    <3>1. Metric(n, type) \in s.metrics /\ \E k \in held : k.name = n
      BY <1>1, <2>7
    <3>2. Metric(n, type).name = n
      BY DEF Metric
    <3>3. n \in DOMAIN s.value
      BY <2>3, <3>1, <3>2
    <3>. HIDE DEF n
    <3>. QED  BY <2>2, <2>4, <3>1, <3>3 DEF At, n
  <2>. QED  BY <2>2, <2>5, <2>6, <2>7 DEF OnlyChanges
<1>. QED  BY <1>2, <1>3

\* A timer that is started replaces one of its call and its type.
LEMMA StartEffect ==
  ASSUME NEW s, StateOk(s), ~s.failed, NEW c \in Calls, NEW type \in TimerTypes, Start(type) # P!No,
         NEW ask, ask.metric = TimerOf(c, type).name,
         "refused" \in ask.params <=> "refused" \in Start(type),
         Metric(ask.metric, type) \in s.metrics,
         NEW t, t = P!addEndCallback(s, c, type, ask)
  PROVE  /\ StateOk(t) /\ t.lost = s.lost /\ t.metrics = s.metrics /\ t.failed = s.failed
         /\ \A n : At(t, n) = At(s, n)
         /\ t.callbacks = {k \in s.callbacks : k.call # c \/ k.type # type} \cup {TimerOf(c, type)}
<1>. DEFINE k0 == {k \in s.callbacks : k.call # c \/ k.type # type} \cup {TimerOf(c, type)}
<1>1. TimerOf(c, type) = [call |-> c, type |-> type, name |-> ask.metric, refused |-> "refused" \in ask.params]
  BY DEF TimerOf
<1>2. t = [s EXCEPT !.callbacks = k0]
  BY <1>1 DEF P!addEndCallback
<1>3. /\ t = [metrics |-> s.metrics, value |-> s.value, callbacks |-> k0, lost |-> s.lost, failed |-> s.failed]
      /\ t.metrics = s.metrics /\ t.value = s.value /\ t.callbacks = k0 /\ t.lost = s.lost
      /\ t.failed = s.failed
  BY <1>2 DEF StateOk
<1>4. CallbacksOk(k0, s.metrics)
  BY DEF StateOk, CallbacksOk
<1>5. StateOk(t)
  <2>. HIDE DEF k0
  <2>. QED  BY <1>3, <1>4 DEF StateOk
<1>6. \A n : At(t, n) = At(s, n)
  BY <1>3 DEF At
<1>. QED  BY <1>3, <1>5, <1>6

\* What the handling of an operation does, before a failure of it is counted.
Did(s, u, c, hook, event, op) ==
    /\ StateOk(u) /\ u.lost = s.lost /\ s.metrics \subseteq u.metrics
    /\ u.failed => LostOk(<<c, hook, op>>) /\ (op[1] \in {"counter", "gauge"} => method.clash)
    /\ OnlyChanges(s, u, op[1])
    /\ op[2] = "startTimer" => \A n : At(u, n) = At(s, n)
    /\ op[2] # "startTimer" => u.callbacks = s.callbacks
    /\ ~u.failed =>
          /\ op[2] = "startTimer" =>
                /\ u.callbacks = {k \in s.callbacks : k.call # c \/ k.type # op[1]} \cup {TimerOf(c, op[1])}
                /\ Metric(TimerOf(c, op[1]).name, op[1]) \in u.metrics
          /\ op[2] = "end" /\ TimerOf(c, op[1]) \in s.callbacks =>
                At(u, TimerOf(c, op[1]).name) = At(s, TimerOf(c, op[1]).name) + 1
          /\ op[1] = "gauge" =>
                /\ event[op].metric \in DOMAIN u.value
                /\ At(u, event[op].metric) = At(s, event[op].metric) + (IF op[2] = "increment" THEN 1 ELSE -1)

\* A metric that is registered, if it is not yet, and then changed.
LEMMA ChangeOfBuilt ==
  ASSUME NEW s, StateOk(s), ~s.failed, NEW type \in MetricTypes, NEW ask, NameIs(ask.metric, type),
         NEW by \in Int, NEW u, u = P!Change(P!Build(s, ask.metric, type), ask, by)
  PROVE  /\ StateOk(u) /\ u.lost = s.lost /\ s.metrics \subseteq u.metrics /\ u.callbacks = s.callbacks
         /\ u.failed => method.clash
         /\ OnlyChanges(s, u, type)
         /\ ~u.failed => /\ ask.metric \in DOMAIN u.value
                         /\ "refused" \notin ask.params => At(u, ask.metric) = At(s, ask.metric) + by
<1>. DEFINE t == P!Build(s, ask.metric, type)
<1>1. /\ StateOk(t) /\ t.callbacks = s.callbacks /\ t.lost = s.lost /\ s.metrics \subseteq t.metrics
      /\ t.failed => method.clash
      /\ ~t.failed => Metric(ask.metric, type) \in t.metrics /\ ask.metric \in DOMAIN t.value
      /\ \A n : At(t, n) = At(s, n)
  BY BuildEffect
<1>2. u = P!Change(t, ask, by)
  OBVIOUS
<1>. HIDE DEF t
<1>3. /\ StateOk(u) /\ u.callbacks = t.callbacks /\ u.lost = t.lost /\ u.metrics = t.metrics
      /\ u.failed = t.failed /\ DOMAIN u.value = DOMAIN t.value
      /\ \A n : n # ask.metric => At(u, n) = At(t, n)
      /\ ~t.failed /\ "refused" \notin ask.params => At(u, ask.metric) = At(t, ask.metric) + by
  BY <1>1, <1>2, ChangeEffect
<1>4. t.failed => u = t
  BY <1>2 DEF P!Change
<1>5. OnlyChanges(s, u, type)
  BY <1>1, <1>3, <1>4 DEF OnlyChanges
<1>. QED  BY <1>1, <1>3, <1>4, <1>5

\* The operations, one type after the other.
LEMMA CounterDid ==
  ASSUME HooksOk, NEW s, StateOk(s), ~s.failed, NEW c \in Calls, NEW hook \in P!Hooks, NEW types, NEW event,
         EventOk(event, hook, types), NEW op \in DOMAIN event, op[1] = "counter",
         NEW u, u = P!handleCounter(s, event[op])
  PROVE  Did(s, u, c, hook, event, op)
<1>1. op = <<"counter", "increment">>
  BY DEF EventOk, P!Operations
<1>. DEFINE ask == event[op]
<1>2. NameIs(ask.metric, "counter") /\ "counter" \in MetricTypes
  BY <1>1 DEF EventOk, MetricTypes
<1>3. u = P!Change(P!Build(s, ask.metric, "counter"), ask, 1)
  BY DEF P!handleCounter, P!increment
<1>. HIDE DEF ask
<1>4. /\ StateOk(u) /\ u.lost = s.lost /\ s.metrics \subseteq u.metrics /\ u.callbacks = s.callbacks
      /\ u.failed => method.clash
      /\ OnlyChanges(s, u, "counter")
  BY <1>2, <1>3, ChangeOfBuilt
<1>. QED  BY <1>1, <1>4 DEF Did, LostOk

LEMMA GaugeDid ==
  ASSUME HooksOk, NEW s, StateOk(s), ~s.failed, NEW c \in Calls, NEW hook \in P!Hooks, NEW types, NEW event,
         EventOk(event, hook, types), NEW op \in DOMAIN event, op[1] = "gauge",
         NEW u, u = P!handleGauge(s, op[2], event[op])
  PROVE  Did(s, u, c, hook, event, op)
<1>1. op \in {<<"gauge", "increment">>, <<"gauge", "decrement">>} /\ op \in P!Operations
  BY DEF EventOk, P!Operations
<1>. DEFINE ask == event[op]
            by == IF op[2] = "increment" THEN 1 ELSE -1
<1>2. NameIs(ask.metric, "gauge") /\ "gauge" \in MetricTypes
  BY <1>1 DEF EventOk, MetricTypes
<1>3. u = P!Change(P!Build(s, ask.metric, "gauge"), ask, by)
  BY DEF P!handleGauge, P!changeGauge
<1>4. "refused" \notin ask.params
  <2>1. op \in Allowed(hook)
    BY <1>1 DEF EventOk
  <2>2. method.hooks[hook][op] # P!No \/ "refused" \notin method.hooks[hook][op]
    BY DEF P!No
  <2>3. "refused" \notin method.hooks[hook][op]
    BY <1>1, <2>2 DEF HooksOk
  <2>. QED  BY <1>1, <2>3 DEF EventOk, MetricTypes
<1>5. by \in Int
  OBVIOUS
<1>. HIDE DEF ask, by
<1>6. /\ StateOk(u) /\ u.lost = s.lost /\ s.metrics \subseteq u.metrics /\ u.callbacks = s.callbacks
      /\ u.failed => method.clash
      /\ OnlyChanges(s, u, "gauge")
      /\ ~u.failed => ask.metric \in DOMAIN u.value /\ At(u, ask.metric) = At(s, ask.metric) + by
  BY <1>2, <1>3, <1>4, <1>5, ChangeOfBuilt
<1>7. op[2] # "startTimer" /\ op[2] # "end"
  BY <1>1
<1>. QED  BY <1>6, <1>7 DEF Did, LostOk, ask, by

LEMMA CustomDid ==
  ASSUME NEW s, StateOk(s), ~s.failed, NEW c \in Calls, NEW hook \in P!Hooks, NEW event,
         NEW op, op = <<"custom", "call">>,
         NEW u, u = [s EXCEPT !.failed = TRUE] \/ u = s
  PROVE  Did(s, u, c, hook, event, op)
<1>1. /\ u.metrics = s.metrics /\ u.value = s.value /\ u.callbacks = s.callbacks /\ u.lost = s.lost
      /\ StateOk(u)
  <2>1. CASE u = s
    BY <2>1
  <2>2. CASE u = [s EXCEPT !.failed = TRUE]
    <3>1. /\ u = [metrics |-> s.metrics, value |-> s.value, callbacks |-> s.callbacks, lost |-> s.lost,
                  failed |-> TRUE]
          /\ u.metrics = s.metrics /\ u.value = s.value /\ u.callbacks = s.callbacks /\ u.lost = s.lost
          /\ u.failed
      BY <2>2 DEF StateOk
    <3>. QED  BY <3>1 DEF StateOk
  <2>. QED  BY <2>1, <2>2
<1>2. LostOk(<<c, hook, op>>)
  BY DEF LostOk
<1>3. \A n : At(u, n) = At(s, n)
  BY <1>1 DEF At
<1>. QED  BY <1>1, <1>2, <1>3 DEF Did, OnlyChanges

LEMMA DurationDid ==
  ASSUME HooksOk, NEW s, StateOk(s), ~s.failed, NEW c \in Calls, NEW hook \in P!Hooks, NEW types, NEW event,
         EventOk(event, hook, types), NEW op \in DOMAIN event, NEW type \in TimerTypes, op[1] = type,
         NEW u, u = P!handleDuration(s, c, op[1], op[2], event[op])
  PROVE  Did(s, u, c, hook, event, op)
<1>. DEFINE ask == event[op]
<1>1. /\ op \in {<<type, "startTimer">>, <<type, "observe">>, <<type, "end">>} /\ op \in P!Operations
      /\ type \in MetricTypes /\ op[1] \notin {"counter", "gauge", "custom"}
  BY DEF EventOk, P!Operations, TimerTypes, MetricTypes
<1>2. CASE op[2] = "startTimer"
  <2>1. hook = "before" /\ op = <<type, "startTimer">>
    <3>1. op \in Allowed(hook)
      BY <1>2 DEF EventOk
    <3>. QED  BY <1>1, <1>2, <3>1 DEF Allowed, P!Hooks
  <2>2. /\ NameIs(ask.metric, type) /\ ask.metric = P!buildMetricConfig(method.hooks[hook][op], type)
        /\ "refused" \in ask.params <=> "refused" \in method.hooks[hook][op]
    BY <1>1, <1>2 DEF EventOk
  <2>3. ask.metric = TimerOf(c, type).name /\ ("refused" \in ask.params <=> "refused" \in Start(type))
    BY <2>1, <2>2 DEF TimerOf, Start
  <2>4. Start(type) # P!No
    BY <1>2, <2>1 DEF EventOk, Start
  <2>. DEFINE t == P!Build(s, ask.metric, type)
  <2>5. u = P!addEndCallback(t, c, type, ask)
    BY <1>2 DEF P!handleDuration, P!startTimer
  <2>6. /\ StateOk(t) /\ t.callbacks = s.callbacks /\ t.lost = s.lost /\ s.metrics \subseteq t.metrics
        /\ t.failed => method.clash
        /\ ~t.failed => Metric(ask.metric, type) \in t.metrics
        /\ \A n : At(t, n) = At(s, n)
    BY <1>1, <2>2, BuildEffect
  <2>. HIDE DEF t, ask
  <2>7. CASE t.failed
    <3>1. u = t
      BY <2>5, <2>7 DEF P!addEndCallback
    <3>. QED  BY <1>1, <1>2, <2>1, <2>6, <2>7, <3>1 DEF Did, LostOk, OnlyChanges
  <2>8. CASE ~t.failed
    <3>1. /\ StateOk(u) /\ u.lost = t.lost /\ u.metrics = t.metrics /\ u.failed = t.failed
          /\ \A n : At(u, n) = At(t, n)
          /\ u.callbacks = {k \in t.callbacks : k.call # c \/ k.type # type} \cup {TimerOf(c, type)}
      BY <2>3, <2>4, <2>5, <2>6, <2>8, StartEffect
    <3>. QED  BY <1>1, <1>2, <2>3, <2>6, <2>8, <3>1 DEF Did, OnlyChanges
  <2>. QED  BY <2>7, <2>8
<1>3. CASE op[2] = "observe"
  <2>1. NameIs(ask.metric, type)
    BY <1>1, <1>3 DEF EventOk
  <2>2. u = P!Change(P!Build(s, ask.metric, type), ask, 1)
    BY <1>3 DEF P!handleDuration, P!observe
  <2>. HIDE DEF ask
  <2>3. /\ StateOk(u) /\ u.lost = s.lost /\ s.metrics \subseteq u.metrics /\ u.callbacks = s.callbacks
        /\ u.failed => method.clash
        /\ OnlyChanges(s, u, type)
    BY <1>1, <2>1, <2>2, ChangeOfBuilt
  <2>. QED  BY <1>1, <1>3, <2>3 DEF Did, LostOk
<1>4. CASE op[2] = "end"
  <2>1. u = P!Stop(s, c, type)
    BY <1>4 DEF P!handleDuration
  <2>2. /\ StateOk(u) /\ u.callbacks = s.callbacks /\ u.lost = s.lost /\ u.metrics = s.metrics
        /\ u.failed => "refused" \in Start(type)
        /\ OnlyChanges(s, u, type)
        /\ ~u.failed /\ TimerOf(c, type) \in s.callbacks =>
              At(u, TimerOf(c, type).name) = At(s, TimerOf(c, type).name) + 1
    BY <2>1, StopEffect
  <2>3. u.failed => LostOk(<<c, hook, op>>)
    BY <1>1, <1>4, <2>2 DEF LostOk
  <2>. QED  BY <1>1, <1>4, <2>2, <2>3 DEF Did
<1>. QED  BY <1>1, <1>2, <1>3, <1>4

\* One operation of an event: what is lost of it is counted, and then nothing more of the
\* event is handled.
Handled(s, t, c, event, op) ==
    /\ StateOk(t) /\ (t.failed => t.lost # {})
    /\ s.lost \subseteq t.lost /\ s.metrics \subseteq t.metrics
    /\ s.failed \/ op \notin DOMAIN event => t = s
    /\ ~method.clash /\ ~s.failed /\ op[1] \in {"counter", "gauge"} => ~t.failed
    /\ OnlyChanges(s, t, op[1])
    /\ op[2] = "startTimer" => \A n : At(t, n) = At(s, n)
    /\ op[2] # "startTimer" => t.callbacks = s.callbacks
    /\ op \in DOMAIN event /\ ~t.failed =>
          /\ op[2] = "startTimer" =>
                /\ t.callbacks = {k \in s.callbacks : k.call # c \/ k.type # op[1]} \cup {TimerOf(c, op[1])}
                /\ Metric(TimerOf(c, op[1]).name, op[1]) \in t.metrics
          /\ op[2] = "end" /\ TimerOf(c, op[1]) \in s.callbacks =>
                At(t, TimerOf(c, op[1]).name) = At(s, TimerOf(c, op[1]).name) + 1
          /\ op[1] = "gauge" =>
                /\ event[op].metric \in DOMAIN t.value
                /\ At(t, event[op].metric) = At(s, event[op].metric) + (IF op[2] = "increment" THEN 1 ELSE -1)

\* Any operation of an event that could be built.
LEMMA CarryOutDid ==
  ASSUME HooksOk, NEW s, StateOk(s), ~s.failed, NEW c \in Calls, NEW hook \in P!Hooks, NEW types, NEW event,
         EventOk(event, hook, types), NEW op \in DOMAIN event,
         NEW u, u = P!CarryOut(s, c, event, op)
  PROVE  Did(s, u, c, hook, event, op)
<1>1. (op[1] # "custom" => event[op].params # P!Yes) /\ op \in P!Operations
  BY DEF EventOk
<1>2. CASE op[1] = "counter"
  <2>1. u = P!handleCounter(s, event[op])
    BY <1>1, <1>2 DEF P!CarryOut
  <2>. QED  BY <1>2, <2>1, CounterDid
<1>3. CASE op[1] = "gauge"
  <2>1. u = P!handleGauge(s, op[2], event[op])
    BY <1>1, <1>3 DEF P!CarryOut
  <2>. QED  BY <1>3, <2>1, GaugeDid
<1>4. CASE op[1] = "custom"
  <2>1. u = [s EXCEPT !.failed = TRUE] \/ u = P!handleCustom(s, event[op])
    BY <1>4 DEF P!CarryOut
  <2>2. u = [s EXCEPT !.failed = TRUE] \/ u = s
    BY <2>1 DEF P!handleCustom
  <2>3. op = <<"custom", "call">>
    BY <1>1, <1>4 DEF P!Operations
  <2>. QED  BY <2>2, <2>3, CustomDid
<1>5. CASE op[1] \in TimerTypes
  <2>1. u = P!handleDuration(s, c, op[1], op[2], event[op])
    BY <1>1, <1>5 DEF P!CarryOut, TimerTypes
  <2>. QED  BY <1>5, <2>1, DurationDid
<1>. QED  BY <1>1, <1>2, <1>3, <1>4, <1>5 DEF P!Operations, TimerTypes

\* handle() does nothing after a failure, and counts its own.
LEMMA HandleEffect ==
  ASSUME HooksOk, NEW s, StateOk(s), s.failed => s.lost # {}, NEW c \in Calls, NEW hook \in P!Hooks,
         NEW types, NEW event, EventOk(event, hook, types), NEW op \in P!Operations,
         NEW t, t = P!Handle(s, c, hook, event, op)
  PROVE  Handled(s, t, c, event, op)
<1>1. CASE s.failed \/ op \notin DOMAIN event
  <2>1. t = s
    BY <1>1 DEF P!Handle
  <2>. QED  BY <1>1, <2>1 DEF Handled, OnlyChanges
<1>2. CASE ~s.failed /\ op \in DOMAIN event
  <2>1. PICK u : u = P!CarryOut(s, c, event, op)
    OBVIOUS
  <2>2. t = P!LostIfFailed(u, <<c, hook, op>>)
    BY <1>2, <2>1 DEF P!Handle
  <2>3. Did(s, u, c, hook, event, op)
    BY <1>2, <2>1, CarryOutDid
  <2>4. CASE ~u.failed
    <3>1. t = u
      BY <2>2, <2>4 DEF P!LostIfFailed
    <3>. QED  BY <1>2, <2>3, <2>4, <3>1 DEF Handled, Did
  <2>5. CASE u.failed
    <3>. DEFINE lost0 == u.lost \cup {<<c, hook, op>>}
    <3>1. t = [u EXCEPT !.lost = lost0]
      BY <2>2, <2>5 DEF P!LostIfFailed
    <3>2. /\ t = [metrics |-> u.metrics, value |-> u.value, callbacks |-> u.callbacks, lost |-> lost0,
                  failed |-> u.failed]
          /\ t.metrics = u.metrics /\ t.value = u.value /\ t.callbacks = u.callbacks /\ t.lost = lost0
          /\ t.failed = u.failed
      BY <2>3, <3>1 DEF Did, StateOk
    <3>3. \A l \in lost0 : LostOk(l)
      BY <2>3, <2>5 DEF Did, StateOk
    <3>4. StateOk(t)
      <4>. HIDE DEF lost0
      <4>. QED  BY <2>3, <3>2, <3>3 DEF Did, StateOk
    <3>5. \A n : At(t, n) = At(u, n)
      BY <3>2 DEF At
    <3>6. s.lost \subseteq t.lost /\ t.lost # {}
      BY <2>3, <3>2 DEF Did
    <3>. QED  BY <1>2, <2>3, <2>5, <3>2, <3>4, <3>5, <3>6 DEF Handled, Did, OnlyChanges
  <2>. QED  BY <2>4, <2>5
<1>. QED  BY <1>1, <1>2

-----------------------------------------------------------------------------
\* What an event does to the gauge of the calls and to the timers of its call.
\* The gauge that `before` increments and `finally` decrements.
Counted(n) ==
    LET inc == <<"gauge", "increment">>
        dec == <<"gauge", "decrement">>
    IN  /\ ~method.clash /\ {"before", "finally"} \cap P!Faulty = {}
        /\ method.hooks["before"][inc] # P!No /\ method.hooks["finally"][dec] # P!No
        /\ n = P!buildMetricConfig(method.hooks["before"][inc], "gauge")
        /\ n = P!buildMetricConfig(method.hooks["finally"][dec], "gauge")

\* By how much a hook changes that gauge.
Rise(hook) == IF hook = "before" THEN 1 ELSE IF hook = "finally" THEN -1 ELSE 0

\* The metric of a timer, which nothing but the end of the timer changes.
TimerName(type) == P!buildMetricConfig(Start(type), type)
Unobserved(type) == \A hook \in P!Hooks : method.hooks[hook][<<type, "observe">>] = P!No

\* What an event does to the timers of its call.
TimersTold(s, t, c, hook) ==
    /\ hook = "before" /\ (\A k \in s.callbacks : k.call # c) =>
          t.callbacks = s.callbacks \cup {TimerOf(c, type) : type \in {y \in TimerTypes : Start(y) # P!No}}
    /\ hook = "finally" => t.callbacks = {k \in s.callbacks : k.call # c}
    /\ hook \in {"after", "throw"} => t.callbacks = s.callbacks

\* What an event does.  Of the timers this is known as long as nothing has been lost.
EventDid(s, t, c, hook, types) ==
    /\ StateOk(t) /\ s.lost \subseteq t.lost /\ s.metrics \subseteq t.metrics
    /\ \A n : Counted(n) => /\ At(t, n) = At(s, n) + Rise(hook)
                            /\ hook = "before" => n \in DOMAIN t.value
    /\ t.lost = {} =>
          /\ TimersTold(s, t, c, hook)
          /\ \A type \in TimerTypes :
                LET m == Metric(TimerName(type), type)
                IN  /\ hook = "before" /\ Start(type) # P!No => m \in t.metrics
                    /\ m \in t.metrics /\ Unobserved(type) /\ hook # "finally" =>
                          At(t, TimerName(type)) = At(s, TimerName(type))
                    /\ m \in t.metrics /\ Unobserved(type) /\ hook = "finally"
                          /\ type \in types /\ TimerOf(c, type) \in s.callbacks =>
                             At(t, TimerName(type)) = At(s, TimerName(type)) + 1

\* A gauge is of its type only.
LEMMA CountedIsGauge ==
  ASSUME HooksOk, NEW n, Counted(n), NEW s, StateOk(s), NEW type, Metric(n, type) \in s.metrics
  PROVE  type = "gauge"
<1>1. PICK k \in {"own", "default"} : n = <<k, "gauge">>
  <2>. DEFINE option == method.hooks["before"][<<"gauge", "increment">>]
  <2>1. n = P!buildMetricConfig(option, "gauge") /\ ~method.clash /\ "before" \notin P!Faulty /\ option # P!No
    BY DEF Counted
  <2>2. PICK event : event = P!Event("before", {})
    OBVIOUS
  <2>3. EventOk(event, "before", {})
    BY <2>1, <2>2, EventAsks DEF P!Hooks
  <2>4. NameIs(n, "gauge")
    BY <2>1, <2>3 DEF EventOk, P!Operations, MetricTypes
  <2>. QED  BY <2>1, <2>4 DEF NameIs
<1>2. NameIs(n, type) /\ ~method.clash
  BY DEF StateOk, MetricsOk, Metric, Counted
<1>. QED  BY <1>1, <1>2 DEF NameIs

\* The operations of an event, one after the other, and what ends `finally`.
LEMMA Chain ==
  ASSUME HooksOk, NEW s, StateOk(s), NEW c \in Calls, NEW hook \in P!Hooks, hook \notin P!Faulty,
         NEW types \in SUBSET TimerTypes, NEW event, event = P!Event(hook, types),
         NEW t, t = P!handleEvent(s, c, hook, types)
  PROVE  \E s0, s1, s2, s3, s4, s5, s6, s7, s8, s9, s10 :
            /\ StateOk(s0) /\ s0.metrics = s.metrics /\ s0.value = s.value /\ s0.callbacks = s.callbacks
            /\ s0.lost = s.lost /\ ~s0.failed
            /\ Handled(s0, s1, c, event, <<"counter", "increment">>)
            /\ Handled(s1, s2, c, event, <<"gauge", "increment">>)
            /\ Handled(s2, s3, c, event, <<"gauge", "decrement">>)
            /\ Handled(s3, s4, c, event, <<"histogram", "startTimer">>)
            /\ Handled(s4, s5, c, event, <<"histogram", "observe">>)
            /\ Handled(s5, s6, c, event, <<"histogram", "end">>)
            /\ Handled(s6, s7, c, event, <<"summary", "startTimer">>)
            /\ Handled(s7, s8, c, event, <<"summary", "observe">>)
            /\ Handled(s8, s9, c, event, <<"summary", "end">>)
            /\ Handled(s9, s10, c, event, <<"custom", "call">>)
            /\ t = IF s10.failed \/ hook # "finally" THEN s10 ELSE P!handleClear(s10, c)
<1>. DEFINE s0 == [s EXCEPT !.failed = FALSE]
            s1 == P!Handle(s0, c, hook, event, <<"counter", "increment">>)
            s2 == P!Handle(s1, c, hook, event, <<"gauge", "increment">>)
            s3 == P!Handle(s2, c, hook, event, <<"gauge", "decrement">>)
            s4 == P!Handle(s3, c, hook, event, <<"histogram", "startTimer">>)
            s5 == P!Handle(s4, c, hook, event, <<"histogram", "observe">>)
            s6 == P!Handle(s5, c, hook, event, <<"histogram", "end">>)
            s7 == P!Handle(s6, c, hook, event, <<"summary", "startTimer">>)
            s8 == P!Handle(s7, c, hook, event, <<"summary", "observe">>)
            s9 == P!Handle(s8, c, hook, event, <<"summary", "end">>)
            s10 == P!Handle(s9, c, hook, event, <<"custom", "call">>)
<1>1. t = IF s10.failed \/ hook # "finally" THEN s10 ELSE P!handleClear(s10, c)
  BY DEF P!handleEvent, P!HandleTimers
<1>2. EventOk(event, hook, types)
  BY EventAsks
<1>3. /\ StateOk(s0) /\ s0.metrics = s.metrics /\ s0.value = s.value /\ s0.callbacks = s.callbacks
      /\ s0.lost = s.lost /\ ~s0.failed
  <2>1. s0 = [s EXCEPT !.failed = FALSE]
    OBVIOUS
  <2>. HIDE DEF s0
  <2>2. /\ s0 = [metrics |-> s.metrics, value |-> s.value, callbacks |-> s.callbacks, lost |-> s.lost,
                 failed |-> FALSE]
        /\ s0.metrics = s.metrics /\ s0.value = s.value /\ s0.callbacks = s.callbacks
        /\ s0.lost = s.lost /\ ~s0.failed
    BY <2>1 DEF StateOk
  <2>. QED  BY <2>2 DEF StateOk
<1>. HIDE DEF s0
<1>4. StateOk(s0) /\ (s0.failed => s0.lost # {})
  BY <1>3
<1>5. /\ Handled(s0, s1, c, event, <<"counter", "increment">>)
      /\ StateOk(s1) /\ (s1.failed => s1.lost # {})
  <2>1. <<"counter", "increment">> \in P!Operations
    BY DEF P!Operations
  <2>2. s1 = P!Handle(s0, c, hook, event, <<"counter", "increment">>)
    OBVIOUS
  <2>. HIDE DEF s1
  <2>3. Handled(s0, s1, c, event, <<"counter", "increment">>)
    BY <1>2, <1>4, <2>1, <2>2, HandleEffect
  <2>. QED  BY <2>3 DEF Handled
<1>. HIDE DEF s1
<1>6. /\ Handled(s1, s2, c, event, <<"gauge", "increment">>)
      /\ StateOk(s2) /\ (s2.failed => s2.lost # {})
  <2>1. <<"gauge", "increment">> \in P!Operations
    BY DEF P!Operations
  <2>2. s2 = P!Handle(s1, c, hook, event, <<"gauge", "increment">>)
    OBVIOUS
  <2>. HIDE DEF s2
  <2>3. Handled(s1, s2, c, event, <<"gauge", "increment">>)
    BY <1>2, <1>5, <2>1, <2>2, HandleEffect
  <2>. QED  BY <2>3 DEF Handled
<1>. HIDE DEF s2
<1>7. /\ Handled(s2, s3, c, event, <<"gauge", "decrement">>)
      /\ StateOk(s3) /\ (s3.failed => s3.lost # {})
  <2>1. <<"gauge", "decrement">> \in P!Operations
    BY DEF P!Operations
  <2>2. s3 = P!Handle(s2, c, hook, event, <<"gauge", "decrement">>)
    OBVIOUS
  <2>. HIDE DEF s3
  <2>3. Handled(s2, s3, c, event, <<"gauge", "decrement">>)
    BY <1>2, <1>6, <2>1, <2>2, HandleEffect
  <2>. QED  BY <2>3 DEF Handled
<1>. HIDE DEF s3
<1>8. /\ Handled(s3, s4, c, event, <<"histogram", "startTimer">>)
      /\ StateOk(s4) /\ (s4.failed => s4.lost # {})
  <2>1. <<"histogram", "startTimer">> \in P!Operations
    BY DEF P!Operations
  <2>2. s4 = P!Handle(s3, c, hook, event, <<"histogram", "startTimer">>)
    OBVIOUS
  <2>. HIDE DEF s4
  <2>3. Handled(s3, s4, c, event, <<"histogram", "startTimer">>)
    BY <1>2, <1>7, <2>1, <2>2, HandleEffect
  <2>. QED  BY <2>3 DEF Handled
<1>. HIDE DEF s4
<1>9. /\ Handled(s4, s5, c, event, <<"histogram", "observe">>)
      /\ StateOk(s5) /\ (s5.failed => s5.lost # {})
  <2>1. <<"histogram", "observe">> \in P!Operations
    BY DEF P!Operations
  <2>2. s5 = P!Handle(s4, c, hook, event, <<"histogram", "observe">>)
    OBVIOUS
  <2>. HIDE DEF s5
  <2>3. Handled(s4, s5, c, event, <<"histogram", "observe">>)
    BY <1>2, <1>8, <2>1, <2>2, HandleEffect
  <2>. QED  BY <2>3 DEF Handled
<1>. HIDE DEF s5
<1>10. /\ Handled(s5, s6, c, event, <<"histogram", "end">>)
      /\ StateOk(s6) /\ (s6.failed => s6.lost # {})
  <2>1. <<"histogram", "end">> \in P!Operations
    BY DEF P!Operations
  <2>2. s6 = P!Handle(s5, c, hook, event, <<"histogram", "end">>)
    OBVIOUS
  <2>. HIDE DEF s6
  <2>3. Handled(s5, s6, c, event, <<"histogram", "end">>)
    BY <1>2, <1>9, <2>1, <2>2, HandleEffect
  <2>. QED  BY <2>3 DEF Handled
<1>. HIDE DEF s6
<1>11. /\ Handled(s6, s7, c, event, <<"summary", "startTimer">>)
      /\ StateOk(s7) /\ (s7.failed => s7.lost # {})
  <2>1. <<"summary", "startTimer">> \in P!Operations
    BY DEF P!Operations
  <2>2. s7 = P!Handle(s6, c, hook, event, <<"summary", "startTimer">>)
    OBVIOUS
  <2>. HIDE DEF s7
  <2>3. Handled(s6, s7, c, event, <<"summary", "startTimer">>)
    BY <1>2, <1>10, <2>1, <2>2, HandleEffect
  <2>. QED  BY <2>3 DEF Handled
<1>. HIDE DEF s7
<1>12. /\ Handled(s7, s8, c, event, <<"summary", "observe">>)
      /\ StateOk(s8) /\ (s8.failed => s8.lost # {})
  <2>1. <<"summary", "observe">> \in P!Operations
    BY DEF P!Operations
  <2>2. s8 = P!Handle(s7, c, hook, event, <<"summary", "observe">>)
    OBVIOUS
  <2>. HIDE DEF s8
  <2>3. Handled(s7, s8, c, event, <<"summary", "observe">>)
    BY <1>2, <1>11, <2>1, <2>2, HandleEffect
  <2>. QED  BY <2>3 DEF Handled
<1>. HIDE DEF s8
<1>13. /\ Handled(s8, s9, c, event, <<"summary", "end">>)
      /\ StateOk(s9) /\ (s9.failed => s9.lost # {})
  <2>1. <<"summary", "end">> \in P!Operations
    BY DEF P!Operations
  <2>2. s9 = P!Handle(s8, c, hook, event, <<"summary", "end">>)
    OBVIOUS
  <2>. HIDE DEF s9
  <2>3. Handled(s8, s9, c, event, <<"summary", "end">>)
    BY <1>2, <1>12, <2>1, <2>2, HandleEffect
  <2>. QED  BY <2>3 DEF Handled
<1>. HIDE DEF s9
<1>14. /\ Handled(s9, s10, c, event, <<"custom", "call">>)
      /\ StateOk(s10) /\ (s10.failed => s10.lost # {})
  <2>1. <<"custom", "call">> \in P!Operations
    BY DEF P!Operations
  <2>2. s10 = P!Handle(s9, c, hook, event, <<"custom", "call">>)
    OBVIOUS
  <2>. HIDE DEF s10
  <2>3. Handled(s9, s10, c, event, <<"custom", "call">>)
    BY <1>2, <1>13, <2>1, <2>2, HandleEffect
  <2>. QED  BY <2>3 DEF Handled
<1>. HIDE DEF s10
<1>. QED  BY <1>1, <1>3, <1>5, <1>6, <1>7, <1>8, <1>9, <1>10, <1>11, <1>12, <1>13, <1>14

\* A step of another type leaves the gauge alone.
LEMMA GaugeStays ==
  ASSUME HooksOk, NEW n, Counted(n), NEW s, NEW t, NEW c, NEW event, NEW op, op[1] # "gauge",
         Handled(s, t, c, event, op)
  PROVE  At(t, n) = At(s, n)
<1>1. StateOk(t) /\ OnlyChanges(s, t, op[1])
  BY DEF Handled
<1>2. Metric(n, op[1]) \notin t.metrics
  BY <1>1, CountedIsGauge
<1>. QED  BY <1>1, <1>2 DEF OnlyChanges

\* The operations on counters and gauges, which come first and cannot fail unless names clash:
\* the gauge is moved before anything else can end the handling.
LEMMA GaugeMoves ==
  ASSUME HooksOk, NEW n, Counted(n), NEW c \in Calls, NEW hook \in P!Hooks, NEW types, NEW event,
         EventOk(event, hook, types),
         NEW s0, NEW s1, NEW s2, NEW s3, StateOk(s0), ~s0.failed,
         Handled(s0, s1, c, event, <<"counter", "increment">>),
         Handled(s1, s2, c, event, <<"gauge", "increment">>),
         Handled(s2, s3, c, event, <<"gauge", "decrement">>)
  PROVE  /\ At(s3, n) = At(s0, n) + Rise(hook)
         /\ hook = "before" => n \in DOMAIN s3.value
<1>. DEFINE inc == <<"gauge", "increment">>
            dec == <<"gauge", "decrement">>
<1>1. At(s1, n) = At(s0, n)
  BY GaugeStays
<1>2. ~method.clash /\ StateOk(s1) /\ StateOk(s2) /\ StateOk(s3)
  BY DEF Counted, Handled
<1>3. ~s1.failed
  BY <1>2 DEF Handled
<1>4. ~s2.failed
  BY <1>2, <1>3 DEF Handled
<1>5. ~s3.failed
  BY <1>2, <1>4 DEF Handled
<1>6. /\ inc \in DOMAIN event <=> method.hooks[hook][inc] # P!No
      /\ dec \in DOMAIN event <=> method.hooks[hook][dec] # P!No
  BY DEF EventOk, P!Operations
<1>7. /\ inc \in DOMAIN event => hook = "before"
      /\ dec \in DOMAIN event => hook = "finally"
  BY DEF EventOk, Allowed, P!Hooks
<1>8. CASE hook = "before"
  <2>1. inc \in DOMAIN event
    BY <1>6, <1>8 DEF Counted
  <2>2. event[inc].metric = n
    BY <1>8, <2>1 DEF EventOk, MetricTypes, Counted
  <2>3. n \in DOMAIN s2.value /\ At(s2, n) = At(s1, n) + 1
    BY <1>4, <2>1, <2>2 DEF Handled
  <2>4. s3 = s2
    BY <1>7, <1>8 DEF Handled
  <2>. QED  BY <1>1, <1>8, <2>3, <2>4 DEF Rise
<1>9. CASE hook = "finally"
  <2>1. dec \in DOMAIN event
    BY <1>6, <1>9 DEF Counted
  <2>2. event[dec].metric = n
    BY <1>9, <2>1 DEF EventOk, MetricTypes, Counted
  <2>3. At(s3, n) = At(s2, n) - 1
    <3>1. At(s3, n) = At(s2, n) + (IF dec[2] = "increment" THEN 1 ELSE -1)
      BY <1>5, <2>1, <2>2 DEF Handled
    <3>2. At(s2, n) \in Int
      BY <1>2 DEF At, StateOk, MetricsOk
    <3>. QED  BY <3>1, <3>2
  <2>4. s2 = s1
    BY <1>7, <1>9 DEF Handled
  <2>5. At(s1, n) \in Int
    BY <1>2 DEF At, StateOk, MetricsOk
  <2>. QED  BY <1>1, <1>9, <2>3, <2>4, <2>5 DEF Rise
<1>10. CASE hook \notin {"before", "finally"}
  <2>1. s2 = s1 /\ s3 = s2
    BY <1>7, <1>10 DEF Handled
  <2>2. At(s0, n) \in Int
    BY DEF At, StateOk, MetricsOk
  <2>. QED  BY <1>1, <1>10, <2>1, <2>2 DEF Rise
<1>. QED  BY <1>8, <1>9, <1>10

LEMMA TimerFields ==
  ASSUME NEW c, NEW type
  PROVE  TimerOf(c, type).call = c /\ TimerOf(c, type).type = type /\ TimerOf(c, type).name = TimerName(type)
BY DEF TimerOf, TimerName

\* A step of another type leaves the metric of a timer alone.
LEMMA TimerStays ==
  ASSUME NEW type \in TimerTypes, NEW s, NEW t, NEW c, NEW event, NEW op, op[1] # type,
         Handled(s, t, c, event, op),
         NEW u, StateOk(u), t.metrics \subseteq u.metrics, Metric(TimerName(type), type) \in u.metrics
  PROVE  At(t, TimerName(type)) = At(s, TimerName(type))
<1>. DEFINE n == TimerName(type)
<1>1. StateOk(t) /\ OnlyChanges(s, t, op[1])
  BY DEF Handled
<1>2. Metric(n, op[1]) \notin t.metrics
  <2>1. Metric(n, type).name = n /\ Metric(n, op[1]).name = n /\ Metric(n, type) # Metric(n, op[1])
    BY DEF Metric
  <2>2. Metric(n, op[1]) \notin u.metrics
    BY <2>1 DEF StateOk, MetricsOk
  <2>. QED  BY <2>2
<1>. QED  BY <1>1, <1>2 DEF OnlyChanges

\* The operations of the timer of a type.
TimerTold(s, t, c, hook, types, type) ==
    /\ hook = "before" /\ Start(type) # P!No =>
          /\ t.callbacks = {k \in s.callbacks : k.call # c \/ k.type # type} \cup {TimerOf(c, type)}
          /\ Metric(TimerName(type), type) \in t.metrics
    /\ hook # "before" \/ Start(type) = P!No => t.callbacks = s.callbacks
    /\ Unobserved(type) /\ hook # "finally" => At(t, TimerName(type)) = At(s, TimerName(type))
    /\ Unobserved(type) /\ hook = "finally" /\ type \in types /\ TimerOf(c, type) \in s.callbacks =>
          At(t, TimerName(type)) = At(s, TimerName(type)) + 1

\* The three operations of one type of timers.
LEMMA TimerMoves ==
  ASSUME HooksOk, NEW c \in Calls, NEW hook \in P!Hooks, NEW types \in SUBSET TimerTypes, NEW event,
         EventOk(event, hook, types), NEW type \in TimerTypes,
         NEW s0, NEW s1, NEW s2, NEW s3,
         Handled(s0, s1, c, event, <<type, "startTimer">>),
         Handled(s1, s2, c, event, <<type, "observe">>),
         Handled(s2, s3, c, event, <<type, "end">>),
         s3.lost = {}
  PROVE  TimerTold(s0, s3, c, hook, types, type)
<1>. DEFINE start == <<type, "startTimer">>
            obs   == <<type, "observe">>
            stop  == <<type, "end">>
<1>1. start \in P!Operations /\ obs \in P!Operations /\ stop \in P!Operations
  BY DEF TimerTypes, P!Operations
<1>2. /\ start \in DOMAIN event => hook = "before" /\ method.hooks[hook][start] # P!No
      /\ hook = "before" /\ Start(type) # P!No => start \in DOMAIN event
  BY <1>1 DEF EventOk, Allowed, P!Hooks, Start
<1>3. Unobserved(type) => obs \notin DOMAIN event
  BY <1>1 DEF EventOk, Unobserved
<1>4. /\ stop \in DOMAIN event => hook = "finally"
      /\ hook = "finally" /\ type \in types => stop \in DOMAIN event
  BY <1>1 DEF EventOk, Allowed, P!Hooks
<1>5. /\ s1.lost = {} /\ s2.lost = {} /\ s1.metrics \subseteq s3.metrics
      /\ ~s1.failed /\ ~s2.failed /\ ~s3.failed
  BY DEF Handled
<1>6. s2.callbacks = s1.callbacks /\ s3.callbacks = s1.callbacks
  BY DEF Handled
<1>7. Unobserved(type) => s2 = s1
  BY <1>3 DEF Handled
<1>8. At(s1, TimerName(type)) = At(s0, TimerName(type))
  BY DEF Handled
<1>9. CASE hook = "before"
  <2>1. s3 = s2
    BY <1>4, <1>9 DEF Handled
  <2>2. CASE Start(type) = P!No
    <3>1. start \notin DOMAIN event
      BY <1>2, <1>9, <2>2 DEF Start
    <3>2. s1 = s0
      BY <3>1 DEF Handled
    <3>. QED  BY <1>6, <1>7, <1>9, <2>1, <2>2, <3>2 DEF TimerTold
  <2>3. CASE Start(type) # P!No
    <3>1. start \in DOMAIN event
      BY <1>2, <1>9, <2>3
    <3>2. /\ s1.callbacks = {k \in s0.callbacks : k.call # c \/ k.type # type} \cup {TimerOf(c, type)}
          /\ Metric(TimerName(type), type) \in s1.metrics
      BY <1>5, <3>1, TimerFields DEF Handled
    <3>. QED  BY <1>5, <1>6, <1>7, <1>8, <1>9, <2>1, <2>3, <3>2 DEF TimerTold
  <2>. QED  BY <2>2, <2>3
<1>10. CASE hook # "before"
  <2>1. s1 = s0
    BY <1>2, <1>10 DEF Handled
  <2>2. CASE hook = "finally"
    <3>1. type \in types /\ TimerOf(c, type) \in s2.callbacks =>
             At(s3, TimerName(type)) = At(s2, TimerName(type)) + 1
      BY <1>4, <1>5, <2>2, TimerFields DEF Handled
    <3>. QED  BY <1>6, <1>7, <1>10, <2>1, <2>2, <3>1 DEF TimerTold
  <2>3. CASE hook # "finally"
    <3>1. s3 = s2
      BY <1>4, <2>3 DEF Handled
    <3>. QED  BY <1>6, <1>7, <1>10, <2>1, <2>3, <3>1 DEF TimerTold
  <2>. QED  BY <2>2, <2>3
<1>. QED  BY <1>9, <1>10

\* handleEvent() of a hook that is not faulty.
LEMMA EventEffect ==
  ASSUME HooksOk, NEW s, StateOk(s), NEW c \in Calls, NEW hook \in P!Hooks, hook \notin P!Faulty,
         NEW types \in SUBSET TimerTypes, NEW t, t = P!handleEvent(s, c, hook, types)
  PROVE  EventDid(s, t, c, hook, types)
<1>1. PICK event : event = P!Event(hook, types)
  OBVIOUS
<1>2. PICK s0, s1, s2, s3, s4, s5, s6, s7, s8, s9, s10 :
         /\ StateOk(s0) /\ s0.metrics = s.metrics /\ s0.value = s.value /\ s0.callbacks = s.callbacks
         /\ s0.lost = s.lost /\ ~s0.failed
         /\ Handled(s0, s1, c, event, <<"counter", "increment">>)
         /\ Handled(s1, s2, c, event, <<"gauge", "increment">>)
         /\ Handled(s2, s3, c, event, <<"gauge", "decrement">>)
         /\ Handled(s3, s4, c, event, <<"histogram", "startTimer">>)
         /\ Handled(s4, s5, c, event, <<"histogram", "observe">>)
         /\ Handled(s5, s6, c, event, <<"histogram", "end">>)
         /\ Handled(s6, s7, c, event, <<"summary", "startTimer">>)
         /\ Handled(s7, s8, c, event, <<"summary", "observe">>)
         /\ Handled(s8, s9, c, event, <<"summary", "end">>)
         /\ Handled(s9, s10, c, event, <<"custom", "call">>)
         /\ t = IF s10.failed \/ hook # "finally" THEN s10 ELSE P!handleClear(s10, c)
  BY <1>1, Chain
<1>3. EventOk(event, hook, types)
  BY <1>1, EventAsks
<1>4. /\ StateOk(s10) /\ (s10.failed => s10.lost # {})
      /\ s0.lost \subseteq s3.lost /\ s3.lost \subseteq s6.lost /\ s6.lost \subseteq s9.lost
      /\ s9.lost \subseteq s10.lost
      /\ s0.metrics \subseteq s3.metrics /\ s3.metrics \subseteq s6.metrics /\ s6.metrics \subseteq s9.metrics
      /\ s9.metrics \subseteq s10.metrics
  BY <1>2 DEF Handled
<1>5. /\ StateOk(t) /\ t.lost = s10.lost /\ t.metrics = s10.metrics /\ t.value = s10.value
      /\ t.lost = {} => t.callbacks = IF hook = "finally" THEN {k \in s10.callbacks : k.call # c}
                                       ELSE s10.callbacks
  <2>1. CASE s10.failed \/ hook # "finally"
    BY <1>2, <1>4, <2>1
  <2>2. CASE ~s10.failed /\ hook = "finally"
    <3>. DEFINE held == {k \in s10.callbacks : k.call # c}
    <3>1. t = [s10 EXCEPT !.callbacks = held]
      BY <1>2, <2>2 DEF P!handleClear
    <3>2. /\ t = [metrics |-> s10.metrics, value |-> s10.value, callbacks |-> held, lost |-> s10.lost,
                  failed |-> s10.failed]
          /\ t.metrics = s10.metrics /\ t.value = s10.value /\ t.callbacks = held /\ t.lost = s10.lost
          /\ t.failed = s10.failed
      BY <1>4, <3>1 DEF StateOk
    <3>3. CallbacksOk(held, s10.metrics)
      BY <1>4 DEF StateOk, CallbacksOk
    <3>4. StateOk(t)
      <4>. HIDE DEF held
      <4>. QED  BY <1>4, <3>2, <3>3 DEF StateOk
    <3>. QED  BY <2>2, <3>2, <3>4
  <2>. QED  BY <2>1, <2>2
<1>6. \A n : At(t, n) = At(s10, n) /\ At(s0, n) = At(s, n)
  BY <1>2, <1>5 DEF At
<1>7. ASSUME NEW n, Counted(n)
      PROVE  At(t, n) = At(s, n) + Rise(hook) /\ (hook = "before" => n \in DOMAIN t.value)
  <2>1. At(s3, n) = At(s0, n) + Rise(hook) /\ (hook = "before" => n \in DOMAIN s3.value)
    BY <1>2, <1>3, <1>7, GaugeMoves
  <2>2. At(s4, n) = At(s3, n) /\ At(s5, n) = At(s4, n) /\ At(s6, n) = At(s5, n)
    BY <1>2, <1>7, GaugeStays
  <2>3. At(s7, n) = At(s6, n) /\ At(s8, n) = At(s7, n) /\ At(s9, n) = At(s8, n)
    BY <1>2, <1>7, GaugeStays
  <2>4. At(s10, n) = At(s9, n)
    BY <1>2, <1>7, GaugeStays
  <2>5. DOMAIN s3.value \subseteq DOMAIN t.value
    <3>1. StateOk(s3)
      BY <1>2 DEF Handled
    <3>. QED  BY <1>4, <1>5, <3>1 DEF StateOk, MetricsOk
  <2>. QED  BY <1>6, <2>1, <2>2, <2>3, <2>4, <2>5
<1>8. ASSUME t.lost = {}
      PROVE  /\ TimerTold(s3, s6, c, hook, types, "histogram")
             /\ TimerTold(s6, s9, c, hook, types, "summary")
             /\ s3.callbacks = s.callbacks /\ s10.callbacks = s9.callbacks
  <2>1. s6.lost = {} /\ s9.lost = {} /\ "histogram" \in TimerTypes /\ "summary" \in TimerTypes
    BY <1>4, <1>5, <1>8 DEF TimerTypes
  <2>2. TimerTold(s3, s6, c, hook, types, "histogram")
    BY <1>2, <1>3, <2>1, TimerMoves
  <2>3. TimerTold(s6, s9, c, hook, types, "summary")
    BY <1>2, <1>3, <2>1, TimerMoves
  <2>4. s3.callbacks = s.callbacks /\ s10.callbacks = s9.callbacks
    BY <1>2 DEF Handled
  <2>. QED  BY <2>2, <2>3, <2>4
<1>9. ASSUME t.lost = {}
      PROVE  TimersTold(s, t, c, hook)
  <2>1. CASE hook = "before"
    <3>1. t.callbacks = s9.callbacks
      BY <1>5, <1>8, <1>9, <2>1
    <3>. SUFFICES ASSUME \A k \in s.callbacks : k.call # c
                  PROVE  t.callbacks = s.callbacks
                            \cup {TimerOf(c, type) : type \in {y \in TimerTypes : Start(y) # P!No}}
      BY <2>1 DEF TimersTold
    <3>2. IF Start("histogram") # P!No THEN s6.callbacks = s.callbacks \cup {TimerOf(c, "histogram")}
          ELSE s6.callbacks = s.callbacks
      <4>1. {k \in s.callbacks : k.call # c \/ k.type # "histogram"} = s.callbacks
        OBVIOUS
      <4>. QED  BY <1>8, <1>9, <2>1, <4>1 DEF TimerTold
    <3>3. IF Start("summary") # P!No THEN s9.callbacks = s6.callbacks \cup {TimerOf(c, "summary")}
          ELSE s9.callbacks = s6.callbacks
      <4>1. \A k \in s6.callbacks : k.call # c \/ k.type # "summary"
        BY <3>2, TimerFields
      <4>2. {k \in s6.callbacks : k.call # c \/ k.type # "summary"} = s6.callbacks
        BY <4>1
      <4>. QED  BY <1>8, <1>9, <2>1, <4>2 DEF TimerTold
    <3>. QED  BY <3>1, <3>2, <3>3 DEF TimerTypes
  <2>2. CASE hook # "before"
    <3>1. s10.callbacks = s.callbacks
      BY <1>8, <1>9, <2>2 DEF TimerTold
    <3>. QED  BY <1>5, <1>9, <2>2, <3>1 DEF TimersTold
  <2>. QED  BY <2>1, <2>2
<1>10. ASSUME t.lost = {}, NEW type \in TimerTypes, NEW m, m = Metric(TimerName(type), type)
       PROVE  /\ hook = "before" /\ Start(type) # P!No => m \in t.metrics
              /\ m \in t.metrics /\ Unobserved(type) /\ hook # "finally" =>
                    At(t, TimerName(type)) = At(s, TimerName(type))
              /\ m \in t.metrics /\ Unobserved(type) /\ hook = "finally"
                    /\ type \in types /\ TimerOf(c, type) \in s.callbacks =>
                       At(t, TimerName(type)) = At(s, TimerName(type)) + 1
  <2>. DEFINE n == TimerName(type)
  <2>1. hook = "before" /\ Start(type) # P!No => m \in t.metrics
    BY <1>4, <1>5, <1>8, <1>10 DEF TimerTold, TimerTypes
  <2>2. ASSUME m \in t.metrics
        PROVE  /\ At(s10, n) = At(s9, n) /\ At(s3, n) = At(s, n)
               /\ type = "histogram" => At(s9, n) = At(s6, n)
               /\ type = "summary" => At(s6, n) = At(s3, n)
    <3>1. StateOk(s10) /\ Metric(n, type) \in s10.metrics
      BY <1>4, <1>5, <1>10, <2>2
    <3>2. /\ s1.metrics \subseteq s10.metrics /\ s2.metrics \subseteq s10.metrics /\ s3.metrics \subseteq s10.metrics
          /\ s4.metrics \subseteq s10.metrics /\ s5.metrics \subseteq s10.metrics /\ s6.metrics \subseteq s10.metrics
          /\ s7.metrics \subseteq s10.metrics /\ s8.metrics \subseteq s10.metrics /\ s9.metrics \subseteq s10.metrics
      BY <1>2 DEF Handled
    <3>3. type \in {"histogram", "summary"}
      BY DEF TimerTypes
    <3>4. At(s1, n) = At(s0, n) /\ At(s2, n) = At(s1, n) /\ At(s3, n) = At(s2, n)
      BY <1>2, <3>1, <3>2, <3>3, TimerStays
    <3>5. At(s10, n) = At(s9, n)
      BY <1>2, <3>1, <3>3, TimerStays
    <3>6. ASSUME type = "histogram"  PROVE At(s9, n) = At(s6, n)
      <4>1. At(s7, n) = At(s6, n) /\ At(s8, n) = At(s7, n) /\ At(s9, n) = At(s8, n)
        BY <1>2, <3>1, <3>2, <3>6, TimerStays
      <4>. QED  BY <4>1
    <3>7. ASSUME type = "summary"  PROVE At(s6, n) = At(s3, n)
      <4>1. At(s4, n) = At(s3, n) /\ At(s5, n) = At(s4, n) /\ At(s6, n) = At(s5, n)
        BY <1>2, <3>1, <3>2, <3>7, TimerStays
      <4>. QED  BY <4>1
    <3>. QED  BY <1>6, <3>4, <3>5, <3>6, <3>7
  <2>3. At(t, n) = At(s10, n)
    BY <1>6
  <2>4. CASE type = "histogram"
    <3>1. s3.callbacks = s.callbacks /\ TimerTold(s3, s6, c, hook, types, type)
      BY <1>8, <1>10, <2>4
    <3>. QED  BY <2>1, <2>2, <2>3, <2>4, <3>1 DEF TimerTold
  <2>5. CASE type = "summary"
    <3>1. TimerTold(s6, s9, c, hook, types, type) /\ (hook = "finally" => s6.callbacks = s.callbacks)
      BY <1>8, <1>10, <2>5 DEF TimerTold
    <3>. QED  BY <2>1, <2>2, <2>3, <2>5, <3>1 DEF TimerTold
  <2>. QED  BY <2>4, <2>5 DEF TimerTypes
<1>. QED  BY <1>2, <1>4, <1>5, <1>7, <1>9, <1>10 DEF EventDid

-----------------------------------------------------------------------------
\* How a call ends: the hooks that are told of it.
\* What is told of the end of a call: after or throw, if it is not faulty, around `finally`.
EndSeq(e, faulty) ==
    IF "finally" \in faulty
    THEN e = <<>> \/ \E h \in {"after", "throw"} \ faulty : e = <<h>>
    ELSE e = <<"finally">> \/ \E h \in {"after", "throw"} \ faulty : e = <<h, "finally">> \/ e = <<"finally", h>>

\* The two hooks that end a call, in either order.
LEMMA ToldEnd ==
  ASSUME NEW faulty, NEW h \in {"after", "throw"}
  PROVE  /\ EndSeq(P!Told(faulty, h) \o P!Told(faulty, "finally"), faulty)
         /\ EndSeq(P!Told(faulty, "finally") \o P!Told(faulty, h), faulty)
<1>1. \A g : P!Told(faulty, g) = O!Told(faulty, g)
  BY DEF P!Told, O!Told
<1>2. h \in O!Hooks /\ "finally" \in O!Hooks
  BY DEF O!Hooks
<1>3. /\ h \in faulty => O!Told(faulty, h) \o O!Told(faulty, "finally") = O!Told(faulty, "finally")
      /\ h \notin faulty /\ "finally" \in faulty => O!Told(faulty, h) \o O!Told(faulty, "finally") = <<h>>
      /\ h \notin faulty /\ "finally" \notin faulty =>
            O!Told(faulty, h) \o O!Told(faulty, "finally") = <<h, "finally">>
  BY <1>2, ToldBoth
<1>4. /\ "finally" \in faulty => O!Told(faulty, "finally") \o O!Told(faulty, h) = O!Told(faulty, h)
      /\ "finally" \notin faulty /\ h \in faulty => O!Told(faulty, "finally") \o O!Told(faulty, h) = <<"finally">>
      /\ "finally" \notin faulty /\ h \notin faulty =>
            O!Told(faulty, "finally") \o O!Told(faulty, h) = <<"finally", h>>
  BY <1>2, ToldBoth
<1>5. /\ O!Told(faulty, "finally") = IF "finally" \in faulty THEN <<>> ELSE <<"finally">>
      /\ O!Told(faulty, h) = IF h \in faulty THEN <<>> ELSE <<h>>
  BY DEF O!Told
<1>6. EndSeq(O!Told(faulty, h) \o O!Told(faulty, "finally"), faulty)
  BY <1>3, <1>5 DEF EndSeq
<1>7. EndSeq(O!Told(faulty, "finally") \o O!Told(faulty, h), faulty)
  BY <1>4, <1>5 DEF EndSeq
<1>. QED  BY <1>1, <1>6, <1>7

\* Whichever way a call ends, `finally` is told once, and one of after and throw at most once.
LEMMA EndsOfCalls ==
  ASSUME NEW faulty
  PROVE  /\ EndSeq(P!BeforeThrows("prometheus", faulty).events, faulty)
         /\ \A answered \in {"ok", "error"} : /\ EndSeq(P!SyncEnd(faulty, answered).events, faulty)
                                              /\ EndSeq(P!AsyncEnd(faulty, answered).events, faulty)
<1>1. EndSeq(P!BeforeThrows("prometheus", faulty).events, faulty)
  BY ToldEnd DEF P!BeforeThrows
<1>2. EndSeq(P!SyncEnd(faulty, "error").events, faulty)
  BY ToldEnd DEF P!SyncEnd
<1>3. EndSeq(P!SyncEnd(faulty, "ok").events, faulty)
  <2>1. CASE "finally" \in faulty
    <3>1. P!SyncEnd(faulty, "ok").events = <<>>
      BY <2>1 DEF P!SyncEnd
    <3>. QED  BY <2>1, <3>1 DEF EndSeq
  <2>2. CASE "finally" \notin faulty
    <3>1. P!Told(faulty, "finally") = <<"finally">>
      BY <2>2 DEF P!Told
    <3>2. P!SyncEnd(faulty, "ok").events = P!Told(faulty, "finally") \o P!Told(faulty, "after")
      BY <2>2, <3>1 DEF P!SyncEnd
    <3>. QED  BY <3>2, ToldEnd
  <2>. QED  BY <2>1, <2>2
<1>4. ASSUME NEW h
      PROVE  P!Told(faulty, h) \in Seq({h})
  <2>1. <<>> \in Seq({h}) /\ <<h>> \in Seq({h})
    OBVIOUS
  <2>. QED  BY <2>1 DEF P!Told
<1>5. ASSUME NEW answered \in {"ok", "error"}
      PROVE  EndSeq(P!AsyncEnd(faulty, answered).events, faulty)
  <2>. DEFINE a == IF answered = "error" THEN <<>> ELSE P!Told(faulty, "after")
              b == IF answered = "error" \/ "after" \in faulty THEN P!Told(faulty, "throw") ELSE <<>>
              f == P!Told(faulty, "finally")
  <2>1. P!AsyncEnd(faulty, answered).events = a \o b \o f
    BY DEF P!AsyncEnd
  <2>2. CASE answered = "error" \/ "after" \in faulty
    <3>1. a = <<>> /\ b = P!Told(faulty, "throw")
      BY <2>2 DEF P!Told
    <3>2. a \o b = P!Told(faulty, "throw")
      BY <1>4, <3>1, ConcatEmptySeq
    <3>. QED  BY <2>1, <3>2, ToldEnd
  <2>3. CASE answered # "error" /\ "after" \notin faulty
    <3>1. a = P!Told(faulty, "after") /\ b = <<>>
      BY <2>3
    <3>2. a \o b = P!Told(faulty, "after")
      BY <1>4, <3>1, ConcatEmptySeq
    <3>. QED  BY <2>1, <3>2, ToldEnd
  <2>. QED  BY <2>2, <2>3
<1>. QED  BY <1>1, <1>2, <1>3, <1>5

-----------------------------------------------------------------------------
\* What a step of a call tells of it, hook after hook.
\* The state of the service between the steps.
Now == [metrics |-> metrics, value |-> value, callbacks |-> callbacks, lost |-> lost, failed |-> FALSE]

After(s) == metrics' = s.metrics /\ value' = s.value /\ callbacks' = s.callbacks /\ lost' = s.lost

Step(s, t, c, e, i, types) == IF i \in DOMAIN e THEN EventDid(s, t, c, e[i], types) ELSE t = s

LEMMA StepOk ==
  ASSUME HooksOk, NEW s, StateOk(s), NEW c \in Calls, NEW types \in SUBSET TimerTypes, NEW e, NEW i,
         i \in DOMAIN e => e[i] \in P!Hooks /\ e[i] \notin P!Faulty,
         NEW t, t = IF i \in DOMAIN e THEN P!handleEvent(s, c, e[i], types) ELSE s
  PROVE  Step(s, t, c, e, i, types) /\ StateOk(t)
<1>1. CASE i \in DOMAIN e
  <2>1. PICK hook \in P!Hooks : hook = e[i] /\ hook \notin P!Faulty
    BY <1>1
  <2>2. EventDid(s, t, c, hook, types)
    BY <1>1, <2>1, EventEffect
  <2>. QED  BY <1>1, <2>1, <2>2 DEF Step, EventDid
<1>2. CASE i \notin DOMAIN e
  BY <1>2 DEF Step
<1>. QED  BY <1>1, <1>2

\* Emit handles its events one after the other.
LEMMA EmitSteps ==
  ASSUME HooksOk, StateOk(Now), NEW c \in Calls, NEW types \in SUBSET TimerTypes, NEW e,
         \A i \in DOMAIN e : e[i] \in P!Hooks /\ e[i] \notin P!Faulty,
         P!Emit(c, e, types)
  PROVE  \E s1, s2, s3 : /\ Step(Now, s1, c, e, 1, types) /\ Step(s1, s2, c, e, 2, types)
                         /\ Step(s2, s3, c, e, 3, types) /\ After(s3)
                         /\ StateOk(s1) /\ StateOk(s2) /\ StateOk(s3)
<1>. DEFINE Emitted(s, i) == IF i \in DOMAIN e THEN P!handleEvent(s, c, e[i], types) ELSE s
            now == Now
            s1 == Emitted(now, 1)
            s2 == Emitted(s1, 2)
            s3 == Emitted(s2, 3)
<1>1. After(s3)
  BY DEF P!Emit, After, Now
<1>2. Step(Now, s1, c, e, 1, types) /\ StateOk(s1)
  <2>1. StateOk(now)
    OBVIOUS
  <2>. HIDE DEF now
  <2>2. s1 = IF 1 \in DOMAIN e THEN P!handleEvent(now, c, e[1], types) ELSE now
    OBVIOUS
  <2>. HIDE DEF s1
  <2>3. Step(now, s1, c, e, 1, types) /\ StateOk(s1)
    BY <2>1, <2>2, StepOk
  <2>. QED  BY <2>3 DEF now
<1>. HIDE DEF s1, now
<1>3. Step(s1, s2, c, e, 2, types) /\ StateOk(s2)
  <2>2. s2 = IF 2 \in DOMAIN e THEN P!handleEvent(s1, c, e[2], types) ELSE s1
    OBVIOUS
  <2>. HIDE DEF s2
  <2>. QED  BY <1>2, <2>2, StepOk
<1>. HIDE DEF s2
<1>4. Step(s2, s3, c, e, 3, types) /\ StateOk(s3)
  <2>2. s3 = IF 3 \in DOMAIN e THEN P!handleEvent(s2, c, e[3], types) ELSE s2
    OBVIOUS
  <2>. HIDE DEF s3
  <2>. QED  BY <1>3, <2>2, StepOk
<1>. HIDE DEF s3
<1>. QED  BY <1>1, <1>2, <1>3, <1>4

\* An event that is neither the first nor that of `finally` changes nothing of it.
Quiet(s, t) ==
    /\ s.lost \subseteq t.lost /\ s.metrics \subseteq t.metrics /\ DOMAIN s.value \subseteq DOMAIN t.value
    /\ \A n : Counted(n) => At(t, n) = At(s, n)
    /\ t.lost = {} =>
          /\ t.callbacks = s.callbacks
          /\ \A type \in TimerTypes :
                Metric(TimerName(type), type) \in s.metrics /\ Unobserved(type) =>
                   At(t, TimerName(type)) = At(s, TimerName(type))

\* The end of a call: the gauge falls by one, its timers are observed and no longer held.
EndDid(s, t, c, types) ==
    /\ s.lost \subseteq t.lost /\ s.metrics \subseteq t.metrics /\ DOMAIN s.value \subseteq DOMAIN t.value
    /\ \A n : Counted(n) => At(t, n) = At(s, n) - 1
    /\ t.lost = {} /\ "finally" \notin P!Faulty =>
          /\ t.callbacks = {k \in s.callbacks : k.call # c}
          /\ \A type \in TimerTypes :
                Metric(TimerName(type), type) \in s.metrics /\ Unobserved(type)
                   /\ type \in types /\ TimerOf(c, type) \in s.callbacks =>
                      At(t, TimerName(type)) = At(s, TimerName(type)) + 1

LEMMA NamesKept ==
  ASSUME NEW s, NEW t, StateOk(s), StateOk(t), s.metrics \subseteq t.metrics
  PROVE  DOMAIN s.value \subseteq DOMAIN t.value /\ \A n : At(s, n) \in Int
BY DEF StateOk, MetricsOk, At

LEMMA MiddleIsQuiet ==
  ASSUME NEW s, StateOk(s), NEW t, NEW c, NEW types, NEW h \in {"after", "throw"}, EventDid(s, t, c, h, types)
  PROVE  Quiet(s, t)
<1>1. h # "before" /\ h # "finally" /\ Rise(h) = 0
  BY DEF Rise
<1>2. StateOk(t) /\ s.metrics \subseteq t.metrics /\ s.lost \subseteq t.lost
  BY DEF EventDid
<1>3. DOMAIN s.value \subseteq DOMAIN t.value /\ \A n : At(s, n) \in Int
  BY <1>2, NamesKept
<1>4. \A n : Counted(n) => At(t, n) = At(s, n)
  BY <1>1, <1>3 DEF EventDid
<1>5. t.lost = {} =>
          /\ t.callbacks = s.callbacks
          /\ \A type \in TimerTypes :
                Metric(TimerName(type), type) \in s.metrics /\ Unobserved(type) =>
                   At(t, TimerName(type)) = At(s, TimerName(type))
  BY <1>1, <1>2 DEF EventDid, TimersTold
<1>. QED  BY <1>2, <1>3, <1>4, <1>5 DEF Quiet

LEMMA FinallyEnds ==
  ASSUME NEW s, StateOk(s), NEW t, NEW c, NEW types, EventDid(s, t, c, "finally", types)
  PROVE  EndDid(s, t, c, types)
<1>1. Rise("finally") = -1
  BY DEF Rise
<1>2. StateOk(t) /\ s.metrics \subseteq t.metrics /\ s.lost \subseteq t.lost
  BY DEF EventDid
<1>3. DOMAIN s.value \subseteq DOMAIN t.value /\ \A n : At(s, n) \in Int
  BY <1>2, NamesKept
<1>4. \A n : Counted(n) => At(t, n) = At(s, n) - 1
  BY <1>1, <1>3 DEF EventDid
<1>5. t.lost = {} =>
          /\ t.callbacks = {k \in s.callbacks : k.call # c}
          /\ \A type \in TimerTypes :
                Metric(TimerName(type), type) \in s.metrics /\ Unobserved(type)
                   /\ type \in types /\ TimerOf(c, type) \in s.callbacks =>
                      At(t, TimerName(type)) = At(s, TimerName(type)) + 1
  BY <1>2 DEF EventDid, TimersTold
<1>. QED  BY <1>2, <1>3, <1>4, <1>5 DEF EndDid

LEMMA QuietThenEnd ==
  ASSUME NEW s, NEW t, NEW u, NEW c, NEW types, Quiet(s, t), EndDid(t, u, c, types)
  PROVE  EndDid(s, u, c, types)
<1>1. u.lost = {} => t.lost = {}
  BY DEF EndDid
<1>2. s.lost \subseteq u.lost /\ s.metrics \subseteq u.metrics /\ DOMAIN s.value \subseteq DOMAIN u.value
  BY DEF Quiet, EndDid
<1>3. \A n : Counted(n) => At(u, n) = At(s, n) - 1
  BY DEF Quiet, EndDid
<1>4. ASSUME u.lost = {}, "finally" \notin P!Faulty
      PROVE  u.callbacks = {k \in s.callbacks : k.call # c}
  BY <1>1, <1>4 DEF Quiet, EndDid
<1>5. ASSUME u.lost = {}, "finally" \notin P!Faulty, NEW type \in TimerTypes,
             Metric(TimerName(type), type) \in s.metrics, Unobserved(type),
             type \in types, TimerOf(c, type) \in s.callbacks
      PROVE  At(u, TimerName(type)) = At(s, TimerName(type)) + 1
  <2>1. TimerOf(c, type) \in t.callbacks
    BY <1>1, <1>5 DEF Quiet
  <2>2. Metric(TimerName(type), type) \in t.metrics
    BY <1>5 DEF Quiet, EndDid
  <2>. QED  BY <1>1, <1>5, <2>1, <2>2 DEF Quiet, EndDid
<1>. QED  BY <1>2, <1>3, <1>4, <1>5 DEF EndDid

LEMMA EndThenQuiet ==
  ASSUME NEW s, NEW t, NEW u, NEW c, NEW types, EndDid(s, t, c, types), Quiet(t, u)
  PROVE  EndDid(s, u, c, types)
<1>1. u.lost = {} => t.lost = {}
  BY DEF Quiet
<1>2. s.lost \subseteq u.lost /\ s.metrics \subseteq u.metrics /\ DOMAIN s.value \subseteq DOMAIN u.value
  BY DEF Quiet, EndDid
<1>3. \A n : Counted(n) => At(u, n) = At(s, n) - 1
  BY DEF Quiet, EndDid
<1>4. ASSUME u.lost = {}, "finally" \notin P!Faulty
      PROVE  u.callbacks = {k \in s.callbacks : k.call # c}
  BY <1>1, <1>4 DEF Quiet, EndDid
<1>5. ASSUME u.lost = {}, "finally" \notin P!Faulty, NEW type \in TimerTypes,
             Metric(TimerName(type), type) \in s.metrics, Unobserved(type),
             type \in types, TimerOf(c, type) \in s.callbacks
      PROVE  At(u, TimerName(type)) = At(s, TimerName(type)) + 1
  <2>1. Metric(TimerName(type), type) \in t.metrics
    BY <1>5 DEF EndDid
  <2>2. At(u, TimerName(type)) = At(t, TimerName(type))
    BY <1>1, <1>5, <2>1 DEF Quiet
  <2>. QED  BY <1>1, <1>5, <2>1, <2>2 DEF EndDid
<1>. QED  BY <1>2, <1>3, <1>4, <1>5 DEF EndDid

\* The events that end a call: those around `finally` are quiet.
LEMMA EndOfSteps ==
  ASSUME NEW c, NEW types, NEW e, EndSeq(e, P!Faulty),
         NEW s, NEW t, NEW u, StateOk(s), StateOk(t), StateOk(u),
         Step(s, t, c, e, 1, types), Step(t, u, c, e, 2, types)
  PROVE  /\ EndDid(s, u, c, types) \/ "finally" \in P!Faulty
         /\ s.lost \subseteq u.lost /\ s.metrics \subseteq u.metrics /\ DOMAIN s.value \subseteq DOMAIN u.value
<1>1. CASE e = <<>>
  <2>1. t = s /\ u = t /\ "finally" \in P!Faulty
    BY <1>1 DEF Step, EndSeq
  <2>. QED  BY <2>1
<1>2. ASSUME NEW h \in {"after", "throw"}, e = <<h>>, "finally" \in P!Faulty
      PROVE  Quiet(s, u)
  <2>1. EventDid(s, t, c, h, types) /\ u = t
    BY <1>2 DEF Step
  <2>. QED  BY <2>1, MiddleIsQuiet
<1>3. CASE e = <<"finally">>
  <2>1. EventDid(s, t, c, "finally", types) /\ u = t
    BY <1>3 DEF Step
  <2>. QED  BY <2>1, FinallyEnds DEF EndDid
<1>4. ASSUME NEW h \in {"after", "throw"}, e = <<h, "finally">>
      PROVE  EndDid(s, u, c, types)
  <2>1. EventDid(s, t, c, h, types) /\ EventDid(t, u, c, "finally", types)
    BY <1>4 DEF Step
  <2>2. Quiet(s, t) /\ EndDid(t, u, c, types)
    BY <2>1, MiddleIsQuiet, FinallyEnds
  <2>. QED  BY <2>2, QuietThenEnd
<1>5. ASSUME NEW h \in {"after", "throw"}, e = <<"finally", h>>
      PROVE  EndDid(s, u, c, types)
  <2>1. EventDid(s, t, c, "finally", types) /\ EventDid(t, u, c, h, types)
    BY <1>5 DEF Step
  <2>2. EndDid(s, t, c, types) /\ Quiet(t, u)
    BY <2>1, MiddleIsQuiet, FinallyEnds
  <2>. QED  BY <2>2, EndThenQuiet
<1>6. CASE "finally" \in P!Faulty
  BY <1>1, <1>2, <1>6 DEF EndSeq, Quiet
<1>7. CASE "finally" \notin P!Faulty
  <2>1. EndDid(s, u, c, types)
    BY <1>3, <1>4, <1>5, <1>7 DEF EndSeq, Step
  <2>. QED  BY <2>1 DEF EndDid
<1>. QED  BY <1>6, <1>7

-----------------------------------------------------------------------------
\* What the steps of a call emit.
\* The hooks of a method never change, and nothing that is made of them.
LEMMA SameMethod ==
  ASSUME method' = method
  PROVE  /\ P!Faulty' = P!Faulty
         /\ HooksOk => HooksOk'
         /\ \A type : /\ Start(type)' = Start(type) /\ TimerName(type)' = TimerName(type)
                      /\ Unobserved(type)' <=> Unobserved(type)
         /\ \A c, type : TimerOf(c, type)' = TimerOf(c, type)
         /\ \A n, type : NameIs(n, type)' <=> NameIs(n, type)
         /\ \A l : LostOk(l)' <=> LostOk(l)
         /\ \A n : Counted(n)' <=> Counted(n)
<1>1. P!Faulty' = P!Faulty
  BY DEF P!Faulty, P!CannotBeBuilt, P!Event, P!CounterConfig, P!GaugeConfig, P!HistogramConfig,
         P!SummaryConfig, P!Duration, P!Ask, P!AsObject, P!buildParams, P!buildMetricConfig, P!Own, P!Default
<1>2. HooksOk => HooksOk'
  BY DEF HooksOk
<1>3. \A option, type : P!buildMetricConfig(option, type)' = P!buildMetricConfig(option, type)
  BY DEF P!buildMetricConfig, P!Own, P!Default
<1>4. ASSUME NEW type
      PROVE  /\ Start(type)' = Start(type) /\ TimerName(type)' = TimerName(type)
             /\ Unobserved(type)' <=> Unobserved(type)
  BY DEF Start, TimerName, Unobserved, P!buildMetricConfig, P!Own, P!Default
<1>5. ASSUME NEW c, NEW type  PROVE TimerOf(c, type)' = TimerOf(c, type)
  BY DEF TimerOf, Start, P!buildMetricConfig, P!Own, P!Default
<1>6. ASSUME NEW n, NEW type  PROVE NameIs(n, type)' <=> NameIs(n, type)
  BY DEF NameIs
<1>7. ASSUME NEW l  PROVE LostOk(l)' <=> LostOk(l)
  BY DEF LostOk, Start
<1>8. ASSUME NEW n  PROVE Counted(n)' <=> Counted(n)
  BY <1>1 DEF Counted, P!buildMetricConfig, P!Own, P!Default
<1>. QED  BY <1>1, <1>2, <1>4, <1>5, <1>6, <1>7, <1>8

LEMMA StateAfter ==
  ASSUME method' = method, NEW u, StateOk(u), After(u)
  PROVE  StateOk(Now)' /\ \A n : At(Now, n)' = At(u, n)
<1>1. metrics' = u.metrics /\ value' = u.value /\ callbacks' = u.callbacks /\ lost' = u.lost
  BY DEF After
<1>2. MetricsOk(metrics, value)'
  BY <1>1, SameMethod DEF StateOk, MetricsOk, Metric
<1>3. CallbacksOk(callbacks, metrics)'
  BY <1>1, SameMethod DEF StateOk, CallbacksOk, Metric
<1>4. \A l \in lost' : LostOk(l)'
  BY <1>1, SameMethod DEF StateOk
<1>5. StateOk(Now)'
  BY <1>2, <1>3, <1>4 DEF StateOk, Now
<1>6. ASSUME NEW n  PROVE At(Now, n)' = At(u, n)
  BY <1>1 DEF At, Now
<1>. QED  BY <1>5, <1>6

\* The end of a call, and its beginning with or without the end.
EndOfCall(s, u, c, types) ==
    /\ s.lost \subseteq u.lost /\ s.metrics \subseteq u.metrics /\ DOMAIN s.value \subseteq DOMAIN u.value
    /\ EndDid(s, u, c, types) \/ "finally" \in P!Faulty

LEMMA EndHooks ==
  ASSUME NEW e, NEW faulty, EndSeq(e, faulty)
  PROVE  /\ \A i \in DOMAIN e : e[i] \in P!Hooks /\ e[i] \notin faulty
         /\ e \in Seq(P!Hooks) /\ Len(e) <= 2
<1>. DEFINE Fits(f) == /\ \A i \in DOMAIN f : f[i] \in P!Hooks /\ f[i] \notin faulty
                       /\ f \in Seq(P!Hooks) /\ Len(f) <= 2
<1>1. Fits(<<>>)
  OBVIOUS
<1>2. ASSUME NEW h \in {"after", "throw"} \ faulty
      PROVE  /\ Fits(<<h>>)
             /\ "finally" \notin faulty => Fits(<<h, "finally">>) /\ Fits(<<"finally", h>>)
  BY DEF P!Hooks
<1>3. "finally" \notin faulty => Fits(<<"finally">>)
  BY DEF P!Hooks
<1>. HIDE DEF Fits
<1>4. Fits(e)
  BY <1>1, <1>2, <1>3 DEF EndSeq
<1>. QED  BY <1>4 DEF Fits

\* The step that ends a call.
LEMMA EmitEnd ==
  ASSUME HooksOk, StateOk(Now), NEW c \in Calls, NEW types \in SUBSET TimerTypes, NEW e,
         EndSeq(e, P!Faulty), P!Emit(c, e, types)
  PROVE  \E u : After(u) /\ StateOk(u) /\ EndOfCall(Now, u, c, types)
<1>1. PICK s1, s2, s3 : /\ Step(Now, s1, c, e, 1, types) /\ Step(s1, s2, c, e, 2, types)
                        /\ Step(s2, s3, c, e, 3, types) /\ After(s3)
                        /\ StateOk(s1) /\ StateOk(s2) /\ StateOk(s3)
  <2>1. \A i \in DOMAIN e : e[i] \in P!Hooks /\ e[i] \notin P!Faulty
    BY EndHooks
  <2>. QED  BY <2>1, EmitSteps
<1>2. s3 = s2
  <2>1. 3 \notin DOMAIN e
    BY EndHooks
  <2>. QED  BY <1>1, <2>1 DEF Step
<1>3. PICK s : s = Now
  OBVIOUS
<1>4. StateOk(s) /\ Step(s, s1, c, e, 1, types)
  BY <1>1, <1>3
<1>5. EndOfCall(s, s2, c, types)
  BY <1>1, <1>4, EndOfSteps DEF EndOfCall
<1>. QED  BY <1>1, <1>2, <1>3, <1>5

\* The step that begins a call, and may also end it.
LEMMA EmitBegin ==
  ASSUME HooksOk, StateOk(Now), NEW c \in Calls, NEW types \in SUBSET TimerTypes, NEW e,
         e = <<>> \/ EndSeq(e, P!Faulty), "before" \notin P!Faulty, P!Emit(c, <<"before">> \o e, types)
  PROVE  \E s, u : /\ EventDid(Now, s, c, "before", types) /\ StateOk(s)
                   /\ After(u) /\ StateOk(u)
                   /\ e = <<>> => u = s
                   /\ EndSeq(e, P!Faulty) => EndOfCall(s, u, c, types)
<1>. DEFINE g == <<"before">> \o e
<1>1. /\ \A i \in DOMAIN e : e[i] \in P!Hooks /\ e[i] \notin P!Faulty
      /\ e \in Seq(P!Hooks) /\ Len(e) <= 2
  <2>1. CASE e = <<>>
    BY <2>1
  <2>2. CASE EndSeq(e, P!Faulty)
    BY <2>2, EndHooks
  <2>. QED  BY <2>1, <2>2
<1>2. "before" \in P!Hooks
  BY DEF P!Hooks
<1>3. /\ g \in Seq(P!Hooks) /\ Len(g) = 1 + Len(e) /\ g[1] = "before"
      /\ \A i \in 1 .. Len(e) : g[1 + i] = e[i]
  BY <1>1, <1>2
<1>4. /\ DOMAIN g = 1 .. 1 + Len(e) /\ DOMAIN e = 1 .. Len(e) /\ Len(e) \in Nat
      /\ \A i \in DOMAIN g : i = 1 \/ (i - 1 \in DOMAIN e /\ g[i] = e[i - 1])
  <2>1. DOMAIN g = 1 .. 1 + Len(e) /\ DOMAIN e = 1 .. Len(e) /\ Len(e) \in Nat
    BY <1>1, <1>3
  <2>2. ASSUME NEW i \in 1 .. 1 + Len(e), i # 1  PROVE i - 1 \in 1 .. Len(e) /\ g[i] = e[i - 1]
    <3>1. i - 1 \in 1 .. Len(e) /\ 1 + (i - 1) = i
      BY <2>1, <2>2
    <3>. QED  BY <1>3, <3>1
  <2>. HIDE DEF g
  <2>. QED  BY <2>1, <2>2
<1>5. P!Emit(c, g, types)
  OBVIOUS
<1>. HIDE DEF g
<1>6. \A i \in DOMAIN g : g[i] \in P!Hooks /\ g[i] \notin P!Faulty
  BY <1>1, <1>2, <1>3, <1>4
<1>7. PICK s1, s2, s3 : /\ Step(Now, s1, c, g, 1, types) /\ Step(s1, s2, c, g, 2, types)
                        /\ Step(s2, s3, c, g, 3, types) /\ After(s3)
                        /\ StateOk(s1) /\ StateOk(s2) /\ StateOk(s3)
  BY <1>5, <1>6, EmitSteps
<1>8. EventDid(Now, s1, c, "before", types)
  BY <1>3, <1>4, <1>7 DEF Step
<1>9. Step(s1, s2, c, e, 1, types) /\ Step(s2, s3, c, e, 2, types)
  <2>1. /\ 2 \in DOMAIN g <=> 1 \in DOMAIN e
        /\ 3 \in DOMAIN g <=> 2 \in DOMAIN e
    BY <1>4
  <2>2. /\ 1 \in DOMAIN e => g[2] = e[1]
        /\ 2 \in DOMAIN e => g[3] = e[2]
    BY <1>4, <2>1
  <2>. QED  BY <1>7, <2>1, <2>2 DEF Step
<1>10. ASSUME e = <<>>  PROVE s3 = s1
  <2>1. 1 \notin DOMAIN e /\ 2 \notin DOMAIN e
    BY <1>10
  <2>. QED  BY <1>9, <2>1 DEF Step
<1>11. ASSUME EndSeq(e, P!Faulty)  PROVE EndOfCall(s1, s3, c, types)
  BY <1>7, <1>9, <1>11, EndOfSteps DEF EndOfCall
<1>. QED  BY <1>7, <1>8, <1>10, <1>11

-----------------------------------------------------------------------------
\* The inductive invariant.
\* The calls in flight, those that are over, and whether there has been one; the timers that
\* `before` asks for.
InFlight == {c \in Calls : running[c] = "awaiting"}
Finished == {c \in Calls : running[c] = "over"}
SomeCall == \E c \in Calls : running[c] # "idle"
TimersAsked == {type \in TimerTypes : Start(type) # P!No}

\* A call has the timers that `before` has started; nothing is registered before the first.
CallsOk ==
    /\ running \in [Calls -> {"idle", "awaiting", "over"}]
    /\ IsFiniteSet(InFlight) /\ IsFiniteSet(Finished)
    /\ started = [c \in Calls |-> IF running[c] = "idle" \/ "before" \in P!Faulty THEN {} ELSE TimersAsked]
    /\ "before" \in P!Faulty => InFlight = {}
    /\ ~SomeCall => metrics = {}

\* The gauge that `before` increments and `finally` decrements, whatever else is lost.
GaugeOk == \A n : Counted(n) => /\ At(Now, n) = Cardinality(InFlight)
                                /\ SomeCall => n \in DOMAIN value

\* As long as nothing is lost: exactly the timers of calls in flight are held, and each metric of
\* a timer has one observation for every call that is over.
TimersOk ==
    lost = {} /\ "finally" \notin P!Faulty =>
       /\ \A k : k \in callbacks <=> \E c \in InFlight, type \in TimersAsked : k = TimerOf(c, type)
       /\ "before" \notin P!Faulty =>
             \A type \in TimersAsked :
                /\ SomeCall => Metric(TimerName(type), type) \in metrics
                /\ Unobserved(type) => At(Now, TimerName(type)) = Cardinality(Finished)

\* The inductive invariant.  GaugeCountsCalls and TimersAreObserved speak of the state between
\* calls; to keep them, every held timer must be for the metric that the hook named, every
\* name must keep its type, and a value that is not registered yet must count as 0.
MetricsInv == HooksOk /\ StateOk(Now) /\ CallsOk /\ GaugeOk /\ TimersOk

LEMMA MetricsInit == P!Init => MetricsInv
<1>. SUFFICES ASSUME P!Init  PROVE MetricsInv
  OBVIOUS
<1>1. HooksOk
  BY HooksInit
<1>2. /\ running = [c \in Calls |-> "idle"] /\ started = [c \in Calls |-> {}]
      /\ metrics = {} /\ value = <<>> /\ callbacks = {} /\ lost = {}
  BY DEF P!Init
<1>3. value \in [{a.name : a \in metrics} -> Int] /\ DOMAIN value = {}
  BY <1>2
<1>4. StateOk(Now)
  BY <1>2, <1>3 DEF StateOk, Now, MetricsOk, CallbacksOk
<1>5. InFlight = {} /\ Finished = {} /\ ~SomeCall
  BY <1>2 DEF InFlight, Finished, SomeCall
<1>6. IsFiniteSet(InFlight) /\ IsFiniteSet(Finished) /\ Cardinality(InFlight) = 0 /\ Cardinality(Finished) = 0
  BY <1>5, FS_EmptySet
<1>7. \A n : At(Now, n) = 0
  BY <1>3 DEF At, Now
<1>8. CallsOk
  BY <1>2, <1>5, <1>6 DEF CallsOk
<1>9. GaugeOk /\ TimersOk
  BY <1>2, <1>5, <1>6, <1>7 DEF GaugeOk, TimersOk
<1>. QED  BY <1>1, <1>4, <1>8, <1>9 DEF MetricsInv

\* One call moves on.
LEMMA CallMoves ==
  ASSUME CallsOk, method' = method, NEW c \in Calls, NEW to \in {"awaiting", "over"},
         running' = [running EXCEPT ![c] = to]
  PROVE  /\ SomeCall' /\ running' \in [Calls -> {"idle", "awaiting", "over"}]
         /\ InFlight' = IF to = "awaiting" THEN InFlight \cup {c} ELSE InFlight \ {c}
         /\ Finished' = IF to = "over" THEN Finished \cup {c} ELSE Finished \ {c}
         /\ IsFiniteSet(InFlight') /\ IsFiniteSet(Finished')
         /\ TimersAsked' = TimersAsked
<1>1. /\ running' \in [Calls -> {"idle", "awaiting", "over"}] /\ running'[c] = to
      /\ \A d \in Calls : d # c => running'[d] = running[d]
  BY DEF CallsOk
<1>2. /\ InFlight' = IF to = "awaiting" THEN InFlight \cup {c} ELSE InFlight \ {c}
      /\ Finished' = IF to = "over" THEN Finished \cup {c} ELSE Finished \ {c}
  BY <1>1 DEF InFlight, Finished
<1>3. SomeCall'
  BY <1>1 DEF SomeCall
<1>4. IsFiniteSet(InFlight') /\ IsFiniteSet(Finished')
  BY <1>2, FS_AddElement, FS_RemoveElement DEF CallsOk
<1>5. TimersAsked' = TimersAsked
  BY SameMethod DEF TimersAsked
<1>. QED  BY <1>1, <1>2, <1>3, <1>4, <1>5

\* What the event of `before` does at the beginning of a call.
LEMMA BeginTold ==
  ASSUME MetricsInv, NEW c \in Calls, running[c] = "idle", "before" \notin P!Faulty,
         NEW s, EventDid(Now, s, c, "before", TimersAsked)
  PROVE  /\ lost \subseteq s.lost
         /\ \A n : Counted(n) => At(s, n) = At(Now, n) + 1 /\ n \in DOMAIN s.value
         /\ s.lost = {} =>
               /\ "finally" \notin P!Faulty =>
                     s.callbacks = callbacks \cup {TimerOf(c, type) : type \in TimersAsked}
               /\ \A type \in TimersAsked :
                     /\ Metric(TimerName(type), type) \in s.metrics
                     /\ Unobserved(type) => At(s, TimerName(type)) = At(Now, TimerName(type))
<1>1. Now.lost = lost /\ Now.callbacks = callbacks /\ Rise("before") = 1
  BY DEF Now, Rise
<1>2. ASSUME s.lost = {}, "finally" \notin P!Faulty
      PROVE  s.callbacks = callbacks \cup {TimerOf(c, type) : type \in TimersAsked}
  <2>1. lost = {}
    BY <1>1, <1>2 DEF EventDid
  <2>2. c \notin InFlight
    BY DEF InFlight
  <2>3. \A k \in callbacks : k.call # c
    BY <1>2, <2>1, <2>2, TimerFields DEF MetricsInv, TimersOk
  <2>. QED  BY <1>1, <1>2, <2>3 DEF EventDid, TimersTold, TimersAsked
<1>3. ASSUME s.lost = {}, NEW type \in TimersAsked
      PROVE  /\ Metric(TimerName(type), type) \in s.metrics
             /\ Unobserved(type) => At(s, TimerName(type)) = At(Now, TimerName(type))
  BY <1>3 DEF EventDid, TimersAsked
<1>4. ASSUME NEW n, Counted(n)
      PROVE  At(s, n) = At(Now, n) + 1 /\ n \in DOMAIN s.value
  BY <1>1, <1>4 DEF EventDid
<1>5. lost \subseteq s.lost
  BY <1>1 DEF EventDid
<1>. QED  BY <1>2, <1>3, <1>4, <1>5

\* `before` cannot be built: the call is over at once, and nothing is held of it.
LEMMA FaultyBegin ==
  ASSUME MetricsInv, method' = method, NEW c \in Calls, "before" \in P!Faulty,
         running' = [running EXCEPT ![c] = "over"], started' = [started EXCEPT ![c] = {}],
         NEW u, After(u), StateOk(u), EndOfCall(Now, u, c, {})
  PROVE  MetricsInv'
<1>1. /\ SomeCall' /\ running' \in [Calls -> {"idle", "awaiting", "over"}]
      /\ InFlight' = InFlight \ {c} /\ IsFiniteSet(InFlight') /\ IsFiniteSet(Finished')
      /\ TimersAsked' = TimersAsked
  BY CallMoves DEF MetricsInv
<1>2. InFlight = {} /\ InFlight' = {}
  BY <1>1 DEF MetricsInv, CallsOk
<1>3. P!Faulty' = P!Faulty /\ HooksOk' /\ \A n : ~Counted(n)'
  BY SameMethod DEF MetricsInv, Counted
<1>4. CallsOk'
  <2>1. started' = [d \in Calls |-> {}]
    BY DEF MetricsInv, CallsOk
  <2>. QED  BY <1>1, <1>2, <1>3, <2>1 DEF CallsOk
<1>5. GaugeOk'
  BY <1>3 DEF GaugeOk
<1>6. TimersOk'
  <2>. SUFFICES ASSUME lost' = {}, "finally" \notin P!Faulty
                PROVE  \A k : k \notin callbacks'
    BY <1>1, <1>2, <1>3 DEF TimersOk
  <2>1. lost = {} /\ callbacks' = {k \in callbacks : k.call # c}
    BY DEF After, EndOfCall, EndDid, Now
  <2>2. callbacks = {}
    BY <1>2, <2>1 DEF MetricsInv, TimersOk
  <2>. QED  BY <2>1, <2>2
<1>7. StateOk(Now)'
  BY StateAfter
<1>. QED  BY <1>3, <1>4, <1>5, <1>6, <1>7 DEF MetricsInv

\* What a call that begins without a faulty `before` leaves to its end.
LEMMA BeginMoves ==
  ASSUME MetricsInv, method' = method, NEW c \in Calls, running[c] = "idle", "before" \notin P!Faulty,
         NEW to \in {"awaiting", "over"}, running' = [running EXCEPT ![c] = to],
         started' = [started EXCEPT ![c] = TimersAsked]
  PROVE  /\ SomeCall' /\ TimersAsked' = TimersAsked /\ P!Faulty' = P!Faulty /\ HooksOk' /\ CallsOk'
         /\ to = "awaiting" => /\ InFlight' = InFlight \cup {c} /\ Finished' = Finished
                               /\ Cardinality(InFlight)' = Cardinality(InFlight) + 1
         /\ to = "over" => /\ InFlight' = InFlight /\ Finished' = Finished \cup {c}
                           /\ Cardinality(Finished)' = Cardinality(Finished) + 1
         /\ Cardinality(InFlight) \in Int /\ Cardinality(Finished) \in Int
<1>1. /\ SomeCall' /\ running' \in [Calls -> {"idle", "awaiting", "over"}]
      /\ InFlight' = IF to = "awaiting" THEN InFlight \cup {c} ELSE InFlight \ {c}
      /\ Finished' = IF to = "over" THEN Finished \cup {c} ELSE Finished \ {c}
      /\ IsFiniteSet(InFlight') /\ IsFiniteSet(Finished')
      /\ TimersAsked' = TimersAsked
  BY CallMoves DEF MetricsInv
<1>2. P!Faulty' = P!Faulty /\ HooksOk'
  BY SameMethod DEF MetricsInv
<1>3. c \notin InFlight /\ c \notin Finished
  BY DEF InFlight, Finished
<1>4. IsFiniteSet(InFlight) /\ IsFiniteSet(Finished)
  BY DEF MetricsInv, CallsOk
<1>5. /\ Cardinality(InFlight \cup {c}) = Cardinality(InFlight) + 1
      /\ Cardinality(Finished \cup {c}) = Cardinality(Finished) + 1
      /\ Cardinality(InFlight) \in Int /\ Cardinality(Finished) \in Int
  BY <1>3, <1>4, FS_AddElement, FS_CardinalityType
<1>6. CallsOk'
  <2>1. started' = [d \in Calls |-> IF running'[d] = "idle" THEN {} ELSE TimersAsked]
    <3>1. started = [d \in Calls |-> IF running[d] = "idle" THEN {} ELSE TimersAsked]
      BY DEF MetricsInv, CallsOk
    <3>2. running \in [Calls -> {"idle", "awaiting", "over"}]
      BY DEF MetricsInv, CallsOk
    <3>. QED  BY <3>1, <3>2
  <2>. QED  BY <1>1, <1>2, <2>1 DEF CallsOk
<1>. QED  BY <1>1, <1>2, <1>3, <1>5, <1>6

\* The method has returned a promise: one call more is in flight.
LEMMA PromiseBegin ==
  ASSUME MetricsInv, method' = method, NEW c \in Calls, running[c] = "idle", "before" \notin P!Faulty,
         running' = [running EXCEPT ![c] = "awaiting"], started' = [started EXCEPT ![c] = TimersAsked],
         NEW u, After(u), StateOk(u), EventDid(Now, u, c, "before", TimersAsked)
  PROVE  MetricsInv'
<1>1. /\ SomeCall' /\ TimersAsked' = TimersAsked /\ P!Faulty' = P!Faulty /\ HooksOk' /\ CallsOk'
      /\ InFlight' = InFlight \cup {c} /\ Finished' = Finished
      /\ Cardinality(InFlight)' = Cardinality(InFlight) + 1
  BY BeginMoves
<1>2. /\ lost \subseteq u.lost
      /\ \A n : Counted(n) => At(u, n) = At(Now, n) + 1 /\ n \in DOMAIN u.value
      /\ u.lost = {} =>
            /\ "finally" \notin P!Faulty =>
                  u.callbacks = callbacks \cup {TimerOf(c, type) : type \in TimersAsked}
            /\ \A type \in TimersAsked :
                  /\ Metric(TimerName(type), type) \in u.metrics
                  /\ Unobserved(type) => At(u, TimerName(type)) = At(Now, TimerName(type))
  BY BeginTold
<1>3. StateOk(Now)' /\ \A n : At(Now, n)' = At(u, n)
  BY StateAfter
<1>4. metrics' = u.metrics /\ value' = u.value /\ callbacks' = u.callbacks /\ lost' = u.lost
  BY DEF After
<1>5. GaugeOk'
  <2>. SUFFICES ASSUME NEW n, Counted(n)'
                PROVE  At(Now, n)' = Cardinality(InFlight)' /\ n \in DOMAIN value'
    BY DEF GaugeOk
  <2>1. Counted(n)
    BY SameMethod
  <2>2. At(Now, n) = Cardinality(InFlight)
    BY <2>1 DEF MetricsInv, GaugeOk
  <2>. QED  BY <1>1, <1>2, <1>3, <1>4, <2>1, <2>2
<1>6. TimersOk'
  <2>. SUFFICES ASSUME u.lost = {}, "finally" \notin P!Faulty
                PROVE  /\ \A k : k \in callbacks' <=> \E d \in InFlight', type \in TimersAsked : k = TimerOf(d, type)'
                       /\ \A type \in TimersAsked :
                             /\ Metric(TimerName(type), type)' \in metrics'
                             /\ Unobserved(type)' => At(Now, TimerName(type))' = Cardinality(Finished)'
    BY <1>1, <1>4 DEF TimersOk
  <2>1. lost = {}
    BY <1>2
  <2>2. /\ \A k : k \in callbacks <=> \E d \in InFlight, type \in TimersAsked : k = TimerOf(d, type)
        /\ \A type \in TimersAsked : Unobserved(type) => At(Now, TimerName(type)) = Cardinality(Finished)
    BY <2>1 DEF MetricsInv, TimersOk
  <2>3. \A k : k \in callbacks' <=> \E d \in InFlight', type \in TimersAsked : k = TimerOf(d, type)'
    <3>1. \A d, type : TimerOf(d, type)' = TimerOf(d, type)
      BY SameMethod
    <3>2. callbacks' = callbacks \cup {TimerOf(c, type) : type \in TimersAsked}
      BY <1>2, <1>4
    <3>. QED  BY <1>1, <2>2, <3>1, <3>2
  <2>4. ASSUME NEW type \in TimersAsked
        PROVE  /\ Metric(TimerName(type), type)' \in metrics'
               /\ Unobserved(type)' => At(Now, TimerName(type))' = Cardinality(Finished)'
    <3>1. TimerName(type)' = TimerName(type) /\ (Unobserved(type)' <=> Unobserved(type))
      BY SameMethod
    <3>2. Metric(TimerName(type), type)' = Metric(TimerName(type), type)
      BY <3>1 DEF Metric
    <3>3. At(Now, TimerName(type))' = At(u, TimerName(type))
      BY <1>4, <3>1 DEF At, Now
    <3>. QED  BY <1>1, <1>2, <1>4, <2>2, <3>1, <3>2, <3>3
  <2>. QED  BY <2>3, <2>4
<1>. QED  BY <1>1, <1>3, <1>5, <1>6 DEF MetricsInv

\* The method has returned a value or thrown: the call is over, with its timers stopped.
LEMMA SyncBegin ==
  ASSUME MetricsInv, method' = method, NEW c \in Calls, running[c] = "idle", "before" \notin P!Faulty,
         running' = [running EXCEPT ![c] = "over"], started' = [started EXCEPT ![c] = TimersAsked],
         NEW s, EventDid(Now, s, c, "before", TimersAsked), StateOk(s),
         NEW u, After(u), StateOk(u), EndOfCall(s, u, c, TimersAsked)
  PROVE  MetricsInv'
<1>1. /\ SomeCall' /\ TimersAsked' = TimersAsked /\ P!Faulty' = P!Faulty /\ HooksOk' /\ CallsOk'
      /\ InFlight' = InFlight /\ Finished' = Finished \cup {c}
      /\ Cardinality(Finished)' = Cardinality(Finished) + 1
      /\ Cardinality(InFlight) \in Int
  BY BeginMoves
<1>2. /\ lost \subseteq s.lost
      /\ \A n : Counted(n) => At(s, n) = At(Now, n) + 1 /\ n \in DOMAIN s.value
      /\ s.lost = {} =>
            /\ "finally" \notin P!Faulty =>
                  s.callbacks = callbacks \cup {TimerOf(c, type) : type \in TimersAsked}
            /\ \A type \in TimersAsked :
                  /\ Metric(TimerName(type), type) \in s.metrics
                  /\ Unobserved(type) => At(s, TimerName(type)) = At(Now, TimerName(type))
  BY BeginTold
<1>3. StateOk(Now)' /\ \A n : At(Now, n)' = At(u, n)
  BY StateAfter
<1>4. metrics' = u.metrics /\ value' = u.value /\ callbacks' = u.callbacks /\ lost' = u.lost
  BY DEF After
<1>5. /\ s.lost \subseteq u.lost /\ s.metrics \subseteq u.metrics /\ DOMAIN s.value \subseteq DOMAIN u.value
      /\ "finally" \notin P!Faulty => EndDid(s, u, c, TimersAsked)
  BY DEF EndOfCall
<1>6. GaugeOk'
  <2>. SUFFICES ASSUME NEW n, Counted(n)'
                PROVE  At(Now, n)' = Cardinality(InFlight)' /\ n \in DOMAIN value'
    BY DEF GaugeOk
  <2>1. Counted(n) /\ "finally" \notin P!Faulty
    BY SameMethod DEF Counted
  <2>2. At(Now, n) = Cardinality(InFlight)
    BY <2>1 DEF MetricsInv, GaugeOk
  <2>3. At(u, n) = At(s, n) - 1
    BY <1>5, <2>1 DEF EndDid
  <2>4. At(Now, n)' = Cardinality(InFlight)
    BY <1>1, <1>2, <1>3, <2>1, <2>2, <2>3
  <2>. QED  BY <1>1, <1>2, <1>4, <1>5, <2>1, <2>4
<1>7. TimersOk'
  <2>. SUFFICES ASSUME u.lost = {}, "finally" \notin P!Faulty
                PROVE  /\ \A k : k \in callbacks' <=> \E d \in InFlight', type \in TimersAsked : k = TimerOf(d, type)'
                       /\ \A type \in TimersAsked :
                             /\ Metric(TimerName(type), type)' \in metrics'
                             /\ Unobserved(type)' => At(Now, TimerName(type))' = Cardinality(Finished)'
    BY <1>1, <1>4 DEF TimersOk
  <2>1. lost = {} /\ s.lost = {}
    BY <1>2, <1>5
  <2>2. /\ \A k : k \in callbacks <=> \E d \in InFlight, type \in TimersAsked : k = TimerOf(d, type)
        /\ \A type \in TimersAsked : Unobserved(type) => At(Now, TimerName(type)) = Cardinality(Finished)
    BY <2>1 DEF MetricsInv, TimersOk
  <2>3. callbacks' = callbacks
    <3>1. \A k \in callbacks : k.call # c
      BY <2>2, TimerFields DEF InFlight
    <3>2. u.callbacks = {k \in callbacks \cup {TimerOf(c, type) : type \in TimersAsked} : k.call # c}
      BY <1>2, <1>5, <2>1 DEF EndDid
    <3>3. \A type \in TimersAsked : TimerOf(c, type).call = c
      BY TimerFields
    <3>. QED  BY <1>4, <3>1, <3>2, <3>3
  <2>4. \A k : k \in callbacks' <=> \E d \in InFlight', type \in TimersAsked : k = TimerOf(d, type)'
    <3>1. \A d, type : TimerOf(d, type)' = TimerOf(d, type)
      BY SameMethod
    <3>. QED  BY <1>1, <2>2, <2>3, <3>1
  <2>5. ASSUME NEW type \in TimersAsked
        PROVE  /\ Metric(TimerName(type), type)' \in metrics'
               /\ Unobserved(type)' => At(Now, TimerName(type))' = Cardinality(Finished)'
    <3>1. TimerName(type)' = TimerName(type) /\ (Unobserved(type)' <=> Unobserved(type))
      BY SameMethod
    <3>2. Metric(TimerName(type), type)' = Metric(TimerName(type), type)
      BY <3>1 DEF Metric
    <3>3. At(Now, TimerName(type))' = At(u, TimerName(type))
      BY <1>4, <3>1 DEF At, Now
    <3>4. Unobserved(type) => At(u, TimerName(type)) = At(s, TimerName(type)) + 1
      <4>1. TimerOf(c, type) \in s.callbacks /\ type \in TimerTypes
        BY <1>2, <2>1 DEF TimersAsked
      <4>. QED  BY <1>2, <1>5, <2>1, <4>1 DEF EndDid
    <3>. QED  BY <1>1, <1>2, <1>4, <1>5, <2>1, <2>2, <3>1, <3>2, <3>3, <3>4
  <2>. QED  BY <2>4, <2>5
<1>. QED  BY <1>1, <1>3, <1>6, <1>7 DEF MetricsInv

\* A promise is settled: one call less is in flight, and its timers are stopped.
LEMMA SettleMoves ==
  ASSUME MetricsInv, UNCHANGED <<method, started>>, NEW c \in Calls, running[c] = "awaiting",
         running' = [running EXCEPT ![c] = "over"],
         NEW u, After(u), StateOk(u), EndOfCall(Now, u, c, started[c])
  PROVE  MetricsInv'
<1>0. c \in InFlight /\ c \notin Finished /\ SomeCall /\ "before" \notin P!Faulty /\ started[c] = TimersAsked
  BY DEF MetricsInv, CallsOk, InFlight, Finished, SomeCall
<1>1. /\ SomeCall' /\ running' \in [Calls -> {"idle", "awaiting", "over"}]
      /\ InFlight' = InFlight \ {c} /\ Finished' = Finished \cup {c}
      /\ IsFiniteSet(InFlight') /\ IsFiniteSet(Finished')
      /\ TimersAsked' = TimersAsked
  BY CallMoves DEF MetricsInv
<1>2. /\ Cardinality(InFlight)' = Cardinality(InFlight) - 1
      /\ Cardinality(Finished)' = Cardinality(Finished) + 1
  <2>1. IsFiniteSet(InFlight) /\ IsFiniteSet(Finished)
    BY DEF MetricsInv, CallsOk
  <2>. QED  BY <1>0, <1>1, <2>1, FS_AddElement, FS_RemoveElement
<1>3. StateOk(Now)' /\ \A n : At(Now, n)' = At(u, n)
  BY StateAfter
<1>4. metrics' = u.metrics /\ value' = u.value /\ callbacks' = u.callbacks /\ lost' = u.lost
  BY DEF After
<1>5. /\ lost \subseteq u.lost /\ metrics \subseteq u.metrics /\ DOMAIN value \subseteq DOMAIN u.value
      /\ "finally" \notin P!Faulty => EndDid(Now, u, c, TimersAsked)
  BY <1>0 DEF EndOfCall, Now
<1>6. P!Faulty' = P!Faulty /\ HooksOk'
  BY SameMethod DEF MetricsInv
<1>7. CallsOk'
  <2>1. started' = [d \in Calls |-> IF running'[d] = "idle" THEN {} ELSE TimersAsked]
    <3>1. started = [d \in Calls |-> IF running[d] = "idle" THEN {} ELSE TimersAsked]
      BY <1>0 DEF MetricsInv, CallsOk
    <3>2. running \in [Calls -> {"idle", "awaiting", "over"}]
      BY DEF MetricsInv, CallsOk
    <3>. QED  BY <3>1, <3>2
  <2>. QED  BY <1>0, <1>1, <1>6, <2>1 DEF CallsOk
<1>8. GaugeOk'
  <2>. SUFFICES ASSUME NEW n, Counted(n)'
                PROVE  At(Now, n)' = Cardinality(InFlight)' /\ n \in DOMAIN value'
    BY DEF GaugeOk
  <2>1. Counted(n) /\ "finally" \notin P!Faulty
    BY SameMethod DEF Counted
  <2>2. At(Now, n) = Cardinality(InFlight) /\ n \in DOMAIN value
    BY <1>0, <2>1 DEF MetricsInv, GaugeOk
  <2>3. At(u, n) = At(Now, n) - 1
    BY <1>5, <2>1 DEF EndDid
  <2>. QED  BY <1>2, <1>3, <1>4, <1>5, <2>2, <2>3
<1>9. TimersOk'
  <2>. SUFFICES ASSUME lost' = {}, "finally" \notin P!Faulty'
                PROVE  /\ \A k : k \in callbacks' <=> \E d \in InFlight', type \in TimersAsked' : k = TimerOf(d, type)'
                       /\ \A type \in TimersAsked' :
                             /\ Metric(TimerName(type), type)' \in metrics'
                             /\ Unobserved(type)' => At(Now, TimerName(type))' = Cardinality(Finished)'
    BY DEF TimersOk
  <2>0. u.lost = {} /\ "finally" \notin P!Faulty
    BY <1>4, <1>6
  <2>1. lost = {}
    BY <1>5, <2>0
  <2>2. /\ \A k : k \in callbacks <=> \E d \in InFlight, type \in TimersAsked : k = TimerOf(d, type)
        /\ \A type \in TimersAsked :
              /\ Metric(TimerName(type), type) \in metrics
              /\ Unobserved(type) => At(Now, TimerName(type)) = Cardinality(Finished)
    BY <1>0, <2>0, <2>1 DEF MetricsInv, TimersOk
  <2>3. callbacks' = {k \in callbacks : k.call # c}
    BY <1>4, <1>5, <2>0 DEF EndDid, Now
  <2>4. \A k : k \in callbacks' <=> \E d \in InFlight', type \in TimersAsked : k = TimerOf(d, type)'
    <3>1. \A d, type : TimerOf(d, type)' = TimerOf(d, type)
      BY SameMethod
    <3>2. \A d, type : TimerOf(d, type).call = d
      BY TimerFields
    <3>. QED  BY <1>1, <2>2, <2>3, <3>1, <3>2
  <2>5. ASSUME NEW type \in TimersAsked
        PROVE  /\ Metric(TimerName(type), type)' \in metrics'
               /\ Unobserved(type)' => At(Now, TimerName(type))' = Cardinality(Finished)'
    <3>1. TimerName(type)' = TimerName(type) /\ (Unobserved(type)' <=> Unobserved(type))
      BY SameMethod
    <3>2. Metric(TimerName(type), type)' = Metric(TimerName(type), type)
      BY <3>1 DEF Metric
    <3>3. At(Now, TimerName(type))' = At(u, TimerName(type))
      BY <1>4, <3>1 DEF At, Now
    <3>4. Unobserved(type) => At(u, TimerName(type)) = At(Now, TimerName(type)) + 1
      <4>1. TimerOf(c, type) \in callbacks /\ type \in TimerTypes
        BY <1>0, <2>2 DEF TimersAsked
      <4>2. Now.callbacks = callbacks /\ Now.metrics = metrics
        BY DEF Now
      <4>. QED  BY <1>5, <2>0, <2>2, <4>1, <4>2 DEF EndDid
    <3>. QED  BY <1>2, <1>4, <1>5, <2>2, <3>1, <3>2, <3>3, <3>4
  <2>. QED  BY <1>1, <2>4, <2>5
<1>. QED  BY <1>3, <1>6, <1>7, <1>8, <1>9 DEF MetricsInv

-----------------------------------------------------------------------------
\* The steps keep it, and what it means.
\* A step of the parts is one of the metrics, or leaves their variables alone.
LEMMA MetricsStep ==
  ASSUME [PartsNext]_partVars
  PROVE  P!Next \/ UNCHANGED metricVars
BY DEF PartsNext, partVars, Others, metricVars

\* A call begins.
LEMMA BeginKeeps ==
  ASSUME MetricsInv, NEW c \in Calls, NEW answered \in {"ok", "error", "none"}, P!Begin(c, answered)
  PROVE  MetricsInv'
<1>1. running[c] = "idle" /\ method' = method
  BY DEF P!Begin
<1>2. HooksOk /\ StateOk(Now)
  BY DEF MetricsInv
<1>3. TimersAsked \in SUBSET TimerTypes
  BY DEF TimersAsked
<1>4. CASE "before" \in P!Faulty
  <2>1. /\ running' = [running EXCEPT ![c] = "over"] /\ started' = [started EXCEPT ![c] = {}]
        /\ P!Emit(c, P!BeforeThrows("prometheus", P!Faulty).events, {})
    BY <1>4 DEF P!Begin
  <2>2. PICK u : After(u) /\ StateOk(u) /\ EndOfCall(Now, u, c, {})
    BY <1>2, <2>1, EndsOfCalls, EmitEnd
  <2>. QED  BY <1>1, <1>4, <2>1, <2>2, FaultyBegin
<1>5. CASE "before" \notin P!Faulty
  <2>. DEFINE e == IF answered = "none" THEN <<>> ELSE P!SyncEnd(P!Faulty, answered).events
  <2>1. /\ running' = [running EXCEPT ![c] = IF answered = "none" THEN "awaiting" ELSE "over"]
        /\ started' = [started EXCEPT ![c] = TimersAsked]
        /\ P!Emit(c, <<"before">> \o e, TimersAsked)
    BY <1>5 DEF P!Begin, TimersAsked, TimerTypes, Start
  <2>2. /\ answered = "none" => e = <<>>
        /\ answered # "none" => EndSeq(e, P!Faulty)
    BY EndsOfCalls
  <2>. HIDE DEF e
  <2>3. e = <<>> \/ EndSeq(e, P!Faulty)
    BY <2>2
  <2>4. PICK s, u : /\ EventDid(Now, s, c, "before", TimersAsked) /\ StateOk(s)
                    /\ After(u) /\ StateOk(u)
                    /\ e = <<>> => u = s
                    /\ EndSeq(e, P!Faulty) => EndOfCall(s, u, c, TimersAsked)
    BY <1>2, <1>3, <1>5, <2>1, <2>3, EmitBegin
  <2>5. CASE answered = "none"
    BY <1>1, <1>5, <2>1, <2>2, <2>4, <2>5, PromiseBegin
  <2>6. CASE answered # "none"
    BY <1>1, <1>5, <2>1, <2>2, <2>4, <2>6, SyncBegin
  <2>. QED  BY <2>5, <2>6
<1>. QED  BY <1>4, <1>5

\* The promise of a call is settled.
LEMMA SettleStep ==
  ASSUME MetricsInv, NEW c \in Calls, NEW answered \in {"ok", "error"}, P!Settle(c, answered)
  PROVE  MetricsInv'
<1>1. /\ running[c] = "awaiting" /\ running' = [running EXCEPT ![c] = "over"]
      /\ P!Emit(c, P!AsyncEnd(P!Faulty, answered).events, started[c]) /\ UNCHANGED <<method, started>>
  BY DEF P!Settle
<1>2. HooksOk /\ StateOk(Now)
  BY DEF MetricsInv
<1>3. started[c] \in SUBSET TimerTypes
  BY DEF MetricsInv, CallsOk, TimersAsked
<1>4. PICK u : After(u) /\ StateOk(u) /\ EndOfCall(Now, u, c, started[c])
  BY <1>1, <1>2, <1>3, EndsOfCalls, EmitEnd
<1>. QED  BY <1>1, <1>4, SettleMoves

LEMMA MetricsNext == ASSUME MetricsInv, P!Next \/ UNCHANGED metricVars  PROVE MetricsInv'
<1>1. CASE UNCHANGED metricVars
  <2>1. /\ method' = method /\ running' = running /\ started' = started /\ metrics' = metrics
        /\ value' = value /\ callbacks' = callbacks /\ lost' = lost
    BY <1>1 DEF metricVars
  <2>2. PICK u : u = Now
    OBVIOUS
  <2>3. StateOk(u) /\ After(u)
    BY <2>1, <2>2 DEF MetricsInv, After, Now
  <2>4. StateOk(Now)' /\ \A n : At(Now, n)' = At(u, n)
    BY <2>1, <2>3, StateAfter
  <2>5. /\ InFlight' = InFlight /\ Finished' = Finished /\ (SomeCall' <=> SomeCall)
        /\ TimersAsked' = TimersAsked /\ P!Faulty' = P!Faulty /\ HooksOk'
    BY <2>1, SameMethod DEF InFlight, Finished, SomeCall, TimersAsked, MetricsInv
  <2>6. CallsOk'
    BY <2>1, <2>5 DEF MetricsInv, CallsOk
  <2>7. GaugeOk'
    BY <2>1, <2>2, <2>4, <2>5, SameMethod DEF MetricsInv, GaugeOk
  <2>8. TimersOk'
    <3>1. \A type : /\ Metric(TimerName(type), type)' = Metric(TimerName(type), type)
                    /\ At(Now, TimerName(type))' = At(Now, TimerName(type))
      BY <2>1, SameMethod DEF Metric, At, Now
    <3>. QED  BY <2>1, <2>5, <3>1, SameMethod DEF MetricsInv, TimersOk
  <2>. QED  BY <2>4, <2>5, <2>6, <2>7, <2>8 DEF MetricsInv
<1>2. CASE P!Next
  <2>1. \/ \E c \in Calls, answered \in {"ok", "error", "none"} : P!Begin(c, answered)
        \/ \E c \in Calls, answered \in {"ok", "error"} : P!Settle(c, answered)
    BY <1>2 DEF P!Next
  <2>. QED  BY <2>1, BeginKeeps, SettleStep
<1>. QED  BY <1>1, <1>2

LEMMA MetricsAlways == PartsSpec => []MetricsInv
<1>1. PartsInit => MetricsInv
  BY MetricsInit DEF PartsInit
<1>2. MetricsInv /\ [PartsNext]_partVars => MetricsInv'
  BY MetricsStep, MetricsNext
<1>. QED  BY <1>1, <1>2, PTL DEF PartsSpec

\* The properties of the metrics.
LEMMA EventsMean == MetricsInv => P!EventsAreHandled
<1>. SUFFICES ASSUME MetricsInv, NEW l \in lost
              PROVE  \/ method.clash
                     \/ l[3][2] = "end" /\ "refused" \in method.hooks["before"][<<l[3][1], "startTimer">>]
                     \/ l[3] = <<"custom", "call">>
  BY DEF P!EventsAreHandled
<1>1. LostOk(l)
  BY DEF MetricsInv, StateOk, Now
<1>. QED  BY <1>1 DEF LostOk, Start

\* Cardinality is the same in Metrics and here.
LEMMA SameCardinality ==
  ASSUME NEW S
  PROVE  P!Cardinality(S) = Cardinality(S)
BY DEF P!Cardinality, Cardinality

LEMMA GaugeMeans == MetricsInv => P!GaugeCountsCalls
<1>. SUFFICES ASSUME MetricsInv  PROVE P!GaugeCountsCalls
  OBVIOUS
<1>. DEFINE inc  == <<"gauge", "increment">>
            dec  == <<"gauge", "decrement">>
            up   == P!Event("before", {})
            down == P!Event("finally", {})
<1>1. ASSUME ~method.clash, {"before", "finally"} \cap P!Faulty = {}, inc \in DOMAIN up, dec \in DOMAIN down,
             up[inc].metric = down[dec].metric, metrics # {}
      PROVE  value[up[inc].metric] = Cardinality(InFlight)
  <2>1. PICK e, f : e = up /\ f = down
    OBVIOUS
  <2>. HIDE DEF up, down
  <2>2. "before" \in P!Hooks /\ "finally" \in P!Hooks /\ {} \in SUBSET TimerTypes /\ HooksOk
    BY DEF P!Hooks, MetricsInv
  <2>3. EventOk(e, "before", {}) /\ EventOk(f, "finally", {})
    BY <1>1, <2>1, <2>2, EventAsks DEF up, down
  <2>4. /\ method.hooks["before"][inc] # P!No /\ method.hooks["finally"][dec] # P!No
        /\ e[inc].metric = P!buildMetricConfig(method.hooks["before"][inc], "gauge")
        /\ f[dec].metric = P!buildMetricConfig(method.hooks["finally"][dec], "gauge")
    BY <1>1, <2>1, <2>3 DEF EventOk, MetricTypes
  <2>5. Counted(e[inc].metric)
    BY <1>1, <2>1, <2>4 DEF Counted
  <2>6. SomeCall
    BY <1>1 DEF MetricsInv, CallsOk
  <2>7. At(Now, e[inc].metric) = Cardinality(InFlight) /\ e[inc].metric \in DOMAIN value
    BY <2>5, <2>6 DEF MetricsInv, GaugeOk
  <2>. QED  BY <2>1, <2>7 DEF At, Now
<1>. QED  BY <1>1, SameCardinality DEF P!GaugeCountsCalls, InFlight

LEMMA TimersMean == MetricsInv => P!TimersAreObserved
<1>. SUFFICES ASSUME MetricsInv  PROVE P!TimersAreObserved
  OBVIOUS
<1>1. \A m, n \in metrics : m.name = n.name => m = n
  BY DEF MetricsInv, StateOk, MetricsOk, Now
<1>2. ASSUME lost = {}, "finally" \notin P!Faulty
      PROVE  {<<t.call, t.type>> : t \in callbacks} = UNION {{c} \X started[c] : c \in InFlight}
  <2>1. \A k : k \in callbacks <=> \E c \in InFlight, type \in TimersAsked : k = TimerOf(c, type)
    BY <1>2 DEF MetricsInv, TimersOk
  <2>2. \A c \in InFlight : started[c] = TimersAsked
    BY DEF MetricsInv, CallsOk, InFlight
  <2>3. \A t \in callbacks : \E c \in InFlight, type \in TimersAsked : t.call = c /\ t.type = type
    BY <2>1, TimerFields
  <2>4. \A c \in InFlight, type \in TimersAsked :
           TimerOf(c, type) \in callbacks /\ TimerOf(c, type).call = c /\ TimerOf(c, type).type = type
    BY <2>1, TimerFields
  <2>5. \A x : x \in {<<t.call, t.type>> : t \in callbacks} <=>
                  \E c \in InFlight, type \in TimersAsked : x = <<c, type>>
    BY <2>3, <2>4
  <2>6. \A x : x \in UNION {{c} \X started[c] : c \in InFlight} <=>
                  \E c \in InFlight, type \in TimersAsked : x = <<c, type>>
    BY <2>2
  <2>. QED  BY <2>5, <2>6
<1>3. ASSUME lost = {}, "finally" \notin P!Faulty, NEW type \in {"histogram", "summary"},
             Start(type) # P!No, "before" \notin P!Faulty, metrics # {},
             \A hook \in P!Hooks : method.hooks[hook][<<type, "observe">>] = P!No
      PROVE  value[TimerName(type)] = Cardinality(Finished)
  <2>1. type \in TimersAsked /\ Unobserved(type)
    BY <1>3 DEF TimersAsked, TimerTypes, Unobserved
  <2>2. SomeCall
    BY <1>3 DEF MetricsInv, CallsOk
  <2>3. /\ Metric(TimerName(type), type) \in metrics
        /\ At(Now, TimerName(type)) = Cardinality(Finished)
    BY <1>3, <2>1, <2>2 DEF MetricsInv, TimersOk
  <2>4. TimerName(type) \in DOMAIN value
    BY <2>3 DEF MetricsInv, StateOk, MetricsOk, Now, Metric
  <2>. QED  BY <2>3, <2>4 DEF At, Now
<1>. QED  BY <1>1, <1>2, <1>3, SameCardinality DEF P!TimersAreObserved, InFlight, Finished, Start, TimerName, TimerTypes

LEMMA MetricsTypes == MetricsInv => P!TypeOK
<1>. SUFFICES ASSUME MetricsInv  PROVE P!TypeOK
  OBVIOUS
<1>1. \A c \in Calls : running[c] \in {"idle", "awaiting", "over"} /\ started[c] \subseteq {"histogram", "summary"}
  BY DEF MetricsInv, CallsOk, TimersAsked, TimerTypes
<1>2. DOMAIN value = {m.name : m \in metrics}
  BY DEF MetricsInv, StateOk, MetricsOk, Now
<1>3. \A l \in lost : l[1] \in Calls /\ l[2] \in P!Hooks
  BY DEF MetricsInv, StateOk, LostOk, Now
<1>. QED  BY <1>1, <1>2, <1>3 DEF P!TypeOK

\* Timers of decorated calls are stopped once, whichever hook fails, and observed by the
\* metrics they are for.
THEOREM TimersAreStopped == PartsSpec => []TimersStop
<1>1. MethodInv /\ MetricsInv => TimersStop
  BY MethodMeans, TimersMean DEF TimersStop
<1>. QED  BY <1>1, MethodAlways, MetricsAlways, PTL

\* A decorated call is told as it went and its caller gets the result of the method; what its
\* hooks ask for is lost for no other than the three reasons, and the gauge counts the calls in
\* flight.
THEOREM CallsAreTold == PartsSpec => []CallIsTold
<1>1. MethodInv /\ MetricsInv => CallIsTold
  BY MethodMeans, EventsMean, GaugeMeans DEF CallIsTold
<1>. QED  BY <1>1, MethodAlways, MetricsAlways, PTL
=============================================================================
