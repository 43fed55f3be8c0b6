------------------------------- MODULE Metrics -------------------------------
(***************************************************************************)
(* What the events of a method decorated with PrometheusOnMethod ask of     *)
(* prom-client: helpers build the operations from the hooks and from        *)
(* PrometheusMetricConfigOnService, PrometheusEventService carries them out *)
(* one after the other, and PrometheusMetricBuilder registers a metric when *)
(* it is used first.  OnMethod has the life cycle of the service; here it   *)
(* is subscribed.                                                          *)
(*                                                                         *)
(* A hook maps every operation to an option.  An option is No, Yes, or the  *)
(* set of what an object gives: "metricConfig", "value"; it is "refused"    *)
(* when prom-client throws on its labels or, for a custom function, when    *)
(* that throws.  Labels are otherwise left out.                            *)
(***************************************************************************)
EXTENDS Integers, FiniteSets, MethodHooks

CONSTANTS Calls,      \* calls of the method
          Undefined

No == {"false"}
Yes == {"true"}

Operations == {<<"counter", "increment">>, <<"gauge", "increment">>, <<"gauge", "decrement">>,
               <<"histogram", "startTimer">>, <<"histogram", "observe">>, <<"histogram", "end">>,
               <<"summary", "startTimer">>, <<"summary", "observe">>, <<"summary", "end">>,
               <<"custom", "call">>}

VARIABLES method,     \* the hooks, the types with a metric in the class, and whether one name has all types
          call,       \* each call: idle, awaiting a promise, over
          started,    \* endConfig of each call: the types of its timers
          metrics,    \* PrometheusMetricBuilder: the name and the type of every registered metric
          value,      \* counters, gauges, and the number of observations, by name
          callbacks,  \* onEndCallback: the timers that are held
          lost        \* the operations on which the handling of an event ended with an exception

vars == <<method, call, started, metrics, value, callbacks, lost>>

-----------------------------------------------------------------------------
\* What helpers make of a hook: each operation asked for, with the name of its metric
\* and its parameters.

\* PrometheusMetricConfigBuilder: the metrics of a class are given as they are or by functions.
Default(type) == IF type \notin method.defaults THEN Undefined
                 ELSE IF method.clash THEN <<"default">> ELSE <<"default", type>>
Own(type) == IF method.clash THEN <<"own">> ELSE <<"own", type>>

buildMetricConfig(option, type) == IF "metricConfig" \in option THEN Own(type) ELSE Default(type)

AsObject(option) == IF option = Yes THEN {} ELSE option

Ask(option, type) == [metric |-> buildMetricConfig(option, type), params |-> option]

CounterConfig(option) == Ask(AsObject(option), "counter")

\* A mutant: an option that is true is passed on as it is.
GaugeConfigAsGiven(option) == [metric |-> buildMetricConfig(AsObject(option), "gauge"), params |-> option]

GaugeConfig(option) == Ask(AsObject(option), "gauge")

\* A value to observe is that of the option or the duration, which `finally` is given.
buildParams(option, duration) == IF duration THEN option \cup {"value"} ELSE option

Duration(operation, option, duration, type) ==
    IF operation = "end" THEN [metric |-> <<"timer">>, params |-> {}]
    ELSE Ask(buildParams(AsObject(option), duration), type)

HistogramConfig(operation, option, duration) == Duration(operation, option, duration, "histogram")
SummaryConfig(operation, option, duration) == Duration(operation, option, duration, "summary")

\* The event of a hook; types are those of the timers that `before` has started, and
\* that `finally` stops.
Event(hook, types) ==
    LET config   == method.hooks[hook]
        duration == hook = "finally"
    IN  [op \in {o \in Operations : config[o] # No \/ (duration /\ o[2] = "end" /\ o[1] \in types)} |->
            CASE op[1] = "counter"   -> CounterConfig(config[op])
              [] op[1] = "gauge"     -> GaugeConfig(config[op])
              [] op[1] = "histogram" -> HistogramConfig(op[2], config[op], duration)
              [] op[1] = "summary"   -> SummaryConfig(op[2], config[op], duration)
              [] op[1] = "custom"    -> [metric |-> <<"custom">>, params |-> config[op]]]

\* A helper throws when a metric or a value to observe is missing: the hook is faulty.
CannotBeBuilt(event) ==
    \E op \in DOMAIN event : \/ event[op].metric = Undefined
                             \/ op[2] = "observe" /\ "value" \notin event[op].params

Faulty == {hook \in Hooks : CannotBeBuilt(Event(hook, {}))}

-----------------------------------------------------------------------------
\* The handling of events: `s` is the state of the service and of its metrics.
\* PrometheusMetricBuilder.build() refuses a name that is registered with another type.
Build(s, name, type) ==
    IF \E m \in s.metrics : m.name = name /\ m.type # type THEN [s EXCEPT !.failed = TRUE]
    ELSE [s EXCEPT !.metrics = @ \cup {[name |-> name, type |-> type]},
                   !.value = [n \in DOMAIN @ \cup {name} |-> IF n \in DOMAIN @ THEN @[n] ELSE 0]]

\* What prom-client refuses is logged, and nothing more.
Change(s, ask, by) ==
    IF s.failed \/ "refused" \in ask.params THEN s ELSE [s EXCEPT !.value[ask.metric] = @ + by]

\* A timer with labels that are refused is started, and throws when it is stopped.
addEndCallback(s, c, type, ask) ==
    IF s.failed THEN s
    ELSE [s EXCEPT !.callbacks = {t \in @ : t.call # c \/ t.type # type}
            \cup {[call |-> c, type |-> type, name |-> ask.metric, refused |-> "refused" \in ask.params]}]

Stop(s, c, type) ==
    LET held == {t \in s.callbacks : t.call = c /\ t.type = type}
    IN  IF \E t \in held : t.refused THEN [s EXCEPT !.failed = TRUE]
        ELSE [s EXCEPT !.value = [n \in DOMAIN @ |-> IF \E t \in held : t.name = n THEN @[n] + 1 ELSE @[n]]]

\* The four services of the metrics.
increment(s, ask) == Change(Build(s, ask.metric, "counter"), ask, 1)
changeGauge(s, ask, by) == Change(Build(s, ask.metric, "gauge"), ask, by)
observe(s, type, ask) == Change(Build(s, ask.metric, type), ask, 1)
startTimer(s, c, type, ask) == addEndCallback(Build(s, ask.metric, type), c, type, ask)

handleCounter(s, ask) == increment(s, ask)
handleGauge(s, operation, ask) == changeGauge(s, ask, IF operation = "increment" THEN 1 ELSE -1)
handleDuration(s, c, type, operation, ask) ==
    CASE operation = "startTimer" -> startTimer(s, c, type, ask)
      [] operation = "observe"    -> observe(s, type, ask)
      [] operation = "end"        -> Stop(s, c, type)

handleCustom(s, ask) == IF "refused" \in ask.params THEN [s EXCEPT !.failed = TRUE] ELSE s

\* One operation; what a helper has left as true is refused.
CarryOut(s, c, event, op) ==
    IF event[op].params = Yes THEN [s EXCEPT !.failed = TRUE]
    ELSE CASE op[1] = "counter" -> handleCounter(s, event[op])
           [] op[1] = "gauge"   -> handleGauge(s, op[2], event[op])
           [] op[1] = "custom"  -> handleCustom(s, event[op])
           [] OTHER             -> handleDuration(s, c, op[1], op[2], event[op])

\* An operation is lost when it fails.
LostIfFailed(s, lossOf) == IF s.failed THEN [s EXCEPT !.lost = @ \cup {lossOf}] ELSE s

\* It is carried out if the event has it and none before it has failed.
Handle(s, c, hook, event, op) ==
    IF s.failed \/ op \notin DOMAIN event THEN s
    ELSE LostIfFailed(CarryOut(s, c, event, op), <<c, hook, op>>)

handleClear(s, c) == [s EXCEPT !.callbacks = {t \in @ : t.call # c}]

\* The operations of the timers of a type, in their order.
HandleTimers(s, c, hook, event, type) ==
    LET Do(t, operation) == Handle(t, c, hook, event, <<type, operation>>)
    IN  Do(Do(Do(s, "startTimer"), "observe"), "end")

\* The operations of an event in their order.  An exception ends its handling; rxjs
\* throws it once more, uncaught, and the subscription goes on.
handleEvent(s, c, hook, types) ==
    LET event   == Event(hook, types)
        Do(t, op) == Handle(t, c, hook, event, op)
        gauged  == Do(Do(Do([s EXCEPT !.failed = FALSE], <<"counter", "increment">>),
                         <<"gauge", "increment">>), <<"gauge", "decrement">>)
        timed   == HandleTimers(HandleTimers(gauged, c, hook, event, "histogram"), c, hook, event, "summary")
        done    == Do(timed, <<"custom", "call">>)
    IN  IF done.failed \/ hook # "finally" THEN done ELSE handleClear(done, c)

\* A step of a call emits the events of at most three hooks.
Emit(c, hooks, types) ==
    LET Emitted(s, i) == IF i \in DOMAIN hooks THEN handleEvent(s, c, hooks[i], types) ELSE s
        after == Emitted(Emitted(Emitted([metrics |-> metrics, value |-> value, callbacks |-> callbacks,
                                          lost |-> lost, failed |-> FALSE], 1), 2), 3)
    IN  /\ metrics' = after.metrics /\ value' = after.value
        /\ callbacks' = after.callbacks /\ lost' = after.lost

-----------------------------------------------------------------------------
\* A hook that asks nothing, one operation, or two.
Nothing == [op \in Operations |-> No]
Asks(op, option) == [Nothing EXCEPT ![op] = option]
AsksBoth(op1, option1, op2, option2) == [Nothing EXCEPT ![op1] = option1, ![op2] = option2]

\* What hooks ask is only what their types allow.
BeforeAsks ==
    {Nothing, Asks(<<"counter", "increment">>, Yes), Asks(<<"gauge", "increment">>, Yes),
     Asks(<<"gauge", "increment">>, {"metricConfig"}),
     AsksBoth(<<"gauge", "increment">>, Yes, <<"histogram", "startTimer">>, Yes),
     AsksBoth(<<"histogram", "startTimer">>, {"metricConfig"}, <<"summary", "startTimer">>, {"metricConfig"}),
     AsksBoth(<<"histogram", "startTimer">>, {"refused"}, <<"summary", "startTimer">>, Yes)}
MiddleAsks ==
    {Nothing, Asks(<<"counter", "increment">>, {"refused", "metricConfig"}),
     Asks(<<"histogram", "observe">>, Yes), Asks(<<"summary", "observe">>, {"metricConfig", "value"})}
FinallyAsks ==
    {Nothing, Asks(<<"gauge", "decrement">>, Yes), Asks(<<"custom", "call">>, {"refused"}),
     AsksBoth(<<"gauge", "decrement">>, {"metricConfig"}, <<"counter", "increment">>, {"metricConfig"}),
     Asks(<<"histogram", "observe">>, Yes)}

Undecorated == [hooks |-> [h \in Hooks |-> Nothing], defaults |-> {}, clash |-> FALSE]

\* Before the first call: `after` and `throw` ask the same.
Init ==
    /\ \E b \in BeforeAsks, m \in MiddleAsks, f \in FinallyAsks :
          \E defaults \in {{}, {"counter", "gauge", "histogram", "summary"}}, clash \in BOOLEAN :
             method = [hooks |-> [before |-> b, after |-> m, throw |-> m, finally |-> f],
                       defaults |-> defaults, clash |-> clash]
    /\ call = [c \in Calls |-> "idle"]
    /\ started = [c \in Calls |-> {}]
    /\ metrics = {} /\ value = <<>> /\ callbacks = {} /\ lost = {}

\* A call, whose method returns a value or throws at once, or returns a promise.
Begin(c, result) ==
    LET timers == {type \in {"histogram", "summary"} :
                      method.hooks["before"][<<type, "startTimer">>] # No}
        hooks  == IF "before" \in Faulty THEN BeforeThrows("prometheus", Faulty).events
                  ELSE <<"before">> \o (IF result = "none" THEN <<>> ELSE SyncEnd(Faulty, result).events)
        types  == IF "before" \in Faulty THEN {} ELSE timers
    IN  /\ call[c] = "idle"
        /\ call' = [call EXCEPT ![c] = IF result = "none" /\ "before" \notin Faulty THEN "awaiting" ELSE "over"]
        /\ started' = [started EXCEPT ![c] = types]
        /\ Emit(c, hooks, types)
        /\ UNCHANGED method

\* The promise is settled.
Settle(c, result) ==
    /\ call[c] = "awaiting"
    /\ call' = [call EXCEPT ![c] = "over"]
    /\ Emit(c, AsyncEnd(Faulty, result).events, started[c])
    /\ UNCHANGED <<method, started>>

Next ==
    \/ \E c \in Calls, result \in {"ok", "error", "none"} : Begin(c, result)
    \/ \E c \in Calls, result \in {"ok", "error"} : Settle(c, result)

Spec == Init /\ [][Next]_vars

-----------------------------------------------------------------------------
TypeOK ==
    /\ \A c \in Calls : /\ call[c] \in {"idle", "awaiting", "over"}
                        /\ started[c] \subseteq {"histogram", "summary"}
    /\ DOMAIN value = {m.name : m \in metrics}
    /\ \A l \in lost : l[1] \in Calls /\ l[2] \in Hooks

\* Whatever can be built from the hooks is carried out to the end, but for three
\* reasons: one name for metrics of two types, a timer whose labels are refused, a
\* custom function that throws.
EventsAreHandled ==
    \A l \in lost : \/ method.clash
                    \/ l[3][2] = "end" /\ "refused" \in method.hooks["before"][<<l[3][1], "startTimer">>]
                    \/ l[3] = <<"custom", "call">>

\* A gauge that `before` increments and `finally` decrements has the number of calls in
\* flight, whether or not the hooks between them can be built, and however calls end.
GaugeCountsCalls ==
    LET up   == Event("before", {})
        down == Event("finally", {})
    IN  /\ ~method.clash /\ {"before", "finally"} \cap Faulty = {}
        /\ <<"gauge", "increment">> \in DOMAIN up /\ <<"gauge", "decrement">> \in DOMAIN down
        /\ up[<<"gauge", "increment">>].metric = down[<<"gauge", "decrement">>].metric
        /\ metrics # {}
        => value[up[<<"gauge", "increment">>].metric] = Cardinality({c \in Calls : call[c] = "awaiting"})

\* A registered name keeps its type, and the timers that `before` starts are held while
\* their call goes on and observed once when it is over: those of the histogram and of
\* the summary, and those of concurrent calls, apart.
TimersAreObserved ==
    /\ \A m, n \in metrics : m.name = n.name => m = n
    /\ lost = {} /\ "finally" \notin Faulty =>
          /\ {<<t.call, t.type>> : t \in callbacks} =
                 UNION {{c} \X started[c] : c \in {d \in Calls : call[d] = "awaiting"}}
          /\ \A type \in {"histogram", "summary"} :
                 LET start == method.hooks["before"][<<type, "startTimer">>]
                     name  == buildMetricConfig(start, type)
                 IN  /\ start # No /\ "before" \notin Faulty /\ metrics # {}
                     /\ \A hook \in Hooks : method.hooks[hook][<<type, "observe">>] = No
                     => value[name] = Cardinality({c \in Calls : call[c] = "over"})
=============================================================================
