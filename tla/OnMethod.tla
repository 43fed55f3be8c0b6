------------------------------ MODULE OnMethod ------------------------------
(***************************************************************************)
(* Calls of methods decorated with PrometheusOnMethod or ElkLoggerOnMethod, *)
(* and the event services that turn the hooks of a call into metrics and    *)
(* log records.  A hook is an object or a function of the caller, and a     *)
(* function may throw.  Labels, fields and durations are left out; the      *)
(* timers of the histogram and of the summary are one timer.                *)
(***************************************************************************)
EXTENDS Naturals, MethodHooks

CONSTANTS Calls

VARIABLES service,       \* the event services: not created, subscribed, shut down
          call,          \* each call: its decorator, the hooks that throw, its trail of events, its answer
          onEndCallback, \* the calls whose timer the static map holds
          ended          \* how often the timer of each call was stopped

vars == <<service, call, onEndCallback, ended>>

Idle == [state |-> "idle", kind |-> "elk", faulty |-> {}, timer |-> FALSE,
         result |-> "none", answer |-> "none", events |-> <<>>, watched |-> FALSE]

Init ==
    /\ service = "absent"
    /\ call = [c \in Calls |-> Idle]
    /\ onEndCallback = {}
    /\ ended = [c \in Calls |-> 0]

-----------------------------------------------------------------------------
\* emit() is handled at once by a subscribed service and by nobody else.  The event
\* of `before` may start a timer; that of `finally` stops it and forgets it.
Emit(c, timer, events) ==
    IF service # "up" THEN UNCHANGED <<onEndCallback, ended>>
    ELSE LET held == onEndCallback \cup (IF timer /\ Contains(events, "before") THEN {c} ELSE {})
             last == Contains(events, "finally")
         IN  /\ onEndCallback' = IF last THEN held \ {c} ELSE held
             /\ ended' = [ended EXCEPT ![c] = @ + (IF last /\ timer /\ c \in held THEN 1 ELSE 0)]

Heard(events) == IF service = "up" THEN events ELSE <<>>

-----------------------------------------------------------------------------
Over(c, kind, faulty, timer, result, end) ==
    /\ call' = [call EXCEPT ![c] =
                   [state |-> "over", kind |-> kind, faulty |-> faulty, timer |-> timer,
                    result |-> result, answer |-> end.answer, events |-> Heard(end.events),
                    watched |-> service = "up"]]
    /\ Emit(c, timer, end.events)

\* A mutant: the finally block does not ask whether the result is a promise.
BeginEndingPromises(c, kind, faulty, timer, result) ==
    /\ call[c].state = "idle" /\ result = "none" /\ "before" \notin faulty
    /\ timer => kind = "prometheus"
    /\ call' = [call EXCEPT ![c] =
                   [state |-> "awaiting", kind |-> kind, faulty |-> faulty, timer |-> timer, result |-> "none",
                    answer |-> "none", events |-> Heard(<<"before", "finally">>), watched |-> service = "up"]]
    /\ Emit(c, timer, <<"before", "finally">>)
    /\ UNCHANGED service

\* A call; at most one of its hooks throws.  Its result is "none" until a promise is settled.
Begin(c, kind, faulty, timer, result) ==
    /\ call[c].state = "idle"
    /\ timer => kind = "prometheus" /\ "before" \notin faulty
    /\ \/ /\ "before" \in faulty
          /\ result = "none"
          /\ Over(c, kind, faulty, timer, result, BeforeThrows(kind, faulty))
       \/ /\ "before" \notin faulty /\ result # "none"
          /\ LET end == SyncEnd(faulty, result)
             IN  Over(c, kind, faulty, timer, result,
                      [end EXCEPT !.events = <<"before">> \o end.events])
       \/ /\ "before" \notin faulty /\ result = "none"
          /\ call' = [call EXCEPT ![c] =
                         [state |-> "awaiting", kind |-> kind, faulty |-> faulty,
                          timer |-> timer, result |-> "none", answer |-> "none",
                          events |-> Heard(<<"before">>), watched |-> service = "up"]]
          /\ Emit(c, timer, <<"before">>)
    /\ UNCHANGED service

\* The promise of the method is settled.
Settle(c, result) ==
    /\ call[c].state = "awaiting"
    /\ LET end == AsyncEnd(call[c].faulty, result)
       IN  /\ call' = [call EXCEPT ![c].state = "over", ![c].result = result, ![c].answer = end.answer,
                                   ![c].events = @ \o Heard(end.events)]
           /\ Emit(c, call[c].timer, end.events)
    /\ UNCHANGED service

\* The module creates the services; onApplicationShutdown() ends them.  The map of
\* timers is kept.
Created ==
    /\ service = "absent"
    /\ service' = "up"
    /\ UNCHANGED <<call, onEndCallback, ended>>

onApplicationShutdown ==
    /\ service = "up"
    /\ service' = "down"
    /\ call' = [c \in Calls |-> IF call[c].state = "awaiting" THEN [call[c] EXCEPT !.watched = FALSE] ELSE call[c]]
    /\ UNCHANGED <<onEndCallback, ended>>

Next ==
    \/ \E c \in Calls, kind \in {"elk", "prometheus"}, timer \in BOOLEAN, result \in {"ok", "error", "none"} :
          \E faulty \in {{}} \cup {{h} : h \in Hooks} : Begin(c, kind, faulty, timer, result)
    \/ \E c \in Calls, result \in {"ok", "error"} : Settle(c, result)
    \/ Created
    \/ onApplicationShutdown

Spec == Init /\ [][Next]_vars

-----------------------------------------------------------------------------
TypeOK ==
    /\ service \in {"absent", "up", "down"}
    /\ onEndCallback \subseteq Calls
    /\ \A c \in Calls : /\ call[c].state \in {"idle", "awaiting", "over"}
                        /\ call[c].answer \in {"none", "ok", "error", "hook"}
                        /\ ended[c] \in 0 .. 1

\* Timers of concurrent calls are kept apart and each is stopped once: a call that is
\* over holds none, unless its own hook `finally` threw, whatever the other hooks did.
TimersStop ==
    \A c \in Calls : call[c].state = "over" /\ call[c].watched /\ "finally" \notin call[c].faulty =>
        /\ c \notin onEndCallback
        /\ ended[c] = (IF call[c].timer THEN 1 ELSE 0)

\* Without failing hooks a decorator changes nothing for the caller, and an observed
\* call is told as before, then as a success or as a failure but never both, and as
\* ended exactly once.
CallIsTold ==
    \A c \in Calls : call[c].state = "over" /\ call[c].faulty = {} =>
        /\ call[c].answer = call[c].result
        /\ call[c].watched =>
              /\ Head(call[c].events) = "before"
              /\ ToSet(call[c].events) = {"before", "finally", IF call[c].result = "ok" THEN "after" ELSE "throw"}
              /\ Len(call[c].events) = 3
=============================================================================
