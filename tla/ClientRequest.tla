---------------------------- MODULE ClientRequest ----------------------------
(***************************************************************************)
(* One request of HttpClientService or GrpcClientService: its attempts, the *)
(* pause before a retry, the timeout over all of them, and the metrics that *)
(* observe each attempt.  The transport is external; an attempt that is cut *)
(* off is unsubscribed, so its late answer reaches nobody.                  *)
(***************************************************************************)
EXTENDS Integers

CONSTANTS DefaultMaxCount,  \* retryMaxCount and timeout of the default options
          DefaultTimeout,
          MaxAttempts       \* bound on the attempts when the code sets none

Unset == -9   \* a variable of the environment that is not set, a value `undefined`
Absent == -8  \* a key the caller's options do not have

\* What is configured: variables of the environment and the options of the request.
Environments == [enabled : {Unset, 0, 1}, timeout : {Unset, 0, DefaultTimeout},
                 retryMaxCount : {Unset, 0, 1, 2}]
CallerOptions == [enabled : {Absent, 0, 1}, timeout : {Absent, -1, 0, DefaultTimeout},
                  retryMaxCount : {Absent, 0, 1}]

VARIABLES transport,  \* "http" or "grpc"
          options,    \* the resolved retryOptions
          phase,      \* "attempt", "pause" or "done"
          attempts,
          timers,     \* timers of the histogram that were stopped
          failed,     \* the counters of failures and retries
          retries,
          last,       \* how the last attempt ended
          result      \* what the caller got

vars == <<transport, options, phase, attempts, timers, failed, retries, last, result>>

-----------------------------------------------------------------------------
\* How an attempt may fail, and what the response handlers make of it.
HttpFailures == {"502", "500", "404", "ECONNABORTED", "ERR_NETWORK", "ECONNREFUSED", "Error"}
GrpcFailures == {"timeout", "UNAVAILABLE", "DEADLINE_EXCEEDED", "PERMISSION_DENIED", "NOT_FOUND", "Error"}
Failures == IF transport = "http" THEN HttpFailures ELSE GrpcFailures

handleError(failure) ==
    CASE failure \in {"404", "NOT_FOUND"} -> "empty"
      [] failure \in {"ECONNABORTED", "timeout"} -> "timeout"
      [] failure \in {"ECONNREFUSED", "DEADLINE_EXCEEDED", "PERMISSION_DENIED"} -> "internal"
      [] failure = "Error" -> IF transport = "http" THEN "internal" ELSE "external"
      [] OTHER -> "external"

\* The default statusCodes, and the rule that an error of no status is not repeated.
StatusCodes == IF transport = "http" THEN {"502", "ECONNABORTED", "ECONNREFUSED"}
                                     ELSE {"timeout", "UNAVAILABLE", "DEADLINE_EXCEEDED"}
canRetry(failure) == failure \in StatusCodes

-----------------------------------------------------------------------------
\* The configuration services: a value below 1 stands for the default, one that is
\* not set stays undefined.
Configured(env) ==
    [enabled |-> IF env.enabled = Unset THEN 1 ELSE env.enabled,
     timeout |-> IF env.timeout # Unset /\ env.timeout < 1 THEN DefaultTimeout ELSE env.timeout,
     retryMaxCount |-> IF env.retryMaxCount # Unset /\ env.retryMaxCount < 1
                       THEN DefaultMaxCount ELSE env.retryMaxCount]

Overlay(global, caller) ==
    [k \in DOMAIN global |-> IF caller[k] = Absent THEN global[k] ELSE caller[k]]

\* A mutant: retries although there is neither limit.
mergeWithoutLimits(global, caller) ==
    LET merged == Overlay(global, caller)
        Limit(n) == IF n < 0 THEN 0 ELSE n
    IN  [retry |-> merged.enabled = 1, timeout |-> Limit(merged.timeout),
         retryMaxCount |-> Limit(merged.retryMaxCount)]

\* mergeRequestOptions(): an undefined value of the configuration hides the default
\* and counts as 0, which means no limit; with neither limit nothing is repeated.
mergeRequestOptions(global, caller) ==
    LET merged == Overlay(global, caller)
        Limit(n) == IF n < 0 THEN 0 ELSE n
    IN  [retry |-> merged.enabled = 1 /\ ~(Limit(merged.timeout) = 0 /\ Limit(merged.retryMaxCount) = 0),
         timeout |-> Limit(merged.timeout),
         retryMaxCount |-> Limit(merged.retryMaxCount)]

Init ==
    /\ transport \in {"http", "grpc"}
    /\ options \in {mergeRequestOptions(Configured(e), c) : e \in Environments, c \in CallerOptions}
    /\ phase = "attempt"
    /\ attempts = 1
    /\ timers = 0 /\ failed = 0 /\ retries = 0
    /\ last = "none" /\ result = "none"

-----------------------------------------------------------------------------
\* finalize(): the timer of an attempt under way is stopped.
Ends(kind) ==
    /\ phase' = "done"
    /\ result' = kind
    /\ timers' = timers + (IF phase = "attempt" THEN 1 ELSE 0)
    /\ UNCHANGED <<transport, options, attempts, retries>>

Answered ==
    /\ phase = "attempt"
    /\ Ends("ok")
    /\ last' = "none"
    /\ UNCHANGED failed

\* A mutant: one retry more than retryMaxCount.
BudgetOneMore == options.retryMaxCount = 0 \/ attempts <= options.retryMaxCount + 1

Budget == options.retryMaxCount = 0 \/ attempts <= options.retryMaxCount

\* A mutant: the pause forgets that the timer was stopped.
PauseKeepsTimer(f) ==
    /\ phase' = "pause"
    /\ last' = f
    /\ failed' = failed + 1
    /\ UNCHANGED <<transport, options, attempts, timers, retries, result>>

\* The delay of retry(): the attempt is counted and its timer stopped at once.
Pause(f) ==
    /\ phase' = "pause"
    /\ last' = f
    /\ failed' = failed + 1
    /\ timers' = timers + 1
    /\ UNCHANGED <<transport, options, attempts, retries, result>>

Fails(f) ==
    /\ phase = "attempt"
    /\ LET kind == handleError(f)
           again == options.retry /\ kind # "empty" /\ canRetry(f) /\ Budget
       IN  \/ again /\ Pause(f)
           \/ /\ ~again
              /\ Ends(kind)
              /\ last' = f
              /\ failed' = failed + (IF kind = "empty" THEN 0 ELSE 1)

\* setTimeout() of the pause: the next attempt.
Retry ==
    /\ phase = "pause"
    /\ attempts < MaxAttempts
    /\ phase' = "attempt"
    /\ attempts' = attempts + 1
    /\ retries' = retries + 1
    /\ UNCHANGED <<transport, options, timers, failed, last, result>>

\* timeout() over all attempts, during an attempt or a pause.
TimesOut ==
    /\ phase # "done"
    /\ options.retry /\ options.timeout # 0
    /\ Ends("timeout")
    /\ last' = "cut"
    /\ failed' = failed + 1

AttemptEnds == Answered \/ \E f \in Failures : Fails(f)

Next == AttemptEnds \/ Retry \/ TimesOut

\* An attempt is answered, or cut off by the timeout of the transport; timers run out.
Fairness == WF_vars(AttemptEnds) /\ WF_vars(Retry) /\ WF_vars(TimesOut)

Spec == Init /\ [][Next]_vars /\ Fairness

-----------------------------------------------------------------------------
TypeOK ==
    /\ options \in [retry : BOOLEAN, timeout : {0, DefaultTimeout}, retryMaxCount : {0, 1, 2, DefaultMaxCount}]
    /\ phase \in {"attempt", "pause", "done"}
    /\ attempts \in 1 .. MaxAttempts
    /\ failed \in 0 .. attempts + 1
    /\ last \in HttpFailures \cup GrpcFailures \cup {"none", "cut"}
    /\ result \in {"none", "ok", "empty", "timeout", "internal", "external"}

\* Every attempt is observed once by the histogram, also the one that a timeout or
\* an answer ends, and every repetition is counted once.
AttemptsObserved ==
    /\ timers = attempts - (IF phase = "attempt" THEN 1 ELSE 0)
    /\ retries = attempts - 1

\* A failure that may be repeated is handed to the caller only when the attempts
\* that retryMaxCount allows are used up or the timeout over all has cut them off.
RetriesUsedUp ==
    /\ options.retryMaxCount > 0 => attempts <= options.retryMaxCount + 1
    /\ phase = "done" /\ result # "empty" /\ canRetry(last) /\ options.retry =>
          options.retryMaxCount > 0 /\ attempts = options.retryMaxCount + 1

\* Every request ends, however often it may be repeated.
RequestSettles == <>(phase = "done")
=============================================================================
