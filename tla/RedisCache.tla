----------------------------- MODULE RedisCache -----------------------------
(***************************************************************************)
(* Methods decorated with RedisCacheOnAsyncMethod, for one key: look up,    *)
(* call the method, and write what it returned without waiting.  A value is *)
(* the version of the source when it was read.  With throwOnErrors off a    *)
(* Redis that is not there answers a read with nothing and drops a write.   *)
(* defaultRedisReconnectStrategyBuilder decides when to connect again.      *)
(***************************************************************************)
EXTENDS Naturals

CONSTANTS Readers,       \* calls of the method
          MaxVersion,    \* bound: changes of the source
          MaxAttempts,   \* getCountForResetReconnectStrategy()
          MaxDelay,      \* getMaxDelayBeforeReconnect()
          None

VARIABLES source,     \* the version of the data
          entry,      \* what Redis has, None when it has nothing or it has expired
          reader,     \* where each call is, and the value it has
          writes,     \* writes under way, per call
          redis,      \* is Redis there?
          attempts,   \* of the strategy
          delay       \* that it returned last, without the jitter

vars == <<source, entry, reader, writes, redis, attempts, delay>>

Versions == 0 .. MaxVersion

TypeOK ==
    /\ source \in Versions
    /\ entry \in Versions \cup {None}
    /\ \A r \in Readers : reader[r].at \in {"idle", "getting", "loading"}
    /\ writes \in [Readers -> Versions \cup {None}]
    /\ redis \in BOOLEAN
    /\ attempts \in 1 .. MaxAttempts
    /\ delay \in 0 .. MaxDelay

Idle == [at |-> "idle", value |-> None]

Init ==
    /\ source = 0
    /\ entry = None
    /\ reader = [r \in Readers |-> Idle]
    /\ writes = [r \in Readers |-> None]
    /\ redis \in BOOLEAN
    /\ attempts = 1
    /\ delay = 0

\* Somebody changes the data; nobody deletes the entry.
SourceChanges ==
    /\ source < MaxVersion
    /\ source' = source + 1
    /\ UNCHANGED <<entry, reader, writes, redis, attempts, delay>>

Call(r) ==
    /\ reader[r] = Idle
    /\ writes[r] = None
    /\ reader' = [reader EXCEPT ![r].at = "getting"]
    /\ UNCHANGED <<source, entry, writes, redis, attempts, delay>>

\* A mutant: a hit is written again, which renews its time.
GotRenewing(r) ==
    /\ reader[r].at = "getting"
    /\ reader' = [reader EXCEPT ![r].at = IF redis /\ entry # None THEN "idle" ELSE "loading"]
    /\ writes' = [writes EXCEPT ![r] = IF redis THEN entry ELSE None]
    /\ UNCHANGED <<source, entry, redis, attempts, delay>>

\* get() returns: a hit ends the call.
Got(r) ==
    /\ reader[r].at = "getting"
    /\ reader' = [reader EXCEPT ![r].at = IF redis /\ entry # None THEN "idle" ELSE "loading"]
    /\ UNCHANGED <<source, entry, writes, redis, attempts, delay>>

\* The query of the method has been executed; its answer is still under way.
Queried(r) ==
    /\ reader[r] = [at |-> "loading", value |-> None]
    /\ reader' = [reader EXCEPT ![r].value = source]
    /\ UNCHANGED <<source, entry, writes, redis, attempts, delay>>

\* The method returns, and the call with it; set() goes on alone.
Loaded(r) ==
    /\ reader[r].at = "loading" /\ reader[r].value # None
    /\ writes' = [writes EXCEPT ![r] = reader[r].value]
    /\ reader' = [reader EXCEPT ![r] = Idle]
    /\ UNCHANGED <<source, entry, redis, attempts, delay>>

\* The method throws, or returns undefined: nothing is written.
LoadFails(r) ==
    /\ reader[r].at = "loading"
    /\ reader' = [reader EXCEPT ![r] = Idle]
    /\ UNCHANGED <<source, entry, writes, redis, attempts, delay>>

Written(r) ==
    /\ writes[r] # None
    /\ entry' = IF redis THEN writes[r] ELSE entry
    /\ writes' = [writes EXCEPT ![r] = None]
    /\ UNCHANGED <<source, reader, redis, attempts, delay>>

\* The time to live is over.
Expire ==
    /\ entry # None
    /\ entry' = None
    /\ UNCHANGED <<source, reader, writes, redis, attempts, delay>>

\* Redis goes away, and keeps its data, or comes back.
RedisChanges ==
    /\ redis' = ~redis
    /\ UNCHANGED <<source, entry, reader, writes, attempts, delay>>

\* A mutant: the counter is compared before it is incremented.
NextAttemptLate(n) == IF n > MaxAttempts THEN 1 ELSE n + 1

\* ++attempts, which begins again at 1 beyond its limit.
NextAttempt(n) == IF n + 1 > MaxAttempts THEN 1 ELSE n + 1

ReconnectStrategy ==
    /\ ~redis
    /\ attempts' = NextAttempt(attempts)
    /\ delay' = IF 2 ^ attempts' * 100 < MaxDelay THEN 2 ^ attempts' * 100 ELSE MaxDelay
    /\ UNCHANGED <<source, entry, reader, writes, redis>>

CallStep(r) == Got(r) \/ Queried(r) \/ Loaded(r) \/ LoadFails(r) \/ Written(r)

Next ==
    \/ SourceChanges \/ Expire \/ RedisChanges \/ ReconnectStrategy
    \/ \E r \in Readers : Call(r) \/ CallStep(r)

Spec == Init /\ [][Next]_vars

\* Calls come to their end, and Redis drops what has expired.
Fairness == WF_vars(Expire) /\ \A r \in Readers : WF_vars(CallStep(r))

-----------------------------------------------------------------------------
\* A slow call may write an old value over a newer one, but not for good: once the
\* source stays as it is, the cache has its version or nothing.
StalenessEnds == <>[](entry \in {None, source})
=============================================================================
