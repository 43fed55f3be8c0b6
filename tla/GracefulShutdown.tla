-------------------------- MODULE GracefulShutdown --------------------------
(***************************************************************************)
(* The shutdown of the hybrid application: signals and uncaught errors,    *)
(* the hook beforeApplicationShutdown() with its phases and timeouts, the  *)
(* subscribers of BEFORE_DESTROY and AFTER_DESTROY, and the counter of     *)
(* active methods (src/modules/graceful-shutdown), against the start-up of *)
(* bootstrap(), the message servers it starts and the requests that        *)
(* arrive all the while.                                                   *)
(*                                                                         *)
(* An action is one run of the event loop.  Timers are untimed: a timeout  *)
(* may fire whenever what it guards is not over yet.                       *)
(***************************************************************************)
EXTENDS Naturals, FiniteSets

CONSTANTS
  Servers,    \* message servers; the subscriber of BEFORE_DESTROY closes each
  Others,     \* the other subscribers of BEFORE_DESTROY
  AfterSubs,  \* the subscribers of AFTER_DESTROY
  Calls,      \* calls of methods with @GracefulShutdownOnCount
  Enabled     \* GRACEFUL_SHUTDOWN_ENABLED

BeforeSubs == Servers \cup Others
Subs == BeforeSubs \cup AfterSubs

\* The application registers at least one subscriber of each event.
ASSUME SubsAssumption    == /\ BeforeSubs # {} /\ AfterSubs # {}
                            /\ BeforeSubs \cap AfterSubs = {}
ASSUME CallsAssumption   == IsFiniteSet(Calls)
ASSUME EnabledAssumption == Enabled \in BOOLEAN

VARIABLES
  boot,     \* how far bootstrap() is
  server,   \* state of each message server
  signal,   \* the signal the framework acts upon; it ignores later ones
  isRun,    \* GracefulShutdownService.isRun
  phase,    \* where beforeApplicationShutdown() is suspended
  sub,      \* progress of each subscriber
  call,     \* the calls being executed
  count,    \* totalCountActiveMethods
  exit      \* how the process has ended

vars == <<boot, server, signal, isRun, phase, sub, call, count, exit>>

TypeOK ==
  /\ boot \in {"init", "initialized", "http", "failed"}
  /\ server \in [Servers -> {"idle", "starting", "consuming", "failed", "closed"}]
  /\ signal \in {"none", "destroy", "other", "undefined"}
  /\ isRun \in BOOLEAN
  /\ phase \in {"none", "before", "destroy", "after", "grace", "failed", "nest"}
  /\ sub \in [Subs -> {"idle", "running", "done", "failed"}]
  /\ call \in [Calls -> BOOLEAN]
  /\ count \in Nat
  /\ exit \in {"none", "0", "1", "signal"}

Init ==
  /\ boot = "init"
  /\ server = [s \in Servers |-> "idle"]
  /\ signal = "none"
  /\ isRun = FALSE
  /\ phase = "none"
  /\ sub = [s \in Subs |-> "idle"]
  /\ call = [c \in Calls |-> FALSE]
  /\ count = 0
  /\ exit = "none"

Active == {c \in Calls : call[c]}
Running == exit = "none"
Answered(progress) == progress \in {"done", "failed"}

\* Mutant of EventIsOver: the first answer ends the event.
EventIsAnswered(subscribers, progress) ==
  \E u \in subscribers : Answered(progress[u])

\* emit(): the Promise.all() over the subscribers of an event.
EventIsOver(subscribers, progress) ==
  \A u \in subscribers : Answered(progress[u])

----------------------------------------------------------------------------
(* The body of beforeApplicationShutdown(), from one await to the next.    *)

\* DESTROY is over: emit(AFTER_DESTROY) calls its subscribers; rest is the
\* progress of the others.
ThenAfter(rest) ==
  /\ phase' = "after"
  /\ sub' = [s \in Subs |-> IF s \in AfterSubs THEN "running" ELSE rest[s]]

\* Mutant of ThenDestroy: DESTROY does not wait for the counted calls.
ThenDestroyAtOnce(rest) == ThenAfter(rest)

\* BEFORE_DESTROY is over: waitForMethodsDone() sees the counter's value at once.
ThenDestroy(rest) ==
  \/ count = 0 /\ ThenAfter(rest)
  \/ count # 0 /\ phase' = "destroy" /\ sub' = rest

----------------------------------------------------------------------------
(* bootstrap(): app.init(), app.listen(), app.startAllMicroservices().     *)

Initialized ==
  /\ Running
  /\ boot = "init"
  /\ boot' = "initialized"
  /\ UNCHANGED <<server, signal, isRun, phase, sub, call, count, exit>>

\* app.listen() resolves and listen() of every message server is called, also
\* of one that a shutdown has closed already.
HttpListens ==
  /\ Running
  /\ boot = "initialized"
  /\ boot' = "http"
  /\ server' = [s \in Servers |-> "starting"]
  /\ UNCHANGED <<signal, isRun, phase, sub, call, count, exit>>

ServerStarts(s) ==
  /\ Running
  /\ server[s] = "starting"
  /\ server' = [server EXCEPT ![s] = "consuming"]
  /\ UNCHANGED <<boot, signal, isRun, phase, sub, call, count, exit>>

----------------------------------------------------------------------------
(* What starts a shutdown.  The framework ignores every signal but the      *)
(* first one.                                                              *)

Receive(s) == signal' = IF signal = "none" THEN s ELSE signal

\* SIGTERM (GRACEFUL_SHUTDOWN_DESTROY_SIGNAL), or another one it listens to.
Signal(s) ==
  /\ Running
  /\ s \in {"destroy", "other"}
  /\ signal = "none"
  /\ Receive(s)
  /\ UNCHANGED <<boot, server, isRun, phase, sub, call, count, exit>>

\* closeApp() of UncaughtExceptionFilter, registered during app.init(): the
\* signal event is emitted without the name of the signal.
UncaughtError ==
  /\ Running
  /\ boot # "init"
  /\ Receive("undefined")
  /\ UNCHANGED <<boot, server, isRun, phase, sub, call, count, exit>>

\* listen() of a message server fails, bootstrap() rejects, and so does main():
\* an unhandled rejection.
ServerFails(s) ==
  /\ Running
  /\ server[s] = "starting"
  /\ server' = [server EXCEPT ![s] = "failed"]
  /\ boot' = "failed"
  /\ Receive("undefined")
  /\ UNCHANGED <<isRun, phase, sub, call, count, exit>>

\* The framework waits for app.init() and calls beforeApplicationShutdown(),
\* which leaves at once when it is disabled or the signal is another one.
HookBegins ==
  /\ Running
  /\ signal # "none"
  /\ boot # "init"
  /\ phase = "none"
  /\ \/ /\ Enabled /\ signal # "other"
        /\ isRun' = TRUE
        /\ phase' = "before"
        /\ sub' = [s \in Subs |-> IF s \in BeforeSubs THEN "running" ELSE sub[s]]
     \/ /\ ~Enabled \/ signal = "other"
        /\ phase' = "nest"
        /\ UNCHANGED <<isRun, sub>>
  /\ UNCHANGED <<boot, server, signal, call, count, exit>>

\* The framework disposes of the application and kills the process.
NestEnds ==
  /\ Running
  /\ phase = "nest"
  /\ exit' = "signal"
  /\ UNCHANGED <<boot, server, signal, isRun, phase, sub, call, count>>

----------------------------------------------------------------------------
(* Subscribers, counted calls and timers.                                  *)

\* handleEvent() resolves whether the subscriber succeeds or fails, and the last
\* one ends the event, unless its timeout has fired already.
SubscriberEnds(s, outcome) ==
  LET rest == [sub EXCEPT ![s] = outcome]
      BeforeIsOver == phase = "before" /\ EventIsOver(BeforeSubs, rest)
      AfterIsOver  == phase = "after" /\ EventIsOver(AfterSubs, rest)
  IN
  /\ Running
  /\ sub[s] = "running"
  /\ \/ BeforeIsOver /\ ThenDestroy(rest)
     \/ AfterIsOver /\ phase' = "grace" /\ sub' = rest
     \/ ~BeforeIsOver /\ ~AfterIsOver /\ sub' = rest /\ UNCHANGED phase
  /\ server' = [u \in Servers |->
                  IF u = s /\ outcome = "done" /\ server[u] # "idle" THEN "closed"
                  ELSE server[u]]
  /\ UNCHANGED <<boot, signal, isRun, call, count, exit>>

\* GracefulShutdownCountHandler; its metrics are left out.
increment == count' = count + 1
decrement == count' = count - 1

\* Mutant of CallBegins: a call that begins during the shutdown is not counted.
CallBeginsUncounted(c) ==
  /\ Running
  /\ boot \in {"http", "failed"}
  /\ ~call[c]
  /\ call' = [call EXCEPT ![c] = TRUE]
  /\ count' = IF isRun THEN count ELSE count + 1
  /\ UNCHANGED <<boot, server, signal, isRun, phase, sub, exit>>

\* A request calls a counted method that answers with a promise.
CallBegins(c) ==
  /\ Running
  /\ boot \in {"http", "failed"}
  /\ ~call[c]
  /\ call' = [call EXCEPT ![c] = TRUE]
  /\ increment
  /\ UNCHANGED <<boot, server, signal, isRun, phase, sub, exit>>

\* Mutant of CallEnds: a decrement that throws is followed by another one.
CallEndsTwice(c) ==
  /\ Running
  /\ call[c]
  /\ call' = [call EXCEPT ![c] = FALSE]
  /\ count' = count - 2
  /\ UNCHANGED <<boot, server, signal, isRun, phase, sub, exit>>

\* The promise is settled; the counter's subscriber sees the new value.
CallEnds(c) ==
  /\ Running
  /\ call[c]
  /\ call' = [call EXCEPT ![c] = FALSE]
  /\ decrement
  /\ \/ phase = "destroy" /\ count' = 0 /\ ThenAfter(sub)
     \/ ~(phase = "destroy" /\ count' = 0) /\ UNCHANGED <<phase, sub>>
  /\ UNCHANGED <<boot, server, signal, isRun, exit>>

\* Mutant of TimesOut: AFTER_DESTROY has no timeout.
TimesOutBeforeAfter ==
  /\ Running
  /\ phase \in {"before", "destroy"}
  /\ phase' = "failed"
  /\ UNCHANGED <<boot, server, signal, isRun, sub, call, count, exit>>

\* The timeout of a phase fires; what it was waiting for goes on.
TimesOut ==
  /\ Running
  /\ phase \in {"before", "destroy", "after"}
  /\ phase' = "failed"
  /\ UNCHANGED <<boot, server, signal, isRun, sub, call, count, exit>>

\* Mutant of Exits: a phase that was cut off exits with code 0 as well.
ExitsCleanly ==
  /\ Running
  /\ phase \in {"grace", "failed"}
  /\ exit' = "0"
  /\ UNCHANGED <<boot, server, signal, isRun, phase, sub, call, count>>

\* The grace period is over.
Exits ==
  /\ Running
  /\ \/ phase = "grace"  /\ exit' = "0"
     \/ phase = "failed" /\ exit' = "1"
  /\ UNCHANGED <<boot, server, signal, isRun, phase, sub, call, count>>

----------------------------------------------------------------------------
Next ==
  \/ Initialized \/ HttpListens
  \/ \E s \in Servers : ServerStarts(s) \/ ServerFails(s)
  \/ \E s \in {"destroy", "other"} : Signal(s)
  \/ UncaughtError \/ HookBegins \/ NestEnds
  \/ \E s \in Subs, outcome \in {"done", "failed"} : SubscriberEnds(s, outcome)
  \/ \E c \in Calls : CallBegins(c) \/ CallEnds(c)
  \/ TimesOut \/ Exits

Spec == Init /\ [][Next]_vars

\* Timers fire and the framework goes on; subscribers and calls may hang.
Fairness ==
  /\ WF_vars(Initialized)
  /\ WF_vars(HookBegins)
  /\ WF_vars(NestEnds)
  /\ WF_vars(TimesOut)
  /\ WF_vars(Exits)

FairSpec == Spec /\ Fairness

----------------------------------------------------------------------------
(* Properties.                                                             *)

\* totalCountActiveMethods is the number of counted calls being executed, over
\* every order of calls, failures and phases: DESTROY waits for exactly them.
CountIsActive == count = Cardinality(Active)

\* AFTER_DESTROY begins only when every subscriber of
\* BEFORE_DESTROY has answered and no counted call is being executed.
AfterNeedsQuiet ==
  [][(phase \in {"none", "before", "destroy"} /\ phase' \in {"after", "grace"}) =>
       (Active' = {} /\ \A s \in BeforeSubs : Answered(sub'[s]))]_vars

\* The process ends with code 0 only when every subscriber has answered, however
\* timeouts and late answers interleave.
CleanExit == exit = "0" => \A s \in Subs : Answered(sub[s])

\* The shutdown is one run through the phases that ShutdownPhases promises.
Phases == INSTANCE ShutdownPhases WITH
  stage <- IF exit # "none" THEN "ended"
           ELSE IF phase \in {"none", "nest"} THEN "running"
           ELSE IF phase \in {"grace", "failed"} THEN "grace" ELSE phase,
  code  <- IF exit # "none" THEN exit
           ELSE IF phase = "grace" THEN "0"
           ELSE IF phase = "failed" THEN "1" ELSE "none"
PhasesSpec == Phases!Spec

\* A signal the framework has accepted ends the process, even if subscribers
\* hang, requests keep arriving and calls never return.
SignalEndsProcess == signal # "none" ~> exit # "none"

\* README of kafka-server, "Graceful Shutdown": no message is accepted any more
\* when DESTROY starts waiting for the handlers: a server whose close() has
\* succeeded does not consume.
ServersAreQuiet ==
  phase \in {"destroy", "after", "grace"} =>
    \A s \in Servers : sub[s] = "done" => server[s] # "consuming"
=============================================================================
