----------------------- MODULE GracefulShutdownProofs -----------------------
(* Proofs about GracefulShutdown, for any servers, subscribers and calls.  *)
EXTENDS GracefulShutdown, FiniteSetTheorems, TLAPS

\* What the phases know of the subscribers: an event that is behind us has been
\* answered by all of them.
PhasesAnswered ==
  /\ phase \in {"destroy", "after", "grace"} => EventIsOver(BeforeSubs, sub)
  /\ phase = "grace" => EventIsOver(AfterSubs, sub)

\* The inductive invariant.  The counter is typed only because it counts the
\* active calls; a clean exit needs what the phases know.
ShutdownInv == TypeOK /\ CountIsActive /\ PhasesAnswered /\ CleanExit

----------------------------------------------------------------------------
(* The counter.                                                            *)

LEMMA ActiveFinite == IsFiniteSet(Active)
BY CallsAssumption, FS_Subset DEF Active

LEMMA CountOfSame ==
  ASSUME CountIsActive, UNCHANGED <<call, count>>
  PROVE  CountIsActive'
BY DEF CountIsActive, Active

LEMMA CountOfBegin ==
  ASSUME TypeOK, CountIsActive, NEW c \in Calls, CallBegins(c)
  PROVE  CountIsActive'
<1>1. c \notin Active /\ Active' = Active \cup {c}
  BY DEF CallBegins, increment, Active, TypeOK
<1>2. Cardinality(Active \cup {c}) = Cardinality(Active) + 1
  BY <1>1, ActiveFinite, FS_AddElement
<1>3. count' = count + 1
  BY DEF CallBegins, increment
<1> QED BY <1>1, <1>2, <1>3 DEF CountIsActive

\* The counter cannot fall below zero: the call that ends is counted.
LEMMA CountOfEnd ==
  ASSUME TypeOK, CountIsActive, NEW c \in Calls, CallEnds(c)
  PROVE  CountIsActive' /\ count' \in Nat
<1>1. c \in Active /\ Active' = Active \ {c}
  BY DEF CallEnds, decrement, Active, TypeOK
<1>2. Cardinality(Active \ {c}) = Cardinality(Active) - 1
  BY <1>1, ActiveFinite, FS_RemoveElement
<1>3. Cardinality(Active \ {c}) \in Nat
  BY ActiveFinite, FS_RemoveElement, FS_CardinalityType
<1>4. count' = count - 1
  BY DEF CallEnds, decrement
<1> QED BY <1>1, <1>2, <1>3, <1>4 DEF CountIsActive

LEMMA NoneActive ==
  ASSUME CountIsActive, count = 0
  PROVE  Active = {}
BY ActiveFinite, FS_EmptySet DEF CountIsActive

----------------------------------------------------------------------------
(* The pieces that several handlers run.                                   *)

SubsType == [Subs -> {"idle", "running", "done", "failed"}]

LEMMA ThenAfterAnswers ==
  ASSUME NEW rest \in SubsType, EventIsOver(BeforeSubs, rest), ThenAfter(rest)
  PROVE  /\ sub' \in SubsType
         /\ phase' = "after"
         /\ EventIsOver(BeforeSubs, sub)'
<1>1. \A s \in BeforeSubs : sub'[s] = rest[s]
  BY SubsAssumption DEF ThenAfter, Subs
<1> QED BY <1>1 DEF ThenAfter, SubsType, EventIsOver

LEMMA ThenDestroyAnswers ==
  ASSUME NEW rest \in SubsType, EventIsOver(BeforeSubs, rest), ThenDestroy(rest)
  PROVE  /\ sub' \in SubsType
         /\ phase' \in {"destroy", "after"}
         /\ EventIsOver(BeforeSubs, sub)'
<1>1. CASE ThenAfter(rest)
  BY <1>1, ThenAfterAnswers
<1>2. CASE phase' = "destroy" /\ sub' = rest
  BY <1>2 DEF EventIsOver
<1> QED BY <1>1, <1>2 DEF ThenDestroy

\* A subscriber's answer takes nothing back.
LEMMA AnswersStay ==
  ASSUME NEW s \in Subs, NEW outcome \in {"done", "failed"}, sub \in SubsType,
         NEW S \in SUBSET Subs, EventIsOver(S, sub)
  PROVE  EventIsOver(S, [sub EXCEPT ![s] = outcome])
BY DEF EventIsOver, SubsType, Answered

----------------------------------------------------------------------------
(* Each step preserves the invariant.                                      *)

\* A step that leaves the subscribers, the phase and the calls alone.
LEMMA InvOutside ==
  ASSUME ShutdownInv, exit = "none", TypeOK', UNCHANGED <<phase, sub, call, count, exit>>
  PROVE  ShutdownInv'
<1>1. CountIsActive'
  BY CountOfSame DEF ShutdownInv
<1>2. PhasesAnswered'
  BY DEF ShutdownInv, PhasesAnswered, EventIsOver
<1>3. CleanExit'
  BY DEF CleanExit
<1> QED BY <1>1, <1>2, <1>3 DEF ShutdownInv

LEMMA InvBoot ==
  ASSUME ShutdownInv,
         \/ Initialized \/ HttpListens
         \/ \E s \in Servers : ServerStarts(s) \/ ServerFails(s)
         \/ \E s \in {"destroy", "other"} : Signal(s)
         \/ UncaughtError
  PROVE  ShutdownInv'
<1>1. exit = "none" /\ UNCHANGED <<phase, sub, call, count, exit>>
  BY DEF Initialized, HttpListens, ServerStarts, ServerFails, Signal, UncaughtError, Running
<1>2. TypeOK'
  <2>1. CASE Initialized \/ HttpListens
    BY <2>1 DEF ShutdownInv, TypeOK, Initialized, HttpListens
  <2>2. ASSUME NEW s \in Servers, ServerStarts(s) \/ ServerFails(s)
        PROVE  TypeOK'
    BY <2>2 DEF ShutdownInv, TypeOK, ServerStarts, ServerFails, Receive
  <2>3. CASE (\E s \in {"destroy", "other"} : Signal(s)) \/ UncaughtError
    BY <2>3 DEF ShutdownInv, TypeOK, Signal, UncaughtError, Receive
  <2> QED BY <2>1, <2>2, <2>3
<1> QED BY <1>1, <1>2, InvOutside

LEMMA InvHook ==
  ASSUME ShutdownInv, HookBegins
  PROVE  ShutdownInv'
<1>1. exit = "none" /\ phase' \in {"before", "nest"} /\ UNCHANGED <<call, count, exit>>
  BY DEF HookBegins, Running
<1>2. TypeOK'
  BY DEF ShutdownInv, TypeOK, HookBegins
<1>3. CountIsActive'
  BY <1>1, CountOfSame DEF ShutdownInv
<1>4. PhasesAnswered' /\ CleanExit'
  BY <1>1 DEF PhasesAnswered, CleanExit
<1> QED BY <1>2, <1>3, <1>4 DEF ShutdownInv

LEMMA InvSubscriber ==
  ASSUME ShutdownInv, NEW s \in Subs, NEW outcome \in {"done", "failed"},
         SubscriberEnds(s, outcome)
  PROVE  ShutdownInv'
<1> DEFINE rest == [sub EXCEPT ![s] = outcome]
<1>1. exit = "none" /\ UNCHANGED <<call, count, exit>>
  BY DEF SubscriberEnds, Running
<1>2. rest \in SubsType /\ sub \in SubsType
  BY DEF ShutdownInv, TypeOK, SubsType
<1>3. /\ sub' \in SubsType
      /\ phase' \in {phase, "destroy", "after", "grace"}
      /\ PhasesAnswered'
  <2>1. CASE phase = "before" /\ EventIsOver(BeforeSubs, rest) /\ ThenDestroy(rest)
    BY <2>1, <1>2, ThenDestroyAnswers DEF PhasesAnswered
  <2>2. CASE phase = "after" /\ EventIsOver(AfterSubs, rest) /\ phase' = "grace" /\ sub' = rest
    <3>1. EventIsOver(BeforeSubs, rest)
      BY <2>2, <1>2, AnswersStay DEF ShutdownInv, PhasesAnswered, Subs
    <3> QED BY <2>2, <3>1, <1>2 DEF PhasesAnswered, EventIsOver
  <2>3. CASE sub' = rest /\ phase' = phase
    <3>1. phase \in {"destroy", "after", "grace"} => EventIsOver(BeforeSubs, rest)
      BY <1>2, AnswersStay DEF ShutdownInv, PhasesAnswered, Subs
    <3>2. phase = "grace" => EventIsOver(AfterSubs, rest)
      BY <1>2, AnswersStay DEF ShutdownInv, PhasesAnswered, Subs
    <3> QED BY <2>3, <3>1, <3>2, <1>2 DEF PhasesAnswered, EventIsOver
  <2> QED BY <2>1, <2>2, <2>3 DEF SubscriberEnds
<1>4. server' \in [Servers -> {"idle", "starting", "consuming", "failed", "closed"}]
  BY DEF SubscriberEnds, ShutdownInv, TypeOK
<1>5. TypeOK'
  <2>1. UNCHANGED <<boot, signal, isRun, call, count, exit>>
    BY DEF SubscriberEnds
  <2> QED BY <1>3, <1>4, <2>1 DEF ShutdownInv, TypeOK, SubsType
<1>6. CountIsActive'
  BY <1>1, CountOfSame DEF ShutdownInv
<1>7. CleanExit'
  BY <1>1 DEF CleanExit
<1> QED BY <1>3, <1>5, <1>6, <1>7 DEF ShutdownInv

LEMMA InvCall ==
  ASSUME ShutdownInv, NEW c \in Calls, CallBegins(c) \/ CallEnds(c)
  PROVE  ShutdownInv'
<1>1. exit = "none" /\ UNCHANGED <<boot, server, signal, isRun, exit>>
  BY DEF CallBegins, increment, CallEnds, decrement, Running
<1>2. CountIsActive' /\ count' \in Nat
  <2>1. CASE CallBegins(c)
    <3>1. CountIsActive'
      BY <2>1, CountOfBegin DEF ShutdownInv
    <3>2. count' = count + 1 /\ count \in Nat
      BY <2>1 DEF CallBegins, increment, ShutdownInv, TypeOK
    <3> QED BY <3>1, <3>2
  <2>2. CASE CallEnds(c)
    BY <2>2, CountOfEnd DEF ShutdownInv
  <2> QED BY <2>1, <2>2
<1>3. call' \in [Calls -> BOOLEAN]
  BY DEF CallBegins, increment, CallEnds, decrement, ShutdownInv, TypeOK
<1>4. sub' \in SubsType /\ phase' \in {phase, "after"} /\ PhasesAnswered'
  <2>1. sub \in SubsType
    BY DEF ShutdownInv, TypeOK, SubsType
  <2>2. CASE UNCHANGED <<phase, sub>>
    BY <2>1, <2>2 DEF ShutdownInv, PhasesAnswered, EventIsOver
  <2>3. CASE phase = "destroy" /\ ThenAfter(sub)
    <3>1. EventIsOver(BeforeSubs, sub)
      BY <2>3 DEF ShutdownInv, PhasesAnswered
    <3> QED BY <2>1, <2>3, <3>1, ThenAfterAnswers DEF PhasesAnswered
  <2> QED BY <2>2, <2>3 DEF CallBegins, increment, CallEnds, decrement
<1>5. TypeOK'
  BY <1>1, <1>2, <1>3, <1>4 DEF ShutdownInv, TypeOK, SubsType
<1>6. CleanExit'
  BY <1>1 DEF CleanExit
<1> QED BY <1>2, <1>4, <1>5, <1>6 DEF ShutdownInv

LEMMA InvTimers ==
  ASSUME ShutdownInv, TimesOut \/ Exits \/ NestEnds
  PROVE  ShutdownInv'
<1>1. UNCHANGED <<boot, server, signal, isRun, sub, call, count>>
  BY DEF TimesOut, Exits, NestEnds
<1>2. TypeOK'
  BY DEF ShutdownInv, TypeOK, TimesOut, Exits, NestEnds
<1>3. CountIsActive'
  BY <1>1, CountOfSame DEF ShutdownInv
<1>4. PhasesAnswered'
  BY <1>1 DEF ShutdownInv, PhasesAnswered, EventIsOver, TimesOut, Exits, NestEnds
<1>5. CleanExit'
  <2>1. exit' = "0" => phase = "grace"
    BY DEF TimesOut, Exits, NestEnds, Running
  <2>2. phase = "grace" => \A s \in Subs : Answered(sub[s])
    BY DEF ShutdownInv, PhasesAnswered, EventIsOver, Subs
  <2> QED BY <1>1, <2>1, <2>2 DEF CleanExit
<1> QED BY <1>2, <1>3, <1>4, <1>5 DEF ShutdownInv

LEMMA InvInit == Init => ShutdownInv
<1> SUFFICES ASSUME Init PROVE ShutdownInv
  OBVIOUS
<1>1. TypeOK /\ PhasesAnswered /\ CleanExit
  BY DEF Init, TypeOK, PhasesAnswered, CleanExit
<1>2. Active = {} /\ count = 0
  BY DEF Init, Active
<1>3. CountIsActive
  BY <1>2, FS_EmptySet DEF CountIsActive
<1> QED BY <1>1, <1>3 DEF ShutdownInv

LEMMA InvNext == ShutdownInv /\ [Next]_vars => ShutdownInv'
<1> SUFFICES ASSUME ShutdownInv, [Next]_vars PROVE ShutdownInv'
  OBVIOUS
<1>1. CASE UNCHANGED vars
  <2>1. UNCHANGED <<boot, server, signal, isRun, phase, sub, call, count, exit>>
    BY <1>1 DEF vars
  <2>2. CountIsActive'
    BY <2>1, CountOfSame DEF ShutdownInv
  <2>3. TypeOK'
    BY <2>1 DEF ShutdownInv, TypeOK
  <2>4. PhasesAnswered' /\ CleanExit'
    BY <2>1 DEF ShutdownInv, PhasesAnswered, EventIsOver, CleanExit
  <2> QED BY <2>2, <2>3, <2>4 DEF ShutdownInv
<1>2. CASE Next
  BY <1>2, InvBoot, InvHook, InvSubscriber, InvCall, InvTimers DEF Next
<1> QED BY <1>1, <1>2

\* Every reachable state satisfies the inductive invariant.
LEMMA Invariant == Spec => []ShutdownInv
BY InvInit, InvNext, PTL DEF Spec

----------------------------------------------------------------------------
(* The theorems.                                                           *)

\* The variables of the shutdown keep their types; in particular the counter of
\* active methods never becomes negative.
THEOREM TypeCorrect == Spec => []TypeOK
<1>1. ShutdownInv => TypeOK
  BY DEF ShutdownInv
<1> QED BY <1>1, Invariant, PTL

\* totalCountActiveMethods is the number of counted calls being executed, for any
\* finite set of calls.
THEOREM CountsTheActive == Spec => []CountIsActive
<1>1. ShutdownInv => CountIsActive
  BY DEF ShutdownInv
<1> QED BY <1>1, Invariant, PTL

\* Code 0 means that every subscriber has answered.
THEOREM ExitZeroIsClean == Spec => []CleanExit
<1>1. ShutdownInv => CleanExit
  BY DEF ShutdownInv
<1> QED BY <1>1, Invariant, PTL

\* AFTER_DESTROY begins only when every subscriber of BEFORE_DESTROY has answered
\* and no counted call is being executed.
THEOREM AfterIsQuiet == Spec => AfterNeedsQuiet
<1>1. ASSUME ShutdownInv, ShutdownInv', [Next]_vars,
             phase \in {"none", "before", "destroy"}, phase' \in {"after", "grace"}
      PROVE  Active' = {} /\ \A s \in BeforeSubs : Answered(sub'[s])
  <2>1. count' = 0
    <3>1. CASE \E s \in Subs, outcome \in {"done", "failed"} : SubscriberEnds(s, outcome)
      BY <1>1, <3>1 DEF SubscriberEnds, ThenDestroy
    <3>2. CASE \E c \in Calls : CallBegins(c) \/ CallEnds(c)
      BY <1>1, <3>2 DEF CallBegins, increment, CallEnds, decrement
    <3> QED
      BY <1>1, <3>1, <3>2
      DEF Next, vars, Initialized, HttpListens, ServerStarts, ServerFails, Signal,
          UncaughtError, HookBegins, NestEnds, TimesOut, Exits
  <2>2. Active' = {}
    <3>1. IsFiniteSet(Active')
      BY CallsAssumption, FS_Subset DEF Active
    <3>2. Cardinality(Active') = 0
      BY <1>1, <2>1 DEF ShutdownInv, CountIsActive
    <3> QED BY <3>1, <3>2, FS_EmptySet
  <2>3. \A s \in BeforeSubs : Answered(sub'[s])
    BY <1>1 DEF ShutdownInv, PhasesAnswered, EventIsOver
  <2> QED BY <2>2, <2>3
<1> QED BY <1>1, Invariant, PTL DEF Spec, AfterNeedsQuiet

\* Every step of the shutdown is a step that ShutdownPhases allows, or none: the
\* safety part of PhasesSpec.
THEOREM ImplementsPhases == Spec => Phases!Init /\ [][Phases!Next]_(Phases!phases)
<1>1. Init => Phases!Init
  BY DEF Init, Phases!Init
<1>2. ASSUME ShutdownInv, [Next]_vars
      PROVE  [Phases!Next]_(Phases!phases)
  <2> USE DEF Phases!Next, Phases!phases, Phases!Begin, Phases!Advance, Phases!CutOff,
              Phases!Exit, Phases!Killed
  <2>1. phase \in {"none", "before", "destroy", "after", "grace", "failed", "nest"}
    BY <1>2 DEF ShutdownInv, TypeOK
  <2>2. CASE UNCHANGED <<phase, exit>>
    BY <2>2
  <2>3. CASE exit = "none" /\ exit' = "none" /\
             \/ phase = "none" /\ phase' \in {"before", "nest"}
             \/ phase = "before" /\ phase' \in {"destroy", "after"}
             \/ phase = "destroy" /\ phase' = "after"
             \/ phase = "after" /\ phase' = "grace"
             \/ phase \in {"before", "destroy", "after"} /\ phase' = "failed"
    BY <2>3
  <2>4. CASE exit = "none" /\ phase' = phase /\
             \/ phase = "grace" /\ exit' = "0"
             \/ phase = "failed" /\ exit' = "1"
             \/ phase = "nest" /\ exit' = "signal"
    BY <2>4
  <2>5. CASE UNCHANGED vars
    BY <2>2, <2>5 DEF vars
  <2>6. CASE Next
    <3>1. CASE \/ Initialized \/ HttpListens \/ UncaughtError
               \/ \E s \in Servers : ServerStarts(s) \/ ServerFails(s)
               \/ \E s \in {"destroy", "other"} : Signal(s)
      <4>1. UNCHANGED <<phase, exit>>
        BY <3>1 DEF Initialized, HttpListens, UncaughtError, ServerStarts, ServerFails, Signal
      <4> QED BY <4>1, <2>2
    <3>2. CASE HookBegins
      BY <3>2, <2>3 DEF HookBegins, Running
    <3>3. CASE NestEnds \/ Exits
      BY <3>3, <2>4 DEF NestEnds, Exits, Running
    <3>4. CASE TimesOut
      BY <3>4, <2>3 DEF TimesOut, Running
    <3>5. ASSUME NEW s \in Subs, NEW outcome \in {"done", "failed"}, SubscriberEnds(s, outcome)
          PROVE  [Phases!Next]_(Phases!phases)
      BY <3>5, <2>2, <2>3 DEF SubscriberEnds, ThenDestroy, ThenAfter, Running
    <3>6. ASSUME NEW c \in Calls, CallBegins(c) \/ CallEnds(c)
          PROVE  [Phases!Next]_(Phases!phases)
      BY <3>6, <2>2, <2>3 DEF CallBegins, increment, CallEnds, decrement, ThenAfter, Running
    <3> QED BY <2>6, <3>1, <3>2, <3>3, <3>4, <3>5, <3>6 DEF Next
  <2> QED BY <1>2, <2>5, <2>6
<1> QED BY <1>1, <1>2, Invariant, PTL DEF Spec
=============================================================================
