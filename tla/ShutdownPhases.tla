--------------------------- MODULE ShutdownPhases ---------------------------
(* What GracefulShutdownService promises to whoever stops the application: *)
(* the phases BEFORE_DESTROY, DESTROY and AFTER_DESTROY run in this order  *)
(* and at most once; an exit with code 0 follows the last of them, a phase *)
(* that is cut off leads to code 1; and either way the process ends after  *)
(* its grace period (graceful-shutdown/README.md, "Трёхфазное завершение"). *)

VARIABLES stage, code

phases == <<stage, code>>

Stages == {"running", "before", "destroy", "after", "grace", "ended"}

Init == stage = "running" /\ code = "none"

Begin == /\ stage = "running"
         /\ stage' = "before"
         /\ UNCHANGED code

\* DESTROY is over at once when no counted call is being executed.
Advance ==
  /\ \/ stage = "before"  /\ stage' \in {"destroy", "after"}
     \/ stage = "destroy" /\ stage' = "after"
     \/ stage = "after"   /\ stage' = "grace"
  /\ code' = IF stage' = "grace" THEN "0" ELSE "none"

CutOff == /\ stage \in {"before", "destroy", "after"}
          /\ stage' = "grace"
          /\ code' = "1"

Exit == /\ stage = "grace"
        /\ stage' = "ended"
        /\ UNCHANGED code

\* The framework ends the process itself: another signal, or a disabled module.
Killed == /\ stage = "running"
          /\ stage' = "ended"
          /\ code' = "signal"

Next == Begin \/ Advance \/ CutOff \/ Exit \/ Killed

\* A shutdown that has begun comes to its end.
Spec == Init /\ [][Next]_phases /\ WF_phases(Advance \/ CutOff \/ Exit)
=============================================================================
