SPECIFICATION FairSpec
CONSTANTS
  Servers = {kafka, rabbit}
  Others = {grpc}
  AfterSubs = {telemetry}
  Calls = {r1, r2}
  Enabled = TRUE
INVARIANTS TypeOK CountIsActive CleanExit
PROPERTIES AfterNeedsQuiet PhasesSpec SignalEndsProcess
CHECK_DEADLOCK FALSE
