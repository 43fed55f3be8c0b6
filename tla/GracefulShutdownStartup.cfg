SPECIFICATION Spec
CONSTANTS
  Servers = {kafka, rabbit}
  Others = {grpc}
  AfterSubs = {telemetry}
  Calls = {r1, r2}
  Enabled = TRUE
INVARIANT ServersAreQuiet
CHECK_DEADLOCK FALSE
