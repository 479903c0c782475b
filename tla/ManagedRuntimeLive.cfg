SPECIFICATION FairSpec
CONSTANTS
  r1 = r1
  r2 = r2
  r3 = r3
  Reaper = Reaper
  Closer = Closer
  Nobody = Nobody
  Requests = {r1, r2, r3}
  N = 1
  MaxIdle = 2
  MaxReadiness = 2
  MaxShutdown = 1
  IdleTimeout <- MCIdle
  ReadinessTimeout <- MCReadiness
  ShutdownTimeout <- MCShutdown
  Faults = {"crash"}
  Interval = 1
  Unkillable = {}
  MaxAbandoned = 1
INVARIANTS ShutdownStopsAll
PROPERTIES ImplementsLifecycle IdleIsReaped WaitsEnd
