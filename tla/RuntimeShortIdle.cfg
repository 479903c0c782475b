SPECIFICATION Spec
CONSTANTS
  r1 = r1
  r2 = r2
  r3 = r3
  Reaper = Reaper
  Closer = Closer
  Nobody = Nobody
  Requests = {r1, r2}
  N = 1
  MaxIdle = 1
  MaxReadiness = 1
  MaxShutdown = 1
  IdleTimeout <- MCIdle
  ReadinessTimeout <- MCReadiness
  ShutdownTimeout <- MCShutdown
  Faults = {}
  Interval = 1
  Unkillable = {}
  MaxAbandoned = 1
PROPERTIES KeepsActiveWarm
