SPECIFICATION Spec
CONSTANTS
  r1 = r1
  r2 = r2
  r3 = r3
  Reaper = Reaper
  Closer = Closer
  Nobody = Nobody
  Requests = {r1, r2}
  N = 2
  MaxIdle = 2
  MaxReadiness = 1
  MaxShutdown = 1
  IdleTimeout <- MCIdle
  ReadinessTimeout <- MCReadiness
  ShutdownTimeout <- MCShutdown
  Faults = {"crash", "abandon"}
  Interval = 1
  Unkillable = {1}
  MaxAbandoned = 1
SYMMETRY MCSymmetry
INVARIANTS TypeOK MutualExclusion WaitersQueued NoOrphan ActiveBacked
