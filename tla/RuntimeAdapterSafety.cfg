SPECIFICATION Spec
CONSTANTS
  Server = Server
  Clis = {cli}
  Pids = {p1, p2}
  Commands = {c1, c2}
  NoCommand = NoCommand
  NoPid = NoPid
  InitD = InitD
SYMMETRY AnyOrder
INVARIANTS TypeOK NoLostRuntime  NeverHeld
 
