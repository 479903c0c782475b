SPECIFICATION Spec
CONSTANTS
  Server = Server
  Clis = {cli}
  port = port
  model = model
  old = old
  new = new
  Settings <- MCSettings
  Values <- MCValues
  OfBackends <- MCOfBackends
  Valid <- MCValid
  Presets <- MCPresets
  MaxBegun = 3
  Missing = Missing
  Torn = Torn
  Port = port
  Procs = {p1, p2}
  NoProc = NoProc
SYMMETRY AnyProc
INVARIANTS TypeOK   NoStrayProxy RestartTakesEffect
