SPECIFICATION FairSpec
CONSTANTS
  Clients = {tool, other, watcher}
  Watchers = {watcher}
  NoClient = nobody
  Addresses = {0, 1, 256, 257}
  Live = {1, 257}
  Control = 257
  Values = {0, 3}
  WriteMode = {3}
  NoValue = novalue
INVARIANTS TypeOK AccessReachesItsByte SessionIsolated
PROPERTIES ImplementsRegisters SessionsEnd
