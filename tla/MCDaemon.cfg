CONSTANTS
  c1 = c1
  c2 = c2
  c3 = c3
  NoProc = NoProc
  Clients <- MCClients
  Shutdowns <- MCShutdowns
  MaxPings = 1
  MaxDeaths = 1
SPECIFICATION Spec
INVARIANTS OneDaemon AtMostOnce
PROPERTY SpawnServes
CHECK_DEADLOCK FALSE
