CONSTANTS
  k1 = k1
  k2 = k2
  k3 = k3
  c1 = c1
  c2 = c2
  None = None
  Keys <- MCKeys
  Versions <- MCVersions
  Clients <- MCClients
  Short <- TwoShort
SPECIFICATION Spec
INVARIANT KeysAreTheirs
CHECK_DEADLOCK FALSE
