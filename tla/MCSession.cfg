CONSTANTS
  m1 = m1
  m2 = m2
  i1 = i1
  c1 = c1
  t1 = t1
  None = None
  Ids <- MCIds
  Manifests <- MCManifests
  Clients <- MCClients
  Triggers <- MCTriggers
  MaxJobs = 3
  MaxLives = 2
SPECIFICATION Spec
INVARIANTS StoresAgree AnsweredIsStored NewAfterOld RequestsGoOn
PROPERTY RequestsEnd
CHECK_DEADLOCK FALSE
