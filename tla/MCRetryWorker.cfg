CONSTANTS
  s1 = s1
  k1 = k1
  Stoppers <- MCStoppers
  Killers <- MCKillers
  Count = 1
  RetrySuccess = TRUE
  RetryTickDead = RetryTickDead
  MaxTick = 2
  AttemptCauses <- MCAttemptCauses
  RunResults <- MCRunResults
  ParentCauses <- MCParentCauses
SPECIFICATION Spec
INVARIANTS NoOrphanAttempt RetryStateHolds WorkerGoesOn
PROPERTIES ReachedStopEndsWorker ImplementsSupervisor AttemptsConform
