CONSTANTS
  c1 = c1
  c2 = c2
  Callers <- MCCallers
  OptionSets <- MCOptionSets
  ExitReasons <- MCExitReasons
  ParentCauses <- MCParentCauses
SPECIFICATION Spec
INVARIANTS EndIsTrue StopIsEnforced NothingBlocks
PROPERTIES DoneEndsAll ImplementsAttempt
