CONSTANTS
  N = 3
  Modes <- MCModes
  ExitReasons <- MCExitReasons
  ParentCauses <- MCParentCauses
SPECIFICATION Spec
INVARIANTS OneAfterAnother OutcomeIsRight
PROPERTIES PipeEnds
CHECK_DEADLOCK FALSE
