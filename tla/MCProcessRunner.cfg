CONSTANTS
  MaxAttempts = 2
SPECIFICATION RunnerSpec
INVARIANTS ListedHasAnswered RunnerGoesOn
PROPERTIES EndLeavesNothing ExitEndsAttempt
CHECK_DEADLOCK FALSE
