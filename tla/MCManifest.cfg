CONSTANTS
  Files <- MCFiles
  Argvs <- MCArgvs
  Texts <- MCTexts
  Configs <- MCConfigs
  MaxTrips = 3
  Counts <- MCCounts
  Periods <- MCPeriods
  Durations <- MCDurations
  Scales <- MCScales
  MaxDepth = 2
SPECIFICATION LaunchSpec
INVARIANTS OptionsArrive RetriesAreBounded
PROPERTIES StoredRevives DefaultsAreStable
CHECK_DEADLOCK FALSE
