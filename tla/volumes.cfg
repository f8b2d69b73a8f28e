CONSTANTS
  Starts <- MCStarts
  Requests <- MCRequests
  MaxParts = 4
  MaxJobs = 3
  MaxFaults = 1
SPECIFICATION Spec
CHECK_DEADLOCK FALSE
INVARIANTS PartitionsAreAsAsked PartitionsAreDisjoint FormattedMounts EveryClusterExists FormatStaysInside
