CONSTANTS
  Tasks = {t1, t2}
  d1 = d1
  d2 = d2
  Disks = {d1, d2}
  Nothing = Nothing
  MaxFileSys = 4
  AfterDots <- MCTail
  Leading = {".."}
  Starts <- MCStarts
  Calls <- MCCalls
  MaxCalls = 4
  Names = {"a", "b", ".", "..", "a..b"}
  MaxNames = 5
SPECIFICATION Spec
SYMMETRY Symmetry
CHECK_DEADLOCK FALSE
INVARIANTS FindAnswersFromTheTable MountsAreListed OpenFilesAreServed PathsAreResolved
