CONSTANTS
  t1 = t1
  t2 = t2
  f1 = f1
  d1 = d1
  None = None
  Tasks = {t1, t2}
  Files = {f1}
  Dirs = {d1}
  NumClusters = 5
  Fat12 = FALSE
  DriverFails = FALSE
  FindFree = FALSE
  MaxExtend = 2
  CountModulus = 16
SPECIFICATION Spec
SYMMETRY FatSymmetry
INVARIANTS CountIsExact
