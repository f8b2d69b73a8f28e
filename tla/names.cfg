CONSTANTS
  Tasks = {t1, t2}
  Nobody = Nobody
  Root = 1
  Clusters = {2, 3, 4, 5}
  RootSlots = 6
  DirSlots = 4
  ClusterSlots = 2
  Long = {"l", "m"}
  Aliases <- MCAliases
  Starts <- MCStarts
  Calls <- MCCalls
  MaxCalls = 2
  MaxFaults = 2
SPECIFICATION Spec
SYMMETRY TaskSymmetry
CONSTRAINT NotStrayed
INVARIANTS TypeOK DirectoriesAreWellFormed ClustersAreNamedOnce OneWriter OpenFilesKeepTheirEntry NobodyWaitsInACircle
PROPERTIES NothingLiveIsOverwritten LocksAreMutexes
