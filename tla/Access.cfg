SPECIFICATION Spec
CONSTANTS
  N = 3
  Id <- MCId
  FirstRows <- MCFirstRows
  Prefixes = {"p1", "p2", "p3"}
  Worker = {"w1", "w2"}
  TTL = 1
  MaxTime = 3
  Absent = Absent
  Workloads <- MCWorkloads
INVARIANTS
  CrossReadsAreWhole
  ChangesComeWhole
  MissesAreRecent
  SpentStaysSpent
