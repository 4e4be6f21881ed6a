SPECIFICATION Spec
CONSTANTS
  N = 3
  Id <- MCId
  MaxTries = 6
  Absent = Absent
  Workloads <- MCWorkloads
INVARIANTS
  FirmsAreWhole
  RecordsKeepTheirParents
  CodesAreFound
  ListsNest
  CreatorsFindTheirs
PROPERTIES
  RevocationEndsAccess
