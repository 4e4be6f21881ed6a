SPECIFICATION Spec
CONSTANTS
  N = 4
  MaxBands = 2
  c1 = c1
  c2 = c2
  Code = {c1, c2}
  FirstCode = c1
  FirstBands <- MCFirstBands
  Label = {0, 1, 2, 3}
  Absent = Absent
  Workloads <- MCWorkloads
INVARIANTS
  ItemHasOneRate
  DemandsKeepTheirPrice
  BandsCloseTogether
