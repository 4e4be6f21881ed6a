SPECIFICATION Spec
CONSTANTS
  N = 4
  M = 2
  OldCharge = 3
  Workloads <- MCWorkloads
INVARIANTS
  OneLiveBillPerYear
  
PROPERTIES
  MoneyAddsUp
  RollUpsAreExact
  
