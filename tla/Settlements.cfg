SPECIFICATION Spec
CONSTANTS
  N = 4
  b1 = b1
  b2 = b2
  b3 = b3
  b4 = b4
  Absent = Absent
  Firm = {1, 2, 3}
  Name <- MCName
  Rate <- MCRate
  BillFirm <- MCBillFirm
  PaymentId <- MCPaymentId
  Period <- MCPeriod
  FirstRows <- MCFirstRows
  Workloads <- MCWorkloads
INVARIANTS
  DrillDownAddsUp
  CirclesAreOfNamesakes
PROPERTIES
  AmountsChangeByComputation
