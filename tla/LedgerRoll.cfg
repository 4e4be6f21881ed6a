SPECIFICATION Spec
CONSTANTS
  p1 = p1
  p2 = p2
  firm = firm
  north = north
  south = south
  Direct = Direct
  Any = Any
  Asked <- MCAsked
  FirmOf <- MCFirmOf
  WardOf <- MCWardOf
  licA = licA
  licB = licB
  mkt = mkt
  licence = licence
  market = market
  NoPayer = NoPayer
  NoKind = NoKind
  Payer = {p1}
  Item = {licence, market}
  ItemOf <- MCItemOf
  Kind = {licA, licB, mkt}
  MaxLineAmount = 0
  MaxBills = 3
  MaxLines = 2
  MaxPayments = 1
  MaxDay = 1
  DaysPerYear = 1
  AskAmounts = {2}
  PayAmounts = {2}
  EditAmounts = {}
  InitialDrafts = {0}
  DueDates = {1}
  Forcing = {TRUE}
INVARIANTS
  OneLiveBillPerYear
  SupersededPointsAhead
PROPERTIES
  IssueAddsFreshChargesOnly
CHECK_DEADLOCK FALSE
