SPECIFICATION Spec
CONSTANTS
  p1 = p1
  p2 = p2
  firm = firm
  north = north
  south = south
  Direct = Direct
  Any = Any
  Asked <- MCAsked
  FirmOf <- MCFirmOf
  WardOf <- MCWardOf
  licA = licA
  licB = licB
  mkt = mkt
  licence = licence
  market = market
  NoPayer = NoPayer
  NoKind = NoKind
  Payer = {p1, p2}
  Item = {licence, market}
  ItemOf <- MCItemOf
  Kind = {licA, mkt}
  MaxLineAmount = 2
  MaxBills = 2
  MaxLines = 2
  MaxPayments = 1
  MaxDay = 0
  DaysPerYear = 2
  AskAmounts = {2}
  PayAmounts = {3}
  EditAmounts = {1}
  InitialDrafts = {0}
  DueDates = {0}
  Forcing = {FALSE}
INVARIANTS
  TypeOK
  BillAgreesWithLines
  AllocationsKeepTheirLine
  ScreensAgree
CHECK_DEADLOCK FALSE
