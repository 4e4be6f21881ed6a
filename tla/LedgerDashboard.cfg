SPECIFICATION Spec
CONSTANTS
  p1 = p1
  p2 = p2
  firm = firm
  north = north
  south = south
  Direct = Direct
  Any = Any
  Asked <- MCAsked
  FirmOf <- MCFirmOf
  WardOf <- MCWardOf
  licA = licA
  licB = licB
  mkt = mkt
  licence = licence
  market = market
  NoPayer = NoPayer
  NoKind = NoKind
  Payer = {p1}
  Item = {licence, market}
  ItemOf <- MCItemOf
  Kind = {licA}
  MaxLineAmount = 6
  MaxBills = 2
  MaxLines = 1
  MaxPayments = 0
  MaxDay = 0
  DaysPerYear = 1
  AskAmounts = {2}
  PayAmounts = {1}
  EditAmounts = {1}
  InitialDrafts = {0}
  DueDates = {0}
  Forcing = {FALSE}
PROPERTIES
  ConsolidationKeepsOutstanding
CHECK_DEADLOCK FALSE
