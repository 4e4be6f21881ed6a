SPECIFICATION Spec
CONSTANTS
  p1 = p1
  p2 = p2
  firm = firm
  north = north
  south = south
  Direct = Direct
  Any = Any
  Asked <- MCAsked
  FirmOf <- MCFirmOf
  WardOf <- MCWardOf
  licA = licA
  licB = licB
  mkt = mkt
  licence = licence
  market = market
  NoPayer = NoPayer
  NoKind = NoKind
  Payer = {p1}
  Item = {licence, market}
  ItemOf <- MCItemOf
  Kind = {licA, mkt}
  MaxLineAmount = 0
  MaxBills = 2
  MaxLines = 2
  MaxPayments = 2
  MaxDay = 1
  DaysPerYear = 2
  AskAmounts = {2}
  PayAmounts = {1, 3}
  EditAmounts = {}
  InitialDrafts = {1}
  DueDates = {0}
  Forcing = {TRUE}
INVARIANTS
  PaidIsAllocated
  CreditIsLeftover
  PaidBillHasNoOpenCase
  SupersededHasNoOpenCase
  BalanceIsOwed
PROPERTIES
  TerminalIsFinal
  PaymentFillsOldestFirst
  LedgerIsAnAccount
CHECK_DEADLOCK FALSE
