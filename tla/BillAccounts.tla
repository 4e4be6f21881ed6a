----------------------------- MODULE BillAccounts -----------------------------
(***************************************************************************)
(* The bill ledger implements the account of Collections: what is owed is  *)
(* what the lines of open bills still owe, what is held is the sum of      *)
(* amount_paid over all bills, and a payment's parts are those its         *)
(* allocation rows tell.                                                   *)
(***************************************************************************)
EXTENDS BillLedger

\* A payment's status, and whether its bill has been consolidated since.
StateOf(p) ==
  IF payment[p].status = "NONE" THEN "NONE"
  ELSE IF payment[p].status = "REVERSED" THEN "RETURNED"
  ELSE IF bill[payment[p].bill].status = "SUPERSEDED" THEN "ROLLED" ELSE "DUE"

\* Its payer, and its allocations against the whole of it.
PartsOf(p) ==
  IF payment[p].status = "NONE" THEN [payer |-> NoPayer, applied |-> 0, extra |-> 0]
  ELSE [payer |-> bill[payment[p].bill].payer, applied |-> Applied(payment[p].alloc),
        extra |-> payment[p].amount - Applied(payment[p].alloc)]

\* amount_paid over a payer's bills, open, settled and superseded.
HeldOf(c) ==
  SumTo([b \in BillId |-> IF bill[b].payer = c THEN bill[b].paid ELSE 0], MaxBills)

Account == INSTANCE Collections
  WITH state <- [p \in PaymentId |-> StateOf(p)],
       parts <- [p \in PaymentId |-> PartsOf(p)],
       owed <- [c \in Payer |-> OwedBy(c)],
       held <- [c \in Payer |-> HeldOf(c)],
       credit <- credit

\* The columns the handlers keep (amount_paid, credit_balance, statuses, lines) move
\* as the account does: post_payment takes from what is owed what it books and holds
\* the rest as credit, reverse_payment undoes that split and no other, and issuing,
\* consolidating, destroying and ageing bills move no money.
LedgerIsAnAccount == Account!Spec
=============================================================================
