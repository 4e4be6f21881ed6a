---------------------------- MODULE MCMoneyPath -----------------------------
(* Workloads for model-checking MoneyPath. *)
EXTENDS MoneyPath, Sequences

Pay(b, amount) == [kind |-> "PAY", ref |-> b, amount |-> amount]
Reverse(p) == [kind |-> "REVERSE", ref |-> p, amount |-> 0]
IssueFor(amount) == [kind |-> "ISSUE", ref |-> 0, amount |-> amount]
RollUp(amount) == [kind |-> "ROLL", ref |-> 0, amount |-> amount]
Refresh == [kind |-> "REFRESH", ref |-> 0, amount |-> 0]

\* Bill 1 charges 3.  Two payments that together overpay it, the first of them
\* reversed, and the nightly refresh.
Payments == <<Pay(1, 2), Pay(1, 2), Reverse(1), Refresh>>

\* An overpayment and its reversal beside a new bill and the payment of it.
Calm == <<Pay(1, 4), Reverse(1), IssueFor(1), Pay(NewBill(3), 2)>>

\* Two clerks bill the payer while a third consolidates and a payment arrives, on
\* the old bill or on the one just issued.
Billing == {<<IssueFor(1), IssueFor(1), RollUp(1), Pay(b, 2)>> : b \in {1, NewBill(1)}}

\* Two consolidations, an overpayment and its reversal: locks meet in both orders.
Consolidations == <<Pay(1, 4), RollUp(1), RollUp(0), Reverse(1)>>

\* A consolidation beside a payment and the nightly refresh.
Ageing == <<Pay(1, 3), RollUp(1), Refresh, Pay(NewBill(2), 1)>>

Edit(b, amount) == [kind |-> "EDIT", ref |-> b, amount |-> amount]

\* A line is raised or lowered while payments come in and one goes back, or while the
\* bill is rolled up.
Editing == {<<Pay(1, 2), Edit(1, a), Reverse(1), j>> : a \in {1, 5}, j \in {Pay(1, 2), RollUp(1)}}

\* The line of an overpaid bill is raised, which opens the bill again; then it is rolled up
\* while the overpayment goes back.
Reopened == <<Pay(1, 4), Edit(1, 5), RollUp(1), Reverse(1)>>

MCWorkloads == {Payments, Calm, Consolidations, Ageing, Reopened} \cup Billing \cup Editing
=============================================================================
