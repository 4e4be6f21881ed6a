----------------------------- MODULE BillLedger -----------------------------
(***************************************************************************)
(* The bill ledger of one council: bills and their lines, the payments     *)
(* allocated to them, payer credit and debt cases.  Every service call     *)
(* that changes this state (apps/billing/services.py, the destroy view,    *)
(* apps/payments/services.py, apps/enforcement/services.py) is one action, *)
(* as if each request ran alone from its first read to its commit; what    *)
(* two overlapping requests can do to each other is module MoneyPath.      *)
(*                                                                         *)
(* Money is a natural number.  A Kind is the (revenue item, band, tier)    *)
(* key on which lines merge; ItemOf gives its revenue item, on which       *)
(* arrears are collected.  The lines of a bill sit in slots 1..MaxLines in *)
(* creation order, which is the (position, id) order the code walks.  An   *)
(* assessment lives at the line it was first billed on (its home), because *)
(* a consolidation can make a later bill's line share it.  line_amount is  *)
(* not stored: every writer sets it to current_amount + arrears_amount.    *)
(***************************************************************************)
EXTENDS Integers, Sequences, FiniteSets, Totals

CONSTANTS
  Payer, Kind, Item,
  ItemOf,        \* the revenue item of a kind
  NoPayer, NoKind,
  MaxBills, MaxLines, MaxPayments,   \* bounds on rows ever created
  MaxDay, DaysPerYear,               \* bounds on the calendar
  MaxLineAmount, \* bound on the amount repeated merges may build up
  AskAmounts,    \* what one assessment may come to
  PayAmounts,    \* what one payment may come to
  EditAmounts,   \* what an administrator may set a line to
  DueDates,      \* due dates a request may ask for
  Forcing,       \* values of the force flag requests may carry
  InitialDrafts  \* amounts of draft assessments a payer may be enrolled with

ASSUME LedgerConstants ==
  /\ NoPayer \notin Payer /\ NoKind \notin Kind /\ IsFiniteSet(Kind) /\ IsFiniteSet(Item)
  /\ ItemOf \in [Kind -> Item]
  /\ MaxBills \in Nat /\ MaxLines \in Nat /\ MaxPayments \in Nat
  /\ MaxDay \in Nat /\ DaysPerYear \in Nat \ {0} /\ MaxLineAmount \in Nat
  /\ AskAmounts \subseteq Nat \ {0} /\ PayAmounts \subseteq Nat \ {0}
  /\ EditAmounts \subseteq Nat \ {0} /\ InitialDrafts \subseteq Nat
  /\ DueDates \subseteq Nat /\ Forcing \subseteq BOOLEAN

VARIABLES
  bill,      \* BillId -> the bill row
  line,      \* BillId -> Slot -> the bill_line row
  asmt,      \* BillId -> Slot -> amount of the assessment first billed there
  draft,     \* Payer -> Kind -> sum of the DRAFT assessments
  payment,   \* PaymentId -> the payment row with its allocations
  credit,    \* Payer -> credit_balance
  debtCase,  \* BillId -> enforcement stage
  today

vars == <<bill, line, asmt, draft, payment, credit, debtCase, today>>

BillId == 1..MaxBills
Slot == 1..MaxLines
PaymentId == 1..MaxPayments
Year(day) == day \div DaysPerYear

\* The three statuses every outstanding query filters on.
OpenStatus == {"ISSUED", "PART_PAID", "OVERDUE"}
TerminalStatus == {"CANCELLED", "SUPERSEDED"}
\* "NONE": id not used yet.  "DELETED": the row was destroyed.
BillStatus == OpenStatus \cup TerminalStatus \cup {"PAID", "NONE", "DELETED"}

BillRow ==
  [payer: Payer \cup {NoPayer}, status: BillStatus, due: Nat, year: Nat,
   via: {"PLAIN", "FORCED", "ROLL"}, paid: Nat, total: Nat, arrears: Nat, supersededBy: 0..MaxBills]
LineRow ==
  [kind: Kind \cup {NoKind}, home: (0..MaxBills) \X (0..MaxLines),
   current: Nat, arrears: Nat]
PaymentRow ==
  [bill: 0..MaxBills, amount: Nat, status: {"NONE", "CONFIRMED", "REVERSED"},
   alloc: [Slot -> Nat]]
\* OPEN stands for every stage below CLOSED.
CaseStage == {"ABSENT", "OPEN", "CLOSED"}

NoBill ==
  [payer |-> NoPayer, status |-> "NONE", due |-> 0, year |-> 0, via |-> "PLAIN",
   paid |-> 0, total |-> 0, arrears |-> 0, supersededBy |-> 0]
NoLine == [kind |-> NoKind, home |-> <<0, 0>>, current |-> 0, arrears |-> 0]
NoPayment ==
  [bill |-> 0, amount |-> 0, status |-> "NONE", alloc |-> [s \in Slot |-> 0]]

TypeOK ==
  /\ bill \in [BillId -> BillRow]
  /\ line \in [BillId -> [Slot -> LineRow]]
  /\ asmt \in [BillId -> [Slot -> Nat]]
  /\ draft \in [Payer -> [Kind -> Nat]]
  /\ payment \in [PaymentId -> PaymentRow]
  /\ credit \in [Payer -> Nat]
  /\ debtCase \in [BillId -> CaseStage]
  /\ today \in 0..MaxDay

-----------------------------------------------------------------------------
(* What the rows say. *)

Exists(b) == bill[b].status \notin {"NONE", "DELETED"}
Live(b) == Exists(b) /\ bill[b].status \notin TerminalStatus
OpenOf(c) == {b \in BillId : bill[b].payer = c /\ bill[b].status \in OpenStatus}
NextBill(b) == \A x \in BillId : bill[x].status = "NONE" <=> x >= b
NextPayment(p) == \A x \in PaymentId : payment[x].status = "NONE" <=> x >= p

Used(b, s) == line[b][s].kind # NoKind
LineAmount(l) == l.current + l.arrears
LinesTotal(ls) == SumTo([s \in Slot |-> LineAmount(ls[s])], MaxLines)
LinesArrears(ls) == SumTo([s \in Slot |-> ls[s].arrears], MaxLines)

CountsOn(p, b) == payment[p].bill = b /\ payment[p].status = "CONFIRMED"

\* BillLine.paid_amount: allocations of confirmed payments only.
PaidOn(b, s) ==
  SumTo([p \in PaymentId |-> IF CountsOn(p, b) THEN payment[p].alloc[s] ELSE 0],
        MaxPayments)

Owing(b, s) == Positive(LineAmount(line[b][s]) - PaidOn(b, s))

Applied(alloc) == SumTo(alloc, MaxLines)

-----------------------------------------------------------------------------
(* Shared pieces of the handlers. *)

\* Defect for the mutation runs: a bill that comes to nothing counts as paid.
SettledStatusOfEmpty(r, total) ==
  IF r.status \in TerminalStatus THEN r.status
  ELSE IF r.paid >= total THEN "PAID"
  ELSE IF r.due < today THEN "OVERDUE"
  ELSE IF r.paid > 0 THEN "PART_PAID"
  ELSE "ISSUED"

SettledStatus(r, total) ==
  IF r.status \in TerminalStatus THEN r.status
  ELSE IF r.paid >= total /\ total > 0 THEN "PAID"
  ELSE IF r.due < today THEN "OVERDUE"
  ELSE IF r.paid > 0 THEN "PART_PAID"
  ELSE "ISSUED"

\* recompute_bill: totals from the lines, then the status.
Recompute(r, ls) ==
  [r EXCEPT !.total = LinesTotal(ls), !.arrears = LinesArrears(ls),
            !.status = SettledStatus(r, LinesTotal(ls))]

\* Defect: no case is closed.
NoneClosed(bills) == debtCase

\* close_debt_case_for_bill, for each bill of a set.
Closed(bills) ==
  [b \in BillId |-> IF b \in bills /\ debtCase[b] # "ABSENT" THEN "CLOSED"
                    ELSE debtCase[b]]

\* Defect: what earlier payments covered is forgotten.
AllocationOfWholeLines(b, amount) ==
  LET due == [s \in Slot |-> LineAmount(line[b][s])]
  IN [s \in Slot |-> Least(due[s], Positive(amount - SumTo(due, s - 1)))]

\* _allocate_fifo: slot s takes what is left once the slots before it are covered.
Allocation(b, amount) ==
  [s \in Slot |->
     Least(Owing(b, s), Positive(amount - SumTo([t \in Slot |-> Owing(b, t)], s - 1)))]

-----------------------------------------------------------------------------
(* Issuing a bill. *)

\* Assessments of one kind, from the request and from the drafts, merge into one.
Charge(c, ask, sweep) ==
  [k \in Kind |-> ask[k] + (IF sweep THEN draft[c][k] ELSE 0)]

\* All ways to list a set once each.
Orders(S) ==
  {o \in [1..Cardinality(S) -> S] : \A x \in S : \E i \in DOMAIN o : o[i] = x}

\* The lines of the bills being rolled up that still owe something.
Outstanding(bills) == {l \in bills \X Slot : Owing(l[1], l[2]) > 0}

LineItem(l) == ItemOf[line[l[1]][l[2]].kind]

\* Defect: lines are carried forward at their billed amount.
BilledOn(lines, i) ==
  SumTo([b \in BillId |->
           SumTo([s \in Slot |->
                    IF <<b, s>> \in lines /\ LineItem(<<b, s>>) = i
                    THEN LineAmount(line[b][s]) ELSE 0],
                 MaxLines)],
        MaxBills)

\* arrears_by_item
OwedOn(lines, i) ==
  SumTo([b \in BillId |->
           SumTo([s \in Slot |->
                    IF <<b, s>> \in lines /\ LineItem(<<b, s>>) = i THEN Owing(b, s) ELSE 0],
                 MaxLines)],
        MaxBills)

\* The loop over open_bills meets line l before line m; route lists the bills in
\* the order the unordered query happens to return them.
Meets(route, l, m) ==
  \E i, j \in DOMAIN route :
    route[i] = l[1] /\ route[j] = m[1] /\ (i < j \/ (i = j /\ l[2] < m[2]))
FirstOf(lines, route, i) ==
  CHOOSE l \in lines : LineItem(l) = i /\
    \A m \in lines : LineItem(m) = i => m = l \/ Meets(route, l, m)
LastOf(lines, route, i) ==
  CHOOSE l \in lines : LineItem(l) = i /\
    \A m \in lines : LineItem(m) = i => m = l \/ Meets(route, m, l)

\* The new bill's lines: one per fresh charge, in request order, the first of an
\* item carrying that item's arrears; then one per item that has arrears only,
\* under the assessment of the last line met.
NewLines(b, order, charge, lines, route, tail) ==
  [s \in Slot |->
     IF s <= Len(order) THEN
       [kind |-> order[s], home |-> <<b, s>>, current |-> charge[order[s]],
        arrears |-> IF \E t \in 1..(s - 1) : ItemOf[order[t]] = ItemOf[order[s]] THEN 0
                    ELSE OwedOn(lines, ItemOf[order[s]])]
     ELSE IF s <= Len(order) + Len(tail) THEN
       LET i == tail[s - Len(order)]
           l == LastOf(lines, route, i)
       IN [kind |-> line[l[1]][l[2]].kind, home |-> line[l[1]][l[2]].home,
           current |-> 0, arrears |-> OwedOn(lines, i)]
     ELSE NoLine]

\* Defect: a bill paid in full no longer counts as this year's bill.
HasOpenBillThisYear(c) ==
  \E o \in OpenOf(c) : bill[o].year = Year(today)

\* DuplicateBill: a non-terminal bill of this payer issued this calendar year.
HasBillThisYear(c) ==
  \E o \in BillId : Live(o) /\ bill[o].payer = c /\ bill[o].year = Year(today)

\* via records how the bill came about; the code keeps it in the audit rows
\* BILL_ISSUED (superseded_count) and BILL_ISSUED_FORCED_DUPLICATE.
NewRow(c, due, roll) ==
  [NoBill EXCEPT !.payer = c, !.status = "ISSUED", !.due = due, !.year = Year(today),
     !.via = IF roll THEN "ROLL" ELSE IF HasBillThisYear(c) THEN "FORCED" ELSE "PLAIN"]

\* issue_bill: order lists the kinds charged (asked ones first), tail the items
\* that only carry arrears, in the order the loop meets them.
IssueBill(b, c, ask, sweep, roll, force, due) ==
  LET charge == Charge(c, ask, sweep)
      charged == {k \in Kind : charge[k] > 0}
      rolled == IF roll THEN OpenOf(c) ELSE {}
      lines == Outstanding(rolled)
      carried == {LineItem(l) : l \in lines} \ {ItemOf[k] : k \in charged}
  IN /\ NextBill(b)
     /\ roll \/ charged # {}
     /\ (~roll /\ HasBillThisYear(c)) => force
     /\ Cardinality(charged) + Cardinality(carried) <= MaxLines
     /\ \E order \in Orders(charged), route \in Orders(rolled), tail \in Orders(carried) :
          LET ls == NewLines(b, order, charge, lines, route, tail)
          IN /\ \A i, j \in DOMAIN order : i < j /\ ask[order[j]] > 0 => ask[order[i]] > 0
             /\ \A i, j \in DOMAIN tail : i < j =>
                  Meets(route, FirstOf(lines, route, tail[i]), FirstOf(lines, route, tail[j]))
             /\ bill' = [x \in BillId |->
                  IF x = b THEN Recompute(NewRow(c, due, roll), ls)
                  ELSE IF x \in rolled
                    THEN [bill[x] EXCEPT !.status = "SUPERSEDED", !.supersededBy = b]
                  ELSE bill[x]]
             /\ line' = [line EXCEPT ![b] = ls]
             /\ asmt' = [asmt EXCEPT ![b] =
                  [s \in Slot |-> IF s <= Len(order) THEN charge[order[s]] ELSE 0]]
     /\ draft' = IF sweep THEN [draft EXCEPT ![c] = [k \in Kind |-> 0]] ELSE draft
     /\ debtCase' = Closed(rolled)
     /\ UNCHANGED <<payment, credit, today>>

-----------------------------------------------------------------------------
(* Editing and destroying bills.  None of these look at the bill's status. *)

\* The first slot after every line of b and after every assessment still in use.
FreeSlot(b, s) ==
  \A t \in Slot : t >= s => ~Used(b, t) /\
    \A x \in BillId, y \in Slot : Used(x, y) => line[x][y].home # <<b, t>>

MergeLine(b, s, amount) ==
  LET h == line[b][s].home
      total == asmt[h[1]][h[2]] + amount
  IN /\ total <= MaxLineAmount
     /\ asmt' = [asmt EXCEPT ![h[1]][h[2]] = total]
     /\ line' = [line EXCEPT ![b][s].current = total]

AppendLine(b, s, k, amount) ==
  /\ FreeSlot(b, s) /\ \A t \in 1..(s - 1) : ~FreeSlot(b, t)
  /\ asmt' = [asmt EXCEPT ![b][s] = amount]
  /\ line' = [line EXCEPT ![b][s] =
       [kind |-> k, home |-> <<b, s>>, current |-> amount, arrears |-> 0]]

\* add_bill_line: a line of the same kind absorbs the charge.
AddBillLine(b, k, amount) ==
  /\ Exists(b)
  /\ \E s \in Slot :
       \/ line[b][s].kind = k /\ MergeLine(b, s, amount)
       \/ (\A t \in Slot : line[b][t].kind # k) /\ AppendLine(b, s, k, amount)
  /\ bill' = [bill EXCEPT ![b] = Recompute(bill[b], line'[b])]
  /\ UNCHANGED <<draft, payment, credit, debtCase, today>>

\* Defect: an amount below the line's arrears is let through.
PositiveAmount(l, amount) == amount > 0

\* The two guards of update_bill_line.
AllowedAmount(l, amount) == amount > 0 /\ amount >= l.arrears

\* update_bill_line: the arrears part stays, current_amount takes the rest.
UpdateBillLine(b, s, amount) ==
  /\ Used(b, s)
  /\ AllowedAmount(line[b][s], amount)
  /\ LET h == line[b][s].home
         current == amount - line[b][s].arrears
     IN /\ line' = [line EXCEPT ![b][s].current = current]
        /\ asmt' = [asmt EXCEPT ![h[1]][h[2]] = current]
  /\ bill' = [bill EXCEPT ![b] = Recompute(bill[b], line'[b])]
  /\ UNCHANGED <<draft, payment, credit, debtCase, today>>

\* Defect: only allocations of confirmed payments protect a line.
HasLiveAllocations(b, s) ==
  \E p \in PaymentId : CountsOn(p, b) /\ payment[p].alloc[s] > 0

\* An allocation row exists, whatever became of its payment.
HasAllocations(b, s) ==
  \E p \in PaymentId : payment[p].bill = b /\ payment[p].alloc[s] > 0

\* delete_bill_line
DeleteBillLine(b, s) ==
  /\ Used(b, s)
  /\ ~HasAllocations(b, s)
  /\ \E t \in Slot \ {s} : Used(b, t)
  /\ line' = [line EXCEPT ![b][s] = NoLine]
  /\ bill' = [bill EXCEPT ![b] = Recompute(bill[b], line'[b])]
  /\ UNCHANGED <<asmt, draft, payment, credit, debtCase, today>>

\* Defect: the foreign key of a superseded bill keeps its dangling value.
KeptLink(r, b) == r

\* superseded_by is on_delete=SET_NULL.
DroppedLink(r, b) == IF r.supersededBy = b THEN [r EXCEPT !.supersededBy = 0] ELSE r

\* BillViewSet.destroy: the assessments of its lines are deleted too, which
\* another bill's line on one of them PROTECTs.
DestroyBill(b) ==
  /\ Exists(b)
  /\ \A p \in PaymentId : payment[p].bill # b
  /\ \A s \in Slot, x \in BillId \ {b}, y \in Slot :
       Used(b, s) /\ Used(x, y) => line[b][s].home # line[x][y].home
  /\ bill' = [x \in BillId |->
       IF x = b THEN [NoBill EXCEPT !.status = "DELETED"] ELSE DroppedLink(bill[x], b)]
  /\ line' = [line EXCEPT ![b] = [s \in Slot |-> NoLine]]
  /\ asmt' = [x \in BillId |-> [t \in Slot |->
       IF \E s \in Slot : Used(b, s) /\ line[b][s].home = <<x, t>> THEN 0 ELSE asmt[x][t]]]
  /\ debtCase' = [debtCase EXCEPT ![b] = "ABSENT"]
  /\ UNCHANGED <<draft, payment, credit, today>>

-----------------------------------------------------------------------------
(* Money in and out. *)

\* Defect: the whole payment is booked on the bill, the overpaid part too.
PaidInFull(b, alloc, amount) ==
  Recompute([bill[b] EXCEPT !.paid = @ + amount], line[b])

\* The bill once a payment's allocations are booked on it.
Paid(b, alloc, amount) ==
  Recompute([bill[b] EXCEPT !.paid = @ + Applied(alloc)], line[b])

\* Defect: the status is looked at before the payment has settled it.
CaseBeforeSettling(b, settled) == IF bill[b].status = "PAID" THEN Closed({b}) ELSE debtCase

CaseAfterSettling(b, settled) == IF settled.status = "PAID" THEN Closed({b}) ELSE debtCase

\* post_payment: refuse a terminal bill, allocate, credit the leftover, and
\* close the debt case once the bill is paid.
PostPayment(p, b, amount) ==
  LET alloc == Allocation(b, amount)
      settled == Paid(b, alloc, amount)
  IN /\ NextPayment(p)
     /\ Live(b)
     /\ payment' = [payment EXCEPT ![p] =
          [bill |-> b, amount |-> amount, status |-> "CONFIRMED", alloc |-> alloc]]
     /\ bill' = [bill EXCEPT ![b] = settled]
     /\ credit' = [credit EXCEPT ![bill[b].payer] = @ + (amount - Applied(alloc))]
     /\ debtCase' = CaseAfterSettling(b, settled)
     /\ UNCHANGED <<line, asmt, draft, today>>

\* Defect: all of the payment is taken to have landed on the bill.
WholeAmount(p) == payment[p].amount

\* What a payment's own allocation rows say of it was applied.
AppliedBy(p) == Applied(payment[p].alloc)

\* reverse_payment: give back what was applied and claw back what was credited.
ReversePayment(p) ==
  LET b == payment[p].bill
      applied == AppliedBy(p)
  IN /\ payment[p].status = "CONFIRMED"
     /\ payment' = [payment EXCEPT ![p].status = "REVERSED"]
     /\ bill' = [bill EXCEPT ![b] =
          Recompute([bill[b] EXCEPT !.paid = Positive(@ - applied)], line[b])]
     /\ credit' = [credit EXCEPT ![bill[b].payer] = @ - (payment[p].amount - applied)]
     /\ UNCHANGED <<line, asmt, draft, debtCase, today>>

-----------------------------------------------------------------------------
(* Debt cases and the calendar. *)

\* Defect: the due date alone decides.
OverdueByDate(b) == Exists(b) /\ bill[b].due < today

IsOverdue(b) == bill[b].status \in OpenStatus /\ bill[b].due < today

\* refresh_debt, over every overdue bill of the council.
RefreshDebt ==
  /\ \E b \in BillId : IsOverdue(b)
  /\ bill' = [b \in BillId |->
       IF IsOverdue(b) THEN [bill[b] EXCEPT !.status = "OVERDUE"] ELSE bill[b]]
  /\ debtCase' = [b \in BillId |->
       IF IsOverdue(b) /\ debtCase[b] = "ABSENT" THEN "OPEN" ELSE debtCase[b]]
  /\ UNCHANGED <<line, asmt, draft, payment, credit, today>>

\* escalate, on the last step of the ladder (LEGAL to CLOSED); the earlier
\* steps stay inside OPEN.
EscalateToClosed(b) ==
  /\ debtCase[b] = "OPEN"
  /\ debtCase' = [debtCase EXCEPT ![b] = "CLOSED"]
  /\ UNCHANGED <<bill, line, asmt, draft, payment, credit, today>>

NextDay ==
  /\ today < MaxDay
  /\ today' = today + 1
  /\ UNCHANGED <<bill, line, asmt, draft, payment, credit, debtCase>>

-----------------------------------------------------------------------------
Init ==
  /\ bill = [b \in BillId |-> NoBill]
  /\ line = [b \in BillId |-> [s \in Slot |-> NoLine]]
  /\ asmt = [b \in BillId |-> [s \in Slot |-> 0]]
  /\ draft \in [Payer -> [Kind -> InitialDrafts]]
  /\ payment = [p \in PaymentId |-> NoPayment]
  /\ credit = [c \in Payer |-> 0]
  /\ debtCase = [b \in BillId |-> "ABSENT"]
  /\ today = 0

Issue ==
  \E b \in BillId, c \in Payer : NextBill(b) /\
    \E ask \in [Kind -> AskAmounts \cup {0}], sweep, roll \in BOOLEAN,
       force \in Forcing, due \in DueDates :
      IssueBill(b, c, ask, sweep, roll, force, due)

EditLines ==
  \E b \in BillId :
    \/ \E k \in Kind, amount \in EditAmounts : AddBillLine(b, k, amount)
    \/ \E s \in Slot, amount \in EditAmounts : UpdateBillLine(b, s, amount)
    \/ EditAmounts # {} /\ \E s \in Slot : DeleteBillLine(b, s)

Next ==
  \/ Issue
  \/ EditLines
  \/ \E b \in BillId : DestroyBill(b)
  \/ \E p \in PaymentId, b \in BillId, amount \in PayAmounts : PostPayment(p, b, amount)
  \/ \E p \in PaymentId : ReversePayment(p)
  \/ RefreshDebt
  \/ \E b \in BillId : EscalateToClosed(b)
  \/ NextDay

Spec == Init /\ [][Next]_vars

-----------------------------------------------------------------------------
(* Properties. *)

\* What each payment has put on bill b, and what each has left as credit of payer c.
PutOn(b) ==
  [p \in PaymentId |-> IF CountsOn(p, b) THEN Applied(payment[p].alloc) ELSE 0]
LeftTo(c) ==
  [p \in PaymentId |->
     IF payment[p].status = "CONFIRMED" /\ bill[payment[p].bill].payer = c
     THEN payment[p].amount - Applied(payment[p].alloc) ELSE 0]

\* amount_paid of a bill is the sum of what its confirmed payments allocated to
\* its lines, through every overpayment, reversal and status change
\* (post_payment adds the applied part, reverse_payment takes it back).
PaidIsAllocated == \A b \in BillId : bill[b].paid = SumTo(PutOn(b), MaxPayments)

\* credit_balance of a payer is the sum of the unallocated parts of the confirmed
\* payments on that payer's bills: no overpayment is lost and none credited twice.
CreditIsLeftover == \A c \in Payer : credit[c] = SumTo(LeftTo(c), MaxPayments)

\* After every handler a bill's rollups equal its lines, and a live bill is PAID
\* exactly when its lines are covered; ISSUED and PART_PAID tell whether money came in.
BillAgreesWithLines ==
  \A b \in BillId : Exists(b) =>
    /\ bill[b].total = LinesTotal(line[b]) /\ bill[b].arrears = LinesArrears(line[b])
    /\ Live(b) =>
         /\ bill[b].status = "PAID" <=> (bill[b].paid >= bill[b].total /\ bill[b].total > 0)
         /\ bill[b].status = "ISSUED" => bill[b].paid = 0
         /\ bill[b].status = "PART_PAID" => bill[b].paid > 0

\* No charge a payer is billed for in a year appears on a second live bill by
\* accident: a bill issued without force and without roll_arrears never stands
\* beside an older live bill of the same payer and year (the duplicate check
\* holds for as long as both bills exist, not only when it was made).
OneLiveBillPerYear ==
  \A a, b \in BillId :
    a < b /\ Live(a) /\ Live(b) /\ bill[a].payer = bill[b].payer
      /\ bill[a].year = bill[b].year => bill[b].via # "PLAIN"

\* A superseded bill names a later bill of the same payer that still exists, or
\* none if that bill was destroyed; so following superseded_by always ends.
SupersededPointsAhead ==
  \A b \in BillId : bill[b].supersededBy # 0 =>
    LET t == bill[b].supersededBy
    IN /\ bill[b].status = "SUPERSEDED"
       /\ t > b /\ Exists(t) /\ bill[t].payer = bill[b].payer

\* Terminal states refuse payment: once SUPERSEDED, a bill keeps that status until
\* it is destroyed and its amount_paid never grows.
TerminalIsFinal ==
  [][\A b \in BillId : bill[b].status = "SUPERSEDED" =>
       /\ bill'[b].status \in {"SUPERSEDED", "DELETED"}
       /\ bill'[b].paid <= bill[b].paid]_vars

\* What a payer owes on open bills, line by line.
OwedBy(c) ==
  SumTo([b \in BillId |-> IF b \in OpenOf(c)
                          THEN SumTo([s \in Slot |-> Owing(b, s)], MaxLines) ELSE 0],
        MaxBills)

\* Consolidation never double-counts and never forgives: issuing a bill, rolled or
\* not, raises what the payer owes by exactly the fresh charges on it.
IssueAddsFreshChargesOnly ==
  [][\A b \in BillId, c \in Payer :
       bill[b].status = "NONE" /\ bill'[b].status # "NONE" /\ bill'[b].payer = c =>
         OwedBy(c)' = OwedBy(c) + SumTo([s \in Slot |-> line'[b][s].current], MaxLines)]_vars

\* A payment is allocated oldest line first: no line gets more than it owed, a line
\* gets something only when all older lines end up covered, and money is left
\* over for credit only when every line ends up covered.
PaymentFillsOldestFirst ==
  [][\A p \in PaymentId, b \in BillId :
       payment[p].status = "NONE" /\ CountsOn(p, b)' =>
       LET got == payment'[p].alloc
           covered(s) == PaidOn(b, s)' >= LineAmount(line[b][s])
       IN /\ \A s \in Slot : got[s] <= Owing(b, s)
          /\ \A s, t \in Slot : t < s /\ got[s] > 0 => covered(t)
          /\ Applied(got) < payment'[p].amount => \A s \in Slot : covered(s)]_vars

\* Allocation history is never orphaned: every allocation row, of a reversed payment
\* too, belongs to a bill line that still exists.
AllocationsKeepTheirLine ==
  \A p \in PaymentId, s \in Slot :
    payment[p].alloc[s] > 0 => Used(payment[p].bill, s)

\* A superseded bill has no open debt case: consolidation closes it and nothing
\* reopens it.
SupersededHasNoOpenCase ==
  \A b \in BillId : bill[b].status = "SUPERSEDED" => debtCase[b] # "OPEN"

\* A case closes the moment its bill is fully paid (DebtCase docstring).
PaidBillHasNoOpenCase ==
  \A b \in BillId : bill[b].status = "PAID" => debtCase[b] # "OPEN"
=============================================================================
