------------------------------- MODULE Reports -------------------------------
(***************************************************************************)
(* What readers are told of the bill ledger: the dashboard of a portfolio  *)
(* and of the council (apps/common/api/dashboard.py) and the grouped       *)
(* reports (apps/common/api/reports.py), as functions of the state of      *)
(* module BillLedger.  Each figure is one query over committed rows.       *)
(*                                                                         *)
(* Dates, channels, the trend and the settlement columns are left out, as  *)
(* is the cut to the five largest items.                                   *)
(***************************************************************************)
EXTENDS BillLedger
LOCAL INSTANCE FiniteSetsExt

CONSTANTS
  Direct,  \* the council itself, in the place of a firm
  FirmOf,  \* payer -> the firm whose login enrolled it, or Direct
  WardOf,  \* payer -> ward
  Any,     \* a filter that is not set
  Asked    \* the reports that are read: reader, dimensions and filter of each

Reader == {FirmOf[c] : c \in Payer} \cup {Direct}
Ward == {WardOf[c] : c \in Payer}

\* portfolio_filter: a firm's people see the payers its people enrolled.
Portfolio(reader) == {c \in Payer : reader = Direct \/ FirmOf[c] = reader}

-----------------------------------------------------------------------------
(* The rows the queries run over. *)

\* Defect: only cancelled bills are left out.
NotCancelled(reader) ==
  {b \in BillId : Exists(b) /\ bill[b].status # "CANCELLED" /\ bill[b].payer \in Portfolio(reader)}

Billings(reader) == {b \in BillId : Live(b) /\ bill[b].payer \in Portfolio(reader)}

PayerOf(p) == bill[payment[p].bill].payer
Collections(reader) ==
  {p \in PaymentId : payment[p].status = "CONFIRMED" /\ PayerOf(p) \in Portfolio(reader)}

BillLines(bills) == {l \in bills \X Slot : Used(l[1], l[2])}

Fresh(b) == bill[b].total - bill[b].arrears
Balance(b) == bill[b].total - bill[b].paid
AmountOf(l) == LineAmount(line[l[1]][l[2]])

Billed(bills) == MapThenSumSet(Fresh, bills)
Collected(payments) == MapThenSumSet(LAMBDA p : payment[p].amount, payments)

\* values(...).annotate(...): one row per label, holding the measures of its rows.
Grouped(S, Label(_), Measures(_)) ==
  [k \in {Label(x) : x \in S} |-> Measures({x \in S : Label(x) = k})]

-----------------------------------------------------------------------------
(* The dashboard. *)

\* Defect: each line brings the total of its bill.
ByItemOfBills(bills) ==
  Grouped(BillLines(bills), LineItem, LAMBDA ls : MapThenSumSet(LAMBDA l : bill[l[1]].total, ls))

ByItem(bills) == Grouped(BillLines(bills), LineItem, LAMBDA ls : MapThenSumSet(AmountOf, ls))

\* DashboardSummaryView._compute
Summary(reader) ==
  LET bills == Billings(reader)
      billed == Billed(bills)
      collected == Collected(Collections(reader))
  IN [billed |-> billed, collected |-> collected, outstanding |-> billed - collected,
      bills |-> Cardinality(bills),
      bills_by_status |-> Grouped(bills, LAMBDA b : bill[b].status, Cardinality),
      assessments |-> Cardinality({line[l[1]][l[2]].home : l \in BillLines(bills)}),
      payers |-> Cardinality(Portfolio(reader)),
      by_item |-> ByItem(bills)]

FirmsOf(payments) == {FirmOf[PayerOf(p)] : p \in payments}
WardsOf(payments) == {WardOf[PayerOf(p)] : p \in payments}

\* DashboardGlobalView._compute: a row for every firm that has collected anything.
ByConsultant ==
  Grouped(Collections(Direct), LAMBDA p : FirmOf[PayerOf(p)],
          LAMBDA ps : [collected |-> Collected(ps),
                       billed |-> Billed({b \in Billings(Direct) : FirmOf[bill[b].payer] \in FirmsOf(ps)})])

\* What GLOBAL_VIEW gets of these rows: every firm rolled into one line.
Anonymized(rows) ==
  Grouped(DOMAIN rows, LAMBDA f : f = Direct,
          LAMBDA fs : [collected |-> MapThenSumSet(LAMBDA f : rows[f].collected, fs),
                       billed |-> MapThenSumSet(LAMBDA f : rows[f].billed, fs)])

ByWard ==
  Grouped(Collections(Direct), LAMBDA p : WardOf[PayerOf(p)],
          LAMBDA ps : [collected |-> Collected(ps),
                       payers |-> Cardinality({c \in Payer : WardOf[c] \in WardsOf(ps)})])

-----------------------------------------------------------------------------
(* The reports: at most two dimensions, filters on any of three. *)

Groupings == {dims \in SUBSET {"ward", "consultant", "revenue_item"} : Cardinality(dims) <= 2}
Filters == [ward : Ward \cup {Any}, consultant : Reader \cup {Any}, revenue_item : Item \cup {Any}]

ASSUME ReportConstants ==
  Asked \subseteq [reader : Reader, dims : Groupings, filter : Filters]

\* _apply_common_filters, on the payer.
Chosen(c, f) == f.ward \in {Any, WardOf[c]} /\ f.consultant \in {Any, FirmOf[c]}

LabelOf(dims, c, i) ==
  [d \in dims |-> CASE d = "ward" -> WardOf[c] [] d = "consultant" -> FirmOf[c] [] OTHER -> i]

\* _aggregate: without a dimension there is one row, empty or not.
Aggregate(S, dims, Label(_), Measures(_)) ==
  IF dims = {} THEN [k \in {<<>>} |-> Measures(S)] ELSE Grouped(S, Label, Measures)

\* Defect: the rows of the lines, each with its bill's columns, joined to the bills.
LineByLine(lines) ==
  [count |-> Cardinality({l[1] : l \in lines}),
   billed |-> MapThenSumSet(LAMBDA l : bill[l[1]].total, lines)]

LineMeasures(lines) ==
  [count |-> Cardinality({l[1] : l \in lines}), billed |-> MapThenSumSet(AmountOf, lines)]

BillMeasures(bills) ==
  [count |-> Cardinality(bills), billed |-> Billed(bills),
   arrears |-> MapThenSumSet(LAMBDA b : bill[b].arrears, bills),
   balance |-> MapThenSumSet(Balance, bills)]

\* _bills_report, grouped by revenue item: line by line ...
ItemReport(reader, dims, f) ==
  Aggregate({l \in BillLines(Billings(reader)) :
               Chosen(bill[l[1]].payer, f) /\ f.revenue_item \in {Any, LineItem(l)}},
            dims, LAMBDA l : LabelOf(dims, bill[l[1]].payer, LineItem(l)), LineMeasures)

\* ... and otherwise bill by bill, the item filter asking for a line that Exists.
BillsReport(reader, dims, f) ==
  Aggregate({b \in Billings(reader) :
               /\ Chosen(bill[b].payer, f)
               /\ f.revenue_item # Any => \E l \in BillLines({b}) : LineItem(l) = f.revenue_item},
            dims, LAMBDA b : LabelOf(dims, bill[b].payer, Any), BillMeasures)

PaymentsReport(reader, dims, f) ==
  Aggregate({p \in Collections(reader) : Chosen(PayerOf(p), f)}, dims,
            LAMBDA p : LabelOf(dims, PayerOf(p), Any),
            LAMBDA ps : [count |-> Cardinality(ps), amount |-> Collected(ps)])

PayersReport(reader, dims, f) ==
  Aggregate({c \in Portfolio(reader) : Chosen(c, f)}, dims, LAMBDA c : LabelOf(dims, c, Any), Cardinality)

-----------------------------------------------------------------------------
(* Properties. *)

NoFilter == [ward |-> Any, consultant |-> Any, revenue_item |-> Any]
Over(report, M(_)) == MapThenSumSet(LAMBDA k : M(report[k]), DOMAIN report)

\* The two ways of reading bills agree after any edit: for every report that is
\* asked for, the rows by revenue item add up to what the report without items calls billed
\* and arrears (_bills_report sums lines in one and bill columns in the other).
\* The figures of different screens agree: the summary with the reports, the rows of firms,
\* of wards and the anonymous ones with the summary (dashboard.py and reports.py).
ScreensAgree ==
  /\ \A q \in Asked :
         LET bills == BillsReport(q.reader, q.dims, q.filter)
             items == ItemReport(q.reader, q.dims \cup {"revenue_item"}, q.filter)
         IN \A k \in DOMAIN bills :
              bills[k].billed + bills[k].arrears
                = MapThenSumSet(LAMBDA i : items[i].billed, {i \in DOMAIN items : \A d \in q.dims : i[d] = k[d]})
  /\ LET whole == Summary(Direct)
           rows == ByConsultant
           Got(x) == x.collected
       IN /\ \A reader \in Reader :
               LET s == Summary(reader)
                   r == BillsReport(reader, {}, NoFilter)[<<>>]
               IN /\ s.billed = r.billed /\ s.bills = r.count
                  /\ s.collected = PaymentsReport(reader, {}, NoFilter)[<<>>].amount
                  /\ Over(s.by_item, LAMBDA x : x) = r.billed + r.arrears
                  /\ Over(PayersReport(reader, {"ward"}, NoFilter), LAMBDA x : x) = s.payers
          /\ Over(rows, Got) = whole.collected
          /\ Over(Anonymized(rows), Got) = whole.collected
          /\ Over(Anonymized(rows), LAMBDA x : x.billed) = Over(rows, LAMBDA x : x.billed)
          /\ Over(ByWard, Got) = whole.collected

\* As long as no line is edited, the balance a report shows for any choice of payers is
\* what their open bills owe, line by line, through overpayments, reversals and
\* consolidations (_bills_report: total_amount less amount_paid of every live bill).
BalanceIsOwed ==
  \A q \in Asked :
    LET rows == BillsReport(q.reader, q.dims, q.filter)
    IN Over(rows, LAMBDA row : row.balance)
         = MapThenSumSet(OwedBy, {c \in Portfolio(q.reader) : Chosen(c, q.filter)})

\* "keeping `billed - collected = outstanding` exact through a consolidation" (docs/TDD.md:106):
\* a consolidation raises the outstanding figure of the dashboard by its fresh charges.
ConsolidationKeepsOutstanding ==
  [][\A b \in BillId : bill[b].status = "NONE" /\ bill'[b].via = "ROLL" =>
       Summary(Direct).outstanding' = Summary(Direct).outstanding + Fresh(b)']_vars
=============================================================================
