----------------------------- MODULE Settlements -----------------------------
(***************************************************************************)
(* Commission settlements (apps/settlements): what a firm earned on the    *)
(* payments of its payers in a period, computed and recomputed on demand,  *)
(* moved from status to status, and broken down by bill, beside payments,  *)
(* reversals and changes of a firm's standing.  Requests overlap as in     *)
(* module Requests.                                                        *)
(*                                                                         *)
(* Amounts are in kobo.  A firm's name and its commission rate are fixed:  *)
(* no endpoint changes them.  Two firms may have the same name.  What a    *)
(* payment does to its bill is module BillLedger.                          *)
(***************************************************************************)
EXTENDS Requests, FiniteSetsExt, SequencesExt

CONSTANTS
  Firm,       \* consultant firms
  Name,       \* Firm -> the place of its name among the names, shared by namesakes
  Rate,       \* Firm -> commission rate in percent
  BillFirm,   \* bill -> the firm whose login enrolled its payer, 0 if the council did
  PaymentId,  \* 1..N those made by the requests
  Period,     \* first and last day of the periods computed
  FirstRows,  \* the rows there are from the start
  Workloads   \* the jobs the requests may have

Bill == DOMAIN BillFirm
Payment(p) == <<"payment", p>>
FirmRow(f) == <<"firm", f>>
Settlement(f, w) == <<"settlement", <<f, w>>>>

Payments == {Payment(p) : p \in PaymentId}
Settlements == {Settlement(f, w) : f \in Firm, w \in Period}
Row == Payments \cup {FirmRow(f) : f \in Firm} \cup Settlements

Status == {"COMPUTED", "APPROVED", "SETTLED", "DISPUTED"}
Kinds == {"PAY", "REVERSE", "STANDING", "COMPUTE", "STATUS"}

ASSUME SettlementConstants ==
  /\ N \in Nat /\ 1..N \subseteq PaymentId /\ Firm \subseteq Nat \ {0} /\ IsFiniteSet(Firm)
  /\ Name \in [Firm -> Nat] /\ Rate \in [Firm -> 0..100] /\ BillFirm \in [Bill -> Firm \cup {0}]
  /\ Period \subseteq Nat \X Nat
  /\ \A w \in Workloads : \A r \in Request :
       /\ w[r].kind \in Kinds /\ w[r].payment \in PaymentId
       /\ w[r].firm \in Firm /\ w[r].period \in Period /\ w[r].status \in Status

VARIABLES
  job,  \* Request -> what it does, fixed
  todo, \* Request -> the firms its computation has yet to settle
  seen  \* Request -> the gross it summed, or the settlement row it loaded

vars == <<job, at, todo, seen, row, shown, holder>>

PaymentRow == [bill : Bill, amount : Nat, day : Nat, status : {"CONFIRMED", "REVERSED"}]
SettlementRow == [gross : Nat, commission : Nat, status : Status]

RowsOK(v) ==
  /\ \A x \in Payments : v[x] \in PaymentRow \cup {Absent}
  /\ \A f \in Firm : v[FirmRow(f)] \in {"ACTIVE", "SUSPENDED"}
  /\ \A x \in Settlements : v[x] \in SettlementRow \cup {Absent}

ASSUME FirstRowsAreRows ==
  /\ DOMAIN FirstRows \subseteq Payments \cup Settlements
  /\ \A x \in DOMAIN FirstRows : FirstRows[x] \in IF x \in Payments THEN PaymentRow ELSE SettlementRow

TypeOK ==
  /\ job \in Workloads
  /\ at \in [Request -> {"pay", "check", "undo", "stand", "list", "sum", "save", "load", "store", "commit"} \cup Ended]
  /\ todo \in [Request -> Seq(Firm)]
  /\ RowsOK(row) /\ RowsOK(shown) /\ holder \in [Row -> 0..N]

-----------------------------------------------------------------------------
(* Sums. *)

\* Defect: the last day of a period ends as it begins.
UpToLastDay(day, w) == w[1] <= day /\ day < w[2]

\* date_span_bounds: from the first moment of the first day to the last of the last.
Within(day, w) == w[1] <= day /\ day <= w[2]

\* The payments of bill b that count for the period w, in the version v of the rows.
Counted(v, b, w) ==
  {x \in Payments : /\ v[x] # Absent /\ v[x].bill = b
                    /\ v[x].status = "CONFIRMED" /\ Within(v[x].day, w)}

Amounts(v, S) == MapThenSumSet(LAMBDA x : v[x].amount, S)

\* compute_settlements: the collections of a firm, over all its bills at once.
Gross(v, f, w) ==
  Amounts(v, {x \in Payments : /\ v[x] # Absent /\ BillFirm[v[x].bill] = f
                               /\ v[x].status = "CONFIRMED" /\ w[1] <= v[x].day /\ v[x].day <= w[2]})

\* quantize("0.01"): to the nearest kobo, a half to the even one.
Commission(gross, rate) ==
  LET kobo == (gross * rate) \div 100
      rest == (gross * rate) % 100
  IN IF rest > 50 \/ (rest = 50 /\ kobo % 2 = 1) THEN kobo + 1 ELSE kobo

\* _settlement_bill_rows: the bills behind a settlement, each with what it collected.
DrillDown(v, f, w) ==
  [b \in {c \in Bill : BillFirm[c] = f /\ Counted(v, c, w) # {}} |-> Amounts(v, Counted(v, b, w))]

-----------------------------------------------------------------------------
(* Steps. *)

Wants(r) ==
  CASE at[r] = "undo"  -> {Payment(job[r].payment)}
    [] at[r] = "stand" -> {FirmRow(job[r].firm)}
    [] at[r] = "save"  -> {Settlement(Head(todo[r]), job[r].period)}
    [] at[r] = "store" -> {Settlement(job[r].firm, job[r].period)}
    [] OTHER           -> {}

Stay == UNCHANGED <<job, todo, seen>>
Refuse(r) == Go(r, "refused") /\ ReadOnly /\ Stay

\* post_payment and reverse_payment, as far as settlements see them.
Pay(r) ==
  /\ at[r] = "pay"
  /\ Put(r, Payment(r), [bill |-> job[r].bill, amount |-> job[r].amount,
                          day |-> job[r].day, status |-> "CONFIRMED"])
  /\ Go(r, "commit") /\ Stay

Confirmed(x) == shown[x] # Absent /\ shown[x].status = "CONFIRMED"

\* reverse_payment looks at the payment ...
CheckPayment(r) ==
  /\ at[r] = "check"
  /\ Go(r, IF Confirmed(Payment(job[r].payment)) THEN "undo" ELSE "refused")
  /\ ReadOnly /\ Stay

\* ... locks it and marks it, even if it was reversed meanwhile.
ReversePayment(r) ==
  LET x == Payment(job[r].payment)
  IN /\ at[r] = "undo"
     /\ Put(r, x, [row[x] EXCEPT !.status = "REVERSED"])
     /\ Go(r, "commit") /\ Stay

\* A firm is suspended or taken back.
ChangeStanding(r) ==
  /\ at[r] = "stand"
  /\ Put(r, FirmRow(job[r].firm), job[r].standing)
  /\ Go(r, "commit") /\ Stay

\* Every order the database may return rows in; where Listings is meant, a defect.
AnyOrder(S) == SetToSeqs(S)

\* The order of SubConsultant.Meta: by name alone, so that namesakes come in any order.
Listings(S) ==
  {firms \in AnyOrder(S) : \A i, j \in DOMAIN firms : i < j => Name[firms[i]] <= Name[firms[j]]}

\* compute_settlements lists the active firms once ...
ListFirms(r) ==
  /\ at[r] = "list"
  /\ \E firms \in Listings({f \in Firm : shown[FirmRow(f)] = "ACTIVE"}) :
       /\ todo' = [todo EXCEPT ![r] = firms]
       /\ Go(r, IF firms = <<>> THEN "commit" ELSE "sum")
  /\ ReadOnly /\ UNCHANGED <<job, seen>>

\* ... sums each one's collections ...
SumGross(r) ==
  /\ at[r] = "sum"
  /\ seen' = [seen EXCEPT ![r] = Gross(shown, Head(todo[r]), job[r].period)]
  /\ Go(r, "save")
  /\ ReadOnly /\ UNCHANGED <<job, todo>>

\* ... and creates its settlement or overwrites the one there is, whatever its status.
SaveComputed(r) ==
  LET f == Head(todo[r])
  IN /\ at[r] = "save"
     /\ Put(r, Settlement(f, job[r].period),
               [gross |-> seen[r], commission |-> Commission(seen[r], Rate[f]), status |-> "COMPUTED"])
     /\ todo' = [todo EXCEPT ![r] = Tail(@)]
     /\ Go(r, IF Len(todo[r]) = 1 THEN "commit" ELSE "sum")
     /\ UNCHANGED <<job, seen>>

\* _ALLOWED_STATUS_TRANSITIONS
Allowed ==
  [COMPUTED |-> {"APPROVED", "DISPUTED"}, APPROVED |-> {"SETTLED", "DISPUTED"},
   DISPUTED |-> {"APPROVED"}, SETTLED |-> {}]

MayMove(x, status) == shown[x] # Absent /\ status \in Allowed[shown[x].status]

\* status_change looks at the settlement ...
LoadSettlement(r) ==
  LET x == Settlement(job[r].firm, job[r].period)
  IN /\ at[r] = "load"
     /\ \/ /\ MayMove(x, job[r].status)
           /\ seen' = [seen EXCEPT ![r] = shown[x]]
           /\ Go(r, "store") /\ ReadOnly /\ UNCHANGED <<job, todo>>
        \/ ~MayMove(x, job[r].status) /\ Refuse(r)

\* Defect: the row that was loaded is saved whole.
SavedWhole(r, current) == [seen[r] EXCEPT !.status = job[r].status]

\* save(update_fields): the other columns stay as they are by then.
Saved(r, current) == [current EXCEPT !.status = job[r].status]

\* ... and saves the new status.
SaveStatus(r) ==
  LET x == Settlement(job[r].firm, job[r].period)
  IN /\ at[r] = "store"
     /\ Put(r, x, Saved(r, row[x]))
     /\ Go(r, "commit") /\ Stay

Commit(r) ==
  /\ at[r] = "commit"
  /\ Publish(r)
  /\ Go(r, "done") /\ Stay

\* r waits for itself through others.
InCircle(r) == InWaitCycle(r, [q \in Request |-> Wants(q)])

\* PostgreSQL's deadlock detector picks a request of a circle, which is rolled back.
Abort(r) ==
  /\ InCircle(r)
  /\ Undo(HeldBy(r))
  /\ Go(r, "failed") /\ Stay

First == [PAY |-> "pay", REVERSE |-> "check", STANDING |-> "stand", COMPUTE |-> "list", STATUS |-> "load"]

Init ==
  /\ job \in Workloads
  /\ at = [r \in Request |-> First[job[r].kind]]
  /\ todo = [r \in Request |-> <<>>]
  /\ seen = [r \in Request |-> 0]
  /\ row = [x \in Row |-> IF x \in DOMAIN FirstRows THEN FirstRows[x] ELSE IF x[1] = "firm" THEN "ACTIVE" ELSE Absent]
  /\ shown = row
  /\ holder = [x \in Row |-> 0]

Work(r) ==
  \/ Pay(r) \/ CheckPayment(r) \/ ReversePayment(r) \/ ChangeStanding(r)
  \/ ListFirms(r) \/ SumGross(r) \/ SaveComputed(r)
  \/ LoadSettlement(r) \/ SaveStatus(r) \/ Commit(r) \/ Abort(r)

AllEnded == (\A r \in Request : at[r] \in Ended) /\ UNCHANGED vars

Next == (\E r \in Request : Work(r)) \/ AllEnded

Spec == Init /\ [][Next]_vars

-----------------------------------------------------------------------------
(* Properties. *)

\* The two queries agree: however payments and reversals fall about the ends of a
\* period, the bills behind a settlement add up to the gross that a computation would
\* find, and their shares of the commission to the commission, give or take half a kobo
\* for each rounding (_settlement_bill_rows and compute_settlements).
DrillDownAddsUp ==
  \A f \in Firm, w \in Period :
    LET bills == DrillDown(shown, f, w)
        shares == MapThenSumSet(LAMBDA b : Commission(bills[b], Rate[f]), DOMAIN bills)
        whole == Commission(Gross(shown, f, w), Rate[f])
        roundings == Cardinality(DOMAIN bills) + 1
    IN /\ MapThenSumSet(LAMBDA b : bills[b], DOMAIN bills) = Gross(shown, f, w)
       /\ 2 * (shares - whole) <= roundings /\ 2 * (whole - shares) <= roundings

\* What a settlement pays changes by a computation of its period and by nothing else: a
\* status change that overlaps one never brings the old amounts back (status_change).
AmountsChangeByComputation ==
  [][\A x \in Settlements :
       shown[x] # Absent /\ (shown'[x].gross # shown[x].gross \/ shown'[x].commission # shown[x].commission) =>
         \E r \in Request : job[r].kind = "COMPUTE" /\ at[r] = "commit" /\ at'[r] = "done" /\ job[r].period = x[2][2]]_vars

\* Computations and status changes that overlap wait for each other in a circle only where
\* the order of the firms leaves a tie: whoever is in a circle computes, and has settled a
\* namesake of the firm it waits for (SubConsultant.Meta.ordering, compute_settlements).
CirclesAreOfNamesakes ==
  \A r \in Request : InCircle(r) =>
    /\ at[r] = "save"
    /\ \E g \in Firm : /\ g # Head(todo[r]) /\ Name[g] = Name[Head(todo[r])]
                      /\ holder[Settlement(g, job[r].period)] = r
=============================================================================
