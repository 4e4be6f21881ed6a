----------------------------- MODULE MoneyPath ------------------------------
(***************************************************************************)
(* Requests of one payer that overlap in time, each one database           *)
(* transaction from its first read to its commit (CouncilContextMiddleware *)
(* opens it) under PostgreSQL READ COMMITTED: post_payment,                *)
(* reverse_payment, issue_bill with and without roll_arrears,              *)
(* update_bill_line and refresh_debt, cut into steps wherever they read    *)
(* outside a lock, wait for a row lock or commit.  BillLedger models the   *)
(* same services one at a time and in full; here a bill is one line, and   *)
(* one payer and one year suffice because only they share rows.            *)
(*                                                                         *)
(* shown holds the committed version of every row, row the newest one; a   *)
(* request sees shown and its own writes.  Row locks are taken by SELECT   *)
(* FOR UPDATE and by UPDATE and held until the request ends.  A row that a *)
(* request creates is named after the request.                             *)
(***************************************************************************)
EXTENDS Totals

CONSTANTS
  N,          \* requests 1..N
  M,          \* bills 1..M of an earlier year, past their due date
  OldCharge,  \* what each of them charges
  Workloads   \* the jobs the requests may have

Request == 1..N
BillId == 1..(M + N)
NewBill(r) == M + r

\* ref: the bill to pay or edit, or the payment (request) to reverse; amount: of the
\* payment, of the fresh charges, or the new one of the line.
Job == [kind : {"PAY", "EDIT"}, ref : BillId, amount : Nat]
         \cup [kind : {"REVERSE"}, ref : Request, amount : Nat]
         \cup [kind : {"ISSUE", "ROLL", "REFRESH"}, ref : {0}, amount : Nat]

ASSUME PathConstants ==
  /\ N \in Nat /\ M \in Nat /\ OldCharge \in Nat \ {0}
  /\ Workloads \subseteq [Request -> Job]
  \* One nightly refresh at a time: a second one would fail on the unique debt_case.bill.
  /\ \A w \in Workloads : \A q, r \in Request :
       w[q].kind = "REFRESH" /\ w[r].kind = "REFRESH" => q = r

\* Rows that requests contend for.
Payer == <<"payer", 0>>
Bill(b) == <<"bill", b>>
Line(b) == <<"line", b>>
Case(b) == <<"case", b>>
Payment(r) == <<"payment", r>>
Row == {Payer} \cup {Bill(b) : b \in BillId} \cup {Line(b) : b \in BillId}
         \cup {Case(b) : b \in BillId} \cup {Payment(r) : r \in Request}

\* PostgreSQL row locks, numbered so that two conflict iff they add up to more than 3.
KeyShare == 1       \* foreign-key checks
NoKeyUpdate == 2    \* UPDATE
ForUpdate == 3      \* select_for_update()

VARIABLES
  job,    \* Request -> Job, fixed
  at,     \* Request -> the step it is at
  row,    \* Row -> newest version
  shown,  \* Row -> committed version
  lock,   \* Row -> Request -> lock strength held, 0 if none
  on,     \* Request -> the bill it is working on
  copy,   \* Request -> the bill row it read under its lock
  todo,   \* Request -> what its query returned and its loop has yet to visit
  took    \* Request -> the open bills issue_bill has locked

vars == <<job, at, row, shown, lock, on, copy, todo, took>>
data == <<row, shown, lock>>
locals == <<on, copy, todo, took>>

OpenStatus == {"ISSUED", "PART_PAID", "OVERDUE"}
BillStatus == OpenStatus \cup {"NONE", "PAID", "SUPERSEDED"}
Ended == {"done", "refused", "aborted"}
Steps == {"idle", "lock", "post", "credit", "hold", "undo", "issue", "scan", "roll", "open",
          "refresh", "mark", "case", "edit", "read", "settle", "commit"} \cup Ended

BillRow ==
  [status : BillStatus, paid : Nat, total : Nat, arrears : Nat, supersededBy : 0..(M + N)]
PaymentRow ==
  [status : {"NONE", "CONFIRMED", "REVERSED"}, bill : 0..(M + N), amount : Nat, applied : Nat]
NoBill == [status |-> "NONE", paid |-> 0, total |-> 0, arrears |-> 0, supersededBy |-> 0]
NoPayment == [status |-> "NONE", bill |-> 0, amount |-> 0, applied |-> 0]

RowsOK(r) ==
  /\ DOMAIN r = Row /\ r[Payer] \in Int
  /\ \A b \in BillId : r[Bill(b)] \in BillRow /\ r[Line(b)] \in Nat /\ r[Case(b)] \in {"ABSENT", "OPEN", "CLOSED"}
  /\ \A p \in Request : r[Payment(p)] \in PaymentRow

TypeOK ==
  /\ job \in Workloads
  /\ at \in [Request -> Steps]
  /\ RowsOK(row) /\ RowsOK(shown)
  /\ lock \in [Row -> [Request -> 0..3]]
  /\ on \in [Request -> 0..(M + N)]
  /\ copy \in [Request -> BillRow]
  /\ todo \in [Request -> SUBSET (BillId \X BillStatus)]
  /\ took \in [Request -> SUBSET BillId]

-----------------------------------------------------------------------------
(* Row locks and versions. *)

Free(r, x, mode) == \A q \in Request \ {r} : lock[x][q] + mode <= 3

\* The locks on a row when r gets one of this mode, unless it holds one as strong.
Raised(locks, r, mode) == [locks EXCEPT ![r] = IF @ < mode THEN mode ELSE @]

\* SELECT ... FOR UPDATE of one row.
Acquire(r, x, mode) ==
  /\ Free(r, x, mode)
  /\ lock' = [lock EXCEPT ![x] = Raised(@, r, mode)]
  /\ UNCHANGED <<row, shown>>

\* UPDATE or INSERT of the rows of the function new, once those of read are locked.
WriteLocking(r, new, read) ==
  /\ \A x \in DOMAIN new : Free(r, x, NoKeyUpdate)
  /\ \A x \in read : Free(r, x, ForUpdate)
  /\ row' = [x \in Row |-> IF x \in DOMAIN new THEN new[x] ELSE row[x]]
  /\ lock' = [x \in Row |-> IF x \in read THEN Raised(lock[x], r, ForUpdate)
                           ELSE IF x \in DOMAIN new THEN Raised(lock[x], r, NoKeyUpdate)
                           ELSE lock[x]]
  /\ UNCHANGED shown

Write(r, new) == WriteLocking(r, new, {})

Wrote(r, x) == lock[x][r] >= NoKeyUpdate
Released(r) == [x \in Row |-> [lock[x] EXCEPT ![r] = 0]]
Go(r, step) == at' = [at EXCEPT ![r] = step]

Rollback(r, step) ==
  /\ row' = [x \in Row |-> IF Wrote(r, x) THEN shown[x] ELSE row[x]]
  /\ lock' = Released(r)
  /\ Go(r, step)
  /\ UNCHANGED <<job, shown, locals>>

-----------------------------------------------------------------------------
(* What a request reads of committed rows. *)

\* Confirmed allocations of a bill, payment by payment.
PutOn(b) ==
  [p \in Request |-> LET y == shown[Payment(p)]
                     IN IF y.status = "CONFIRMED" /\ y.bill = b THEN y.applied ELSE 0]

\* Defect for the mutation runs: earlier payments are forgotten.
WholeCharge(b) == shown[Line(b)]

\* What the line of b still owes.
Owing(b) == Positive(shown[Line(b)] - SumTo(PutOn(b), N))

Leftover(y) == y.amount - y.applied

IsOpen(b) == shown[Bill(b)].status \in OpenStatus
PastDue(b) == b <= M

\* The rows a loop is to visit, with the status the query saw.
Found(bills) == {<<b, shown[Bill(b)].status>> : b \in bills}

\* recompute_bill, by request r on the copy x it holds of bill b: the total of the line
\* as it sees it, and the status that follows.
Settle(r, b, x) ==
  LET total == IF Wrote(r, Line(b)) THEN row[Line(b)] ELSE shown[Line(b)]
  IN [x EXCEPT !.total = total,
               !.status = IF @ = "SUPERSEDED" THEN @
                          ELSE IF x.paid >= total /\ total > 0 THEN "PAID"
                          ELSE IF PastDue(b) THEN "OVERDUE"
                          ELSE IF x.paid > 0 THEN "PART_PAID" ELSE "ISSUED"]

\* close_debt_case_for_bill: the cases it closes.
OpenCases(bills) == {Case(b) : b \in {c \in bills : shown[Case(c)] = "OPEN"}}

-----------------------------------------------------------------------------
(* post_payment and reverse_payment. *)

\* Defects: the rows are read without a lock.
NoBillLock == 0
NoOpenLock == 0
NoPayerLock == 0

BillLock == ForUpdate    \* of the bill being paid or refunded
OpenLock == ForUpdate    \* of the bills rolled up
PayerLock == ForUpdate   \* of the payer being billed

\* The view loads the bill, and post_payment looks at the status of that copy only.
BeginPayment(r) ==
  LET b == job[r].ref
  IN /\ job[r].kind = "PAY" /\ at[r] = "idle"
     /\ shown[Bill(b)].status # "NONE"
     /\ Go(r, IF shown[Bill(b)].status = "SUPERSEDED" THEN "refused" ELSE "lock")
     /\ on' = [on EXCEPT ![r] = b]
     /\ UNCHANGED <<job, data, copy, todo, took>>

\* The bill is read afresh under its lock; nobody looks at its status again.
LockBill(r) ==
  /\ at[r] = "lock"
  /\ Acquire(r, Bill(on[r]), BillLock)
  /\ copy' = [copy EXCEPT ![r] = shown[Bill(on[r])]]
  /\ Go(r, IF job[r].kind = "PAY" THEN "post" ELSE "undo")
  /\ UNCHANGED <<job, on, todo, took>>

\* Payment row, allocation to the line once it is locked, amount_paid, status and
\* debt case; the line stays locked.
PostPayment(r) ==
  LET b == on[r]
      amount == job[r].amount
  IN /\ at[r] = "post"
     /\ \E applied \in {Least(amount, Owing(b))} :
        \E settled \in {Settle(r, b, [copy[r] EXCEPT !.paid = @ + applied])} :
        \E closed \in {IF settled.status = "PAID" THEN OpenCases({b}) ELSE {}} :
          /\ WriteLocking(r,
               [x \in {Bill(b), Payment(r)} \cup closed |->
                  IF x = Bill(b) THEN settled
                  ELSE IF x = Payment(r)
                    THEN [status |-> "CONFIRMED", bill |-> b, amount |-> amount, applied |-> applied]
                  ELSE "CLOSED"],
               {Line(b)})
          /\ Go(r, IF applied < amount THEN "credit" ELSE "commit")
     /\ UNCHANGED <<job, locals>>

\* reverse_payment looks at the status of the copy the view loaded ...
BeginReversal(r) ==
  LET y == shown[Payment(job[r].ref)]
  IN /\ job[r].kind = "REVERSE" /\ at[r] = "idle"
     /\ y.status # "NONE"
     /\ Go(r, IF y.status = "CONFIRMED" THEN "hold" ELSE "refused")
     /\ UNCHANGED <<job, data, locals>>

\* Defect: the payer whose credit may go back is locked with the payment, before the bill.
LockPaymentAndPayer(r) ==
  /\ at[r] = "hold"
  /\ WriteLocking(r, [x \in {} |-> 0], {Payment(job[r].ref), Payer})
  /\ on' = [on EXCEPT ![r] = shown[Payment(job[r].ref)].bill]
  /\ Go(r, "lock")
  /\ UNCHANGED <<job, copy, todo, took>>

\* ... then locks the payment, and the bill after it.
LockPayment(r) ==
  /\ at[r] = "hold"
  /\ Acquire(r, Payment(job[r].ref), ForUpdate)
  /\ on' = [on EXCEPT ![r] = shown[Payment(job[r].ref)].bill]
  /\ Go(r, "lock")
  /\ UNCHANGED <<job, copy, todo, took>>

Refunded(r, y) == [copy[r] EXCEPT !.paid = Positive(@ - y.applied)]

UndoPayment(r) ==
  LET b == on[r]
      p == job[r].ref
      y == shown[Payment(p)]
  IN /\ at[r] = "undo"
     /\ Write(r, [x \in {Bill(b), Payment(p)} |->
                    IF x = Bill(b) THEN Settle(r, b, Refunded(r, y))
                    ELSE [y EXCEPT !.status = "REVERSED"]])
     /\ Go(r, IF Leftover(y) > 0 THEN "credit" ELSE "commit")
     /\ UNCHANGED <<job, locals>>

\* Defect: a reversal leaves the credit with the payer.
CreditGiven(r) == IF job[r].kind = "PAY" THEN Leftover(row[Payment(r)]) ELSE 0

CreditChange(r) ==
  IF job[r].kind = "PAY" THEN Leftover(row[Payment(r)]) ELSE -Leftover(row[Payment(job[r].ref)])

\* UPDATE payer SET credit_balance = credit_balance +/- leftover.
CreditPayer(r) ==
  /\ at[r] = "credit"
  /\ Write(r, [x \in {Payer} |-> row[x] + CreditChange(r)])
  /\ Go(r, "commit")
  /\ UNCHANGED <<job, locals>>

-----------------------------------------------------------------------------
(* issue_bill. *)

LockPayer(r) ==
  /\ job[r].kind \in {"ISSUE", "ROLL"} /\ at[r] = "idle"
  /\ Acquire(r, Payer, PayerLock)
  /\ Go(r, IF job[r].kind = "ISSUE" THEN "issue" ELSE "scan")
  /\ UNCHANGED <<job, locals>>

NewRow(fresh, arrears) ==
  [NoBill EXCEPT !.status = "ISSUED", !.total = fresh + arrears, !.arrears = arrears]

HasBillThisYear ==
  \E q \in Request : shown[Bill(NewBill(q))].status \notin {"NONE", "SUPERSEDED"}

\* Without force or roll_arrears: DuplicateBill, or a bill of fresh charges.
IssueBill(r) ==
  /\ at[r] = "issue"
  /\ \/ HasBillThisYear /\ Rollback(r, "refused")
     \/ /\ ~HasBillThisYear
        /\ Write(r, [x \in {Bill(NewBill(r)), Line(NewBill(r))} |->
                       IF x = Bill(NewBill(r)) THEN NewRow(job[r].amount, 0) ELSE job[r].amount])
        /\ Go(r, "commit")
        /\ UNCHANGED <<job, locals>>

\* SELECT ... FOR UPDATE of the open bills: the snapshot of the query ...
ScanOpenBills(r) ==
  /\ at[r] = "scan"
  /\ todo' = [todo EXCEPT ![r] = Found({b \in BillId : IsOpen(b)})]
  /\ Go(r, "roll")
  /\ UNCHANGED <<job, data, on, copy, took>>

\* ... its rows, in no particular order ...
NextOpenBill(r) ==
  /\ at[r] = "roll"
  /\ \E e \in todo[r] :
       /\ on' = [on EXCEPT ![r] = e[1]]
       /\ todo' = [todo EXCEPT ![r] = @ \ {e}]
  /\ Go(r, "open")
  /\ UNCHANGED <<job, data, copy, took>>

\* ... each locked, and returned only if it is still open by then.
LockOpenBill(r) ==
  /\ at[r] = "open"
  /\ Acquire(r, Bill(on[r]), OpenLock)
  /\ took' = [took EXCEPT ![r] = IF IsOpen(on[r]) THEN @ \cup {on[r]} ELSE @]
  /\ Go(r, "roll")
  /\ UNCHANGED <<job, on, copy, todo>>

\* Defect: the whole of each bill is carried forward.
ChargedOn(bills) ==
  SumTo([b \in BillId |-> IF b \in bills THEN shown[Bill(b)].total ELSE 0], M + N)

OwedOn(bills) == SumTo([b \in BillId |-> IF b \in bills THEN Owing(b) ELSE 0], M + N)

\* The bills locked are superseded, their cases closed and their debt carried over.
Supersede(r) ==
  LET b == NewBill(r)
      old == {Bill(c) : c \in took[r]}
  IN /\ at[r] = "roll" /\ todo[r] = {}
     /\ \E owed \in {OwedOn(took[r])}, closed \in {OpenCases(took[r])} :
          Write(r, [x \in {Bill(b), Line(b)} \cup old \cup closed |->
                      IF x = Bill(b) THEN NewRow(job[r].amount, owed)
                      ELSE IF x = Line(b) THEN job[r].amount + owed
                      ELSE IF x \in old
                        THEN [row[x] EXCEPT !.status = "SUPERSEDED", !.supersededBy = b]
                      ELSE "CLOSED"])
     /\ Go(r, "commit")
     /\ UNCHANGED <<job, locals>>

-----------------------------------------------------------------------------
(* refresh_debt. *)

ScanOverdueBills(r) ==
  /\ job[r].kind = "REFRESH" /\ at[r] = "idle"
  /\ todo' = [todo EXCEPT ![r] = Found({b \in BillId : IsOpen(b) /\ PastDue(b)})]
  /\ Go(r, "refresh")
  /\ UNCHANGED <<job, data, on, copy, took>>

NextOverdueBill(r) ==
  /\ at[r] = "refresh"
  /\ \E e \in todo[r] :
       /\ on' = [on EXCEPT ![r] = e[1]]
       /\ todo' = [todo EXCEPT ![r] = @ \ {e}]
       /\ Go(r, IF e[2] = "OVERDUE" THEN "case" ELSE "mark")
  /\ UNCHANGED <<job, data, copy, took>>

\* The update waits for the row, then sets the status whatever it has become.
MarkOverdue(r) ==
  /\ at[r] = "mark"
  /\ Write(r, [x \in {Bill(on[r])} |-> [row[x] EXCEPT !.status = "OVERDUE"]])
  /\ Go(r, "case")
  /\ UNCHANGED <<job, locals>>

OpenCase(r) ==
  /\ at[r] = "case"
  /\ IF shown[Case(on[r])] = "ABSENT" THEN Write(r, [x \in {Case(on[r])} |-> "OPEN"]) ELSE UNCHANGED data
  /\ Go(r, "refresh")
  /\ UNCHANGED <<job, locals>>

-----------------------------------------------------------------------------
(* update_bill_line: the line is written first, the bill after it, and neither is
   read under a lock. *)

BeginEdit(r) ==
  LET b == job[r].ref
  IN /\ job[r].kind = "EDIT" /\ at[r] = "idle"
     /\ shown[Bill(b)].status # "NONE"
     /\ Go(r, IF job[r].amount > 0 /\ job[r].amount >= shown[Bill(b)].arrears THEN "edit" ELSE "refused")
     /\ on' = [on EXCEPT ![r] = b]
     /\ UNCHANGED <<job, data, copy, todo, took>>

EditLine(r) ==
  /\ at[r] = "edit"
  /\ Write(r, [x \in {Line(on[r])} |-> job[r].amount])
  /\ Go(r, "read")
  /\ UNCHANGED <<job, locals>>

\* line.bill is fetched for recompute_bill ...
ReadBill(r) ==
  /\ at[r] = "read"
  /\ copy' = [copy EXCEPT ![r] = shown[Bill(on[r])]]
  /\ Go(r, "settle")
  /\ UNCHANGED <<job, data, on, todo, took>>

\* Defect: the bill is saved whole, as it was read.
SavedWhole(b, settled) == settled

\* Only total and status are saved: amount_paid stays what it is by now.
SavedFields(b, settled) ==
  [row[Bill(b)] EXCEPT !.total = settled.total, !.status = settled.status]

\* ... and its UPDATE waits for the row, with the status found before.
SettleBill(r) ==
  LET b == on[r]
  IN /\ at[r] = "settle"
     /\ Write(r, [x \in {Bill(b)} |-> SavedFields(b, Settle(r, b, copy[r]))])
     /\ Go(r, "commit")
     /\ UNCHANGED <<job, locals>>

-----------------------------------------------------------------------------
(* The end of a request. *)

\* Foreign keys are checked at commit, with a KEY SHARE lock on the row referred to.
InsertedCases(r) == {b \in BillId : Wrote(r, Case(b)) /\ shown[Case(b)] = "ABSENT"}

Commit(r) ==
  /\ at[r] = "commit" \/ (at[r] = "refresh" /\ todo[r] = {})
  /\ \A b \in InsertedCases(r) : Free(r, Bill(b), KeyShare)
  /\ shown' = [x \in Row |-> IF Wrote(r, x) THEN row[x] ELSE shown[x]]
  /\ lock' = Released(r)
  /\ Go(r, "done")
  /\ UNCHANGED <<job, row, locals>>

\* The row a request waits for, with the lock it needs.
Wanted(r) ==
  CASE at[r] = "hold"   -> {<<Payment(job[r].ref), ForUpdate>>}
    [] at[r] = "lock"   -> {<<Bill(on[r]), BillLock>>}
    [] at[r] = "open"   -> {<<Bill(on[r]), OpenLock>>}
    [] at[r] = "credit" -> {<<Payer, NoKeyUpdate>>}
    [] at[r] \in {"mark", "settle"} -> {<<Bill(on[r]), NoKeyUpdate>>}
    [] at[r] = "post"   -> {<<Line(on[r]), ForUpdate>>}
    [] at[r] = "edit"   -> {<<Line(on[r]), NoKeyUpdate>>}
    [] at[r] = "refresh" /\ todo[r] = {} -> {<<Bill(b), KeyShare>> : b \in InsertedCases(r)}
    [] OTHER            -> {}

WaitsFor(r, q) == q # r /\ \E w \in Wanted(r) : lock[w[1]][q] + w[2] > 3

\* r waits for itself, directly or through others of R: it lies in every set that holds
\* whom it waits for and, with a request, whom that one waits for.
WaitsInCircle(r, R) ==
  LET ahead == [p \in R |-> {q \in R : WaitsFor(p, q)}]
  IN /\ ahead[r] # {}
     /\ \A S \in SUBSET R : (\A p \in S \cup {r} : ahead[p] \subseteq S) => r \in S

\* PostgreSQL's deadlock detector picks a request of the circle.
Abort(r) == WaitsInCircle(r, Request) /\ Rollback(r, "aborted")

-----------------------------------------------------------------------------
Init ==
  /\ job \in Workloads
  /\ at = [r \in Request |-> "idle"]
  /\ \E status \in {"ISSUED", "OVERDUE"}, stage \in {"ABSENT", "OPEN"} :
       /\ stage = "OPEN" => status = "OVERDUE"
       /\ row = [x \in Row |->
            IF x = Payer THEN 0
            ELSE IF x[1] = "payment" THEN NoPayment
            ELSE IF x[1] = "case" THEN (IF x[2] <= M THEN stage ELSE "ABSENT")
            ELSE IF x[1] = "line" THEN (IF x[2] <= M THEN OldCharge ELSE 0)
            ELSE IF x[2] <= M THEN [NoBill EXCEPT !.status = status, !.total = OldCharge]
            ELSE NoBill]
  /\ shown = row
  /\ lock = [x \in Row |-> [r \in Request |-> 0]]
  /\ on = [r \in Request |-> 0]
  /\ copy = [r \in Request |-> NoBill]
  /\ todo = [r \in Request |-> {}]
  /\ took = [r \in Request |-> {}]

Step(r) ==
  \/ BeginPayment(r) \/ LockBill(r) \/ PostPayment(r)
  \/ BeginReversal(r) \/ LockPayment(r) \/ UndoPayment(r)
  \/ CreditPayer(r)
  \/ LockPayer(r) \/ IssueBill(r)
  \/ ScanOpenBills(r) \/ NextOpenBill(r) \/ LockOpenBill(r) \/ Supersede(r)
  \/ ScanOverdueBills(r) \/ NextOverdueBill(r) \/ MarkOverdue(r) \/ OpenCase(r)
  \/ BeginEdit(r) \/ EditLine(r) \/ ReadBill(r) \/ SettleBill(r)
  \/ Commit(r) \/ Abort(r)

\* A request may name a row that never comes to exist.
NeverBegins(r) ==
  /\ at[r] = "idle"
  /\ \/ job[r].kind \in {"PAY", "EDIT"} /\ shown[Bill(job[r].ref)].status = "NONE"
     \/ job[r].kind = "REVERSE" /\ shown[Payment(job[r].ref)].status = "NONE"

AllEnded ==
  /\ \A r \in Request : at[r] \in Ended \/ NeverBegins(r)
  /\ UNCHANGED vars

Next == (\E r \in Request : Step(r)) \/ AllEnded

\* As long as some request can go on, one does: worker threads run, and the database
\* grants a lock that is free.  Nothing is said of which.
Spec == Init /\ [][Next]_vars /\ WF_vars(\E r \in Request : Step(r))

-----------------------------------------------------------------------------
(* Properties of what is committed. *)

\* No money is lost or spent twice by overlapping payments, reversals, line edits and the
\* nightly refresh: amount_paid is what the confirmed payments applied (post_payment locks
\* the bill, recompute_bill leaves the column alone), a payment never takes a line beyond
\* what it charges by then ("can never allocate the same outstanding line twice",
\* _allocate_fifo), and credit_balance is what the payments left over.
MoneyAddsUp ==
  /\ [](\A b \in BillId : shown[Bill(b)].paid = SumTo(PutOn(b), N))
  /\ [](shown[Payer] = SumTo([p \in Request |-> IF shown[Payment(p)].status = "CONFIRMED"
                                               THEN Leftover(shown[Payment(p)]) ELSE 0], N))
  /\ [][\A b \in BillId : SumTo(PutOn(b), N)' > SumTo(PutOn(b), N) =>
          SumTo(PutOn(b), N)' <= shown'[Line(b)]]_vars

\* However many requests bill the payer at once, the duplicate check lets one bill
\* through: the payer lock makes check and insert one step.
OneLiveBillPerYear ==
  \A q, r \in Request :
    /\ q # r /\ job[q].kind = "ISSUE" /\ job[r].kind = "ISSUE"
    /\ shown[Bill(NewBill(q))].status \notin {"NONE", "SUPERSEDED"}
    => shown[Bill(NewBill(r))].status \in {"NONE", "SUPERSEDED"}

StillOwed(bills) == SumTo([b \in BillId |-> IF b \in bills THEN Owing(b) ELSE 0], M + N)

\* When a consolidation commits, the arrears on its bill are what the bills it superseded
\* still owe at that moment, payments that raced it included; and a bill that a payment
\* settled while the consolidation waited for the row is not rolled up (_roll_open_bills).
RollUpsAreExact ==
  [][\A b \in BillId :
       /\ shown[Bill(b)].status = "NONE" /\ shown'[Bill(b)].status # "NONE" =>
            shown'[Bill(b)].arrears = StillOwed({c \in BillId : shown[Bill(c)].supersededBy = b})'
       /\ shown[Bill(b)].status = "PAID" => shown'[Bill(b)].status # "SUPERSEDED"]_vars

\* Neither consolidates, which takes the payer before the bills, nor edits a line, which
\* takes the line before the bill.
InOrder(r) == job[r].kind \notin {"ROLL", "EDIT"}

\* Payments, reversals, new bills and the nightly refresh take their locks in one order,
\* payment, bill, line, payer, and never wait for each other in a circle, however many of
\* them overlap (post_payment, reverse_payment, issue_bill, refresh_debt).  Of "deadlock-free
\* regardless of interleaving" (payments/services.py:158-161) this is what holds.
OneLockOrder ==
  LET R == {r \in Request : InOrder(r)}
  IN \A r \in R : ~WaitsInCircle(r, R)

\* So where nobody consolidates or edits, a payment past its terminal check is taken and a
\* reversal that found its payment confirmed is made: neither waits for ever, nor is given
\* up to the deadlock detector (post_payment, reverse_payment).
MoneyGoesThrough ==
  \A r \in Request :
    (\A q \in Request : InOrder(q)) /\ at[r] \in {"lock", "hold"} ~> at[r] = "done"
=============================================================================
