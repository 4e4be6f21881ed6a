--------------------------- MODULE MoneyPathProofs ---------------------------
(***************************************************************************)
(* Overlapping requests of one payer, for any number of requests, bills    *)
(* and jobs.                                                               *)
(*                                                                         *)
(* A row lock has one holder, and only the holder's commit changes what is *)
(* committed of the row.  So what a request read under its locks is still  *)
(* true when it commits, and each commit can be judged by itself: Good(r)  *)
(* says what a request holds at each step and how the rows it has written  *)
(* differ from the committed ones, Sound what the committed rows say of    *)
(* each other, and OnlyBiller that the payer lock keeps other bills away.  *)
(* From what requests hold follows whom they can wait for (OneOrder).      *)
(***************************************************************************)
EXTENDS MoneyPath, WellFoundedInduction, TLAPS

-----------------------------------------------------------------------------
(* Locks and versions. *)

Holds(r, x) == lock[x][r] # 0
HoldsOnly(r, xs) == \A x \in Row : Holds(r, x) => x \in xs

\* A lock that stays with a request is that of an UPDATE or stronger: no two requests
\* hold a row, and a row that nobody holds is as committed.
LocksWork ==
  \A x \in Row :
    /\ \A r \in Request : lock[x][r] \in {0, NoKeyUpdate, ForUpdate}
    /\ \A q, r \in Request : Holds(q, x) /\ Holds(r, x) => q = r
    /\ (\A r \in Request : ~Holds(r, x)) => row[x] = shown[x]

-----------------------------------------------------------------------------
(* What the committed rows say. *)

Exists(b) == shown[Bill(b)].status # "NONE"
Paid(p) == shown[Payment(p)].status # "NONE"
Bills(r) == job[r].kind \in {"ISSUE", "ROLL"}

BillsSound ==
  \A b \in BillId :
    /\ ~Exists(b) => shown[Bill(b)] = NoBill
    /\ b <= M => Exists(b)
    /\ shown[Bill(b)].status = "SUPERSEDED" => shown[Bill(b)].supersededBy # 0
    /\ shown[Bill(b)].supersededBy # 0 =>
         \E r \in Request : shown[Bill(b)].supersededBy = NewBill(r) /\ Exists(NewBill(r))

\* A bill of this year is committed with its request; as long as there is one, one of
\* them has not been superseded, and no two came through the duplicate check.
NewBillsSound ==
  /\ \A r \in Request : Exists(NewBill(r)) => at[r] = "done" /\ Bills(r)
  /\ (\E r \in Request : Exists(NewBill(r))) =>
        \E r \in Request : Exists(NewBill(r)) /\ shown[Bill(NewBill(r))].supersededBy = 0
  /\ \A q, r \in Request :
       job[q].kind = "ISSUE" /\ job[r].kind = "ISSUE" /\ Exists(NewBill(q)) /\ Exists(NewBill(r)) => q = r

PaymentsSound ==
  \A p \in Request :
    IF Paid(p)
      THEN /\ at[p] = "done" /\ job[p].kind = "PAY"
           /\ shown[Payment(p)].bill \in BillId /\ Exists(shown[Payment(p)].bill)
           /\ shown[Payment(p)].applied <= shown[Payment(p)].amount
      ELSE shown[Payment(p)] = NoPayment

Sound == BillsSound /\ NewBillsSound /\ PaymentsSound

-----------------------------------------------------------------------------
(* What a request has done at each of its steps. *)

\* A bill as a payment, a reversal, an edit or the refresh restates it.
Restated(b) ==
  LET old == shown[Bill(b)]
      new == row[Bill(b)]
  IN /\ old.status # "NONE" /\ new.status # "NONE"
     /\ new.supersededBy = old.supersededBy /\ new.arrears = old.arrears
     /\ new.status = "SUPERSEDED" => old.supersededBy # 0

\* The bill a payment or reversal has locked and read.
HasCopy(r) ==
  /\ Holds(r, Bill(on[r]))
  /\ copy[r] = shown[Bill(on[r])] /\ row[Bill(on[r])] = shown[Bill(on[r])]

\* The payer's credit once a request is about to commit: changed if there is something
\* to change.
CreditDone(r) ==
  IF Holds(r, Payer) THEN row[Payer] = shown[Payer] + CreditChange(r) ELSE CreditChange(r) = 0

GoodPayment(r) ==
  LET b == on[r]
  IN /\ at[r] \in {"idle", "lock", "post", "credit", "commit"} \cup Ended
     /\ at[r] # "idle" => b \in BillId /\ Exists(b)
     /\ at[r] = "lock" => HoldsOnly(r, {})
     /\ at[r] = "post" => HoldsOnly(r, {Bill(b)}) /\ HasCopy(r)
     /\ at[r] \in {"credit", "commit"} =>
          /\ HoldsOnly(r, {Bill(b), Line(b), Case(b), Payment(r)}
                            \cup IF at[r] = "commit" THEN {Payer} ELSE {})
          /\ Holds(r, Bill(b)) /\ Holds(r, Line(b)) /\ Holds(r, Payment(r))
          /\ Restated(b) /\ (row[Bill(b)].status = "SUPERSEDED" <=> shown[Bill(b)].status = "SUPERSEDED")
          /\ row[Line(b)] = shown[Line(b)]
          /\ row[Payment(r)].status = "CONFIRMED" /\ row[Payment(r)].bill = b
          /\ row[Payment(r)].applied <= row[Payment(r)].amount
          /\ row[Bill(b)].paid = shown[Bill(b)].paid + row[Payment(r)].applied
     /\ at[r] = "commit" => CreditDone(r)

GoodReversal(r) ==
  LET p == job[r].ref
      b == on[r]
  IN /\ at[r] \in {"idle", "hold", "lock", "undo", "credit", "commit"} \cup Ended
     /\ at[r] \in {"hold", "lock", "undo", "credit", "commit"} => Paid(p)
     /\ at[r] = "hold" => HoldsOnly(r, {})
     /\ at[r] \in {"lock", "undo", "credit", "commit"} =>
          Holds(r, Payment(p)) /\ b = shown[Payment(p)].bill
     /\ at[r] = "lock" => HoldsOnly(r, {Payment(p)}) /\ row[Payment(p)] = shown[Payment(p)]
     /\ at[r] = "undo" =>
          HoldsOnly(r, {Payment(p), Bill(b)}) /\ row[Payment(p)] = shown[Payment(p)] /\ HasCopy(r)
     /\ at[r] \in {"credit", "commit"} =>
          /\ HoldsOnly(r, {Bill(b), Payment(p)} \cup IF at[r] = "commit" THEN {Payer} ELSE {})
          /\ Holds(r, Bill(b))
          /\ Restated(b) /\ (row[Bill(b)].status = "SUPERSEDED" <=> shown[Bill(b)].status = "SUPERSEDED")
          /\ row[Payment(p)] = [shown[Payment(p)] EXCEPT !.status = "REVERSED"]
          /\ row[Bill(b)].paid = Positive(shown[Bill(b)].paid - shown[Payment(p)].applied)
     /\ at[r] = "commit" => CreditDone(r)

PayerLocked(r) == Holds(r, Payer) /\ row[Payer] = shown[Payer]

GoodIssue(r) ==
  LET b == NewBill(r)
  IN /\ at[r] \in {"idle", "issue", "commit"} \cup Ended
     /\ at[r] = "issue" => PayerLocked(r) /\ HoldsOnly(r, {Payer})
     /\ at[r] = "commit" =>
          /\ PayerLocked(r) /\ HoldsOnly(r, {Payer, Bill(b), Line(b)})
          /\ Holds(r, Bill(b)) /\ row[Bill(b)] = NewRow(job[r].amount, 0)

GoodRoll(r) ==
  LET b == NewBill(r)
      Locked == {c \in BillId : Holds(r, Bill(c))}
  IN /\ at[r] \in {"idle", "scan", "roll", "open", "commit"} \cup Ended
     /\ at[r] \notin {"idle"} \cup Ended => PayerLocked(r)
     /\ at[r] = "scan" => HoldsOnly(r, {Payer})
     /\ at[r] \in {"idle", "scan"} => took[r] = {}
     /\ \A e \in todo[r] : Exists(e[1])
     /\ at[r] = "open" => on[r] \in BillId /\ Exists(on[r])
     /\ at[r] \in {"roll", "open"} =>
          /\ HoldsOnly(r, {Payer} \cup {Bill(c) : c \in BillId})
          /\ \A c \in Locked : Exists(c) /\ row[Bill(c)] = shown[Bill(c)]
     /\ at[r] \in {"roll", "open", "commit"} => \A c \in took[r] : Holds(r, Bill(c)) /\ IsOpen(c)
     /\ at[r] = "commit" =>
          /\ HoldsOnly(r, {Payer, Line(b)} \cup {Bill(c) : c \in BillId} \cup {Case(c) : c \in BillId})
          /\ Holds(r, Bill(b)) /\ row[Bill(b)] = NewRow(job[r].amount, row[Bill(b)].arrears)
          /\ \A c \in Locked \ {b} :
               /\ Exists(c)
               /\ row[Bill(c)] = IF c \in took[r]
                    THEN [shown[Bill(c)] EXCEPT !.status = "SUPERSEDED", !.supersededBy = b]
                    ELSE shown[Bill(c)]

GoodRefresh(r) ==
  /\ at[r] \in {"idle", "refresh", "mark", "case"} \cup Ended
  /\ HoldsOnly(r, {Bill(b) : b \in 1..M} \cup {Case(b) : b \in 1..M})
  /\ \A e \in todo[r] : e[1] <= M
  /\ at[r] \in {"mark", "case"} => on[r] \in 1..M
  /\ \A b \in 1..M : Holds(r, Bill(b)) => row[Bill(b)] = [shown[Bill(b)] EXCEPT !.status = "OVERDUE"]

GoodEdit(r) ==
  LET b == on[r]
  IN /\ at[r] \in {"idle", "edit", "read", "settle", "commit"} \cup Ended
     /\ at[r] # "idle" => b \in BillId /\ Exists(b)
     /\ at[r] = "edit" => HoldsOnly(r, {})
     /\ at[r] \in {"read", "settle"} => HoldsOnly(r, {Line(b)})
     /\ at[r] \in {"read", "settle", "commit"} => Holds(r, Line(b))
     /\ at[r] = "settle" =>
          copy[r].status # "NONE" /\ (copy[r].status = "SUPERSEDED" => shown[Bill(b)].supersededBy # 0)
     /\ at[r] = "commit" =>
          /\ HoldsOnly(r, {Line(b), Bill(b)}) /\ Holds(r, Bill(b))
          /\ Restated(b) /\ row[Bill(b)].paid = shown[Bill(b)].paid

Good(r) ==
  /\ at[r] \in {"idle"} \cup Ended => HoldsOnly(r, {})
  /\ job[r].kind = "PAY" => GoodPayment(r)
  /\ job[r].kind = "REVERSE" => GoodReversal(r)
  /\ job[r].kind = "ISSUE" => GoodIssue(r)
  /\ job[r].kind = "ROLL" => GoodRoll(r)
  /\ job[r].kind = "REFRESH" => GoodRefresh(r)
  /\ job[r].kind = "EDIT" => GoodEdit(r)

\* An insert that passed the duplicate check is alone until it commits.
OnlyBiller ==
  \A r \in Request : job[r].kind = "ISSUE" /\ at[r] = "commit" => \A q \in Request : ~Exists(NewBill(q))

PathInv == TypeOK /\ LocksWork /\ Sound /\ OnlyBiller /\ \A r \in Request : Good(r)

-----------------------------------------------------------------------------
(* Money, when no payment is reversed twice at once. *)

\* No two requests reverse the same payment: reverse_payment does not look at its status
\* again under the lock, so a second one that was loaded in time would take it back twice.
ReversedOnce ==
  \A q, r \in Request :
    job[q].kind = "REVERSE" /\ job[r].kind = "REVERSE" /\ job[q].ref = job[r].ref => q = r

\* What each confirmed payment left over.
Credits ==
  [p \in Request |-> IF shown[Payment(p)].status = "CONFIRMED" THEN Leftover(shown[Payment(p)]) ELSE 0]

\* The sums agree, what is being reversed is still confirmed, and what a payment is about
\* to put on a line fits in what the line charges (its bill and line are locked).
MoneyInv ==
  /\ \A r \in Request : job[r].kind = "REVERSE" /\ at[r] \in {"hold", "lock", "undo", "credit", "commit"} =>
        shown[Payment(job[r].ref)].status = "CONFIRMED"
  /\ \A b \in BillId : shown[Bill(b)].paid = SumTo(PutOn(b), N)
  /\ shown[Payer] = SumTo(Credits, N)
  /\ \A r \in Request : job[r].kind = "PAY" /\ at[r] \in {"credit", "commit"} =>
        LET y == row[Payment(r)]
        IN y.applied > 0 => SumTo(PutOn(on[r]), N) + y.applied <= shown[Line(on[r])]

-----------------------------------------------------------------------------
(* Consolidations. *)

\* What is rolled up is what is owed when it is committed.
RollInv ==
  \A r \in Request : job[r].kind = "ROLL" /\ at[r] = "commit" =>
    row[Bill(NewBill(r))].arrears = OwedOn(took[r])

\* No line is edited while the nightly refresh runs.
NoEditDuringRefresh ==
  ~ \E q, r \in Request : job[q].kind = "EDIT" /\ job[r].kind = "REFRESH"

\* An edit that finds a bill superseded leaves it so.
EditInv ==
  \A r \in Request : job[r].kind = "EDIT" =>
    /\ at[r] = "settle" /\ copy[r].status = "SUPERSEDED" => shown[Bill(on[r])].status = "SUPERSEDED"
    /\ at[r] = "commit" /\ row[Bill(on[r])].status = "SUPERSEDED" => shown[Bill(on[r])].status = "SUPERSEDED"

-----------------------------------------------------------------------------
(* Sums, as in BillLedgerProofs: Running(f) satisfies its recursive equation. *)

\* Every non-empty set of naturals has a least element.
LEMMA LeastNat ==
  ASSUME NEW S \in SUBSET Nat, S # {}
  PROVE  \E m \in S : \A k \in S : m <= k
<1>1. \E m \in S : \A k \in S : ~(<<k, m>> \in OpToRel(<, Nat))
  BY NatLessThanWellFounded, WFMin
<1>2. PICK m \in S : \A k \in S : ~(<<k, m>> \in OpToRel(<, Nat))
  BY <1>1
<1>3. ASSUME NEW k \in S PROVE m <= k
  <2>1. SUFFICES ASSUME k < m PROVE FALSE
    OBVIOUS
  <2>2. <<k, m>> \in OpToRel(<, Nat)
    BY <2>1 DEF OpToRel
  <2>. QED  BY <2>2, <1>2
<1>. QED  BY <1>3

\* s lists the partial sums of f up to n.
IsRunning(f, s, n) ==
  /\ s \in [0..n -> Int] /\ s[0] = 0
  /\ \A i \in 1..n : s[i] = s[i - 1] + At(f, i)

\* f has an integer wherever it has a value.
Integral(f) == \A i \in DOMAIN f : f[i] \in Int

\* The value of an integral function, or 0 outside its domain, is an integer.
LEMMA AtInt ==
  ASSUME NEW f, Integral(f), NEW i
  PROVE  At(f, i) \in Int
  BY DEF Integral, At

\* The recursive definition of the partial sums has a solution.
LEMMA RunningExists ==
  ASSUME NEW f, Integral(f), NEW n \in Nat
  PROVE  \E s : IsRunning(f, s, n)
<1> DEFINE Bad == {k \in Nat : ~ \E s : IsRunning(f, s, k)}
<1>1. SUFFICES ASSUME Bad # {} PROVE FALSE
  OBVIOUS
<1>2. PICK m \in Bad : \A k \in Bad : m <= k
  BY <1>1, LeastNat
<1>3. m # 0
  <2>1. IsRunning(f, [i \in 0..0 |-> 0], 0)
    BY DEF IsRunning
  <2>. QED  BY <2>1
<1>4. m - 1 \in Nat /\ m - 1 \notin Bad
  BY <1>2, <1>3
<1>5. PICK s : IsRunning(f, s, m - 1)
  BY <1>4
<1> DEFINE t == [i \in 0..m |-> IF i = m THEN s[m - 1] + At(f, m) ELSE s[i]]
<1>6. IsRunning(f, t, m)
  <2>1. At(f, m) \in Int
    BY AtInt
  <2>2. s \in [0..(m - 1) -> Int]
    BY <1>5 DEF IsRunning
  <2>3. t \in [0..m -> Int] /\ t[0] = 0
    BY <1>3, <1>4, <1>5, <2>1, <2>2 DEF IsRunning
  <2>4. ASSUME NEW i \in 1..m PROVE t[i] = t[i - 1] + At(f, i)
    <3>1. CASE i = m
      BY <3>1, <1>4
    <3>2. CASE i # m
      <4>1. i \in 1..(m - 1)
        BY <3>2, <1>4
      <4>2. s[i] = s[i - 1] + At(f, i)
        BY <4>1, <1>5 DEF IsRunning
      <4>. QED  BY <4>1, <4>2, <1>4
    <3>. QED  BY <3>1, <3>2
  <2>. QED  BY <2>3, <2>4 DEF IsRunning
<1>. QED  BY <1>6

\* It has no more than one.
LEMMA RunningUnique ==
  ASSUME NEW f, Integral(f), NEW n \in Nat, NEW m \in Nat, NEW s, NEW t,
         IsRunning(f, s, n), IsRunning(f, t, m)
  PROVE  \A i \in 0..n : i <= m => s[i] = t[i]
<1> DEFINE Bad == {i \in 0..n : i <= m /\ s[i] # t[i]}
<1>1. SUFFICES ASSUME Bad # {} PROVE FALSE
  OBVIOUS
<1>2. Bad \in SUBSET Nat
  OBVIOUS
<1>3. PICK i \in Bad : \A j \in Bad : i <= j
  BY <1>1, <1>2, LeastNat
<1>4. i # 0
  BY DEF IsRunning
<1>5. i - 1 \in 0..n /\ i - 1 <= m /\ i - 1 \notin Bad
  BY <1>3, <1>4
<1>6. s[i - 1] = t[i - 1]
  BY <1>5
<1>7. s[i] = s[i - 1] + At(f, i) /\ t[i] = t[i - 1] + At(f, i)
  BY <1>4 DEF IsRunning
<1>. QED  BY <1>6, <1>7

\* So the partial sums obey their recursive definition.
LEMMA RunningDef ==
  ASSUME NEW f, Integral(f)
  PROVE  Running(f) = [n \in Nat |-> IF n = 0 THEN 0 ELSE Running(f)[n - 1] + At(f, n)]
<1> DEFINE A(n) == CHOOSE s : IsRunning(f, s, n)
           R == [n \in Nat |-> A(n)[n]]
           G(s) == [n \in Nat |-> IF n = 0 THEN 0 ELSE s[n - 1] + At(f, n)]
<1>1. ASSUME NEW n \in Nat PROVE IsRunning(f, A(n), n)
  BY RunningExists
<1>2. ASSUME NEW n \in Nat PROVE R[n] = IF n = 0 THEN 0 ELSE R[n - 1] + At(f, n)
  <2>1. IsRunning(f, A(n), n)
    BY <1>1
  <2>2. CASE n = 0
    <3>1. A(n)[0] = 0
      BY <2>1 DEF IsRunning
    <3>. QED  BY <3>1, <2>2
  <2>3. CASE n # 0
    <3>1. n - 1 \in Nat
      BY <2>3
    <3>2. IsRunning(f, A(n - 1), n - 1)
      BY <1>1, <3>1
    <3> HIDE DEF A
    <3>3. A(n)[n] = A(n)[n - 1] + At(f, n)
      BY <2>1, <2>3 DEF IsRunning
    <3>4. A(n - 1)[n - 1] = A(n)[n - 1]
      <4>1. \A i \in 0..(n - 1) : i <= n => A(n - 1)[i] = A(n)[i]
        BY <2>1, <3>1, <3>2, RunningUnique
      <4>. QED  BY <4>1, <3>1
    <3>. QED  BY <3>1, <3>3, <3>4, <2>3
  <2>. QED  BY <2>2, <2>3
<1>3. R = G(R)
  <2> HIDE DEF A
  <2> SUFFICES ASSUME NEW n \in Nat PROVE R[n] = G(R)[n]
    OBVIOUS
  <2>. QED  BY <1>2
<1>4. Running(f) = CHOOSE s : s = G(s)
  BY DEF Running
<1> HIDE DEF R
<1>5. Running(f) = G(Running(f))
  BY <1>3, <1>4
<1>. QED  BY <1>5

\* A set of naturals with 0 and closed under successor is Nat.
LEMMA NatInd ==
  ASSUME NEW S \in SUBSET Nat, 0 \in S, \A k \in S : k + 1 \in S
  PROVE  \A n \in Nat : n \in S
<1>1. SUFFICES ASSUME Nat \ S # {} PROVE FALSE
  OBVIOUS
<1>2. PICK m \in Nat \ S : \A k \in Nat \ S : m <= k
  BY <1>1, LeastNat
<1>3. m - 1 \in Nat /\ m - 1 \in S
  BY <1>2
<1>. QED  BY <1>2, <1>3

\* The empty sum.
LEMMA SumZero ==
  ASSUME NEW n \in Nat, NEW f \in [1..n -> Int]
  PROVE  SumTo(f, 0) = 0
<1>1. Integral(f)
  BY DEF Integral
<1>2. Running(f)[0] = 0
  BY <1>1, RunningDef
<1>. QED  BY <1>2 DEF SumTo

\* One more summand.
LEMMA SumStep ==
  ASSUME NEW n \in Nat, NEW f \in [1..n -> Int], NEW k \in Nat, k < n
  PROVE  SumTo(f, k + 1) = SumTo(f, k) + f[k + 1]
<1>1. Integral(f)
  BY DEF Integral
<1>2. k + 1 \in Nat /\ k + 1 # 0 /\ (k + 1) - 1 = k /\ k + 1 \in 1..n
  OBVIOUS
<1>3. Running(f)[k + 1] = Running(f)[(k + 1) - 1] + At(f, k + 1)
  BY <1>1, <1>2, RunningDef
<1>4. At(f, k + 1) = f[k + 1]
  BY <1>2 DEF At
<1>. QED  BY <1>2, <1>3, <1>4 DEF SumTo

\* Sums of integers are integers.
LEMMA SumInt ==
  ASSUME NEW n \in Nat, NEW f \in [1..n -> Int]
  PROVE  \A k \in 0..n : SumTo(f, k) \in Int
<1> DEFINE S == {k \in Nat : k <= n => SumTo(f, k) \in Int}
<1>1. 0 \in S
  BY SumZero
<1>2. ASSUME NEW k \in S PROVE k + 1 \in S
  <2>1. SUFFICES ASSUME k < n PROVE SumTo(f, k + 1) \in Int
    OBVIOUS
  <2>2. SumTo(f, k + 1) = SumTo(f, k) + f[k + 1]
    BY <2>1, SumStep
  <2>3. k + 1 \in 1..n /\ f[k + 1] \in Int /\ SumTo(f, k) \in Int
    BY <2>1
  <2>. QED  BY <2>2, <2>3
<1>3. \A k \in Nat : k \in S
  BY <1>1, <1>2, NatInd
<1>. QED  BY <1>3

\* Partial sums of naturals are naturals, never fall and never exceed the whole.
LEMMA SumNat ==
  ASSUME NEW n \in Nat, NEW f \in [1..n -> Nat]
  PROVE  \A k \in 0..n : SumTo(f, k) \in Nat
<1>0. f \in [1..n -> Int]
  OBVIOUS
<1> DEFINE S == {k \in Nat : k <= n => SumTo(f, k) \in Nat}
<1>1. 0 \in S
  BY <1>0, SumZero
<1>2. ASSUME NEW k \in S PROVE k + 1 \in S
  <2>1. SUFFICES ASSUME k < n PROVE SumTo(f, k + 1) \in Nat
    OBVIOUS
  <2>2. SumTo(f, k + 1) = SumTo(f, k) + f[k + 1]
    BY <1>0, <2>1, SumStep
  <2>3. k + 1 \in 1..n /\ f[k + 1] \in Nat /\ SumTo(f, k) \in Nat
    BY <2>1
  <2>. QED  BY <2>2, <2>3
<1>3. \A k \in Nat : k \in S
  BY <1>1, <1>2, NatInd
<1>. QED  BY <1>3

\* Sums of naturals are naturals.
LEMMA SumIsNat ==
  ASSUME NEW n \in Nat, NEW f \in [1..n -> Nat]
  PROVE  SumTo(f, n) \in Nat
<1>1. n \in 0..n
  OBVIOUS
<1>. QED  BY <1>1, SumNat

\* Changing the value at one place changes the sum by the difference.
LEMMA SumUpdate ==
  ASSUME NEW n \in Nat, NEW f \in [1..n -> Int], NEW g \in [1..n -> Int],
         NEW j \in 1..n, \A i \in 1..n : i # j => g[i] = f[i]
  PROVE  SumTo(g, n) = SumTo(f, n) + (g[j] - f[j])
<1> DEFINE D(k) == SumTo(g, k) = SumTo(f, k) + (IF k < j THEN 0 ELSE g[j] - f[j])
           S == {k \in Nat : k <= n => D(k)}
<1>0. \A k \in 0..n : SumTo(f, k) \in Int /\ SumTo(g, k) \in Int
  BY SumInt
<1>1. 0 \in S
  BY SumZero
<1>2. ASSUME NEW k \in S PROVE k + 1 \in S
  <2>1. SUFFICES ASSUME k < n PROVE D(k + 1)
    OBVIOUS
  <2>2. D(k) /\ k + 1 \in 1..n /\ k \in 0..n
    BY <2>1
  <2>3. SumTo(f, k + 1) = SumTo(f, k) + f[k + 1] /\ SumTo(g, k + 1) = SumTo(g, k) + g[k + 1]
    BY <2>1, SumStep
  <2>4. f[k + 1] \in Int /\ g[k + 1] \in Int /\ f[j] \in Int /\ g[j] \in Int
    BY <2>2
  <2>5. SumTo(f, k) \in Int /\ SumTo(g, k) \in Int
    BY <1>0, <2>2
  <2>. HIDE DEF S
  <2>6. CASE k + 1 < j
    <3>1. g[k + 1] = f[k + 1] /\ k < j
      BY <2>2, <2>6
    <3>2. SumTo(g, k) = SumTo(f, k)
      BY <2>2, <2>5, <3>1
    <3>3. SumTo(g, k + 1) = SumTo(f, k + 1)
      BY <2>3, <3>1, <3>2
    <3>. QED  BY <2>3, <2>4, <2>5, <2>6, <3>3
  <2>7. CASE k + 1 = j
    <3>1. g[k + 1] = g[j] /\ f[k + 1] = f[j] /\ ~ k + 1 < j
      BY <2>7
    <3>2. k < j
      BY <2>2, <2>7
    <3>3. SumTo(g, k) = SumTo(f, k)
      BY <2>2, <2>5, <3>2
    <3>4. SumTo(g, k + 1) = SumTo(f, k + 1) + (g[j] - f[j])
      BY <2>3, <2>4, <2>5, <3>1, <3>3
    <3>. QED  BY <3>1, <3>4
  <2>8. CASE k + 1 > j
    <3>1. g[k + 1] = f[k + 1] /\ ~ k < j /\ ~ k + 1 < j
      BY <2>2, <2>8
    <3>2. SumTo(g, k) = SumTo(f, k) + (g[j] - f[j])
      BY <2>2, <3>1
    <3>3. SumTo(g, k + 1) = SumTo(f, k + 1) + (g[j] - f[j])
      BY <2>3, <2>4, <2>5, <3>1, <3>2
    <3>. QED  BY <3>1, <3>3
  <2>. QED  BY <2>2, <2>6, <2>7, <2>8
<1>3. \A k \in Nat : k \in S
  BY <1>1, <1>2, NatInd
<1>. QED  BY <1>3

\* A sum of naturals is at least each of them.
LEMMA SumMember ==
  ASSUME NEW n \in Nat, NEW f \in [1..n -> Nat], NEW j \in 1..n
  PROVE  f[j] <= SumTo(f, n)
<1> DEFINE S == {k \in Nat : k <= n /\ j <= k => f[j] <= SumTo(f, k)}
<1>0. f \in [1..n -> Int] /\ \A k \in 0..n : SumTo(f, k) \in Nat
  BY SumNat
<1>1. 0 \in S
  OBVIOUS
<1>2. ASSUME NEW k \in S PROVE k + 1 \in S
  <2>1. SUFFICES ASSUME k < n, j <= k + 1 PROVE f[j] <= SumTo(f, k + 1)
    OBVIOUS
  <2>2. SumTo(f, k + 1) = SumTo(f, k) + f[k + 1]
    BY <1>0, <2>1, SumStep
  <2>3. k \in 0..n /\ k + 1 \in 1..n /\ f[k + 1] \in Nat /\ f[j] \in Nat
    BY <2>1
  <2>4. CASE j <= k
    BY <1>0, <2>1, <2>2, <2>3, <2>4
  <2>5. CASE j = k + 1
    BY <1>0, <2>2, <2>3, <2>5
  <2>. QED  BY <2>1, <2>4, <2>5
<1>3. \A k \in Nat : k \in S
  BY <1>1, <1>2, NatInd
<1>. QED  BY <1>3, <1>0

\* A sum of zeros is zero.
LEMMA SumOfZeros ==
  ASSUME NEW n \in Nat, NEW f \in [1..n -> Int], \A i \in 1..n : f[i] = 0
  PROVE  SumTo(f, n) = 0
<1> DEFINE S == {k \in Nat : k <= n => SumTo(f, k) = 0}
<1>1. 0 \in S
  BY SumZero
<1>2. ASSUME NEW k \in S PROVE k + 1 \in S
  BY SumStep
<1>3. \A k \in Nat : k \in S
  BY <1>1, <1>2, NatInd
<1>. QED  BY <1>3

-----------------------------------------------------------------------------
(* Rows and jobs. *)

\* Rows have different names.
LEMMA RowsApart ==
  /\ Payer \in Row
  /\ \A b \in BillId : Bill(b) \in Row /\ Line(b) \in Row /\ Case(b) \in Row
  /\ \A p \in Request : Payment(p) \in Row
  /\ \A b \in BillId : Payer # Bill(b) /\ Payer # Line(b) /\ Payer # Case(b)
  /\ \A p \in Request : Payer # Payment(p)
  /\ \A b, c \in BillId : Bill(b) # Line(c) /\ Bill(b) # Case(c) /\ Line(b) # Case(c)
  /\ \A b \in BillId, p \in Request : Bill(b) # Payment(p) /\ Line(b) # Payment(p) /\ Case(b) # Payment(p)
  /\ \A b, c \in BillId : (Bill(b) = Bill(c) => b = c) /\ (Line(b) = Line(c) => b = c) /\ (Case(b) = Case(c) => b = c)
  /\ \A p, q \in Request : Payment(p) = Payment(q) => p = q
  BY DEF Row, Payer, Bill, Line, Case, Payment

\* A row is one of these.
LEMMA RowIs ==
  ASSUME NEW x \in Row
  PROVE  \/ x = Payer
         \/ \E b \in BillId : x = Bill(b) \/ x = Line(b) \/ x = Case(b)
         \/ \E p \in Request : x = Payment(p)
  BY DEF Row

\* The numbers of the bills of this year.
LEMMA NewBills ==
  /\ \A r \in Request : NewBill(r) \in BillId /\ NewBill(r) > M /\ NewBill(r) # 0
  /\ \A q, r \in Request : NewBill(q) = NewBill(r) => q = r
  /\ \A b \in BillId : b > M => \E r \in Request : b = NewBill(r)
  /\ 1..M \subseteq BillId
  <1>1. \A b \in BillId : b > M => b - M \in Request /\ b = NewBill(b - M)
    BY PathConstants DEF BillId, NewBill, Request
  <1>2. QED BY <1>1, PathConstants DEF BillId, NewBill, Request

\* What a request asks for.
LEMMA JobsAreGood ==
  ASSUME job \in Workloads, NEW r \in Request
  PROVE  /\ job[r].kind \in {"PAY", "REVERSE", "ISSUE", "ROLL", "REFRESH", "EDIT"}
         /\ job[r].amount \in Nat
         /\ job[r].kind \in {"PAY", "EDIT"} => job[r].ref \in BillId
         /\ job[r].kind = "REVERSE" => job[r].ref \in Request
  <1>1. job[r] \in Job
    BY PathConstants
  <1>2. QED BY <1>1 DEF Job

-----------------------------------------------------------------------------
(* What the statements do. *)

\* Locks have strengths.
LockTypes == lock \in [Row -> [Request -> 0..3]]

\* What a statement that locks the rows xs for r leaves of the locks.
Locked(r, xs) ==
  /\ \A x \in Row, q \in Request : q # r \/ x \notin xs => lock'[x][q] = lock[x][q]
  /\ \A x \in xs : lock'[x][r] # 0 /\ \A q \in Request \ {r} : lock[x][q] = 0

\* The strengths of locks.
LEMMA Strengths == NoKeyUpdate = 2 /\ ForUpdate = 3 /\ BillLock = 3 /\ OpenLock = 3 /\ PayerLock = 3
  BY DEF NoKeyUpdate, ForUpdate, BillLock, OpenLock, PayerLock

\* Raising a lock leaves those of others.
LEMMA RaisedIs ==
  ASSUME NEW locks \in [Request -> 0..3], NEW r \in Request, NEW mode \in {2, 3},
         locks[r] \in {0, 2, 3}
  PROVE  /\ Raised(locks, r, mode) \in [Request -> 0..3]
         /\ Raised(locks, r, mode)[r] \in {2, 3}
         /\ \A q \in Request \ {r} : Raised(locks, r, mode)[q] = locks[q]
  BY DEF Raised

\* SELECT ... FOR UPDATE.
LEMMA AcquireDoes ==
  ASSUME LocksWork, LockTypes, NEW r \in Request, NEW x \in Row, Acquire(r, x, 3)
  PROVE  LocksWork' /\ LockTypes' /\ Locked(r, {x}) /\ row' = row /\ shown' = shown
  <1>1. \A q \in Request \ {r} : lock[x][q] = 0
    BY Strengths DEF Acquire, Free, LocksWork, LockTypes
  <1>2. lock' = [lock EXCEPT ![x] = Raised(lock[x], r, 3)] /\ row' = row /\ shown' = shown
    BY DEF Acquire
  <1>3. lock[x] \in [Request -> 0..3] /\ lock[x][r] \in {0, 2, 3}
    BY Strengths DEF LocksWork, LockTypes
  <1>4. LockTypes'
    BY <1>2, <1>3, RaisedIs DEF LockTypes
  <1>5. lock'[x][r] \in {2, 3} /\ \A q \in Request \ {r} : lock'[x][q] = lock[x][q]
    BY <1>2, <1>3, RaisedIs DEF LockTypes
  <1>6. \A y \in Row \ {x} : lock'[y] = lock[y]
    BY <1>2 DEF LockTypes
  <1>7. Locked(r, {x})
    BY <1>1, <1>5, <1>6 DEF Locked
  <1>8. LocksWork'
    BY <1>1, <1>2, <1>5, <1>6, Strengths DEF LocksWork, Holds
  <1>9. QED BY <1>2, <1>4, <1>7, <1>8

\* UPDATE and INSERT, with the rows read locked.
LEMMA WriteLockingDoes ==
  ASSUME LocksWork, LockTypes, DOMAIN row = Row, NEW r \in Request, NEW new, NEW read,
         DOMAIN new \subseteq Row, read \subseteq Row, WriteLocking(r, new, read)
  PROVE  /\ LocksWork' /\ LockTypes' /\ Locked(r, DOMAIN new \cup read)
         /\ DOMAIN row' = Row
         /\ \A x \in Row : row'[x] = IF x \in DOMAIN new THEN new[x] ELSE row[x]
         /\ shown' = shown
  <1> DEFINE xs == DOMAIN new \cup read
  <1>1. \A x \in xs, q \in Request \ {r} : lock[x][q] = 0
    <2>1. \A x \in DOMAIN new, q \in Request \ {r} : lock[x][q] + 2 <= 3
      BY Strengths DEF WriteLocking, Free
    <2>2. \A x \in read, q \in Request \ {r} : lock[x][q] + 3 <= 3
      BY Strengths DEF WriteLocking, Free
    <2>3. QED BY <2>1, <2>2, Strengths DEF LocksWork
  <1>2. /\ row' = [x \in Row |-> IF x \in DOMAIN new THEN new[x] ELSE row[x]]
        /\ lock' = [x \in Row |-> IF x \in read THEN Raised(lock[x], r, 3)
                           ELSE IF x \in DOMAIN new THEN Raised(lock[x], r, 2)
                           ELSE lock[x]]
        /\ shown' = shown
    BY Strengths DEF WriteLocking
  <1>3. \A x \in Row : lock[x] \in [Request -> 0..3] /\ lock[x][r] \in {0, 2, 3}
    BY Strengths DEF LocksWork, LockTypes
  <1>4. ASSUME NEW x \in xs
        PROVE  /\ lock'[x] \in [Request -> 0..3] /\ lock'[x][r] \in {2, 3}
               /\ \A q \in Request \ {r} : lock'[x][q] = lock[x][q]
    <2>1. x \in Row OBVIOUS
    <2>2. lock'[x] = Raised(lock[x], r, 3) \/ lock'[x] = Raised(lock[x], r, 2)
      BY <1>2, <2>1
    <2>3. QED BY <1>3, <2>1, <2>2, RaisedIs
  <1>5. \A x \in Row \ xs : lock'[x] = lock[x]
    BY <1>2
  <1>6. DOMAIN lock' = Row
    BY <1>2
  <1> HIDE DEF xs
  <1>7. LockTypes'
    <2>1. \A x \in Row : lock'[x] \in [Request -> 0..3]
      BY <1>3, <1>4, <1>5
    <2>2. lock' = [x \in Row |-> lock'[x]]
      BY <1>2
    <2>3. QED BY <2>1, <2>2 DEF LockTypes
  <1>8. Locked(r, xs)
    BY <1>1, <1>4, <1>5 DEF Locked
  <1>9. LocksWork'
    <2>1. ASSUME NEW x \in Row \ xs
          PROVE  /\ \A q \in Request : lock'[x][q] \in {0, NoKeyUpdate, ForUpdate}
                 /\ \A q, p \in Request : lock'[x][q] # 0 /\ lock'[x][p] # 0 => q = p
                 /\ (\A q \in Request : lock'[x][q] = 0) => row'[x] = shown'[x]
      BY <1>2, <1>5 DEF LocksWork, Holds, xs
    <2>2. ASSUME NEW x \in xs, x \in Row
          PROVE  /\ \A q \in Request : lock'[x][q] \in {0, NoKeyUpdate, ForUpdate}
                 /\ \A q, p \in Request : lock'[x][q] # 0 /\ lock'[x][p] # 0 => q = p
                 /\ (\A q \in Request : lock'[x][q] = 0) => row'[x] = shown'[x]
      BY <1>1, <1>4, <2>2, Strengths
    <2>3. QED BY <2>1, <2>2 DEF LocksWork, Holds
  <1>10. QED BY <1>2, <1>7, <1>8, <1>9 DEF xs

\* UPDATE and INSERT.
LEMMA WriteDoes ==
  ASSUME LocksWork, LockTypes, DOMAIN row = Row, NEW r \in Request, NEW new,
         DOMAIN new \subseteq Row, Write(r, new)
  PROVE  /\ LocksWork' /\ LockTypes' /\ Locked(r, DOMAIN new)
         /\ DOMAIN row' = Row
         /\ \A x \in Row : row'[x] = IF x \in DOMAIN new THEN new[x] ELSE row[x]
         /\ shown' = shown
  <1>1. WriteLocking(r, new, {}) /\ DOMAIN new \cup {} = DOMAIN new
    BY DEF Write
  <1>2. QED BY <1>1, WriteLockingDoes

\* What the end of a request leaves of the locks.
Unlocked(r) ==
  \A x \in Row : lock'[x][r] = 0 /\ \A q \in Request \ {r} : lock'[x][q] = lock[x][q]

\* The end of a request gives its locks back.
LEMMA ReleasedDoes ==
  ASSUME LockTypes, NEW r \in Request, lock' = Released(r)
  PROVE  LockTypes' /\ Unlocked(r)
  BY DEF LockTypes, Released, Unlocked

\* A request wrote or locked exactly the rows it holds.
LEMMA HoldsWrote ==
  ASSUME LocksWork, NEW r \in Request, NEW x \in Row
  PROVE  Wrote(r, x) <=> Holds(r, x)
  BY Strengths DEF LocksWork, Wrote, Holds

\* ROLLBACK restores what the request had written.
LEMMA RollbackDoes ==
  ASSUME LocksWork, LockTypes, NEW r \in Request, NEW step, Rollback(r, step)
  PROVE  /\ LocksWork' /\ LockTypes' /\ Unlocked(r)
         /\ DOMAIN row' = Row
         /\ \A x \in Row : row'[x] = IF Holds(r, x) THEN shown[x] ELSE row[x]
         /\ shown' = shown
  <1>1. LockTypes' /\ Unlocked(r)
    BY ReleasedDoes DEF Rollback
  <1>2. row' = [x \in Row |-> IF Wrote(r, x) THEN shown[x] ELSE row[x]] /\ shown' = shown
    BY DEF Rollback
  <1>3. \A x \in Row : row'[x] = IF Holds(r, x) THEN shown[x] ELSE row[x]
    BY <1>2, HoldsWrote
  <1>4. LocksWork'
    BY <1>1, <1>2, <1>3 DEF Unlocked, LocksWork, Holds
  <1>5. QED BY <1>1, <1>2, <1>3, <1>4

\* COMMIT shows what the request had written.
LEMMA CommitDoes ==
  ASSUME LocksWork, LockTypes, NEW r \in Request, Commit(r)
  PROVE  /\ LocksWork' /\ LockTypes' /\ Unlocked(r)
         /\ DOMAIN shown' = Row
         /\ \A x \in Row : shown'[x] = IF Holds(r, x) THEN row[x] ELSE shown[x]
         /\ row' = row
  <1>1. LockTypes' /\ Unlocked(r)
    BY ReleasedDoes DEF Commit
  <1>2. shown' = [x \in Row |-> IF Wrote(r, x) THEN row[x] ELSE shown[x]] /\ row' = row
    BY DEF Commit
  <1>3. \A x \in Row : shown'[x] = IF Holds(r, x) THEN row[x] ELSE shown[x]
    BY <1>2, HoldsWrote
  <1>4. LocksWork'
    BY <1>1, <1>2, <1>3 DEF Unlocked, LocksWork, Holds
  <1>5. QED BY <1>1, <1>2, <1>3, <1>4

-----------------------------------------------------------------------------
(* What others cannot take from a request. *)

\* Request q is where it was, and holds what it held, as it was.
Undisturbed(q) ==
  /\ job' = job
  /\ at'[q] = at[q] /\ on'[q] = on[q] /\ copy'[q] = copy[q]
  /\ todo'[q] = todo[q] /\ took'[q] = took[q]
  /\ \A x \in Row : lock'[x][q] = lock[x][q]
  /\ \A x \in Row : Holds(q, x) => row'[x] = row[x] /\ shown'[x] = shown[x]

\* What is committed stays.
Later ==
  /\ \A b \in BillId : Exists(b) => Exists(b)'
  /\ \A b \in BillId : shown[Bill(b)].supersededBy # 0 => shown'[Bill(b)].supersededBy # 0
  /\ \A p \in Request : Paid(p) => Paid(p)'

\* The bill a payment or reversal works on, and the payments it is about, are rows.
LEMMA OnIs ==
  ASSUME TypeOK, Sound, NEW r \in Request, Good(r)
  PROVE  /\ job[r].kind \in {"PAY", "EDIT"} /\ at[r] # "idle" => on[r] \in BillId /\ Exists(on[r])
         /\ job[r].kind = "REVERSE" /\ at[r] \in {"lock", "undo", "credit", "commit"} =>
              on[r] \in BillId /\ Exists(on[r]) /\ on[r] = shown[Payment(job[r].ref)].bill
         /\ job[r].kind = "REVERSE" => job[r].ref \in Request
  <1>1. job[r].kind = "REVERSE" => job[r].ref \in Request
    BY JobsAreGood DEF TypeOK
  <1>2. job[r].kind \in {"PAY", "EDIT"} /\ at[r] # "idle" => on[r] \in BillId /\ Exists(on[r])
    BY DEF Good, GoodPayment, GoodEdit
  <1>3. job[r].kind = "REVERSE" /\ at[r] \in {"lock", "undo", "credit", "commit"} =>
          Paid(job[r].ref) /\ on[r] = shown[Payment(job[r].ref)].bill
    BY DEF Good, GoodReversal
  <1>4. QED BY <1>1, <1>2, <1>3 DEF Sound, PaymentsSound

\* An undisturbed request holds what it held.
LEMMA HoldsKept ==
  ASSUME NEW q \in Request, Undisturbed(q)
  PROVE  /\ \A x \in Row : Holds(q, x)' <=> Holds(q, x)
         /\ \A xs : HoldsOnly(q, xs)' <=> HoldsOnly(q, xs)
  BY DEF Undisturbed, Holds, HoldsOnly

\* A payment stays as it is while others run.
LEMMA PaymentKept ==
  ASSUME TypeOK, Sound, NEW q \in Request, Good(q), Undisturbed(q), Later, job[q].kind = "PAY"
  PROVE  GoodPayment(q)'
  <1>0. PICK b : b = on[q]
    OBVIOUS
  <1>1. at'[q] = at[q] /\ on'[q] = on[q] /\ copy'[q] = copy[q] /\ job' = job
    BY <1>0 DEF Undisturbed
  <1>2. GoodPayment(q) /\ (at[q] # "idle" => b \in BillId /\ Exists(b)')
    BY <1>0 DEF Good, GoodPayment, Later
  <1>3. \A x \in Row : Holds(q, x) => row'[x] = row[x] /\ shown'[x] = shown[x]
    BY <1>0 DEF Undisturbed
  <1>4. b \in BillId => Bill(b) \in Row /\ Line(b) \in Row /\ Payment(q) \in Row /\ Payer \in Row
    BY <1>0, RowsApart
  <1>5. \A x \in Row : Holds(q, x)' <=> Holds(q, x)
    BY <1>0, HoldsKept
  <1>6. at[q] = "lock" => HoldsOnly(q, {})'
    BY <1>0, <1>2, HoldsKept DEF GoodPayment
  <1>7. at[q] = "post" => HoldsOnly(q, {Bill(b)})' /\ HasCopy(q)'
    BY <1>0, <1>1, <1>2, <1>3, <1>4, <1>5, HoldsKept DEF GoodPayment, HasCopy
  <1>8. at[q] \in {"credit", "commit"} =>
          HoldsOnly(q, {Bill(b), Line(b), Case(b), Payment(q)} \cup IF at[q] = "commit" THEN {Payer} ELSE {})'
    BY <1>0, <1>1, <1>2, HoldsKept DEF GoodPayment
  <1>9. ASSUME at[q] \in {"credit", "commit"}
        PROVE  /\ row'[Bill(b)] = row[Bill(b)] /\ shown'[Bill(b)] = shown[Bill(b)]
               /\ row'[Line(b)] = row[Line(b)] /\ shown'[Line(b)] = shown[Line(b)]
               /\ row'[Payment(q)] = row[Payment(q)]
               /\ Holds(q, Bill(b))' /\ Holds(q, Line(b))' /\ Holds(q, Payment(q))'
               /\ Restated(b)'
    <2>1. Holds(q, Bill(b)) /\ Holds(q, Line(b)) /\ Holds(q, Payment(q)) /\ Restated(b) /\ b \in BillId
      BY <1>0, <1>2, <1>9 DEF GoodPayment
    <2>2. QED BY <1>0, <2>1, <1>3, <1>4, <1>5 DEF Restated
  <1>10. at[q] = "commit" => CreditDone(q)'
    <2>1. SUFFICES ASSUME at[q] = "commit" PROVE CreditDone(q)'
      OBVIOUS
    <2>2. CreditDone(q) BY <1>0, <1>2, <2>1 DEF GoodPayment
    <2>3. CreditChange(q)' = CreditChange(q)
      BY <1>0, <1>1, <1>9, <2>1 DEF CreditChange, Leftover
    <2>4. QED BY <1>0, <1>3, <1>5, <2>2, <2>3, RowsApart DEF CreditDone
  <1>12. QED BY <1>0, <1>1, <1>2, <1>6, <1>7, <1>8, <1>9, <1>10 DEF GoodPayment

\* So does a reversal.
LEMMA ReversalKept ==
  ASSUME TypeOK, Sound, NEW q \in Request, Good(q), Undisturbed(q), Later, job[q].kind = "REVERSE"
  PROVE  GoodReversal(q)'
  <1>0. PICK p, b : p = job[q].ref /\ b = on[q]
    OBVIOUS
  <1>1. at'[q] = at[q] /\ on'[q] = on[q] /\ copy'[q] = copy[q] /\ job' = job
    BY <1>0 DEF Undisturbed
  <1>2. GoodReversal(q) /\ p \in Request
    BY <1>0, OnIs DEF Good
  <1>3. \A x \in Row : Holds(q, x) => row'[x] = row[x] /\ shown'[x] = shown[x]
    BY <1>0 DEF Undisturbed
  <1>4. Payment(p) \in Row /\ Payer \in Row /\ (b \in BillId => Bill(b) \in Row)
    BY <1>0, <1>2, RowsApart
  <1>5. \A x \in Row : Holds(q, x)' <=> Holds(q, x)
    BY <1>0, HoldsKept
  <1>6. at[q] = "hold" => HoldsOnly(q, {})'
    BY <1>0, <1>2, HoldsKept DEF GoodReversal
  <1>7. ASSUME at[q] \in {"lock", "undo", "credit", "commit"}
        PROVE  /\ row'[Payment(p)] = row[Payment(p)] /\ shown'[Payment(p)] = shown[Payment(p)]
               /\ Holds(q, Payment(p))' /\ b = shown'[Payment(p)].bill /\ b \in BillId
    <2>1. Holds(q, Payment(p)) /\ b = shown[Payment(p)].bill
      BY <1>0, <1>2, <1>7 DEF GoodReversal
    <2>2. QED BY <1>0, <2>1, <1>3, <1>4, <1>5, <1>7, OnIs
  <1>8. at[q] = "lock" => HoldsOnly(q, {Payment(p)})' /\ row'[Payment(p)] = shown'[Payment(p)]
    BY <1>0, <1>2, <1>7, HoldsKept DEF GoodReversal
  <1>9. at[q] = "undo" =>
          HoldsOnly(q, {Payment(p), Bill(b)})' /\ row'[Payment(p)] = shown'[Payment(p)] /\ HasCopy(q)'
    BY <1>0, <1>1, <1>2, <1>3, <1>4, <1>5, <1>7, HoldsKept DEF GoodReversal, HasCopy
  <1>10. at[q] \in {"credit", "commit"} =>
           HoldsOnly(q, {Bill(b), Payment(p)} \cup IF at[q] = "commit" THEN {Payer} ELSE {})'
    BY <1>0, <1>1, <1>2, HoldsKept DEF GoodReversal
  <1>11. ASSUME at[q] \in {"credit", "commit"}
         PROVE  /\ row'[Bill(b)] = row[Bill(b)] /\ shown'[Bill(b)] = shown[Bill(b)]
                /\ Holds(q, Bill(b))' /\ Restated(b)'
    <2>1. Holds(q, Bill(b)) /\ Restated(b) /\ b \in BillId
      BY <1>0, <1>2, <1>7, <1>11 DEF GoodReversal
    <2>2. QED BY <1>0, <2>1, <1>3, <1>4, <1>5 DEF Restated
  <1>12. at[q] = "commit" => CreditDone(q)'
    <2>1. SUFFICES ASSUME at[q] = "commit" PROVE CreditDone(q)'
      OBVIOUS
    <2>2. CreditDone(q) BY <1>0, <1>2, <2>1 DEF GoodReversal
    <2>3. CreditChange(q)' = CreditChange(q)
      BY <1>0, <1>1, <1>7, <2>1 DEF CreditChange, Leftover
    <2>4. QED BY <1>0, <1>3, <1>5, <2>2, <2>3, RowsApart DEF CreditDone
  <1>13. at[q] \in {"hold", "lock", "undo", "credit", "commit"} => Paid(p)'
    BY <1>0, <1>2 DEF GoodReversal, Later
  <1>15. QED BY <1>0, <1>1, <1>2, <1>6, <1>7, <1>8, <1>9, <1>10, <1>11, <1>12, <1>13 DEF GoodReversal

\* So does a bill of fresh charges.
LEMMA IssueKept ==
  ASSUME TypeOK, NEW q \in Request, Good(q), Undisturbed(q), job[q].kind = "ISSUE"
  PROVE  GoodIssue(q)'
  <1>1. at'[q] = at[q] /\ job' = job
    BY DEF Undisturbed
  <1>2. GoodIssue(q) BY DEF Good
  <1>3. \A x \in Row : Holds(q, x) => row'[x] = row[x] /\ shown'[x] = shown[x]
    BY DEF Undisturbed
  <1>4. Bill(NewBill(q)) \in Row /\ Payer \in Row
    BY RowsApart, NewBills
  <1>5. PayerLocked(q) => PayerLocked(q)'
    BY <1>3, <1>4, HoldsKept DEF PayerLocked
  <1>6. QED BY <1>1, <1>2, <1>3, <1>4, <1>5, HoldsKept DEF GoodIssue

\* So does a consolidation.
LEMMA RollKept ==
  ASSUME TypeOK, NEW q \in Request, Good(q), Undisturbed(q), Later, job[q].kind = "ROLL"
  PROVE  GoodRoll(q)'
  <1>0. PICK b, Held : b = NewBill(q) /\ Held = {c \in BillId : Holds(q, Bill(c))}
    OBVIOUS
  <1>1. at'[q] = at[q] /\ job' = job /\ on'[q] = on[q] /\ todo'[q] = todo[q] /\ took'[q] = took[q]
    BY <1>0 DEF Undisturbed
  <1>2. GoodRoll(q) BY <1>0 DEF Good
  <1>3. \A x \in Row : Holds(q, x) => row'[x] = row[x] /\ shown'[x] = shown[x]
    BY <1>0 DEF Undisturbed
  <1>4. Bill(NewBill(q)) \in Row /\ Payer \in Row /\ b \in BillId /\ \A c \in BillId : Bill(c) \in Row
    BY <1>0, RowsApart, NewBills
  <1>5. PayerLocked(q) => PayerLocked(q)'
    BY <1>0, <1>3, <1>4, HoldsKept DEF PayerLocked
  <1>6. \A e \in todo[q] : Exists(e[1])'
    <2>1. ASSUME NEW e \in todo[q] PROVE e[1] \in BillId
      BY <1>0 DEF TypeOK
    <2>2. QED BY <1>0, <2>1, <1>2 DEF GoodRoll, Later
  <1>7. at[q] = "open" => on[q] \in BillId /\ Exists(on[q])'
    BY <1>0, <1>1, <1>2 DEF GoodRoll, Later
  <1>8. Held = {c \in BillId : Holds(q, Bill(c))'}
    BY <1>0, <1>4, HoldsKept
  <1>9. \A c \in Held : /\ row'[Bill(c)] = row[Bill(c)] /\ shown'[Bill(c)] = shown[Bill(c)]
                        /\ (Exists(c)' <=> Exists(c)) /\ (IsOpen(c)' <=> IsOpen(c))
    BY <1>0, <1>3, <1>4 DEF Exists, IsOpen
  <1>10. took[q] \subseteq BillId
    BY <1>0 DEF TypeOK
  <1>11. at[q] \in {"roll", "open", "commit"} => \A c \in took[q] : Holds(q, Bill(c))' /\ IsOpen(c)'
    BY <1>0, <1>2, <1>4, <1>9, <1>10, HoldsKept DEF GoodRoll
  <1>12. at[q] \in {"roll", "open"} =>
          /\ HoldsOnly(q, {Payer} \cup {Bill(c) : c \in BillId})'
          /\ \A c \in Held : Exists(c)' /\ row'[Bill(c)] = shown'[Bill(c)]
    BY <1>0, <1>2, <1>9, HoldsKept DEF GoodRoll
  <1>13. ASSUME at[q] = "commit"
         PROVE  /\ HoldsOnly(q, {Payer, Line(b)} \cup {Bill(c) : c \in BillId} \cup {Case(c) : c \in BillId})'
                /\ Holds(q, Bill(b))' /\ row'[Bill(b)] = NewRow(job[q].amount, row'[Bill(b)].arrears)
                /\ \A c \in Held \ {b} :
                     /\ Exists(c)'
                     /\ row'[Bill(c)] = IF c \in took[q]
                          THEN [shown'[Bill(c)] EXCEPT !.status = "SUPERSEDED", !.supersededBy = b]
                          ELSE shown'[Bill(c)]
    <2>1. Holds(q, Bill(b)) /\ row[Bill(b)] = NewRow(job[q].amount, row[Bill(b)].arrears)
      BY <1>0, <1>2, <1>13 DEF GoodRoll
    <2>2. HoldsOnly(q, {Payer, Line(b)} \cup {Bill(c) : c \in BillId} \cup {Case(c) : c \in BillId})
      BY <1>0, <1>2, <1>13 DEF GoodRoll
    <2>3. \A c \in Held \ {b} :
            /\ Exists(c)
            /\ row[Bill(c)] = IF c \in took[q]
                 THEN [shown[Bill(c)] EXCEPT !.status = "SUPERSEDED", !.supersededBy = b]
                 ELSE shown[Bill(c)]
      BY <1>0, <1>2, <1>13 DEF GoodRoll
    <2>4. row'[Bill(b)] = row[Bill(b)] /\ Holds(q, Bill(b))'
      BY <1>0, <2>1, <1>3, <1>4, HoldsKept
    <2>5. QED BY <1>0, <2>1, <2>2, <2>3, <2>4, <1>9, HoldsKept
  <1>14. (at[q] = "scan" => HoldsOnly(q, {Payer})') /\ (at[q] \in {"idle", "scan"} => took[q] = {})
    BY <1>0, <1>2, HoldsKept DEF GoodRoll
  <1>17. at[q] \notin {"idle"} \cup Ended => PayerLocked(q)'
    BY <1>0, <1>2, <1>5 DEF GoodRoll
  <1>18. at[q] \in {"idle", "scan", "roll", "open", "commit"} \cup Ended
    BY <1>0, <1>2 DEF GoodRoll
  <1>19. QED BY <1>0, <1>1, <1>6, <1>7, <1>8, <1>11, <1>12, <1>13, <1>14, <1>17, <1>18 DEF GoodRoll

\* So does the nightly refresh.
LEMMA RefreshKept ==
  ASSUME TypeOK, NEW q \in Request, Good(q), Undisturbed(q), job[q].kind = "REFRESH"
  PROVE  GoodRefresh(q)'
  <1>1. at'[q] = at[q] /\ job' = job /\ on'[q] = on[q] /\ todo'[q] = todo[q]
    BY DEF Undisturbed
  <1>2. GoodRefresh(q) BY DEF Good
  <1>3. \A x \in Row : Holds(q, x) => row'[x] = row[x] /\ shown'[x] = shown[x]
    BY DEF Undisturbed
  <1>4. \A b \in 1..M : Bill(b) \in Row
    BY RowsApart, NewBills
  <1>5. \A b \in 1..M : Holds(q, Bill(b))' => row'[Bill(b)] = [shown'[Bill(b)] EXCEPT !.status = "OVERDUE"]
    BY <1>2, <1>3, <1>4, HoldsKept DEF GoodRefresh
  <1>6. QED BY <1>1, <1>2, <1>5, HoldsKept DEF GoodRefresh

\* So does a line edit.
LEMMA EditKept ==
  ASSUME TypeOK, NEW q \in Request, Good(q), Undisturbed(q), Later, job[q].kind = "EDIT"
  PROVE  GoodEdit(q)'
  <1>0. PICK b : b = on[q]
    OBVIOUS
  <1>1. at'[q] = at[q] /\ job' = job /\ on'[q] = on[q] /\ copy'[q] = copy[q]
    BY <1>0 DEF Undisturbed
  <1>2. GoodEdit(q) BY <1>0 DEF Good
  <1>3. \A x \in Row : Holds(q, x) => row'[x] = row[x] /\ shown'[x] = shown[x]
    BY <1>0 DEF Undisturbed
  <1>4. at[q] # "idle" => b \in BillId /\ Exists(b)' /\ Bill(b) \in Row /\ Line(b) \in Row
    BY <1>0, <1>2, RowsApart DEF GoodEdit, Later
  <1>5. at[q] = "settle" =>
          copy[q].status # "NONE" /\ (copy[q].status = "SUPERSEDED" => shown'[Bill(b)].supersededBy # 0)
    BY <1>0, <1>2, <1>4 DEF GoodEdit, Later
  <1>6. at[q] = "commit" =>
          /\ HoldsOnly(q, {Line(b), Bill(b)})' /\ Holds(q, Bill(b))'
          /\ Restated(b)' /\ row'[Bill(b)].paid = shown'[Bill(b)].paid
    <2>1. SUFFICES ASSUME at[q] = "commit"
                   PROVE  /\ HoldsOnly(q, {Line(b), Bill(b)})' /\ Holds(q, Bill(b))'
                          /\ Restated(b)' /\ row'[Bill(b)].paid = shown'[Bill(b)].paid
      OBVIOUS
    <2>2. /\ HoldsOnly(q, {Line(b), Bill(b)}) /\ Holds(q, Bill(b))
          /\ Restated(b) /\ row[Bill(b)].paid = shown[Bill(b)].paid
      BY <1>0, <1>2, <2>1 DEF GoodEdit
    <2>3. row'[Bill(b)] = row[Bill(b)] /\ shown'[Bill(b)] = shown[Bill(b)]
      BY <1>0, <1>3, <1>4, <2>1, <2>2
    <2>4. QED BY <1>0, <1>4, <2>1, <2>2, <2>3, HoldsKept DEF Restated
  <1>7. at[q] \in {"read", "settle", "commit"} => Holds(q, Line(b))'
    BY <1>0, <1>2, <1>4, HoldsKept DEF GoodEdit
  <1>8. (at[q] = "edit" => HoldsOnly(q, {})') /\ (at[q] \in {"read", "settle"} => HoldsOnly(q, {Line(b)})')
    BY <1>0, <1>2, HoldsKept DEF GoodEdit
  <1>10. QED BY <1>0, <1>1, <1>2, <1>4, <1>5, <1>6, <1>7, <1>8 DEF GoodEdit

\* A request that nobody disturbs stays good.
LEMMA GoodKept ==
  ASSUME TypeOK, Sound, NEW q \in Request, Good(q), Undisturbed(q), Later
  PROVE  Good(q)'
  <1>1. at'[q] = at[q] /\ job' = job
    BY DEF Undisturbed
  <1>2. at[q] \in {"idle"} \cup Ended => HoldsOnly(q, {})'
    BY HoldsKept DEF Good
  <1>3. QED BY <1>1, <1>2, PaymentKept, ReversalKept, IssueKept, RollKept, RefreshKept, EditKept DEF Good

-----------------------------------------------------------------------------
(* Steps that commit nothing. *)

\* Nothing is shown, and the other requests and what they hold stay.
Quiet(r) ==
  /\ job' = job /\ shown' = shown /\ at[r] # "done"
  /\ \A q \in Request \ {r} :
       /\ at'[q] = at[q] /\ on'[q] = on[q] /\ copy'[q] = copy[q]
       /\ todo'[q] = todo[q] /\ took'[q] = took[q]
  /\ \A x \in Row : \A q \in Request \ {r} :
       lock'[x][q] = lock[x][q] /\ (Holds(q, x) => row'[x] = row[x])

\* The insert that has just passed the duplicate check found no bill of this year.
PassesAlone(r) ==
  job[r].kind = "ISSUE" /\ at'[r] = "commit" => \A q \in Request : ~Exists(NewBill(q))

\* The duplicate check sees the bill that has not been superseded.
LEMMA LiveBill ==
  ASSUME TypeOK, Sound, ~HasBillThisYear
  PROVE  \A q \in Request : ~Exists(NewBill(q))
  <1>1. SUFFICES ASSUME \E q \in Request : Exists(NewBill(q)) PROVE FALSE
    OBVIOUS
  <1>2. PICK q \in Request : Exists(NewBill(q)) /\ shown[Bill(NewBill(q))].supersededBy = 0
    BY <1>1 DEF Sound, NewBillsSound
  <1>3. shown[Bill(NewBill(q))].status # "SUPERSEDED"
    BY <1>2, NewBills DEF Sound, BillsSound
  <1>4. QED BY <1>2, <1>3 DEF HasBillThisYear, Exists

\* What is committed stays sound when nothing is committed.
LEMMA SoundKept ==
  ASSUME Sound, job' = job, shown' = shown, NEW r, at[r] # "done",
         \A q \in Request \ {r} : at'[q] = at[q]
  PROVE  Sound'
  <1>1. \A b : (Exists(b)' <=> Exists(b)) /\ (Paid(b)' <=> Paid(b))
    BY DEF Exists, Paid
  <1>2. \A q \in Request : at[q] = "done" => at'[q] = "done"
    OBVIOUS
  <1>3. BillsSound'
    BY <1>1 DEF Sound, BillsSound
  <1>4. NewBillsSound'
    BY <1>1, <1>2 DEF Sound, NewBillsSound, Bills
  <1>5. PaymentsSound'
    BY <1>1, <1>2 DEF Sound, PaymentsSound
  <1>6. QED BY <1>3, <1>4, <1>5 DEF Sound

\* A step of one request that commits nothing keeps the invariant if it keeps that request's part.
LEMMA QuietKeeps ==
  ASSUME PathInv, NEW r \in Request, Quiet(r), PassesAlone(r), TypeOK', LocksWork', Good(r)'
  PROVE  PathInv'
  <1>1. Sound'
    BY SoundKept DEF Quiet, PathInv
  <1>2. Later
    BY DEF Later, Quiet, Exists, Paid
  <1>3. ASSUME NEW q \in Request PROVE Good(q)'
    <2>1. CASE q = r BY <2>1
    <2>2. CASE q # r
      <3>1. Undisturbed(q) BY <2>2 DEF Quiet, Undisturbed
      <3>2. QED BY <3>1, <1>2, GoodKept DEF PathInv
    <2>3. QED BY <2>1, <2>2
  <1>4. OnlyBiller'
    <2>1. ASSUME NEW q \in Request, job'[q].kind = "ISSUE", at'[q] = "commit"
          PROVE  \A p \in Request : ~Exists(NewBill(p))
      <3>1. CASE q = r BY <2>1, <3>1 DEF PassesAlone, Quiet
      <3>2. CASE q # r BY <2>1, <3>2 DEF Quiet, PathInv, OnlyBiller
      <3>3. QED BY <3>1, <3>2
    <2>2. \A p : Exists(NewBill(p))' <=> Exists(NewBill(p))
      BY DEF Quiet, Exists
    <2>3. QED BY <2>1, <2>2 DEF OnlyBiller
  <1>5. QED BY <1>1, <1>3, <1>4 DEF PathInv

\* Which kinds of request are at a step.
LEMMA KindAt ==
  ASSUME PathInv, NEW r \in Request
  PROVE  /\ at[r] = "lock" => job[r].kind \in {"PAY", "REVERSE"}
         /\ at[r] = "post" => job[r].kind = "PAY"
         /\ at[r] \in {"hold", "undo"} => job[r].kind = "REVERSE"
         /\ at[r] = "credit" => job[r].kind \in {"PAY", "REVERSE"}
         /\ at[r] = "issue" => job[r].kind = "ISSUE"
         /\ at[r] \in {"scan", "roll", "open"} => job[r].kind = "ROLL"
         /\ at[r] \in {"refresh", "mark", "case"} => job[r].kind = "REFRESH"
         /\ at[r] \in {"edit", "read", "settle"} => job[r].kind = "EDIT"
         /\ at[r] = "commit" => job[r].kind \in {"PAY", "REVERSE", "ISSUE", "ROLL", "EDIT"}
  <1>1. job[r].kind \in {"PAY", "REVERSE", "ISSUE", "ROLL", "REFRESH", "EDIT"}
    BY JobsAreGood DEF PathInv, TypeOK
  <1>2. Good(r)
    BY DEF PathInv
  <1>3. CASE job[r].kind = "PAY" BY <1>2, <1>3 DEF Good, GoodPayment, Ended
  <1>4. CASE job[r].kind = "REVERSE" BY <1>2, <1>4 DEF Good, GoodReversal, Ended
  <1>5. CASE job[r].kind = "ISSUE" BY <1>2, <1>5 DEF Good, GoodIssue, Ended
  <1>6. CASE job[r].kind = "ROLL" BY <1>2, <1>6 DEF Good, GoodRoll, Ended
  <1>7. CASE job[r].kind = "REFRESH" BY <1>2, <1>7 DEF Good, GoodRefresh, Ended
  <1>8. CASE job[r].kind = "EDIT" BY <1>2, <1>8 DEF Good, GoodEdit, Ended
  <1>9. QED BY <1>1, <1>3, <1>4, <1>5, <1>6, <1>7, <1>8

\* Where the acting request goes.
LEMMA Goes ==
  ASSUME TypeOK, NEW r \in Request, NEW step \in Steps, Go(r, step)
  PROVE  /\ at' \in [Request -> Steps] /\ at'[r] = step
         /\ \A q \in Request \ {r} : at'[q] = at[q]
  BY DEF TypeOK, Go

\* What it holds after a statement that locks xs.
LEMMA HoldsNow ==
  ASSUME NEW r \in Request, NEW xs, xs \subseteq Row, Locked(r, xs)
  PROVE  /\ \A x \in Row : Holds(r, x)' <=> Holds(r, x) \/ x \in xs
         /\ \A ys : HoldsOnly(r, ys) => HoldsOnly(r, ys \cup xs)'
         /\ \A x \in xs : \A q \in Request : Holds(q, x) => q = r
  BY DEF Locked, Holds, HoldsOnly

\* Nothing of the rows or locks changes.
Still == data' = data

\* A step that only looks.
LEMMA StillKeeps ==
  ASSUME TypeOK, LocksWork, Still
  PROVE  /\ RowsOK(row)' /\ RowsOK(shown)' /\ LockTypes' /\ LocksWork'
         /\ row' = row /\ shown' = shown /\ lock' = lock
         /\ \A r, x : Holds(r, x)' <=> Holds(r, x)
         /\ \A r, xs : HoldsOnly(r, xs)' <=> HoldsOnly(r, xs)
  BY DEF TypeOK, LocksWork, Still, data, RowsOK, LockTypes, Holds, HoldsOnly

\* Rows of the right types replaced by others.
Fits(new) ==
  /\ DOMAIN new \subseteq Row
  /\ Payer \in DOMAIN new => new[Payer] \in Int
  /\ \A b \in BillId : /\ Bill(b) \in DOMAIN new => new[Bill(b)] \in BillRow
                       /\ Line(b) \in DOMAIN new => new[Line(b)] \in Nat
                       /\ Case(b) \in DOMAIN new => new[Case(b)] \in {"ABSENT", "OPEN", "CLOSED"}
  /\ \A p \in Request : Payment(p) \in DOMAIN new => new[Payment(p)] \in PaymentRow

\* A step that writes.
LEMMA FitsKeeps ==
  ASSUME RowsOK(row), NEW new, Fits(new), DOMAIN row' = Row,
         \A x \in Row : row'[x] = IF x \in DOMAIN new THEN new[x] ELSE row[x]
  PROVE  RowsOK(row)'
  BY RowsApart DEF RowsOK, Fits

\* What others hold is not written.
LEMMA OthersKeep ==
  ASSUME NEW r \in Request, NEW xs, xs \subseteq Row, Locked(r, xs),
         \A x \in Row : x \notin xs => row'[x] = row[x]
  PROVE  \A x \in Row : \A q \in Request \ {r} :
           lock'[x][q] = lock[x][q] /\ (Holds(q, x) => row'[x] = row[x])
  BY DEF Locked, Holds

\* A step of r that commits nothing and keeps the invariant.
Keeps(r) == Quiet(r) /\ PassesAlone(r) /\ TypeOK' /\ LocksWork' /\ Good(r)'

\* What a request remembers has its type.
LocalTypes ==
  /\ on \in [Request -> 0..(M + N)]
  /\ copy \in [Request -> BillRow]
  /\ todo \in [Request -> SUBSET (BillId \X BillStatus)]
  /\ took \in [Request -> SUBSET BillId]

\* The others remember what they did.
OthersSame(r) ==
  \A q \in Request \ {r} :
    on'[q] = on[q] /\ copy'[q] = copy[q] /\ todo'[q] = todo[q] /\ took'[q] = took[q]

\* A step that only looks.
LEMMA LookStep ==
  ASSUME PathInv, NEW r \in Request, NEW step \in Steps, Go(r, step), at[r] # "done",
         job' = job, Still, LocalTypes', OthersSame(r)
  PROVE  /\ Quiet(r) /\ TypeOK' /\ LocksWork' /\ at'[r] = step
         /\ row' = row /\ shown' = shown
         /\ \A x : Holds(r, x)' <=> Holds(r, x)
         /\ \A xs : HoldsOnly(r, xs)' <=> HoldsOnly(r, xs)
  <1>1. TypeOK /\ LocksWork BY DEF PathInv
  <1>2. /\ RowsOK(row)' /\ RowsOK(shown)' /\ LockTypes' /\ LocksWork'
        /\ row' = row /\ shown' = shown /\ lock' = lock
        /\ \A x : Holds(r, x)' <=> Holds(r, x)
        /\ \A xs : HoldsOnly(r, xs)' <=> HoldsOnly(r, xs)
    BY <1>1, StillKeeps
  <1>3. at' \in [Request -> Steps] /\ at'[r] = step /\ \A q \in Request \ {r} : at'[q] = at[q]
    BY <1>1, Goes
  <1>4. TypeOK' BY <1>1, <1>2, <1>3 DEF TypeOK, LocalTypes, LockTypes
  <1>5. Quiet(r) BY <1>2, <1>3 DEF Quiet, OthersSame
  <1>6. QED BY <1>2, <1>3, <1>4, <1>5

\* SELECT ... FOR UPDATE.
LEMMA LockStep ==
  ASSUME PathInv, NEW r \in Request, NEW step \in Steps, Go(r, step), at[r] # "done",
         job' = job, NEW x \in Row, Acquire(r, x, 3), LocalTypes', OthersSame(r)
  PROVE  /\ Quiet(r) /\ TypeOK' /\ LocksWork' /\ at'[r] = step
         /\ row' = row /\ shown' = shown
         /\ Holds(r, x)' /\ (~Holds(r, x) => row[x] = shown[x])
         /\ \A y \in Row : Holds(r, y)' <=> Holds(r, y) \/ y = x
         /\ \A ys : HoldsOnly(r, ys) => HoldsOnly(r, ys \cup {x})'
  <1>1. TypeOK /\ LocksWork /\ LockTypes BY DEF PathInv, TypeOK, LockTypes
  <1>2. LocksWork' /\ LockTypes' /\ Locked(r, {x}) /\ row' = row /\ shown' = shown
    BY <1>1, AcquireDoes
  <1>3. at' \in [Request -> Steps] /\ at'[r] = step /\ \A q \in Request \ {r} : at'[q] = at[q]
    BY <1>1, Goes
  <1>4. TypeOK' BY <1>1, <1>2, <1>3 DEF TypeOK, LocalTypes, LockTypes, RowsOK
  <1>5. \A y \in Row : \A q \in Request \ {r} : lock'[y][q] = lock[y][q]
    BY <1>2 DEF Locked
  <1>6. Quiet(r) BY <1>2, <1>3, <1>5 DEF Quiet, OthersSame
  <1>7. /\ \A y \in Row : Holds(r, y)' <=> Holds(r, y) \/ y \in {x}
        /\ \A ys : HoldsOnly(r, ys) => HoldsOnly(r, ys \cup {x})'
        /\ \A q \in Request : Holds(q, x) => q = r
    BY <1>2, HoldsNow
  <1>8. ~Holds(r, x) => row[x] = shown[x]
    BY <1>1, <1>7 DEF LocksWork
  <1>9. QED BY <1>2, <1>3, <1>4, <1>6, <1>7, <1>8

\* UPDATE and INSERT.
LEMMA WriteStep ==
  ASSUME PathInv, NEW r \in Request, NEW step \in Steps, Go(r, step), at[r] # "done",
         NEW new, NEW read, read \subseteq Row, Fits(new), WriteLocking(r, new, read),
         job' = job, locals' = locals
  PROVE  /\ Quiet(r) /\ TypeOK' /\ LocksWork' /\ at'[r] = step /\ shown' = shown
         /\ \A x \in Row : row'[x] = IF x \in DOMAIN new THEN new[x] ELSE row[x]
         /\ \A x \in Row : Holds(r, x)' <=> Holds(r, x) \/ x \in DOMAIN new \cup read
         /\ \A ys : HoldsOnly(r, ys) => HoldsOnly(r, ys \cup (DOMAIN new \cup read))'
         /\ \A x \in DOMAIN new \cup read : ~Holds(r, x) => row[x] = shown[x]
         /\ on' = on /\ copy' = copy /\ todo' = todo /\ took' = took
  <1>1. TypeOK /\ LocksWork /\ LockTypes /\ RowsOK(row) /\ DOMAIN row = Row
    BY DEF PathInv, TypeOK, LockTypes, RowsOK
  <1>2. DOMAIN new \subseteq Row BY DEF Fits
  <1>3. /\ LocksWork' /\ LockTypes' /\ Locked(r, DOMAIN new \cup read)
        /\ DOMAIN row' = Row
        /\ \A x \in Row : row'[x] = IF x \in DOMAIN new THEN new[x] ELSE row[x]
        /\ shown' = shown
    BY <1>1, <1>2, WriteLockingDoes
  <1>4. at' \in [Request -> Steps] /\ at'[r] = step /\ \A q \in Request \ {r} : at'[q] = at[q]
    BY <1>1, Goes
  <1>5. RowsOK(row)' BY <1>1, <1>3, FitsKeeps
  <1>6. on' = on /\ copy' = copy /\ todo' = todo /\ took' = took BY DEF locals
  <1>7. TypeOK' BY <1>1, <1>3, <1>4, <1>5, <1>6 DEF TypeOK, LockTypes, RowsOK
  <1>8. DOMAIN new \cup read \subseteq Row BY <1>2
  <1>9. \A x \in Row : \A q \in Request \ {r} :
           lock'[x][q] = lock[x][q] /\ (Holds(q, x) => row'[x] = row[x])
    BY <1>3, <1>8, OthersKeep
  <1>10. Quiet(r) BY <1>3, <1>4, <1>6, <1>9 DEF Quiet
  <1>11. /\ \A y \in Row : Holds(r, y)' <=> Holds(r, y) \/ y \in DOMAIN new \cup read
         /\ \A ys : HoldsOnly(r, ys) => HoldsOnly(r, ys \cup (DOMAIN new \cup read))'
         /\ \A x \in DOMAIN new \cup read : \A q \in Request : Holds(q, x) => q = r
    BY <1>3, <1>8, HoldsNow
  <1>12. \A x \in DOMAIN new \cup read : ~Holds(r, x) => row[x] = shown[x]
    BY <1>1, <1>8, <1>11 DEF LocksWork
  <1>13. QED BY <1>3, <1>4, <1>6, <1>7, <1>10, <1>11, <1>12

\* What a request holds after it has locked more.
LEMMA MoreHolds ==
  ASSUME NEW r, NEW xs, NEW ys, HoldsOnly(r, xs)', xs \subseteq ys
  PROVE  HoldsOnly(r, ys)'
  BY DEF HoldsOnly

-----------------------------------------------------------------------------
(* post_payment and reverse_payment. *)

\* The columns of each row.
LEMMA RowTypes ==
  ASSUME PathInv
  PROVE  /\ \A b \in BillId : shown[Bill(b)] \in BillRow /\ row[Bill(b)] \in BillRow
                               /\ shown[Line(b)] \in Nat /\ row[Line(b)] \in Nat
         /\ \A p \in Request : shown[Payment(p)] \in PaymentRow /\ row[Payment(p)] \in PaymentRow
         /\ \A r \in Request : copy[r] \in BillRow
         /\ shown[Payer] \in Int /\ row[Payer] \in Int
  BY DEF PathInv, TypeOK, RowsOK

\* recompute_bill restates total and status only, and a superseded bill stays so.
LEMMA SettleIs ==
  ASSUME PathInv, NEW r \in Request, NEW b \in BillId, NEW x \in BillRow
  PROVE  LET y == Settle(r, b, x)
         IN /\ y \in BillRow /\ y.status # "NONE"
            /\ y.paid = x.paid /\ y.supersededBy = x.supersededBy /\ y.arrears = x.arrears
            /\ y.status = "SUPERSEDED" <=> x.status = "SUPERSEDED"
  <1> DEFINE total == IF Wrote(r, Line(b)) THEN row[Line(b)] ELSE shown[Line(b)]
  <1>1. total \in Nat BY RowTypes
  <1> HIDE DEF total
  <1>2. PICK s : s = IF x.status = "SUPERSEDED" THEN x.status
                     ELSE IF x.paid >= total /\ total > 0 THEN "PAID"
                     ELSE IF PastDue(b) THEN "OVERDUE"
                     ELSE IF x.paid > 0 THEN "PART_PAID" ELSE "ISSUED"
    OBVIOUS
  <1>3. Settle(r, b, x) = [x EXCEPT !.total = total, !.status = s]
    BY <1>2 DEF Settle, total, BillRow
  <1>4. s \in BillStatus \ {"NONE"} /\ (s = "SUPERSEDED" <=> x.status = "SUPERSEDED")
    BY <1>2 DEF BillStatus, OpenStatus
  <1>5. QED BY <1>1, <1>3, <1>4 DEF BillRow

\* The view loads the bill to be paid.
LEMMA BeginPaymentKeeps ==
  ASSUME PathInv, NEW r \in Request, BeginPayment(r)
  PROVE  Keeps(r)
  <1>1. PICK b : b = job[r].ref
    OBVIOUS
  <1>2. job[r].kind = "PAY" /\ b \in BillId /\ Exists(b)
    BY <1>1, JobsAreGood DEF BeginPayment, PathInv, TypeOK, Exists
  <1>3. PICK step \in {"refused", "lock"} : Go(r, step)
    BY DEF BeginPayment
  <1>4. at[r] = "idle" /\ job' = job /\ Still /\ on' = [on EXCEPT ![r] = b] /\ copy' = copy /\ todo' = todo /\ took' = took
    BY <1>1 DEF BeginPayment, Still
  <1>5. TypeOK /\ Good(r) BY DEF PathInv
  <1>6. LocalTypes' /\ OthersSame(r) /\ on'[r] = b
    BY <1>2, <1>4, <1>5 DEF TypeOK, LocalTypes, OthersSame, BillId
  <1>7. step \in Steps BY DEF Steps, Ended
  <1>8. /\ Quiet(r) /\ TypeOK' /\ LocksWork' /\ at'[r] = step /\ shown' = shown
        /\ \A xs : HoldsOnly(r, xs)' <=> HoldsOnly(r, xs)
    BY <1>3, <1>4, <1>6, <1>7, LookStep
  <1>9. HoldsOnly(r, {})' BY <1>4, <1>5, <1>8 DEF Good
  <1>10. Exists(b)' BY <1>2, <1>8 DEF Exists
  <1>11. GoodPayment(r)'
    BY <1>2, <1>6, <1>8, <1>9, <1>10 DEF GoodPayment, Ended
  <1>12. Good(r)'
    BY <1>2, <1>4, <1>9, <1>11 DEF Good
  <1>13. QED BY <1>2, <1>8, <1>12 DEF Keeps, PassesAlone

\* A payment or reversal has the bill, and its copy is what is committed.
LEMMA LockBillKeeps ==
  ASSUME PathInv, NEW r \in Request, LockBill(r)
  PROVE  Keeps(r)
  <1>1. PICK b : b = on[r]
    OBVIOUS
  <1>2. TypeOK /\ Sound /\ Good(r) BY DEF PathInv
  <1>3. at[r] = "lock" /\ job[r].kind \in {"PAY", "REVERSE"}
    BY KindAt DEF LockBill
  <1>4. b \in BillId /\ Exists(b) /\ Bill(b) \in Row
    BY <1>1, <1>2, <1>3, OnIs, RowsApart
  <1>5. PICK step : step = IF job[r].kind = "PAY" THEN "post" ELSE "undo"
    OBVIOUS
  <1>6. /\ Go(r, step) /\ job' = job /\ Acquire(r, Bill(b), 3)
        /\ copy' = [copy EXCEPT ![r] = shown[Bill(b)]] /\ on' = on /\ todo' = todo /\ took' = took
    BY <1>1, <1>5, Strengths DEF LockBill
  <1>7. LocalTypes' /\ OthersSame(r) /\ copy'[r] = shown[Bill(b)]
    BY <1>2, <1>4, <1>6, RowTypes DEF TypeOK, LocalTypes, OthersSame
  <1>8. step \in Steps BY <1>5 DEF Steps, Ended
  <1>9. /\ Quiet(r) /\ TypeOK' /\ LocksWork' /\ at'[r] = step
        /\ row' = row /\ shown' = shown
        /\ Holds(r, Bill(b))' /\ (~Holds(r, Bill(b)) => row[Bill(b)] = shown[Bill(b)])
        /\ \A y \in Row : Holds(r, y)' <=> Holds(r, y) \/ y = Bill(b)
        /\ \A ys : HoldsOnly(r, ys) => HoldsOnly(r, ys \cup {Bill(b)})'
    BY <1>3, <1>4, <1>6, <1>7, <1>8, LockStep
  <1>10. Exists(b)' BY <1>4, <1>9 DEF Exists
  <1>11. CASE job[r].kind = "PAY"
    <2>1. HoldsOnly(r, {})
      BY <1>2, <1>3, <1>11 DEF Good, GoodPayment
    <2>2. HoldsOnly(r, {Bill(b)})' /\ ~Holds(r, Bill(b))
      <3>1. HoldsOnly(r, {} \cup {Bill(b)})' BY <2>1, <1>9
      <3>2. {} \cup {Bill(b)} = {Bill(b)} OBVIOUS
      <3>3. QED BY <3>1, <3>2, <2>1, <1>4 DEF HoldsOnly
    <2>3. HasCopy(r)'
      BY <2>2, <1>1, <1>6, <1>7, <1>9 DEF HasCopy
    <2>4. GoodPayment(r)'
      BY <2>2, <2>3, <1>1, <1>4, <1>5, <1>6, <1>9, <1>10, <1>11 DEF GoodPayment, Ended
    <2>5. Good(r)' BY <2>4, <1>5, <1>6, <1>9, <1>11 DEF Good, Ended
    <2>6. QED BY <2>5, <1>9, <1>11 DEF Keeps, PassesAlone
  <1>12. CASE job[r].kind = "REVERSE"
    <2>1. PICK p : p = job[r].ref
      OBVIOUS
    <2>2. p \in Request /\ Paid(p) /\ Holds(r, Payment(p)) /\ b = shown[Payment(p)].bill
          /\ HoldsOnly(r, {Payment(p)}) /\ row[Payment(p)] = shown[Payment(p)]
      BY <2>1, <1>1, <1>2, <1>3, <1>12, OnIs DEF Good, GoodReversal
    <2>3. HoldsOnly(r, {Payment(p), Bill(b)})' /\ ~Holds(r, Bill(b)) /\ Holds(r, Payment(p))'
      <3>1. HoldsOnly(r, {Payment(p)} \cup {Bill(b)})' BY <2>2, <1>9
      <3>2. {Payment(p)} \cup {Bill(b)} = {Payment(p), Bill(b)} OBVIOUS
      <3>3. Payment(p) # Bill(b) /\ Payment(p) \in Row BY <1>4, <2>2, RowsApart
      <3>4. QED BY <3>1, <3>2, <3>3, <2>2, <1>4, <1>9 DEF HoldsOnly
    <2>4. HasCopy(r)'
      BY <2>3, <1>1, <1>6, <1>7, <1>9 DEF HasCopy
    <2>5. Paid(p)' BY <2>2, <1>9 DEF Paid
    <2>6. GoodReversal(r)'
      BY <2>1, <2>2, <2>3, <2>4, <2>5, <1>1, <1>4, <1>5, <1>6, <1>9, <1>12 DEF GoodReversal, Ended
    <2>7. Good(r)' BY <2>6, <1>5, <1>6, <1>9, <1>12 DEF Good, Ended
    <2>8. QED BY <2>7, <1>9, <1>12 DEF Keeps, PassesAlone
  <1>13. QED BY <1>3, <1>11, <1>12

\* What has been put on a bill and what it owes are amounts.
LEMMA PutOnTypes ==
  ASSUME PathInv, NEW b \in BillId
  PROVE  /\ PutOn(b) \in [1..N -> Nat] /\ SumTo(PutOn(b), N) \in Nat
         /\ Owing(b) \in Nat /\ shown[Line(b)] \in Nat
         /\ Owing(b) > 0 => Owing(b) = shown[Line(b)] - SumTo(PutOn(b), N)
  <1>1. PutOn(b) \in [1..N -> Nat]
    <2>1. \A p \in Request : shown[Payment(p)].applied \in Nat
      BY RowTypes DEF PaymentRow
    <2>2. QED BY <2>1 DEF PutOn, Request
  <1>2. SumTo(PutOn(b), N) \in Nat
    BY <1>1, SumIsNat, PathConstants
  <1>3. shown[Line(b)] \in Nat
    BY RowTypes
  <1>4. QED BY <1>1, <1>2, <1>3 DEF Owing, Positive

\* A closed case is one of the bills named.
LEMMA OpenCasesIs ==
  ASSUME NEW bills \in SUBSET BillId
  PROVE  OpenCases(bills) \subseteq {Case(c) : c \in bills}
  BY DEF OpenCases

\* A payment applies no more than the line owes.
LEMMA PostPaymentKeeps ==
  ASSUME PathInv, NEW r \in Request, PostPayment(r)
  PROVE  /\ Keeps(r) /\ shown' = shown /\ on' = on
         /\ row'[Payment(r)].applied = Least(job[r].amount, Owing(on[r]))
  <1>1. PICK b : b = on[r]
    OBVIOUS
  <1>2. TypeOK /\ Sound /\ Good(r) BY DEF PathInv
  <1>3. at[r] = "post" /\ job[r].kind = "PAY"
    BY KindAt DEF PostPayment
  <1>4. b \in BillId /\ Exists(b)
    BY <1>1, <1>2, <1>3, OnIs
  <1>5. HoldsOnly(r, {Bill(b)}) /\ Holds(r, Bill(b)) /\ copy[r] = shown[Bill(b)]
    BY <1>1, <1>2, <1>3 DEF Good, GoodPayment, HasCopy
  <1>61. PICK applied \in {Least(job[r].amount, Owing(b))} :
           /\ \E settled \in {Settle(r, b, [copy[r] EXCEPT !.paid = @ + applied])} :
              \E closed \in {IF settled.status = "PAID" THEN OpenCases({b}) ELSE {}} :
                /\ WriteLocking(r,
                     [x \in {Bill(b), Payment(r)} \cup closed |->
                        IF x = Bill(b) THEN settled
                        ELSE IF x = Payment(r)
                          THEN [status |-> "CONFIRMED", bill |-> b, amount |-> job[r].amount, applied |-> applied]
                        ELSE "CLOSED"],
                     {Line(b)})
                /\ Go(r, IF applied < job[r].amount THEN "credit" ELSE "commit")
    BY <1>1 DEF PostPayment
  <1>62. PICK settled \in {Settle(r, b, [copy[r] EXCEPT !.paid = @ + applied])} :
              \E closed \in {IF settled.status = "PAID" THEN OpenCases({b}) ELSE {}} :
                /\ WriteLocking(r,
                     [x \in {Bill(b), Payment(r)} \cup closed |->
                        IF x = Bill(b) THEN settled
                        ELSE IF x = Payment(r)
                          THEN [status |-> "CONFIRMED", bill |-> b, amount |-> job[r].amount, applied |-> applied]
                        ELSE "CLOSED"],
                     {Line(b)})
                /\ Go(r, IF applied < job[r].amount THEN "credit" ELSE "commit")
    BY <1>61
  <1>63. PICK closed \in {IF settled.status = "PAID" THEN OpenCases({b}) ELSE {}} :
                /\ WriteLocking(r,
                     [x \in {Bill(b), Payment(r)} \cup closed |->
                        IF x = Bill(b) THEN settled
                        ELSE IF x = Payment(r)
                          THEN [status |-> "CONFIRMED", bill |-> b, amount |-> job[r].amount, applied |-> applied]
                        ELSE "CLOSED"],
                     {Line(b)})
                /\ Go(r, IF applied < job[r].amount THEN "credit" ELSE "commit")
    BY <1>62
  <1>64. job' = job /\ locals' = locals
    BY DEF PostPayment
  <1>65. PICK step : step = (IF applied < job[r].amount THEN "credit" ELSE "commit")
    OBVIOUS
  <1>6. /\ applied = Least(job[r].amount, Owing(b))
        /\ settled = Settle(r, b, [copy[r] EXCEPT !.paid = @ + applied])
        /\ closed = (IF settled.status = "PAID" THEN OpenCases({b}) ELSE {})
        /\ step = (IF applied < job[r].amount THEN "credit" ELSE "commit")
        /\ Go(r, step) /\ job' = job /\ locals' = locals
    BY <1>61, <1>62, <1>63, <1>64, <1>65
  <1>66. PICK new : new = [x \in {Bill(b), Payment(r)} \cup closed |->
                  IF x = Bill(b) THEN settled
                  ELSE IF x = Payment(r)
                    THEN [status |-> "CONFIRMED", bill |-> b, amount |-> job[r].amount, applied |-> applied]
                  ELSE "CLOSED"]
    OBVIOUS
  <1>7. applied \in Nat /\ job[r].amount \in Nat /\ applied <= job[r].amount
    BY <1>2, <1>4, <1>6, PutOnTypes, JobsAreGood DEF Least, TypeOK
  <1>8. /\ settled \in BillRow /\ settled.status # "NONE"
        /\ settled.paid = shown[Bill(b)].paid + applied
        /\ settled.supersededBy = shown[Bill(b)].supersededBy /\ settled.arrears = shown[Bill(b)].arrears
        /\ settled.status = "SUPERSEDED" <=> shown[Bill(b)].status = "SUPERSEDED"
    <2>1. PICK x : x = [copy[r] EXCEPT !.paid = @ + applied]
      OBVIOUS
    <2>2. shown[Bill(b)] \in BillRow BY <1>4, RowTypes
    <2>3. /\ x \in BillRow /\ x.paid = shown[Bill(b)].paid + applied
          /\ x.supersededBy = shown[Bill(b)].supersededBy /\ x.arrears = shown[Bill(b)].arrears
          /\ x.status = shown[Bill(b)].status
      BY <2>1, <2>2, <1>5, <1>7 DEF BillRow
    <2>4. QED BY <2>1, <2>3, <1>4, <1>6, SettleIs
  <1>9. closed \subseteq {Case(b)}
    BY <1>4, <1>6, OpenCasesIs
  <1>10. /\ Bill(b) \in Row /\ Line(b) \in Row /\ Case(b) \in Row /\ Payment(r) \in Row /\ Payer \in Row
         /\ Bill(b) # Payment(r) /\ Bill(b) # Case(b) /\ Payment(r) # Case(b)
         /\ Line(b) # Bill(b) /\ Line(b) # Payment(r) /\ Line(b) # Case(b)
         /\ Payer # Bill(b) /\ Payer # Line(b) /\ Payer # Case(b) /\ Payer # Payment(r)
    BY <1>4, RowsApart
  <1>11. /\ DOMAIN new = {Bill(b), Payment(r)} \cup closed
         /\ new[Bill(b)] = settled
         /\ new[Payment(r)] = [status |-> "CONFIRMED", bill |-> b, amount |-> job[r].amount, applied |-> applied]
         /\ \A x \in closed : new[x] = "CLOSED"
    BY <1>66, <1>9, <1>10
  <1>12. Fits(new)
    <2>1. [status |-> "CONFIRMED", bill |-> b, amount |-> job[r].amount, applied |-> applied] \in PaymentRow
      BY <1>4, <1>7 DEF PaymentRow, BillId
    <2>2. \A c \in BillId : Bill(c) \in DOMAIN new => new[Bill(c)] \in BillRow
      BY <1>8, <1>9, <1>11, <1>4, RowsApart
    <2>3. \A c \in BillId : Line(c) \notin DOMAIN new
      BY <1>9, <1>11, <1>4, RowsApart
    <2>4. \A c \in BillId : Case(c) \in DOMAIN new => new[Case(c)] = "CLOSED"
      BY <1>9, <1>11, <1>4, RowsApart
    <2>5. \A p \in Request : Payment(p) \in DOMAIN new => new[Payment(p)] \in PaymentRow
      BY <2>1, <1>9, <1>11, <1>4, RowsApart
    <2>6. DOMAIN new \subseteq Row /\ Payer \notin DOMAIN new
      BY <1>9, <1>10, <1>11
    <2>7. QED BY <2>2, <2>3, <2>4, <2>5, <2>6 DEF Fits
  <1>13. WriteLocking(r, new, {Line(b)}) /\ {Line(b)} \subseteq Row /\ step \in Steps /\ at[r] # "done"
    BY <1>3, <1>6, <1>63, <1>66, <1>10 DEF Steps
  <1>14. /\ Quiet(r) /\ TypeOK' /\ LocksWork' /\ at'[r] = step /\ shown' = shown
         /\ \A x \in Row : row'[x] = IF x \in DOMAIN new THEN new[x] ELSE row[x]
         /\ \A x \in Row : Holds(r, x)' <=> Holds(r, x) \/ x \in DOMAIN new \cup {Line(b)}
         /\ \A ys : HoldsOnly(r, ys) => HoldsOnly(r, ys \cup (DOMAIN new \cup {Line(b)}))'
         /\ \A x \in DOMAIN new \cup {Line(b)} : ~Holds(r, x) => row[x] = shown[x]
         /\ on' = on
    BY <1>6, <1>12, <1>13, WriteStep
  <1>15. HoldsOnly(r, {Bill(b), Line(b), Case(b), Payment(r)})'
    <2>1. HoldsOnly(r, {Bill(b)} \cup (DOMAIN new \cup {Line(b)}))' BY <1>5, <1>14
    <2>2. {Bill(b)} \cup (DOMAIN new \cup {Line(b)}) \subseteq {Bill(b), Line(b), Case(b), Payment(r)}
      BY <1>9, <1>11
    <2>3. QED BY <2>1, <2>2, MoreHolds
  <1>16. Holds(r, Bill(b))' /\ Holds(r, Line(b))' /\ Holds(r, Payment(r))' /\ ~Holds(r, Payer)'
    BY <1>5, <1>9, <1>10, <1>11, <1>14 DEF HoldsOnly
  <1>17. row'[Bill(b)] = settled /\ row'[Payment(r)] = new[Payment(r)] /\ row'[Line(b)] = row[Line(b)]
    BY <1>9, <1>10, <1>11, <1>14
  <1>18. row'[Line(b)] = shown'[Line(b)]
    BY <1>5, <1>10, <1>14, <1>17 DEF HoldsOnly
  <1>19. Restated(b)' /\ (row'[Bill(b)].status = "SUPERSEDED" <=> shown'[Bill(b)].status = "SUPERSEDED")
    BY <1>2, <1>4, <1>8, <1>14, <1>17 DEF Restated, Sound, BillsSound, Exists
  <1>20. row'[Payment(r)].status = "CONFIRMED" /\ row'[Payment(r)].bill = b
         /\ row'[Payment(r)].applied = applied /\ row'[Payment(r)].amount = job[r].amount
    BY <1>11, <1>17
  <1>21. step = "commit" => CreditDone(r)'
    <2>1. SUFFICES ASSUME step = "commit" PROVE CreditDone(r)'
      OBVIOUS
    <2>2. applied = job[r].amount BY <2>1, <1>6, <1>7
    <2>3. row'[Payment(r)].amount - row'[Payment(r)].applied = 0
      BY <2>2, <1>7, <1>20
    <2>4. CreditChange(r)' = row'[Payment(r)].amount - row'[Payment(r)].applied
      BY <1>3, <1>6 DEF CreditChange, Leftover
    <2>5. CreditChange(r)' = 0 BY <2>3, <2>4
    <2>6. QED BY <2>5, <1>16 DEF CreditDone
  <1>22. HoldsOnly(r, {Bill(b), Line(b), Case(b), Payment(r)} \cup IF at[r] = "commit" THEN {Payer} ELSE {})'
    BY <1>15 DEF HoldsOnly
  <1>23. Exists(b)' /\ on'[r] = b /\ job' = job BY <1>1, <1>4, <1>6, <1>14 DEF Exists
  <1>24. step \in {"credit", "commit"} BY <1>6
  <1>25. row'[Bill(b)].paid = shown'[Bill(b)].paid + row'[Payment(r)].applied
    BY <1>8, <1>14, <1>17, <1>20
  <1>26. GoodPayment(r)'
    BY <1>4, <1>7, <1>14, <1>16, <1>18, <1>19, <1>20, <1>21, <1>22, <1>23, <1>24, <1>25 DEF GoodPayment
  <1>27. Good(r)' BY <1>3, <1>14, <1>23, <1>24, <1>26 DEF Good, Ended
  <1>28. QED BY <1>1, <1>3, <1>6, <1>14, <1>20, <1>27 DEF Keeps, PassesAlone

\* The view loads the payment to be reversed.
LEMMA BeginReversalKeeps ==
  ASSUME PathInv, NEW r \in Request, BeginReversal(r)
  PROVE  Keeps(r)
  <1>1. PICK p : p = job[r].ref
    OBVIOUS
  <1>2. job[r].kind = "REVERSE" /\ p \in Request /\ Paid(p)
    BY <1>1, JobsAreGood DEF BeginReversal, PathInv, TypeOK, Paid
  <1>3. PICK step \in {"refused", "hold"} : Go(r, step)
    BY DEF BeginReversal
  <1>4. at[r] = "idle" /\ job' = job /\ Still /\ locals' = locals
    BY DEF BeginReversal, Still
  <1>5. TypeOK /\ Good(r) BY DEF PathInv
  <1>6. LocalTypes' /\ OthersSame(r)
    BY <1>4, <1>5 DEF TypeOK, LocalTypes, OthersSame, locals
  <1>7. step \in Steps BY DEF Steps, Ended
  <1>8. /\ Quiet(r) /\ TypeOK' /\ LocksWork' /\ at'[r] = step /\ shown' = shown
        /\ \A xs : HoldsOnly(r, xs)' <=> HoldsOnly(r, xs)
    BY <1>3, <1>4, <1>6, <1>7, LookStep
  <1>9. HoldsOnly(r, {})' BY <1>4, <1>5, <1>8 DEF Good
  <1>10. Paid(p)' BY <1>2, <1>8 DEF Paid
  <1>11. GoodReversal(r)'
    BY <1>1, <1>2, <1>4, <1>8, <1>9, <1>10 DEF GoodReversal, Ended
  <1>12. Good(r)' BY <1>2, <1>4, <1>9, <1>11 DEF Good
  <1>13. QED BY <1>2, <1>8, <1>12 DEF Keeps, PassesAlone

\* A reversal has the payment.
LEMMA LockPaymentKeeps ==
  ASSUME PathInv, NEW r \in Request, LockPayment(r)
  PROVE  Keeps(r)
  <1>1. PICK p : p = job[r].ref
    OBVIOUS
  <1>2. TypeOK /\ Sound /\ Good(r) BY DEF PathInv
  <1>3. at[r] = "hold" /\ job[r].kind = "REVERSE" /\ p \in Request /\ Payment(p) \in Row
    BY <1>1, <1>2, KindAt, OnIs, RowsApart DEF LockPayment
  <1>4. Paid(p) /\ HoldsOnly(r, {})
    BY <1>1, <1>2, <1>3 DEF Good, GoodReversal
  <1>5. PICK b : b = shown[Payment(p)].bill
    OBVIOUS
  <1>6. b \in BillId BY <1>2, <1>3, <1>4, <1>5 DEF Sound, PaymentsSound
  <1>7. /\ Go(r, "lock") /\ job' = job /\ Acquire(r, Payment(p), 3)
        /\ on' = [on EXCEPT ![r] = b] /\ copy' = copy /\ todo' = todo /\ took' = took
    BY <1>1, <1>5, Strengths DEF LockPayment
  <1>8. LocalTypes' /\ OthersSame(r) /\ on'[r] = b
    BY <1>2, <1>6, <1>7 DEF TypeOK, LocalTypes, OthersSame, BillId
  <1>9. "lock" \in Steps BY DEF Steps
  <1>10. /\ Quiet(r) /\ TypeOK' /\ LocksWork' /\ at'[r] = "lock"
         /\ row' = row /\ shown' = shown
         /\ Holds(r, Payment(p))' /\ (~Holds(r, Payment(p)) => row[Payment(p)] = shown[Payment(p)])
         /\ \A ys : HoldsOnly(r, ys) => HoldsOnly(r, ys \cup {Payment(p)})'
    BY <1>3, <1>7, <1>8, <1>9, LockStep
  <1>11. HoldsOnly(r, {Payment(p)})'
    <2>1. HoldsOnly(r, {} \cup {Payment(p)})' BY <1>4, <1>10
    <2>2. QED BY <2>1, MoreHolds
  <1>12. row'[Payment(p)] = shown'[Payment(p)]
    BY <1>3, <1>4, <1>10 DEF HoldsOnly
  <1>13. Paid(p)' BY <1>4, <1>10 DEF Paid
  <1>14. GoodReversal(r)'
    BY <1>1, <1>5, <1>7, <1>8, <1>10, <1>11, <1>12, <1>13 DEF GoodReversal, Ended
  <1>15. Good(r)' BY <1>3, <1>7, <1>10, <1>14 DEF Good, Ended
  <1>16. QED BY <1>3, <1>10, <1>15 DEF Keeps, PassesAlone

\* A reversal takes back what the payment applied.
LEMMA UndoPaymentKeeps ==
  ASSUME PathInv, NEW r \in Request, UndoPayment(r)
  PROVE  Keeps(r)
  <1>1. PICK p, b : p = job[r].ref /\ b = on[r]
    OBVIOUS
  <1>2. TypeOK /\ Sound /\ Good(r) BY DEF PathInv
  <1>3. at[r] = "undo" /\ job[r].kind = "REVERSE"
    BY KindAt DEF UndoPayment
  <1>4. p \in Request /\ b \in BillId /\ Exists(b)
    BY <1>1, <1>2, <1>3, OnIs
  <1>5. /\ HoldsOnly(r, {Payment(p), Bill(b)}) /\ Holds(r, Bill(b)) /\ Holds(r, Payment(p))
        /\ copy[r] = shown[Bill(b)] /\ Paid(p) /\ b = shown[Payment(p)].bill
    BY <1>1, <1>2, <1>3 DEF Good, GoodReversal, HasCopy
  <1>6. PICK y, settled, step :
          /\ y = shown[Payment(p)]
          /\ settled = Settle(r, b, Refunded(r, y))
          /\ step = (IF Leftover(y) > 0 THEN "credit" ELSE "commit")
          /\ Write(r, [x \in {Bill(b), Payment(p)} |->
                         IF x = Bill(b) THEN settled ELSE [y EXCEPT !.status = "REVERSED"]])
          /\ Go(r, step) /\ job' = job /\ locals' = locals
    BY <1>1 DEF UndoPayment
  <1> DEFINE new == [x \in {Bill(b), Payment(p)} |->
                         IF x = Bill(b) THEN settled ELSE [y EXCEPT !.status = "REVERSED"]]
  <1>7. y \in PaymentRow /\ y.applied <= y.amount
    BY <1>2, <1>4, <1>5, <1>6, RowTypes DEF Sound, PaymentsSound
  <1>8. /\ settled \in BillRow /\ settled.status # "NONE"
        /\ settled.paid = Positive(shown[Bill(b)].paid - y.applied)
        /\ settled.supersededBy = shown[Bill(b)].supersededBy /\ settled.arrears = shown[Bill(b)].arrears
        /\ settled.status = "SUPERSEDED" <=> shown[Bill(b)].status = "SUPERSEDED"
    <2>1. PICK x : x = Refunded(r, y)
      OBVIOUS
    <2>2. shown[Bill(b)] \in BillRow BY <1>4, RowTypes
    <2>3. Positive(shown[Bill(b)].paid - y.applied) \in Nat
      BY <2>2, <1>7 DEF BillRow, PaymentRow, Positive
    <2>4. /\ x \in BillRow /\ x.paid = Positive(shown[Bill(b)].paid - y.applied)
          /\ x.supersededBy = shown[Bill(b)].supersededBy /\ x.arrears = shown[Bill(b)].arrears
          /\ x.status = shown[Bill(b)].status
      BY <2>1, <2>2, <2>3, <1>5 DEF BillRow, Refunded
    <2>5. QED BY <2>1, <2>4, <1>4, <1>6, SettleIs
  <1>9. /\ Bill(b) \in Row /\ Payment(p) \in Row /\ Payer \in Row /\ Bill(b) # Payment(p)
        /\ Payer # Bill(b) /\ Payer # Payment(p)
    BY <1>4, RowsApart
  <1>10. /\ DOMAIN new = {Bill(b), Payment(p)} /\ new[Bill(b)] = settled
         /\ new[Payment(p)] = [y EXCEPT !.status = "REVERSED"]
    BY <1>9
  <1> HIDE DEF new
  <1>11. Fits(new)
    <2>1. [y EXCEPT !.status = "REVERSED"] \in PaymentRow BY <1>7 DEF PaymentRow
    <2>2. QED BY <2>1, <1>4, <1>8, <1>9, <1>10, RowsApart DEF Fits
  <1>12. WriteLocking(r, new, {}) /\ {} \subseteq Row /\ step \in Steps /\ at[r] # "done"
    BY <1>3, <1>6 DEF new, Steps, Write
  <1>13. /\ Quiet(r) /\ TypeOK' /\ LocksWork' /\ at'[r] = step /\ shown' = shown
         /\ \A x \in Row : row'[x] = IF x \in DOMAIN new THEN new[x] ELSE row[x]
         /\ \A x \in Row : Holds(r, x)' <=> Holds(r, x) \/ x \in DOMAIN new \cup {}
         /\ \A ys : HoldsOnly(r, ys) => HoldsOnly(r, ys \cup (DOMAIN new \cup {}))'
         /\ on' = on
    BY <1>6, <1>11, <1>12, WriteStep
  <1>14. HoldsOnly(r, {Bill(b), Payment(p)})'
    <2>1. HoldsOnly(r, {Payment(p), Bill(b)} \cup (DOMAIN new \cup {}))' BY <1>5, <1>13
    <2>2. QED BY <2>1, <1>10, MoreHolds
  <1>15. Holds(r, Bill(b))' /\ Holds(r, Payment(p))' /\ ~Holds(r, Payer)'
    BY <1>5, <1>9, <1>10, <1>13 DEF HoldsOnly
  <1>16. row'[Bill(b)] = settled /\ row'[Payment(p)] = [shown'[Payment(p)] EXCEPT !.status = "REVERSED"]
    BY <1>6, <1>9, <1>10, <1>13
  <1>17. Restated(b)' /\ (row'[Bill(b)].status = "SUPERSEDED" <=> shown'[Bill(b)].status = "SUPERSEDED")
    BY <1>2, <1>4, <1>8, <1>13, <1>16 DEF Restated, Sound, BillsSound, Exists
  <1>18. step = "commit" => CreditDone(r)'
    <2>1. SUFFICES ASSUME step = "commit" PROVE CreditDone(r)'
      OBVIOUS
    <2>2. Leftover(y) = 0 BY <2>1, <1>6, <1>7 DEF Leftover, PaymentRow
    <2>3. CreditChange(r)' = 0
      BY <2>2, <1>1, <1>3, <1>6, <1>7, <1>13, <1>16 DEF CreditChange, Leftover, PaymentRow
    <2>4. QED BY <2>3, <1>15 DEF CreditDone
  <1>19. HoldsOnly(r, {Bill(b), Payment(p)} \cup IF at[r] = "commit" THEN {Payer} ELSE {})'
    BY <1>14 DEF HoldsOnly
  <1>20. Paid(p)' /\ on'[r] = b /\ job' = job BY <1>1, <1>5, <1>6, <1>13 DEF Paid
  <1>21. step \in {"credit", "commit"} BY <1>6
  <1>22. row'[Bill(b)].paid = Positive(shown'[Bill(b)].paid - shown'[Payment(p)].applied)
    BY <1>6, <1>8, <1>13, <1>16
  <1>23. GoodReversal(r)'
    BY <1>1, <1>5, <1>13, <1>15, <1>16, <1>17, <1>18, <1>19, <1>20, <1>21, <1>22 DEF GoodReversal
  <1>24. Good(r)' BY <1>3, <1>13, <1>20, <1>21, <1>23 DEF Good, Ended
  <1>25. QED BY <1>3, <1>13, <1>24 DEF Keeps, PassesAlone

\* The payer's credit changes by what is left over.
LEMMA CreditPayerKeeps ==
  ASSUME PathInv, NEW r \in Request, CreditPayer(r)
  PROVE  /\ Keeps(r) /\ shown' = shown /\ on' = on
         /\ at[r] = "credit" /\ (job[r].kind = "PAY" => row'[Payment(r)] = row[Payment(r)])
  <1>1. PICK b, p : b = on[r] /\ p = (IF job[r].kind = "PAY" THEN r ELSE job[r].ref)
    OBVIOUS
  <1>2. TypeOK /\ Sound /\ Good(r) BY DEF PathInv
  <1>3. at[r] = "credit" /\ job[r].kind \in {"PAY", "REVERSE"}
    BY KindAt DEF CreditPayer
  <1>4. p \in Request /\ b \in BillId /\ Exists(b)
    BY <1>1, <1>2, <1>3, OnIs
  <1>5. PICK new : new = [x \in {Payer} |-> row[x] + CreditChange(r)]
    OBVIOUS
  <1>6. /\ Write(r, new) /\ Go(r, "commit") /\ job' = job /\ locals' = locals
    BY <1>5 DEF CreditPayer
  <1>7. CreditChange(r) = (IF job[r].kind = "PAY" THEN Leftover(row[Payment(p)]) ELSE -Leftover(row[Payment(p)]))
    BY <1>1 DEF CreditChange
  <1>8. CreditChange(r) \in Int
    BY <1>4, <1>7, RowTypes DEF Leftover, PaymentRow
  <1>9. /\ Bill(b) \in Row /\ Line(b) \in Row /\ Case(b) \in Row /\ Payment(p) \in Row /\ Payer \in Row
        /\ Payer # Bill(b) /\ Payer # Line(b) /\ Payer # Case(b) /\ Payer # Payment(p)
    BY <1>4, RowsApart
  <1>10. Fits(new)
    BY <1>5, <1>8, RowTypes, RowsApart DEF Fits
  <1>11. WriteLocking(r, new, {}) /\ {} \subseteq Row /\ "commit" \in Steps /\ at[r] # "done" /\ DOMAIN new = {Payer}
    BY <1>3, <1>5, <1>6 DEF Steps, Write
  <1>12. /\ Quiet(r) /\ TypeOK' /\ LocksWork' /\ at'[r] = "commit" /\ shown' = shown
         /\ \A x \in Row : row'[x] = IF x \in DOMAIN new THEN new[x] ELSE row[x]
         /\ \A x \in Row : Holds(r, x)' <=> Holds(r, x) \/ x \in DOMAIN new \cup {}
         /\ \A ys : HoldsOnly(r, ys) => HoldsOnly(r, ys \cup (DOMAIN new \cup {}))'
         /\ \A x \in DOMAIN new \cup {} : ~Holds(r, x) => row[x] = shown[x]
         /\ on' = on
    BY <1>6, <1>10, <1>11, WriteStep
  <1>13. /\ \A x \in Row : x # Payer => row'[x] = row[x] /\ (Holds(r, x)' <=> Holds(r, x))
         /\ row'[Payer] = row[Payer] + CreditChange(r)
         /\ Holds(r, Payer)'
    BY <1>5, <1>9, <1>11, <1>12
  <1>14. CreditChange(r)' = CreditChange(r)
    BY <1>1, <1>6, <1>9, <1>13 DEF CreditChange, Leftover
  <1>15. ASSUME ~Holds(r, Payer) PROVE CreditDone(r)'
    <2>1. row[Payer] = shown[Payer] BY <1>11, <1>12, <1>15
    <2>2. QED BY <2>1, <1>12, <1>13, <1>14 DEF CreditDone
  <1>16. Exists(b)' /\ on'[r] = b /\ job' = job BY <1>1, <1>4, <1>6, <1>12 DEF Exists
  <1>17. ASSUME NEW xs, HoldsOnly(r, xs) PROVE HoldsOnly(r, xs \cup {Payer})'
    <2>1. HoldsOnly(r, xs \cup (DOMAIN new \cup {}))' BY <1>12, <1>17
    <2>2. QED BY <2>1, <1>11, MoreHolds
  <1>18. ASSUME job[r].kind = "PAY" PROVE Keeps(r)
    <2>1. /\ HoldsOnly(r, {Bill(b), Line(b), Case(b), Payment(r)})
          /\ Holds(r, Bill(b)) /\ Holds(r, Line(b)) /\ Holds(r, Payment(r))
          /\ Restated(b) /\ (row[Bill(b)].status = "SUPERSEDED" <=> shown[Bill(b)].status = "SUPERSEDED")
          /\ row[Line(b)] = shown[Line(b)]
          /\ row[Payment(r)].status = "CONFIRMED" /\ row[Payment(r)].bill = b
          /\ row[Payment(r)].applied <= row[Payment(r)].amount
          /\ row[Bill(b)].paid = shown[Bill(b)].paid + row[Payment(r)].applied
      <3>1. GoodPayment(r) BY <1>2, <1>18 DEF Good
      <3>2. {Bill(b), Line(b), Case(b), Payment(r)} \cup {} = {Bill(b), Line(b), Case(b), Payment(r)} OBVIOUS
      <3>3. QED BY <3>1, <3>2, <1>1, <1>3 DEF GoodPayment
    <2>2. p = r BY <1>1, <1>18
    <2>3. CreditDone(r)' BY <2>1, <2>2, <1>9, <1>15 DEF HoldsOnly
    <2>4. HoldsOnly(r, {Bill(b), Line(b), Case(b), Payment(r)} \cup {Payer})' BY <2>1, <1>17
    <2>5. Holds(r, Bill(b))' /\ Holds(r, Line(b))' /\ Holds(r, Payment(r))'
      BY <2>1, <2>2, <1>9, <1>13
    <2>6. row'[Bill(b)] = row[Bill(b)] /\ row'[Line(b)] = row[Line(b)] /\ row'[Payment(r)] = row[Payment(r)]
      BY <2>2, <1>9, <1>13
    <2>7. Restated(b)' BY <2>1, <2>6, <1>12 DEF Restated
    <2>8. GoodPayment(r)'
      BY <2>1, <2>3, <2>4, <2>5, <2>6, <2>7, <1>4, <1>12, <1>16 DEF GoodPayment
    <2>9. Good(r)' BY <2>8, <1>12, <1>16, <1>18 DEF Good, Ended
    <2>10. QED BY <2>9, <1>12, <1>18 DEF Keeps, PassesAlone
  <1>19. ASSUME job[r].kind = "REVERSE" PROVE Keeps(r)
    <2>1. /\ HoldsOnly(r, {Bill(b), Payment(p)})
          /\ Paid(p) /\ Holds(r, Bill(b)) /\ Holds(r, Payment(p)) /\ b = shown[Payment(p)].bill
          /\ Restated(b) /\ (row[Bill(b)].status = "SUPERSEDED" <=> shown[Bill(b)].status = "SUPERSEDED")
          /\ row[Payment(p)] = [shown[Payment(p)] EXCEPT !.status = "REVERSED"]
          /\ row[Bill(b)].paid = Positive(shown[Bill(b)].paid - shown[Payment(p)].applied)
      <3>1. GoodReversal(r) /\ p = job[r].ref BY <1>1, <1>2, <1>19 DEF Good
      <3>2. {Bill(b), Payment(p)} \cup {} = {Bill(b), Payment(p)} OBVIOUS
      <3>3. QED BY <3>1, <3>2, <1>1, <1>3 DEF GoodReversal
    <2>2. p = job[r].ref BY <1>1, <1>19
    <2>3. CreditDone(r)' BY <2>1, <1>9, <1>15 DEF HoldsOnly
    <2>4. HoldsOnly(r, {Bill(b), Payment(p)} \cup {Payer})' BY <2>1, <1>17
    <2>5. Holds(r, Bill(b))' /\ Holds(r, Payment(p))' BY <2>1, <1>9, <1>13
    <2>6. row'[Bill(b)] = row[Bill(b)] /\ row'[Payment(p)] = row[Payment(p)] BY <1>9, <1>13
    <2>7. Restated(b)' BY <2>1, <2>6, <1>12 DEF Restated
    <2>8. Paid(p)' BY <2>1, <1>12 DEF Paid
    <2>9. GoodReversal(r)'
      BY <2>1, <2>2, <2>3, <2>4, <2>5, <2>6, <2>7, <2>8, <1>12, <1>16 DEF GoodReversal
    <2>10. Good(r)' BY <2>9, <1>12, <1>16, <1>19 DEF Good, Ended
    <2>11. QED BY <2>10, <1>12, <1>19 DEF Keeps, PassesAlone
  <1>20. QED BY <1>1, <1>3, <1>9, <1>12, <1>13, <1>18, <1>19

-----------------------------------------------------------------------------
(* issue_bill. *)

\* A biller has the payer.
LEMMA LockPayerKeeps ==
  ASSUME PathInv, NEW r \in Request, LockPayer(r)
  PROVE  Keeps(r)
  <1>1. PICK step : step = IF job[r].kind = "ISSUE" THEN "issue" ELSE "scan"
    OBVIOUS
  <1>2. TypeOK /\ Good(r) BY DEF PathInv
  <1>3. /\ at[r] = "idle" /\ job[r].kind \in {"ISSUE", "ROLL"} /\ Acquire(r, Payer, 3) /\ Go(r, step)
        /\ job' = job /\ locals' = locals
    BY <1>1, Strengths DEF LockPayer
  <1>4. LocalTypes' /\ OthersSame(r) /\ todo' = todo /\ took' = took
    BY <1>2, <1>3 DEF TypeOK, LocalTypes, OthersSame, locals
  <1>5. step \in Steps /\ Payer \in Row /\ at[r] # "done" BY <1>1, <1>3, RowsApart DEF Steps
  <1>6. HoldsOnly(r, {}) BY <1>2, <1>3 DEF Good
  <1>7. /\ Quiet(r) /\ TypeOK' /\ LocksWork' /\ at'[r] = step
        /\ row' = row /\ shown' = shown
        /\ Holds(r, Payer)' /\ (~Holds(r, Payer) => row[Payer] = shown[Payer])
        /\ \A ys : HoldsOnly(r, ys) => HoldsOnly(r, ys \cup {Payer})'
    BY <1>3, <1>4, <1>5, LockStep
  <1>8. HoldsOnly(r, {Payer})'
    <2>1. HoldsOnly(r, {} \cup {Payer})' BY <1>6, <1>7
    <2>2. QED BY <2>1, MoreHolds
  <1>9. PayerLocked(r)'
    BY <1>5, <1>6, <1>7 DEF PayerLocked, HoldsOnly
  <1>10. CASE job[r].kind = "ISSUE"
    <2>1. GoodIssue(r)' BY <1>1, <1>7, <1>8, <1>9, <1>10 DEF GoodIssue, Ended
    <2>2. QED BY <2>1, <1>1, <1>3, <1>7, <1>10 DEF Keeps, PassesAlone, Good, Ended
  <1>11. CASE job[r].kind = "ROLL"
    <2>1. GoodRoll(r) BY <1>2, <1>11 DEF Good
    <2>2. (\A e \in todo'[r] : Exists(e[1])') /\ took'[r] = {}
      BY <2>1, <1>3, <1>4, <1>7 DEF GoodRoll, Exists
    <2>3. GoodRoll(r)' BY <2>2, <1>1, <1>4, <1>7, <1>8, <1>9, <1>11 DEF GoodRoll, Ended
    <2>4. QED BY <2>3, <1>1, <1>3, <1>7, <1>11 DEF Keeps, PassesAlone, Good, Ended
  <1>12. QED BY <1>3, <1>10, <1>11

\* A request that ends holds nothing.
LEMMA EndsGood ==
  ASSUME PathInv, NEW r \in Request, at[r] \notin {"idle", "done"}, at'[r] \in Ended,
         job' = job, on' = on, todo' = todo, Unlocked(r), Later
  PROVE  Good(r)'
  <1>1. TypeOK /\ Good(r) BY DEF PathInv
  <1>2. \A xs : HoldsOnly(r, xs)'
    BY DEF Unlocked, HoldsOnly, Holds
  <1>3. \A x \in Row : ~Holds(r, x)'
    BY DEF Unlocked, Holds
  <1>4. job[r].kind = "PAY" => GoodPayment(r)'
    <2>1. SUFFICES ASSUME job[r].kind = "PAY" PROVE GoodPayment(r)'
      OBVIOUS
    <2>2. on'[r] \in BillId /\ Exists(on[r])'
      BY <2>1, <1>1 DEF Good, GoodPayment, Later, Exists
    <2>3. QED BY <2>2 DEF GoodPayment, Ended
  <1>5. job[r].kind = "REVERSE" => GoodReversal(r)'
    BY DEF GoodReversal, Ended
  <1>6. job[r].kind = "ISSUE" => GoodIssue(r)'
    BY DEF GoodIssue, Ended
  <1>7. job[r].kind = "ROLL" => GoodRoll(r)'
    <2>1. SUFFICES ASSUME job[r].kind = "ROLL" PROVE GoodRoll(r)'
      OBVIOUS
    <2>2. todo[r] \in SUBSET (BillId \X BillStatus) BY <1>1 DEF TypeOK
    <2>3. \A e \in todo[r] : e[1] \in BillId BY <2>2
    <2>4. \A e \in todo[r] : Exists(e[1]) BY <2>1, <1>1 DEF Good, GoodRoll
    <2>5. \A e \in todo'[r] : Exists(e[1])' BY <2>3, <2>4 DEF Later, Exists
    <2>6. QED BY <2>5 DEF GoodRoll, Ended
  <1>8. job[r].kind = "REFRESH" => GoodRefresh(r)'
    <2>1. SUFFICES ASSUME job[r].kind = "REFRESH" PROVE GoodRefresh(r)'
      OBVIOUS
    <2>2. \A b \in 1..M : ~Holds(r, Bill(b))'
      BY <1>3, RowsApart, NewBills
    <2>3. \A e \in todo'[r] : e[1] <= M
      BY <2>1, <1>1 DEF Good, GoodRefresh
    <2>4. QED BY <2>2, <2>3, <1>2 DEF GoodRefresh, Ended
  <1>9. job[r].kind = "EDIT" => GoodEdit(r)'
    <2>1. SUFFICES ASSUME job[r].kind = "EDIT" PROVE GoodEdit(r)'
      OBVIOUS
    <2>2. on'[r] \in BillId /\ Exists(on[r])'
      BY <2>1, <1>1 DEF Good, GoodEdit, Later, Exists
    <2>3. QED BY <2>2 DEF GoodEdit, Ended
  <1>10. QED
    BY <1>2, <1>4, <1>5, <1>6, <1>7, <1>8, <1>9 DEF Good

\* A request that gives up leaves the rows as committed.
LEMMA RollbackKeeps ==
  ASSUME PathInv, NEW r \in Request, NEW step \in {"refused", "aborted"}, Rollback(r, step),
         at[r] \notin {"idle", "done"}
  PROVE  Keeps(r)
  <1>1. TypeOK /\ Sound /\ Good(r) /\ LocksWork /\ LockTypes /\ RowsOK(row) /\ RowsOK(shown)
    BY DEF PathInv, TypeOK, LockTypes
  <1>2. /\ LocksWork' /\ LockTypes' /\ Unlocked(r)
        /\ DOMAIN row' = Row
        /\ \A x \in Row : row'[x] = IF Holds(r, x) THEN shown[x] ELSE row[x]
        /\ shown' = shown
    BY <1>1, RollbackDoes
  <1>3. Go(r, step) /\ job' = job /\ on' = on /\ copy' = copy /\ todo' = todo /\ took' = took
    BY DEF Rollback, locals
  <1>4. step \in Steps BY DEF Steps, Ended
  <1>5. at' \in [Request -> Steps] /\ at'[r] = step /\ \A q \in Request \ {r} : at'[q] = at[q]
    BY <1>1, <1>3, <1>4, Goes
  <1>6. RowsOK(row)'
    BY <1>1, <1>2, RowsApart DEF RowsOK
  <1>7. TypeOK'
    BY <1>1, <1>2, <1>3, <1>5, <1>6 DEF TypeOK, LockTypes, RowsOK
  <1>8. \A x \in Row : \A q \in Request \ {r} : Holds(q, x) => ~Holds(r, x)
    BY <1>1 DEF LocksWork
  <1>9. Quiet(r)
    BY <1>2, <1>3, <1>5, <1>8 DEF Quiet, Unlocked
  <1>10. Later
    BY <1>2 DEF Later, Exists, Paid
  <1>11. Good(r)'
    BY <1>2, <1>3, <1>5, <1>10, EndsGood DEF Ended
  <1>12. QED BY <1>2, <1>5, <1>7, <1>9, <1>11 DEF Keeps, PassesAlone

\* PostgreSQL ends a request that waits, so one that has begun and not ended.
LEMMA AbortKeeps ==
  ASSUME PathInv, NEW r \in Request, Abort(r)
  PROVE  Keeps(r)
  <1>1. Rollback(r, "aborted") /\ WaitsInCircle(r, Request)
    BY DEF Abort
  <1>2. \E q \in Request : WaitsFor(r, q)
    BY <1>1 DEF WaitsInCircle
  <1>3. Wanted(r) # {}
    BY <1>2 DEF WaitsFor
  <1>4. at[r] \notin {"idle", "done"}
    BY <1>3 DEF Wanted
  <1>5. QED BY <1>1, <1>4, RollbackKeeps

\* The row of a new bill.
LEMMA NewRowType ==
  ASSUME NEW fresh \in Nat, NEW arrears \in Nat
  PROVE  LET y == NewRow(fresh, arrears)
         IN /\ y \in BillRow /\ y.status = "ISSUED" /\ y.paid = 0 /\ y.arrears = arrears
            /\ y.supersededBy = 0
  <1>1. NoBill \in BillRow /\ NoBill.paid = 0 /\ NoBill.supersededBy = 0
    BY PathConstants DEF NoBill, BillRow, BillStatus, OpenStatus
  <1>2. fresh + arrears \in Nat /\ "ISSUED" \in BillStatus
    BY DEF BillStatus, OpenStatus
  <1>3. QED BY <1>1, <1>2 DEF BillRow, NewRow

\* A bill of fresh charges is written only if there is none this year.
LEMMA IssueBillKeeps ==
  ASSUME PathInv, NEW r \in Request, IssueBill(r)
  PROVE  Keeps(r)
  <1>1. PICK b : b = NewBill(r)
    OBVIOUS
  <1>2. TypeOK /\ Sound /\ Good(r) BY DEF PathInv
  <1>3. at[r] = "issue" /\ job[r].kind = "ISSUE" /\ job[r].amount \in Nat
    BY <1>2, KindAt, JobsAreGood DEF IssueBill, TypeOK
  <1>4. CASE Rollback(r, "refused")
    BY <1>3, <1>4, RollbackKeeps
  <1>5. CASE ~Rollback(r, "refused")
    <2>1. PICK new : new = [x \in {Bill(b), Line(b)} |-> IF x = Bill(b) THEN NewRow(job[r].amount, 0) ELSE job[r].amount]
      OBVIOUS
    <2>2. ~HasBillThisYear /\ Write(r, new) /\ Go(r, "commit") /\ job' = job /\ locals' = locals
      BY <2>1, <1>1, <1>5 DEF IssueBill
    <2>3. /\ b \in BillId /\ Bill(b) \in Row /\ Line(b) \in Row /\ Payer \in Row
          /\ Bill(b) # Line(b) /\ Payer # Bill(b) /\ Payer # Line(b)
      BY <1>1, NewBills, RowsApart
    <2>4. DOMAIN new = {Bill(b), Line(b)} /\ new[Bill(b)] = NewRow(job[r].amount, 0) /\ new[Line(b)] = job[r].amount
      BY <2>1, <2>3
    <2>5. Fits(new)
      BY <2>3, <2>4, <1>3, NewRowType, RowsApart DEF Fits
    <2>6. WriteLocking(r, new, {}) /\ {} \subseteq Row /\ "commit" \in Steps /\ at[r] # "done"
      BY <2>2, <1>3 DEF Steps, Write
    <2>7. /\ Quiet(r) /\ TypeOK' /\ LocksWork' /\ at'[r] = "commit" /\ shown' = shown
          /\ \A x \in Row : row'[x] = IF x \in DOMAIN new THEN new[x] ELSE row[x]
          /\ \A x \in Row : Holds(r, x)' <=> Holds(r, x) \/ x \in DOMAIN new \cup {}
          /\ \A ys : HoldsOnly(r, ys) => HoldsOnly(r, ys \cup (DOMAIN new \cup {}))'
      BY <2>2, <2>5, <2>6, WriteStep
    <2>8. Holds(r, Payer) /\ row[Payer] = shown[Payer] /\ HoldsOnly(r, {Payer})
      BY <1>2, <1>3 DEF Good, GoodIssue, PayerLocked
    <2>9. HoldsOnly(r, {Payer, Bill(b), Line(b)})'
      <3>1. HoldsOnly(r, {Payer} \cup (DOMAIN new \cup {}))' BY <2>7, <2>8
      <3>2. QED BY <3>1, <2>4, MoreHolds
    <2>10. PayerLocked(r)' BY <2>3, <2>4, <2>7, <2>8 DEF PayerLocked
    <2>11. Holds(r, Bill(b))' /\ row'[Bill(b)] = NewRow(job[r].amount, 0)
      BY <2>3, <2>4, <2>7
    <2>12. job' = job BY <2>2
    <2>13. GoodIssue(r)'
      BY <2>7, <2>9, <2>10, <2>11, <2>12, <1>1 DEF GoodIssue
    <2>14. Good(r)' BY <2>7, <2>12, <2>13, <1>3 DEF Good, Ended
    <2>15. PassesAlone(r) BY <2>2, <1>2, LiveBill DEF PassesAlone
    <2>16. QED BY <2>7, <2>14, <2>15 DEF Keeps
  <1>6. QED BY <1>4, <1>5

\* What a consolidation holds while it locks the open bills.
LEMMA RollHolds ==
  ASSUME PathInv, NEW r \in Request, at[r] \in {"scan", "roll", "open"}
  PROVE  /\ job[r].kind = "ROLL" /\ Holds(r, Payer) /\ row[Payer] = shown[Payer]
         /\ \A e \in todo[r] : e[1] \in BillId /\ Exists(e[1])
         /\ HoldsOnly(r, {Payer} \cup {Bill(c) : c \in BillId})
         /\ \A c \in BillId : Holds(r, Bill(c)) => Exists(c) /\ row[Bill(c)] = shown[Bill(c)]
         /\ took[r] \subseteq BillId /\ \A c \in took[r] : Holds(r, Bill(c)) /\ IsOpen(c)
  <1>1. job[r].kind = "ROLL" BY KindAt
  <1>2. GoodRoll(r) /\ TypeOK BY <1>1 DEF PathInv, Good
  <1>3. Holds(r, Payer) /\ row[Payer] = shown[Payer]
    BY <1>2 DEF GoodRoll, PayerLocked, Ended
  <1>4. took[r] \subseteq BillId /\ \A e \in todo[r] : e[1] \in BillId /\ Exists(e[1])
    <2>1. todo[r] \in SUBSET (BillId \X BillStatus) /\ took[r] \subseteq BillId BY <1>2 DEF TypeOK
    <2>2. \A e \in todo[r] : Exists(e[1]) BY <1>2 DEF GoodRoll
    <2>3. QED BY <2>1, <2>2
  <1>5. CASE at[r] = "scan"
    <2>1. HoldsOnly(r, {Payer}) /\ took[r] = {} BY <1>2, <1>5 DEF GoodRoll
    <2>2. \A c \in BillId : ~Holds(r, Bill(c)) BY <2>1, RowsApart DEF HoldsOnly
    <2>3. HoldsOnly(r, {Payer} \cup {Bill(c) : c \in BillId}) BY <2>1 DEF HoldsOnly
    <2>4. QED BY <2>1, <2>2, <2>3, <1>1, <1>3, <1>4
  <1>6. CASE at[r] \in {"roll", "open"}
    <2>1. HoldsOnly(r, {Payer} \cup {Bill(c) : c \in BillId}) BY <1>2, <1>6 DEF GoodRoll
    <2>2. \A c \in BillId : Holds(r, Bill(c)) => Exists(c) /\ row[Bill(c)] = shown[Bill(c)]
      BY <1>2, <1>6 DEF GoodRoll
    <2>3. \A c \in took[r] : Holds(r, Bill(c)) /\ IsOpen(c) BY <1>2, <1>6 DEF GoodRoll
    <2>4. QED BY <2>1, <2>2, <2>3, <1>1, <1>3, <1>4
  <1>7. QED BY <1>5, <1>6

\* A consolidation that goes on to lock bills.
LEMMA RollsOn ==
  ASSUME PathInv, NEW r \in Request, at'[r] \in {"roll", "open"}, job[r].kind = "ROLL", job' = job,
         Holds(r, Payer)', row'[Payer] = shown'[Payer],
         \A e \in todo'[r] : Exists(e[1])',
         at'[r] = "open" => on'[r] \in BillId /\ Exists(on[r])',
         HoldsOnly(r, {Payer} \cup {Bill(c) : c \in BillId})',
         \A c \in BillId : Holds(r, Bill(c))' => Exists(c)' /\ row'[Bill(c)] = shown'[Bill(c)],
         \A c \in took'[r] : Holds(r, Bill(c))' /\ IsOpen(c)'
  PROVE  Good(r)'
  <1>1. PayerLocked(r)' BY DEF PayerLocked
  <1>2. GoodRoll(r)' BY <1>1 DEF GoodRoll, Ended
  <1>3. QED BY <1>2 DEF Good, Ended

\* The query of a consolidation finds bills that exist.
LEMMA ScanOpenBillsKeeps ==
  ASSUME PathInv, NEW r \in Request, ScanOpenBills(r)
  PROVE  Keeps(r)
  <1>1. PICK found : found = Found({b \in BillId : IsOpen(b)})
    OBVIOUS
  <1>2. /\ at[r] = "scan" /\ todo' = [todo EXCEPT ![r] = found] /\ Go(r, "roll")
        /\ job' = job /\ Still /\ on' = on /\ copy' = copy /\ took' = took
    BY <1>1 DEF ScanOpenBills, Still
  <1>3. TypeOK BY DEF PathInv
  <1>4. found \in SUBSET (BillId \X BillStatus) /\ \A e \in found : Exists(e[1])
    <2>1. \A e \in found : \E b \in BillId : IsOpen(b) /\ e = <<b, shown[Bill(b)].status>>
      BY <1>1 DEF Found
    <2>2. \A b \in BillId : shown[Bill(b)].status \in BillStatus BY RowTypes DEF BillRow
    <2>3. \A b \in BillId : IsOpen(b) => Exists(b) BY DEF IsOpen, OpenStatus, Exists
    <2>4. QED BY <2>1, <2>2, <2>3
  <1>5. LocalTypes' /\ OthersSame(r) /\ todo'[r] = found
    BY <1>2, <1>3, <1>4 DEF TypeOK, LocalTypes, OthersSame
  <1>6. "roll" \in Steps BY DEF Steps
  <1>7. /\ Quiet(r) /\ TypeOK' /\ LocksWork' /\ at'[r] = "roll" /\ row' = row /\ shown' = shown
        /\ \A x : Holds(r, x)' <=> Holds(r, x)
        /\ \A xs : HoldsOnly(r, xs)' <=> HoldsOnly(r, xs)
    BY <1>2, <1>5, <1>6, LookStep
  <1>8. \A c : (Exists(c)' <=> Exists(c)) /\ (IsOpen(c)' <=> IsOpen(c)) BY <1>7 DEF Exists, IsOpen
  <1>9. Good(r)'
    BY <1>2, <1>4, <1>5, <1>7, <1>8, RollHolds, RollsOn
  <1>10. QED BY <1>2, <1>7, <1>9, RollHolds DEF Keeps, PassesAlone

\* Its loop takes the next of them.
LEMMA NextOpenBillKeeps ==
  ASSUME PathInv, NEW r \in Request, NextOpenBill(r)
  PROVE  Keeps(r)
  <1>1. PICK e \in todo[r] : on' = [on EXCEPT ![r] = e[1]] /\ todo' = [todo EXCEPT ![r] = @ \ {e}]
    BY DEF NextOpenBill
  <1>2. /\ at[r] = "roll" /\ Go(r, "open") /\ job' = job /\ Still /\ copy' = copy /\ took' = took
    BY DEF NextOpenBill, Still
  <1>3. TypeOK BY DEF PathInv
  <1>4. e[1] \in BillId /\ Exists(e[1]) BY <1>1, <1>2, RollHolds
  <1>5. LocalTypes' /\ OthersSame(r) /\ todo'[r] \subseteq todo[r] /\ on'[r] = e[1]
    BY <1>1, <1>2, <1>3, <1>4 DEF TypeOK, LocalTypes, OthersSame, BillId
  <1>6. "open" \in Steps BY DEF Steps
  <1>7. /\ Quiet(r) /\ TypeOK' /\ LocksWork' /\ at'[r] = "open" /\ row' = row /\ shown' = shown
        /\ \A x : Holds(r, x)' <=> Holds(r, x)
        /\ \A xs : HoldsOnly(r, xs)' <=> HoldsOnly(r, xs)
    BY <1>2, <1>5, <1>6, LookStep
  <1>8. \A c : (Exists(c)' <=> Exists(c)) /\ (IsOpen(c)' <=> IsOpen(c)) BY <1>7 DEF Exists, IsOpen
  <1>9. Exists(on[r])' BY <1>4, <1>5, <1>7 DEF Exists
  <1>10. Good(r)'
    BY <1>2, <1>4, <1>5, <1>7, <1>8, <1>9, RollHolds, RollsOn
  <1>11. QED BY <1>2, <1>7, <1>10, RollHolds DEF Keeps, PassesAlone

\* A bill is taken if it is still open under its lock.
LEMMA LockOpenBillKeeps ==
  ASSUME PathInv, NEW r \in Request, LockOpenBill(r)
  PROVE  Keeps(r)
  <1>1. PICK b, kept : b = on[r] /\ kept = IF IsOpen(b) THEN took[r] \cup {b} ELSE took[r]
    OBVIOUS
  <1>2. /\ at[r] = "open" /\ Go(r, "roll") /\ job' = job /\ Acquire(r, Bill(b), 3)
        /\ took' = [took EXCEPT ![r] = kept] /\ on' = on /\ copy' = copy /\ todo' = todo
    BY <1>1, Strengths DEF LockOpenBill
  <1>3. TypeOK /\ Good(r) /\ job[r].kind = "ROLL" BY <1>2, KindAt DEF PathInv
  <1>4. b \in BillId /\ Exists(b) /\ Bill(b) \in Row /\ Payer \in Row
    BY <1>1, <1>2, <1>3, RowsApart DEF Good, GoodRoll
  <1>5. LocalTypes' /\ OthersSame(r) /\ took'[r] = kept
    BY <1>1, <1>2, <1>3, <1>4 DEF TypeOK, LocalTypes, OthersSame
  <1>6. "roll" \in Steps BY DEF Steps
  <1>7. /\ Quiet(r) /\ TypeOK' /\ LocksWork' /\ at'[r] = "roll"
        /\ row' = row /\ shown' = shown
        /\ Holds(r, Bill(b))' /\ (~Holds(r, Bill(b)) => row[Bill(b)] = shown[Bill(b)])
        /\ \A y \in Row : Holds(r, y)' <=> Holds(r, y) \/ y = Bill(b)
        /\ \A ys : HoldsOnly(r, ys) => HoldsOnly(r, ys \cup {Bill(b)})'
    BY <1>2, <1>4, <1>5, <1>6, LockStep
  <1>8. \A c : (Exists(c)' <=> Exists(c)) /\ (IsOpen(c)' <=> IsOpen(c)) BY <1>7 DEF Exists, IsOpen
  <1>9. HoldsOnly(r, {Payer} \cup {Bill(c) : c \in BillId})'
    <2>1. HoldsOnly(r, ({Payer} \cup {Bill(c) : c \in BillId}) \cup {Bill(b)})' BY <1>2, <1>7, RollHolds
    <2>2. QED BY <2>1, <1>4, MoreHolds
  <1>10. \A c \in BillId : Holds(r, Bill(c))' => Exists(c)' /\ row'[Bill(c)] = shown'[Bill(c)]
    <2>1. ASSUME NEW c \in BillId, Holds(r, Bill(c)) PROVE Exists(c) /\ row[Bill(c)] = shown[Bill(c)]
      BY <2>1, <1>2, RollHolds
    <2>2. Exists(b)' /\ row'[Bill(b)] = shown'[Bill(b)]
      <3>1. row[Bill(b)] = shown[Bill(b)] BY <2>1, <1>4, <1>7
      <3>2. QED BY <3>1, <1>4, <1>7, <1>8
    <2>3. ASSUME NEW c \in BillId, c # b, Holds(r, Bill(c))' PROVE Exists(c)' /\ row'[Bill(c)] = shown'[Bill(c)]
      <3>1. Bill(c) \in Row /\ Bill(c) # Bill(b) BY <2>3, <1>4, RowsApart
      <3>2. Holds(r, Bill(c)) BY <3>1, <2>3, <1>7
      <3>3. QED BY <3>2, <2>1, <1>7, <1>8
    <2>4. QED BY <2>2, <2>3
  <1>11. \A c \in took'[r] : Holds(r, Bill(c))' /\ IsOpen(c)'
    <2>1. ASSUME NEW c \in took[r] PROVE Holds(r, Bill(c))' /\ IsOpen(c)'
      <3>1. c \in BillId /\ Holds(r, Bill(c)) /\ IsOpen(c) BY <1>2, RollHolds
      <3>2. QED BY <3>1, <1>7, <1>8, RowsApart
    <2>2. ASSUME IsOpen(b) PROVE Holds(r, Bill(b))' /\ IsOpen(b)'
      BY <2>2, <1>7, <1>8
    <2>3. QED BY <2>1, <2>2, <1>1, <1>5
  <1>12. Good(r)'
    BY <1>2, <1>3, <1>4, <1>7, <1>8, <1>9, <1>10, <1>11, RollHolds, RollsOn
  <1>13. QED BY <1>3, <1>7, <1>12 DEF Keeps, PassesAlone

\* What a set of bills owes is an amount.
LEMMA OwedIs ==
  ASSUME PathInv, NEW bills
  PROVE  /\ [b \in BillId |-> IF b \in bills THEN Owing(b) ELSE 0] \in [1..(M + N) -> Nat]
         /\ OwedOn(bills) \in Nat
  <1>1. [b \in BillId |-> IF b \in bills THEN Owing(b) ELSE 0] \in [1..(M + N) -> Nat]
    BY PutOnTypes DEF BillId
  <1>2. M + N \in Nat BY PathConstants
  <1>3. QED BY <1>1, <1>2, SumIsNat DEF OwedOn

\* A consolidation carries over what the bills it took owe by now.
LEMMA SupersedeKeeps ==
  ASSUME PathInv, NEW r \in Request, Supersede(r)
  PROVE  /\ Keeps(r)
         /\ at'[r] = "commit" /\ row'[Bill(NewBill(r))].arrears = OwedOn(took[r])
         /\ shown' = shown /\ took' = took
  <1>1. PICK b, old : b = NewBill(r) /\ old = {Bill(c) : c \in took[r]}
    OBVIOUS
  <1>2. PICK owed \in {OwedOn(took[r])}, closed \in {OpenCases(took[r])} :
          Write(r, [x \in {Bill(b), Line(b)} \cup old \cup closed |->
                      IF x = Bill(b) THEN NewRow(job[r].amount, owed)
                      ELSE IF x = Line(b) THEN job[r].amount + owed
                      ELSE IF x \in old
                        THEN [row[x] EXCEPT !.status = "SUPERSEDED", !.supersededBy = b]
                      ELSE "CLOSED"])
    BY <1>1 DEF Supersede
  <1>3. PICK new : new = [x \in {Bill(b), Line(b)} \cup old \cup closed |->
                      IF x = Bill(b) THEN NewRow(job[r].amount, owed)
                      ELSE IF x = Line(b) THEN job[r].amount + owed
                      ELSE IF x \in old
                        THEN [row[x] EXCEPT !.status = "SUPERSEDED", !.supersededBy = b]
                      ELSE "CLOSED"]
    OBVIOUS
  <1>4. at[r] = "roll" /\ todo[r] = {} /\ Write(r, new) /\ Go(r, "commit") /\ job' = job /\ locals' = locals
    BY <1>2, <1>3 DEF Supersede
  <1>5. TypeOK /\ Good(r) /\ job[r].kind = "ROLL" /\ job[r].amount \in Nat
    BY <1>4, KindAt, JobsAreGood DEF PathInv, TypeOK
  <1>6. /\ Holds(r, Payer) /\ row[Payer] = shown[Payer]
        /\ HoldsOnly(r, {Payer} \cup {Bill(c) : c \in BillId})
        /\ \A c \in BillId : Holds(r, Bill(c)) => Exists(c) /\ row[Bill(c)] = shown[Bill(c)]
        /\ took[r] \subseteq BillId /\ \A c \in took[r] : Holds(r, Bill(c)) /\ IsOpen(c)
    BY <1>4, RollHolds
  <1>7. owed = OwedOn(took[r]) /\ owed \in Nat /\ closed \subseteq {Case(c) : c \in took[r]}
    BY <1>2, <1>6, OwedIs, OpenCasesIs
  <1>8. b \in BillId /\ Bill(b) \in Row /\ Line(b) \in Row /\ Payer \in Row
        /\ Bill(b) # Line(b) /\ Payer # Bill(b) /\ Payer # Line(b) /\ b # 0
    BY <1>1, NewBills, RowsApart
  <1>9. DOMAIN new = {Bill(b), Line(b)} \cup old \cup closed
    BY <1>3
  <1>10. new[Bill(b)] = NewRow(job[r].amount, owed) /\ new[Line(b)] = job[r].amount + owed
    BY <1>3, <1>8
  <1>11. ASSUME NEW c \in BillId
         PROVE  /\ c # b => (Bill(c) \in DOMAIN new <=> c \in took[r])
                /\ c # b /\ c \in took[r] =>
                     new[Bill(c)] = [row[Bill(c)] EXCEPT !.status = "SUPERSEDED", !.supersededBy = b]
                /\ Line(c) \in DOMAIN new <=> c = b
                /\ Case(c) \in DOMAIN new => new[Case(c)] = "CLOSED"
    <2>1. /\ \A d \in BillId : Bill(c) = Bill(d) => c = d
          /\ \A d \in BillId : Case(c) # Bill(d) /\ Line(c) # Bill(d) /\ Line(c) # Case(d) /\ Case(c) # Line(d)
                               /\ Bill(c) # Line(d) /\ Bill(c) # Case(d)
          /\ Line(c) = Line(b) => c = b
      BY <1>8, RowsApart
    <2>2. \A x \in old : \E d \in BillId : x = Bill(d) /\ d \in took[r]
      BY <1>1, <1>6
    <2>3. \A x \in closed : \E d \in BillId : x = Case(d)
      BY <1>6, <1>7
    <2>4. Bill(c) \in old <=> c \in took[r]
      BY <2>1, <2>2, <1>1
    <2>5. Bill(c) \notin closed /\ Line(c) \notin old /\ Line(c) \notin closed /\ Case(c) \notin old
      BY <2>1, <2>2, <2>3
    <2>6. c # b => Bill(c) # Bill(b) /\ Bill(c) # Line(b)
      BY <2>1, <1>8
    <2>7. Case(c) # Bill(b) /\ Case(c) # Line(b) /\ Line(c) # Bill(b)
      BY <2>1, <1>8
    <2>8. c # b => (Bill(c) \in DOMAIN new <=> c \in took[r])
      BY <2>4, <2>5, <2>6, <1>9
    <2>9. c # b /\ c \in took[r] =>
                     new[Bill(c)] = [row[Bill(c)] EXCEPT !.status = "SUPERSEDED", !.supersededBy = b]
      BY <2>4, <2>6, <1>3
    <2>10. Line(c) \in DOMAIN new <=> c = b
      BY <2>1, <2>5, <2>7, <1>9
    <2>11. Case(c) \in DOMAIN new => new[Case(c)] = "CLOSED"
      BY <2>5, <2>7, <1>3
    <2>12. QED BY <2>8, <2>9, <2>10, <2>11
  <1>12. Payer \notin DOMAIN new /\ \A p \in Request : Payment(p) \notin DOMAIN new
    <2>1. \A x \in DOMAIN new : \E d \in BillId : x = Bill(d) \/ x = Line(d) \/ x = Case(d)
      BY <1>1, <1>6, <1>7, <1>8, <1>9
    <2>2. QED BY <2>1, RowsApart
  <1>13. DOMAIN new \subseteq {Payer, Line(b)} \cup {Bill(c) : c \in BillId} \cup {Case(c) : c \in BillId}
    BY <1>1, <1>6, <1>7, <1>8, <1>9
  <1>14. Fits(new)
    <2>1. DOMAIN new \subseteq Row BY <1>8, <1>13, RowsApart
    <2>2. NewRow(job[r].amount, owed) \in BillRow /\ job[r].amount + owed \in Nat
      BY <1>5, <1>7, NewRowType
    <2>3. \A c \in BillId : [row[Bill(c)] EXCEPT !.status = "SUPERSEDED", !.supersededBy = b] \in BillRow
      <3>1. "SUPERSEDED" \in BillStatus /\ b \in 0..(M + N)
        BY <1>8 DEF BillStatus, BillId
      <3>2. \A c \in BillId : row[Bill(c)] \in BillRow BY RowTypes
      <3>3. QED BY <3>1, <3>2 DEF BillRow
    <2>4. \A c \in BillId : Bill(c) \in DOMAIN new => new[Bill(c)] \in BillRow
      BY <2>2, <2>3, <1>10, <1>11
    <2>5. \A c \in BillId : /\ Line(c) \in DOMAIN new => new[Line(c)] \in Nat
                            /\ Case(c) \in DOMAIN new => new[Case(c)] \in {"ABSENT", "OPEN", "CLOSED"}
      BY <2>2, <1>10, <1>11
    <2>6. QED BY <2>1, <2>4, <2>5, <1>12 DEF Fits
  <1>15. WriteLocking(r, new, {}) /\ {} \subseteq Row /\ "commit" \in Steps /\ at[r] # "done"
    BY <1>4 DEF Steps, Write
  <1>16. /\ Quiet(r) /\ TypeOK' /\ LocksWork' /\ at'[r] = "commit" /\ shown' = shown
         /\ \A x \in Row : row'[x] = IF x \in DOMAIN new THEN new[x] ELSE row[x]
         /\ \A x \in Row : Holds(r, x)' <=> Holds(r, x) \/ x \in DOMAIN new \cup {}
         /\ \A ys : HoldsOnly(r, ys) => HoldsOnly(r, ys \cup (DOMAIN new \cup {}))'
         /\ todo' = todo /\ took' = took
    BY <1>4, <1>14, <1>15, WriteStep
  <1>17. HoldsOnly(r, {Payer, Line(b)} \cup {Bill(c) : c \in BillId} \cup {Case(c) : c \in BillId})'
    <2>1. HoldsOnly(r, ({Payer} \cup {Bill(c) : c \in BillId}) \cup (DOMAIN new \cup {}))' BY <1>6, <1>16
    <2>2. ({Payer} \cup {Bill(c) : c \in BillId}) \cup (DOMAIN new \cup {})
            \subseteq {Payer, Line(b)} \cup {Bill(c) : c \in BillId} \cup {Case(c) : c \in BillId}
      BY <1>13
    <2>3. QED BY <2>1, <2>2, MoreHolds
  <1>18. PayerLocked(r)'
    BY <1>6, <1>8, <1>12, <1>16 DEF PayerLocked
  <1>19. Holds(r, Bill(b))' /\ row'[Bill(b)] = NewRow(job[r].amount, owed) /\ row'[Bill(b)].arrears = owed
    BY <1>5, <1>7, <1>8, <1>9, <1>10, <1>16, NewRowType
  <1>20. ASSUME NEW c \in BillId, c # b, Holds(r, Bill(c))'
         PROVE  /\ Exists(c)'
                /\ row'[Bill(c)] = IF c \in took'[r]
                     THEN [shown'[Bill(c)] EXCEPT !.status = "SUPERSEDED", !.supersededBy = b]
                     ELSE shown'[Bill(c)]
    <2>1. Bill(c) \in Row BY RowsApart
    <2>2. Holds(r, Bill(c))
      BY <2>1, <1>6, <1>11, <1>16, <1>20
    <2>3. Exists(c) /\ row[Bill(c)] = shown[Bill(c)] BY <2>2, <1>6
    <2>4. CASE c \in took[r]
      BY <2>1, <2>3, <2>4, <1>11, <1>16, <1>20 DEF Exists
    <2>5. CASE c \notin took[r]
      BY <2>1, <2>3, <2>5, <1>11, <1>16, <1>20 DEF Exists
    <2>6. QED BY <2>4, <2>5
  <1>21. \A c \in took'[r] : Holds(r, Bill(c))' /\ IsOpen(c)'
    <2>1. ASSUME NEW c \in took[r] PROVE Holds(r, Bill(c))' /\ IsOpen(c)'
      <3>1. c \in BillId /\ Holds(r, Bill(c)) /\ IsOpen(c) /\ Bill(c) \in Row BY <1>6, RowsApart
      <3>2. QED BY <3>1, <1>16 DEF IsOpen
    <2>2. QED BY <2>1, <1>16
  <1>22. job' = job /\ \A e \in todo'[r] : Exists(e[1])' BY <1>4, <1>16
  <1>23. GoodRoll(r)'
    BY <1>1, <1>16, <1>17, <1>18, <1>19, <1>20, <1>21, <1>22 DEF GoodRoll, Ended
  <1>24. Good(r)' BY <1>5, <1>16, <1>22, <1>23 DEF Good, Ended
  <1>25. QED BY <1>1, <1>5, <1>7, <1>16, <1>19, <1>24 DEF Keeps, PassesAlone

-----------------------------------------------------------------------------
(* refresh_debt. *)

\* What the refresh may hold.
OverdueRows == {Bill(b) : b \in 1..M} \cup {Case(b) : b \in 1..M}

\* The refresh holds overdue bills and their cases only.
LEMMA RefreshHolds ==
  ASSUME PathInv, NEW r \in Request, job[r].kind = "REFRESH"
  PROVE  /\ HoldsOnly(r, OverdueRows)
         /\ \A e \in todo[r] : e[1] \in 1..M /\ e[1] \in BillId
         /\ at[r] \in {"mark", "case"} =>
              on[r] \in 1..M /\ on[r] \in BillId /\ Bill(on[r]) \in Row /\ Case(on[r]) \in Row
         /\ \A b \in 1..M : Holds(r, Bill(b)) => row[Bill(b)] = [shown[Bill(b)] EXCEPT !.status = "OVERDUE"]
  <1>1. GoodRefresh(r) /\ TypeOK BY DEF PathInv, Good
  <1>2. 1..M \subseteq BillId BY NewBills
  <1>3. \A e \in todo[r] : e[1] \in 1..M /\ e[1] \in BillId
    <2>1. todo[r] \in SUBSET (BillId \X BillStatus) BY <1>1 DEF TypeOK
    <2>2. \A e \in todo[r] : e[1] \in BillId BY <2>1
    <2>3. \A e \in todo[r] : e[1] <= M BY <1>1 DEF GoodRefresh
    <2>4. QED BY <2>2, <2>3, PathConstants DEF BillId
  <1>4. at[r] \in {"mark", "case"} => on[r] \in 1..M BY <1>1 DEF GoodRefresh
  <1>5. at[r] \in {"mark", "case"} =>
          on[r] \in 1..M /\ on[r] \in BillId /\ Bill(on[r]) \in Row /\ Case(on[r]) \in Row
    BY <1>2, <1>4, RowsApart
  <1>6. \A b \in 1..M : Holds(r, Bill(b)) => row[Bill(b)] = [shown[Bill(b)] EXCEPT !.status = "OVERDUE"]
    BY <1>1 DEF GoodRefresh
  <1>7. QED BY <1>1, <1>3, <1>5, <1>6 DEF GoodRefresh, OverdueRows

\* A refresh that goes on.
LEMMA RefreshesOn ==
  ASSUME NEW r \in Request, job[r].kind = "REFRESH", job' = job, at'[r] \in {"refresh", "mark", "case"},
         HoldsOnly(r, OverdueRows)', \A e \in todo'[r] : e[1] <= M,
         at'[r] \in {"mark", "case"} => on'[r] \in 1..M,
         \A b \in 1..M : Holds(r, Bill(b))' => row'[Bill(b)] = [shown'[Bill(b)] EXCEPT !.status = "OVERDUE"]
  PROVE  Good(r)'
  <1>1. GoodRefresh(r)' BY DEF GoodRefresh, OverdueRows
  <1>2. QED BY <1>1 DEF Good, Ended

\* The query of the refresh.
LEMMA ScanOverdueBillsKeeps ==
  ASSUME PathInv, NEW r \in Request, ScanOverdueBills(r)
  PROVE  Keeps(r)
  <1>1. PICK found : found = Found({b \in BillId : IsOpen(b) /\ PastDue(b)})
    OBVIOUS
  <1>2. /\ job[r].kind = "REFRESH" /\ at[r] = "idle" /\ todo' = [todo EXCEPT ![r] = found] /\ Go(r, "refresh")
        /\ job' = job /\ Still /\ on' = on /\ copy' = copy /\ took' = took
    BY <1>1 DEF ScanOverdueBills, Still
  <1>3. TypeOK BY DEF PathInv
  <1>4. found \in SUBSET (BillId \X BillStatus) /\ \A e \in found : e[1] <= M
    <2>1. \A e \in found : \E b \in BillId : b <= M /\ e = <<b, shown[Bill(b)].status>>
      BY <1>1 DEF Found, PastDue
    <2>2. \A b \in BillId : shown[Bill(b)].status \in BillStatus BY RowTypes DEF BillRow
    <2>3. QED BY <2>1, <2>2
  <1>5. LocalTypes' /\ OthersSame(r) /\ todo'[r] = found
    BY <1>2, <1>3, <1>4 DEF TypeOK, LocalTypes, OthersSame
  <1>6. "refresh" \in Steps BY DEF Steps
  <1>7. /\ Quiet(r) /\ TypeOK' /\ LocksWork' /\ at'[r] = "refresh" /\ row' = row /\ shown' = shown
        /\ \A x : Holds(r, x)' <=> Holds(r, x)
        /\ \A xs : HoldsOnly(r, xs)' <=> HoldsOnly(r, xs)
    BY <1>2, <1>5, <1>6, LookStep
  <1>8. HoldsOnly(r, OverdueRows)' BY <1>2, <1>7, RefreshHolds
  <1>9. Good(r)' BY <1>2, <1>4, <1>5, <1>7, <1>8, RefreshHolds, RefreshesOn
  <1>10. QED BY <1>2, <1>7, <1>9 DEF Keeps, PassesAlone

\* Its loop takes the next bill.
LEMMA NextOverdueBillKeeps ==
  ASSUME PathInv, NEW r \in Request, NextOverdueBill(r)
  PROVE  Keeps(r)
  <1>1. PICK e \in todo[r] : /\ on' = [on EXCEPT ![r] = e[1]] /\ todo' = [todo EXCEPT ![r] = @ \ {e}]
                             /\ Go(r, IF e[2] = "OVERDUE" THEN "case" ELSE "mark")
    BY DEF NextOverdueBill
  <1>2. PICK step \in {"case", "mark"} : Go(r, step)
    BY <1>1
  <1>3. at[r] = "refresh" /\ job' = job /\ Still /\ copy' = copy /\ took' = took
    BY DEF NextOverdueBill, Still
  <1>4. TypeOK /\ job[r].kind = "REFRESH" BY <1>3, KindAt DEF PathInv
  <1>5. e[1] \in 1..M /\ e[1] \in BillId /\ \A f \in todo[r] : f[1] \in 1..M BY <1>1, <1>4, RefreshHolds
  <1>6. LocalTypes' /\ OthersSame(r) /\ todo'[r] \subseteq todo[r] /\ on'[r] = e[1]
    BY <1>1, <1>3, <1>4, <1>5 DEF TypeOK, LocalTypes, OthersSame, BillId
  <1>7. step \in Steps BY DEF Steps
  <1>8. /\ Quiet(r) /\ TypeOK' /\ LocksWork' /\ at'[r] = step /\ row' = row /\ shown' = shown
        /\ \A x : Holds(r, x)' <=> Holds(r, x)
        /\ \A xs : HoldsOnly(r, xs)' <=> HoldsOnly(r, xs)
    BY <1>2, <1>3, <1>6, <1>7, LookStep
  <1>9. HoldsOnly(r, OverdueRows)' BY <1>4, <1>8, RefreshHolds
  <1>10. \A f \in todo'[r] : f[1] <= M BY <1>5, <1>6
  <1>11. Good(r)' BY <1>3, <1>4, <1>5, <1>6, <1>8, <1>9, <1>10, RefreshHolds, RefreshesOn
  <1>12. QED BY <1>4, <1>8, <1>11 DEF Keeps, PassesAlone

\* A bill is marked overdue.
LEMMA MarkOverdueKeeps ==
  ASSUME PathInv, NEW r \in Request, MarkOverdue(r)
  PROVE  Keeps(r)
  <1>1. PICK b : b = on[r]
    OBVIOUS
  <1>2. PICK new : new = [x \in {Bill(b)} |-> [row[x] EXCEPT !.status = "OVERDUE"]]
    OBVIOUS
  <1>3. at[r] = "mark" /\ Write(r, new) /\ Go(r, "case") /\ job' = job /\ locals' = locals
    BY <1>1, <1>2 DEF MarkOverdue
  <1>4. job[r].kind = "REFRESH" BY <1>3, KindAt
  <1>5. b \in 1..M /\ b \in BillId /\ Bill(b) \in Row BY <1>1, <1>3, <1>4, RefreshHolds
  <1>6. DOMAIN new = {Bill(b)} /\ new[Bill(b)] = [row[Bill(b)] EXCEPT !.status = "OVERDUE"] BY <1>2
  <1>7. row[Bill(b)] \in BillRow BY <1>5, RowTypes
  <1>8. Fits(new)
    <2>1. "OVERDUE" \in BillStatus BY DEF BillStatus, OpenStatus
    <2>2. new[Bill(b)] \in BillRow BY <2>1, <1>6, <1>7 DEF BillRow
    <2>3. QED BY <2>2, <1>5, <1>6, RowsApart DEF Fits
  <1>9. WriteLocking(r, new, {}) /\ {} \subseteq Row /\ "case" \in Steps /\ at[r] # "done"
    BY <1>3 DEF Steps, Write
  <1>10. /\ Quiet(r) /\ TypeOK' /\ LocksWork' /\ at'[r] = "case" /\ shown' = shown
         /\ \A x \in Row : row'[x] = IF x \in DOMAIN new THEN new[x] ELSE row[x]
         /\ \A x \in Row : Holds(r, x)' <=> Holds(r, x) \/ x \in DOMAIN new \cup {}
         /\ \A ys : HoldsOnly(r, ys) => HoldsOnly(r, ys \cup (DOMAIN new \cup {}))'
         /\ \A x \in DOMAIN new \cup {} : ~Holds(r, x) => row[x] = shown[x]
         /\ on' = on /\ todo' = todo
    BY <1>3, <1>8, <1>9, WriteStep
  <1>11. HoldsOnly(r, OverdueRows)'
    <2>1. HoldsOnly(r, OverdueRows \cup (DOMAIN new \cup {}))' BY <1>4, <1>10, RefreshHolds
    <2>2. OverdueRows \cup (DOMAIN new \cup {}) \subseteq OverdueRows BY <1>5, <1>6 DEF OverdueRows
    <2>3. QED BY <2>1, <2>2, MoreHolds
  <1>12. row'[Bill(b)] = [shown'[Bill(b)] EXCEPT !.status = "OVERDUE"]
    <2>1. row'[Bill(b)] = [row[Bill(b)] EXCEPT !.status = "OVERDUE"] BY <1>5, <1>6, <1>10
    <2>2. CASE Holds(r, Bill(b))
      <3>1. row[Bill(b)] = [shown[Bill(b)] EXCEPT !.status = "OVERDUE"] BY <2>2, <1>4, <1>5, RefreshHolds
      <3>2. shown[Bill(b)] \in BillRow BY <1>5, RowTypes
      <3>3. QED BY <2>1, <3>1, <3>2, <1>10 DEF BillRow
    <2>3. CASE ~Holds(r, Bill(b))
      <3>1. row[Bill(b)] = shown[Bill(b)] BY <2>3, <1>6, <1>10
      <3>2. QED BY <3>1, <2>1, <1>10
    <2>4. QED BY <2>2, <2>3
  <1>13. ASSUME NEW c \in 1..M, Holds(r, Bill(c))'
         PROVE  row'[Bill(c)] = [shown'[Bill(c)] EXCEPT !.status = "OVERDUE"]
    <2>1. CASE c = b BY <2>1, <1>12
    <2>2. CASE c # b
      <3>1. c \in BillId /\ Bill(c) \in Row /\ Bill(c) # Bill(b) BY <2>2, <1>5, RowsApart, NewBills
      <3>2. Holds(r, Bill(c)) /\ row'[Bill(c)] = row[Bill(c)] BY <3>1, <1>6, <1>10, <1>13
      <3>3. QED BY <3>2, <1>4, <1>10, RefreshHolds
    <2>3. QED BY <2>1, <2>2
  <1>14. on'[r] \in 1..M /\ \A e \in todo'[r] : e[1] <= M BY <1>1, <1>4, <1>5, <1>10, RefreshHolds
  <1>15. Good(r)' BY <1>3, <1>4, <1>10, <1>11, <1>13, <1>14, RefreshesOn
  <1>16. QED BY <1>4, <1>10, <1>15 DEF Keeps, PassesAlone

\* A case is opened for it.
LEMMA OpenCaseKeeps ==
  ASSUME PathInv, NEW r \in Request, OpenCase(r)
  PROVE  Keeps(r)
  <1>1. PICK b : b = on[r]
    OBVIOUS
  <1>2. at[r] = "case" /\ Go(r, "refresh") /\ job' = job /\ locals' = locals /\ "refresh" \in Steps
    BY DEF OpenCase, Steps
  <1>3. TypeOK /\ job[r].kind = "REFRESH" BY <1>2, KindAt DEF PathInv
  <1>4. b \in 1..M /\ b \in BillId /\ Case(b) \in Row BY <1>1, <1>2, <1>3, RefreshHolds
  <1>5. on' = on /\ todo' = todo /\ \A e \in todo'[r] : e[1] <= M
    BY <1>2, <1>3, RefreshHolds DEF locals
  <1>6. CASE Still
    <2>1. LocalTypes' /\ OthersSame(r) BY <1>2, <1>3 DEF TypeOK, LocalTypes, OthersSame, locals
    <2>2. /\ Quiet(r) /\ TypeOK' /\ LocksWork' /\ at'[r] = "refresh" /\ row' = row /\ shown' = shown
          /\ \A x : Holds(r, x)' <=> Holds(r, x)
          /\ \A xs : HoldsOnly(r, xs)' <=> HoldsOnly(r, xs)
      BY <2>1, <1>2, <1>6, LookStep
    <2>3. HoldsOnly(r, OverdueRows)' BY <2>2, <1>3, RefreshHolds
    <2>4. Good(r)' BY <2>2, <2>3, <1>2, <1>3, <1>5, RefreshHolds, RefreshesOn
    <2>5. QED BY <2>2, <2>4, <1>3 DEF Keeps, PassesAlone
  <1>7. CASE ~Still
    <2>1. PICK new : new = [x \in {Case(b)} |-> "OPEN"]
      OBVIOUS
    <2>2. WriteLocking(r, new, {}) /\ {} \subseteq Row
      BY <2>1, <1>1, <1>7 DEF OpenCase, Write, Still
    <2>3. DOMAIN new = {Case(b)} /\ new[Case(b)] = "OPEN" BY <2>1
    <2>4. Fits(new) BY <2>3, <1>4, RowsApart DEF Fits
    <2>5. at[r] # "done" BY <1>2
    <2>6. /\ Quiet(r) /\ TypeOK' /\ LocksWork' /\ at'[r] = "refresh" /\ shown' = shown
          /\ \A x \in Row : row'[x] = IF x \in DOMAIN new THEN new[x] ELSE row[x]
          /\ \A x \in Row : Holds(r, x)' <=> Holds(r, x) \/ x \in DOMAIN new \cup {}
          /\ \A ys : HoldsOnly(r, ys) => HoldsOnly(r, ys \cup (DOMAIN new \cup {}))'
      BY <2>2, <2>4, <2>5, <1>2, WriteStep
    <2>7. HoldsOnly(r, OverdueRows)'
      <3>1. HoldsOnly(r, OverdueRows \cup (DOMAIN new \cup {}))' BY <2>6, <1>3, RefreshHolds
      <3>2. OverdueRows \cup (DOMAIN new \cup {}) \subseteq OverdueRows BY <2>3, <1>4 DEF OverdueRows
      <3>3. QED BY <3>1, <3>2, MoreHolds
    <2>8. ASSUME NEW c \in 1..M, Holds(r, Bill(c))'
          PROVE  row'[Bill(c)] = [shown'[Bill(c)] EXCEPT !.status = "OVERDUE"]
      <3>1. c \in BillId /\ Bill(c) \in Row /\ Bill(c) # Case(b) BY <1>4, RowsApart, NewBills
      <3>2. Holds(r, Bill(c)) /\ row'[Bill(c)] = row[Bill(c)] BY <3>1, <2>3, <2>6, <2>8
      <3>3. QED BY <3>2, <2>6, <1>3, RefreshHolds
    <2>9. Good(r)' BY <2>6, <2>7, <2>8, <1>2, <1>3, <1>5, RefreshesOn
    <2>10. QED BY <2>6, <2>9, <1>3 DEF Keeps, PassesAlone
  <1>8. QED BY <1>6, <1>7

-----------------------------------------------------------------------------
(* update_bill_line. *)

\* The view loads the line to be edited.
LEMMA BeginEditKeeps ==
  ASSUME PathInv, NEW r \in Request, BeginEdit(r)
  PROVE  Keeps(r)
  <1>1. PICK b : b = job[r].ref
    OBVIOUS
  <1>2. job[r].kind = "EDIT" /\ b \in BillId /\ Exists(b)
    BY <1>1, JobsAreGood DEF BeginEdit, PathInv, TypeOK, Exists
  <1>3. PICK step \in {"refused", "edit"} : Go(r, step)
    BY DEF BeginEdit
  <1>4. at[r] = "idle" /\ job' = job /\ Still /\ on' = [on EXCEPT ![r] = b] /\ copy' = copy /\ todo' = todo /\ took' = took
    BY <1>1 DEF BeginEdit, Still
  <1>5. TypeOK /\ Good(r) BY DEF PathInv
  <1>6. LocalTypes' /\ OthersSame(r) /\ on'[r] = b
    BY <1>2, <1>4, <1>5 DEF TypeOK, LocalTypes, OthersSame, BillId
  <1>7. step \in Steps BY DEF Steps, Ended
  <1>8. /\ Quiet(r) /\ TypeOK' /\ LocksWork' /\ at'[r] = step /\ shown' = shown
        /\ \A xs : HoldsOnly(r, xs)' <=> HoldsOnly(r, xs)
    BY <1>3, <1>4, <1>6, <1>7, LookStep
  <1>9. HoldsOnly(r, {})' BY <1>4, <1>5, <1>8 DEF Good
  <1>10. Exists(b)' BY <1>2, <1>8 DEF Exists
  <1>11. GoodEdit(r)'
    BY <1>2, <1>6, <1>8, <1>9, <1>10 DEF GoodEdit, Ended
  <1>12. Good(r)'
    BY <1>2, <1>4, <1>9, <1>11 DEF Good
  <1>13. QED BY <1>2, <1>8, <1>12 DEF Keeps, PassesAlone

\* The bill an edit works on.
LEMMA EditHolds ==
  ASSUME PathInv, NEW r \in Request, at[r] \in {"edit", "read", "settle"}
  PROVE  /\ job[r].kind = "EDIT" /\ on[r] \in BillId /\ Exists(on[r])
         /\ at[r] = "edit" => HoldsOnly(r, {})
         /\ at[r] # "edit" => HoldsOnly(r, {Line(on[r])}) /\ Holds(r, Line(on[r]))
         /\ at[r] = "settle" => /\ copy[r].status # "NONE"
                                /\ copy[r].status = "SUPERSEDED" => shown[Bill(on[r])].supersededBy # 0
  <1>1. job[r].kind = "EDIT" BY KindAt
  <1>2. GoodEdit(r) BY <1>1 DEF PathInv, Good
  <1>3. QED BY <1>1, <1>2 DEF GoodEdit

\* The line is written before its bill.
LEMMA EditLineKeeps ==
  ASSUME PathInv, NEW r \in Request, EditLine(r)
  PROVE  Keeps(r)
  <1>1. PICK b : b = on[r]
    OBVIOUS
  <1>2. PICK new : new = [x \in {Line(b)} |-> job[r].amount]
    OBVIOUS
  <1>3. at[r] = "edit" /\ Write(r, new) /\ Go(r, "read") /\ job' = job /\ locals' = locals
    BY <1>1, <1>2 DEF EditLine
  <1>4. job[r].kind = "EDIT" /\ b \in BillId /\ Exists(b) /\ HoldsOnly(r, {}) /\ Line(b) \in Row /\ job[r].amount \in Nat
    BY <1>1, <1>3, EditHolds, RowsApart, JobsAreGood DEF PathInv, TypeOK
  <1>5. DOMAIN new = {Line(b)} /\ new[Line(b)] = job[r].amount BY <1>2
  <1>6. Fits(new) BY <1>4, <1>5, RowsApart DEF Fits
  <1>7. WriteLocking(r, new, {}) /\ {} \subseteq Row /\ "read" \in Steps /\ at[r] # "done"
    BY <1>3 DEF Steps, Write
  <1>8. /\ Quiet(r) /\ TypeOK' /\ LocksWork' /\ at'[r] = "read" /\ shown' = shown
        /\ \A x \in Row : Holds(r, x)' <=> Holds(r, x) \/ x \in DOMAIN new \cup {}
        /\ \A ys : HoldsOnly(r, ys) => HoldsOnly(r, ys \cup (DOMAIN new \cup {}))'
        /\ on' = on
    BY <1>3, <1>6, <1>7, WriteStep
  <1>9. HoldsOnly(r, {Line(b)})'
    <2>1. HoldsOnly(r, {} \cup (DOMAIN new \cup {}))' BY <1>4, <1>8
    <2>2. QED BY <2>1, <1>5, MoreHolds
  <1>10. Holds(r, Line(b))' BY <1>4, <1>5, <1>8
  <1>11. Exists(b)' /\ on'[r] = b /\ job' = job BY <1>1, <1>3, <1>4, <1>8 DEF Exists
  <1>12. GoodEdit(r)' BY <1>4, <1>8, <1>9, <1>10, <1>11 DEF GoodEdit
  <1>13. Good(r)' BY <1>4, <1>8, <1>11, <1>12 DEF Good, Ended
  <1>14. QED BY <1>4, <1>8, <1>13 DEF Keeps, PassesAlone

\* recompute_bill reads the bill without a lock.
LEMMA ReadBillKeeps ==
  ASSUME PathInv, NEW r \in Request, ReadBill(r)
  PROVE  Keeps(r)
  <1>1. PICK b : b = on[r]
    OBVIOUS
  <1>2. /\ at[r] = "read" /\ copy' = [copy EXCEPT ![r] = shown[Bill(b)]] /\ Go(r, "settle")
        /\ job' = job /\ Still /\ on' = on /\ todo' = todo /\ took' = took
    BY <1>1 DEF ReadBill, Still
  <1>3. job[r].kind = "EDIT" /\ b \in BillId /\ Exists(b) /\ HoldsOnly(r, {Line(b)}) /\ Holds(r, Line(b))
    BY <1>1, <1>2, EditHolds
  <1>4. TypeOK /\ Sound /\ shown[Bill(b)] \in BillRow BY <1>3, RowTypes DEF PathInv
  <1>5. LocalTypes' /\ OthersSame(r) /\ copy'[r] = shown[Bill(b)]
    BY <1>2, <1>4 DEF TypeOK, LocalTypes, OthersSame
  <1>6. "settle" \in Steps BY DEF Steps
  <1>7. /\ Quiet(r) /\ TypeOK' /\ LocksWork' /\ at'[r] = "settle" /\ shown' = shown
        /\ \A x : Holds(r, x)' <=> Holds(r, x)
        /\ \A xs : HoldsOnly(r, xs)' <=> HoldsOnly(r, xs)
    BY <1>2, <1>5, <1>6, LookStep
  <1>8. copy'[r].status # "NONE" /\ (copy'[r].status = "SUPERSEDED" => shown'[Bill(b)].supersededBy # 0)
    BY <1>3, <1>4, <1>5, <1>7 DEF Sound, BillsSound, Exists
  <1>9. Exists(b)' /\ on'[r] = b /\ job' = job BY <1>1, <1>2, <1>3, <1>7 DEF Exists
  <1>10. GoodEdit(r)' BY <1>3, <1>7, <1>8, <1>9 DEF GoodEdit
  <1>11. Good(r)' BY <1>3, <1>7, <1>9, <1>10 DEF Good, Ended
  <1>12. QED BY <1>3, <1>7, <1>11 DEF Keeps, PassesAlone

\* It saves total and status only, and supersedes nothing that it had not read as superseded.
LEMMA SettleBillKeeps ==
  ASSUME PathInv, NEW r \in Request, SettleBill(r)
  PROVE  /\ Keeps(r) /\ at'[r] = "commit" /\ shown' = shown
         /\ row'[Bill(on[r])].status = "SUPERSEDED" => copy[r].status = "SUPERSEDED"
  <1>1. PICK b : b = on[r]
    OBVIOUS
  <1>2. PICK settled : settled = Settle(r, b, copy[r])
    OBVIOUS
  <1>3. PICK saved : saved = [row[Bill(b)] EXCEPT !.total = settled.total, !.status = settled.status]
    OBVIOUS
  <1>4. PICK new : new = [x \in {Bill(b)} |-> saved]
    OBVIOUS
  <1>5. at[r] = "settle" /\ Write(r, new) /\ Go(r, "commit") /\ job' = job /\ locals' = locals
    BY <1>1, <1>2, <1>3, <1>4 DEF SettleBill, SavedFields
  <1>6. /\ job[r].kind = "EDIT" /\ b \in BillId /\ Exists(b) /\ HoldsOnly(r, {Line(b)}) /\ Holds(r, Line(b))
        /\ copy[r].status # "NONE" /\ (copy[r].status = "SUPERSEDED" => shown[Bill(b)].supersededBy # 0)
    BY <1>1, <1>5, EditHolds
  <1>7. Bill(b) \in Row /\ Line(b) \in Row /\ Bill(b) # Line(b) BY <1>6, RowsApart
  <1>8. row[Bill(b)] \in BillRow /\ shown[Bill(b)] \in BillRow /\ copy[r] \in BillRow BY <1>6, RowTypes
  <1>9. /\ settled \in BillRow /\ settled.status # "NONE"
        /\ settled.status = "SUPERSEDED" <=> copy[r].status = "SUPERSEDED"
    BY <1>2, <1>6, <1>8, SettleIs
  <1>10. /\ saved \in BillRow /\ saved.status = settled.status /\ saved.paid = row[Bill(b)].paid
         /\ saved.supersededBy = row[Bill(b)].supersededBy /\ saved.arrears = row[Bill(b)].arrears
    BY <1>3, <1>8, <1>9 DEF BillRow
  <1>11. DOMAIN new = {Bill(b)} /\ new[Bill(b)] = saved BY <1>4
  <1>12. Fits(new) BY <1>6, <1>7, <1>10, <1>11, RowsApart DEF Fits
  <1>13. WriteLocking(r, new, {}) /\ {} \subseteq Row /\ "commit" \in Steps /\ at[r] # "done"
    BY <1>5 DEF Steps, Write
  <1>14. /\ Quiet(r) /\ TypeOK' /\ LocksWork' /\ at'[r] = "commit" /\ shown' = shown
         /\ \A x \in Row : row'[x] = IF x \in DOMAIN new THEN new[x] ELSE row[x]
         /\ \A x \in Row : Holds(r, x)' <=> Holds(r, x) \/ x \in DOMAIN new \cup {}
         /\ \A ys : HoldsOnly(r, ys) => HoldsOnly(r, ys \cup (DOMAIN new \cup {}))'
         /\ \A x \in DOMAIN new \cup {} : ~Holds(r, x) => row[x] = shown[x]
         /\ on' = on
    BY <1>5, <1>12, <1>13, WriteStep
  <1>15. HoldsOnly(r, {Line(b), Bill(b)})'
    <2>1. HoldsOnly(r, {Line(b)} \cup (DOMAIN new \cup {}))' BY <1>6, <1>14
    <2>2. QED BY <2>1, <1>11, MoreHolds
  <1>16. Holds(r, Line(b))' /\ Holds(r, Bill(b))' /\ row'[Bill(b)] = saved
    BY <1>6, <1>7, <1>11, <1>14
  <1>17. row[Bill(b)] = shown[Bill(b)]
    BY <1>6, <1>7, <1>11, <1>14 DEF HoldsOnly
  <1>18. Restated(b)' /\ row'[Bill(b)].paid = shown'[Bill(b)].paid
    BY <1>6, <1>9, <1>10, <1>14, <1>16, <1>17 DEF Restated, Exists
  <1>19. Exists(b)' /\ on'[r] = b /\ job' = job BY <1>1, <1>5, <1>6, <1>14 DEF Exists
  <1>20. GoodEdit(r)' BY <1>6, <1>14, <1>15, <1>16, <1>18, <1>19 DEF GoodEdit
  <1>21. Good(r)' BY <1>6, <1>14, <1>19, <1>20 DEF Good, Ended
  <1>22. QED BY <1>1, <1>6, <1>9, <1>10, <1>14, <1>16, <1>21 DEF Keeps, PassesAlone

-----------------------------------------------------------------------------
(* The end of a request. *)

\* What a request commits of a bill.
NewCharge(r, b) ==
  /\ Bills(r) /\ b = NewBill(r) /\ row[Bill(b)].status = "ISSUED" /\ row[Bill(b)].supersededBy = 0
\* A bill that the request has taken over.
RolledUp(r, b) ==
  /\ job[r].kind = "ROLL" /\ Exists(b) /\ b \in took[r]
  /\ row[Bill(b)].status = "SUPERSEDED" /\ row[Bill(b)].supersededBy = NewBill(r)

\* What a request commits of a payment.
NewPayment(r, p) ==
  /\ job[r].kind = "PAY" /\ p = r /\ row[Payment(p)].status = "CONFIRMED"
  /\ row[Payment(p)].bill \in BillId /\ Exists(row[Payment(p)].bill)
  /\ row[Payment(p)].applied <= row[Payment(p)].amount
\* A payment that the request takes back.
Reversed(r, p) ==
  /\ job[r].kind = "REVERSE" /\ p = job[r].ref /\ Paid(p)
  /\ row[Payment(p)] = [shown[Payment(p)] EXCEPT !.status = "REVERSED"]

\* Every row a request commits is of one of these kinds.
CommitRows(r) ==
  /\ \A b \in BillId : Holds(r, Bill(b)) => (~Bills(r) /\ Restated(b)) \/ NewCharge(r, b) \/ RolledUp(r, b)
                                              \/ (Exists(b) /\ row[Bill(b)] = shown[Bill(b)])
  /\ \A p \in Request : Holds(r, Payment(p)) => NewPayment(r, p) \/ Reversed(r, p)
  /\ Bills(r) => Holds(r, Payer) /\ Holds(r, Bill(NewBill(r))) /\ NewCharge(r, NewBill(r))

\* What a payment commits.
LEMMA CommitsPayment ==
  ASSUME PathInv, NEW r \in Request, at[r] = "commit", job[r].kind = "PAY"
  PROVE  CommitRows(r)
  <1>1. PICK b : b = on[r]
    OBVIOUS
  <1>2. /\ HoldsOnly(r, {Bill(b), Line(b), Case(b), Payment(r), Payer})
        /\ Restated(b) /\ b \in BillId /\ Exists(b)
        /\ row[Payment(r)].status = "CONFIRMED" /\ row[Payment(r)].bill = b
        /\ row[Payment(r)].applied <= row[Payment(r)].amount
    <2>1. GoodPayment(r) BY DEF PathInv, Good
    <2>2. HoldsOnly(r, {Bill(b), Line(b), Case(b), Payment(r)} \cup {Payer}) BY <2>1, <1>1 DEF GoodPayment
    <2>3. QED BY <2>1, <2>2, <1>1 DEF GoodPayment, HoldsOnly
  <1>3. ~Bills(r) BY DEF Bills
  <1>4. \A c \in BillId : Holds(r, Bill(c)) => c = b
    BY <1>2, RowsApart DEF HoldsOnly
  <1>5. \A p \in Request : Holds(r, Payment(p)) => p = r
    BY <1>2, RowsApart DEF HoldsOnly
  <1>6. NewPayment(r, r) BY <1>2 DEF NewPayment
  <1>7. QED BY <1>2, <1>3, <1>4, <1>5, <1>6 DEF CommitRows

\* What a reversal commits.
LEMMA CommitsReversal ==
  ASSUME PathInv, NEW r \in Request, at[r] = "commit", job[r].kind = "REVERSE"
  PROVE  CommitRows(r)
  <1>1. PICK b, p : b = on[r] /\ p = job[r].ref
    OBVIOUS
  <1>2. /\ HoldsOnly(r, {Bill(b), Payment(p), Payer})
        /\ Restated(b) /\ Paid(p)
        /\ row[Payment(p)] = [shown[Payment(p)] EXCEPT !.status = "REVERSED"]
    <2>1. GoodReversal(r) BY DEF PathInv, Good
    <2>2. HoldsOnly(r, {Bill(b), Payment(p)} \cup {Payer}) BY <2>1, <1>1 DEF GoodReversal
    <2>3. QED BY <2>1, <2>2, <1>1 DEF GoodReversal, HoldsOnly
  <1>3. b \in BillId /\ p \in Request /\ ~Bills(r) BY <1>1, OnIs DEF PathInv, Bills
  <1>4. \A c \in BillId : Holds(r, Bill(c)) => c = b
    BY <1>2, <1>3, RowsApart DEF HoldsOnly
  <1>5. \A q \in Request : Holds(r, Payment(q)) => q = p
    BY <1>2, <1>3, RowsApart DEF HoldsOnly
  <1>6. Reversed(r, p) BY <1>1, <1>2 DEF Reversed
  <1>7. QED BY <1>2, <1>3, <1>4, <1>5, <1>6 DEF CommitRows

\* What a bill of fresh charges commits.
LEMMA CommitsIssue ==
  ASSUME PathInv, NEW r \in Request, at[r] = "commit", job[r].kind = "ISSUE"
  PROVE  CommitRows(r)
  <1>1. PICK b : b = NewBill(r)
    OBVIOUS
  <1>2. /\ Holds(r, Payer) /\ HoldsOnly(r, {Payer, Bill(b), Line(b)})
        /\ Holds(r, Bill(b)) /\ row[Bill(b)] = NewRow(job[r].amount, 0)
    BY <1>1 DEF PathInv, Good, GoodIssue, PayerLocked
  <1>3. b \in BillId /\ Bills(r) /\ job[r].amount \in Nat BY <1>1, NewBills, JobsAreGood DEF Bills, PathInv, TypeOK
  <1>4. NewCharge(r, b) BY <1>1, <1>2, <1>3, NewRowType DEF NewCharge
  <1>5. \A c \in BillId : Holds(r, Bill(c)) => c = b
    BY <1>2, <1>3, RowsApart DEF HoldsOnly
  <1>6. \A q \in Request : ~Holds(r, Payment(q))
    BY <1>2, <1>3, RowsApart DEF HoldsOnly
  <1>7. QED BY <1>1, <1>2, <1>4, <1>5, <1>6 DEF CommitRows

\* What a consolidation commits.
LEMMA CommitsRoll ==
  ASSUME PathInv, NEW r \in Request, at[r] = "commit", job[r].kind = "ROLL"
  PROVE  CommitRows(r)
  <1>1. PICK b : b = NewBill(r)
    OBVIOUS
  <1>2. GoodRoll(r) BY DEF PathInv, Good
  <1>3. b \in BillId /\ Bills(r) /\ job[r].amount \in Nat /\ \A c \in BillId : shown[Bill(c)] \in BillRow
    BY <1>1, NewBills, JobsAreGood, RowTypes DEF Bills, PathInv, TypeOK
  <1>4. /\ Holds(r, Payer)
        /\ HoldsOnly(r, {Payer, Line(b)} \cup {Bill(c) : c \in BillId} \cup {Case(c) : c \in BillId})
        /\ Holds(r, Bill(b)) /\ row[Bill(b)] = NewRow(job[r].amount, row[Bill(b)].arrears)
    BY <1>1, <1>2 DEF GoodRoll, PayerLocked, Ended
  <1>5. ASSUME NEW c \in BillId, c # b, Holds(r, Bill(c))
        PROVE  /\ Exists(c)
               /\ row[Bill(c)] = IF c \in took[r]
                    THEN [shown[Bill(c)] EXCEPT !.status = "SUPERSEDED", !.supersededBy = b]
                    ELSE shown[Bill(c)]
    BY <1>1, <1>2, <1>5 DEF GoodRoll
  <1>6. row[Bill(b)].arrears \in Nat BY <1>3, RowTypes DEF BillRow
  <1>7. NewCharge(r, b) BY <1>1, <1>3, <1>4, <1>6, NewRowType DEF NewCharge
  <1>8. ASSUME NEW c \in BillId, Holds(r, Bill(c))
        PROVE  NewCharge(r, c) \/ RolledUp(r, c) \/ (Exists(c) /\ row[Bill(c)] = shown[Bill(c)])
    <2>1. CASE c = b BY <2>1, <1>7
    <2>2. CASE c # b /\ c \in took[r]
      <3>1. Exists(c) /\ row[Bill(c)] = [shown[Bill(c)] EXCEPT !.status = "SUPERSEDED", !.supersededBy = b]
        BY <2>2, <1>5, <1>8
      <3>2. row[Bill(c)].status = "SUPERSEDED" /\ row[Bill(c)].supersededBy = b
        BY <3>1, <1>3 DEF BillRow
      <3>3. QED BY <3>1, <3>2, <2>2, <1>1 DEF RolledUp
    <2>3. CASE c # b /\ c \notin took[r]
      BY <2>3, <1>5, <1>8
    <2>4. QED BY <2>1, <2>2, <2>3
  <1>9. \A q \in Request : ~Holds(r, Payment(q))
    BY <1>3, <1>4, RowsApart DEF HoldsOnly
  <1>10. QED BY <1>1, <1>4, <1>7, <1>8, <1>9 DEF CommitRows

\* What an edit commits.
LEMMA CommitsEdit ==
  ASSUME PathInv, NEW r \in Request, at[r] = "commit", job[r].kind = "EDIT"
  PROVE  CommitRows(r)
  <1>1. PICK b : b = on[r]
    OBVIOUS
  <1>2. HoldsOnly(r, {Line(b), Bill(b)}) /\ Restated(b) /\ b \in BillId
    BY <1>1 DEF PathInv, Good, GoodEdit
  <1>3. ~Bills(r) BY DEF Bills
  <1>4. \A c \in BillId : Holds(r, Bill(c)) => c = b
    BY <1>2, RowsApart DEF HoldsOnly
  <1>5. \A q \in Request : ~Holds(r, Payment(q))
    BY <1>2, RowsApart DEF HoldsOnly
  <1>6. QED BY <1>2, <1>3, <1>4, <1>5 DEF CommitRows

\* What the refresh commits.
LEMMA CommitsRefresh ==
  ASSUME PathInv, NEW r \in Request, job[r].kind = "REFRESH"
  PROVE  CommitRows(r)
  <1>1. /\ HoldsOnly(r, OverdueRows)
        /\ \A b \in 1..M : Holds(r, Bill(b)) => row[Bill(b)] = [shown[Bill(b)] EXCEPT !.status = "OVERDUE"]
    BY RefreshHolds
  <1>2. ~Bills(r) BY DEF Bills
  <1>3. 1..M \subseteq BillId BY NewBills
  <1>4. \A b \in BillId : Holds(r, Bill(b)) => b \in 1..M
    BY <1>1, <1>3, RowsApart DEF HoldsOnly, OverdueRows
  <1>5. \A q \in Request : ~Holds(r, Payment(q))
    BY <1>1, <1>3, RowsApart DEF HoldsOnly, OverdueRows
  <1>6. ASSUME NEW b \in BillId, Holds(r, Bill(b)) PROVE Restated(b)
    <2>1. b \in 1..M BY <1>4, <1>6
    <2>2. row[Bill(b)] = [shown[Bill(b)] EXCEPT !.status = "OVERDUE"] BY <2>1, <1>1, <1>6
    <2>3. shown[Bill(b)] \in BillRow BY RowTypes
    <2>4. Exists(b) BY <2>1, PathConstants DEF PathInv, Sound, BillsSound
    <2>5. QED BY <2>2, <2>3, <2>4 DEF Restated, Exists, BillRow
  <1>7. QED BY <1>2, <1>5, <1>6 DEF CommitRows

\* What any request commits.
LEMMA CommitsWell ==
  ASSUME PathInv, NEW r \in Request, at[r] = "commit" \/ at[r] = "refresh"
  PROVE  CommitRows(r)
  <1>1. CASE at[r] = "refresh" BY <1>1, KindAt, CommitsRefresh
  <1>2. CASE at[r] = "commit"
    <2>1. job[r].kind \in {"PAY", "REVERSE", "ISSUE", "ROLL", "EDIT"} BY <1>2, KindAt
    <2>2. QED BY <2>1, <1>2, CommitsPayment, CommitsReversal, CommitsIssue, CommitsRoll, CommitsEdit
  <1>3. QED BY <1>1, <1>2

\* What r shows of each row it holds, at the end.
Shows(r) == \A x \in Row : shown'[x] = IF Holds(r, x) THEN row[x] ELSE shown[x]

\* The bills of this year are those that were, and one that r adds.
LEMMA NewOnly ==
  ASSUME PathInv, NEW r \in Request, at[r] # "done", CommitRows(r), Shows(r)
  PROVE  /\ ~Exists(NewBill(r))
         /\ \A b \in BillId : Exists(b) => Exists(b)'
         /\ \A b \in BillId : Exists(b)' /\ ~Exists(b) => Bills(r) /\ b = NewBill(r)
         /\ \A b \in BillId : Exists(b)' /\ ~Exists(b) => Holds(r, Bill(b)) /\ NewCharge(r, b)
         /\ Bills(r) => Exists(NewBill(r))' /\ shown'[Bill(NewBill(r))].supersededBy = 0
  <1>1. ~Exists(NewBill(r)) BY DEF PathInv, Sound, NewBillsSound
  <1>2. ASSUME NEW b \in BillId
        PROVE  /\ Exists(b) => Exists(b)'
               /\ Exists(b)' /\ ~Exists(b) => Bills(r) /\ b = NewBill(r) /\ Holds(r, Bill(b)) /\ NewCharge(r, b)
    <2>1. Bill(b) \in Row BY RowsApart
    <2>2. CASE ~Holds(r, Bill(b)) BY <2>1, <2>2 DEF Shows, Exists
    <2>3. CASE Holds(r, Bill(b))
      <3>1. shown'[Bill(b)] = row[Bill(b)] BY <2>1, <2>3 DEF Shows
      <3>2. CASE Restated(b) BY <3>1, <3>2 DEF Restated, Exists
      <3>3. CASE NewCharge(r, b) BY <3>1, <3>3, <2>3 DEF NewCharge, Exists
      <3>4. CASE RolledUp(r, b) BY <3>1, <3>4 DEF RolledUp, Exists
      <3>5. CASE Exists(b) /\ row[Bill(b)] = shown[Bill(b)] BY <3>1, <3>5 DEF Exists
      <3>6. QED BY <2>3, <3>2, <3>3, <3>4, <3>5 DEF CommitRows
    <2>4. QED BY <2>2, <2>3
  <1>3. Bills(r) => Exists(NewBill(r))' /\ shown'[Bill(NewBill(r))].supersededBy = 0
    <2>1. SUFFICES ASSUME Bills(r) PROVE Exists(NewBill(r))' /\ shown'[Bill(NewBill(r))].supersededBy = 0
      OBVIOUS
    <2>2. Holds(r, Bill(NewBill(r))) /\ NewCharge(r, NewBill(r)) BY <2>1 DEF CommitRows
    <2>3. Bill(NewBill(r)) \in Row BY NewBills, RowsApart
    <2>4. shown'[Bill(NewBill(r))] = row[Bill(NewBill(r))] BY <2>2, <2>3 DEF Shows
    <2>5. QED BY <2>2, <2>4 DEF NewCharge, Exists
  <1>4. QED BY <1>1, <1>2, <1>3

\* Who superseded a bill stays said, and comes from a consolidation.
LEMMA SupersededOnly ==
  ASSUME PathInv, NEW r \in Request, at[r] # "done", CommitRows(r), Shows(r), NEW b \in BillId
  PROVE  /\ shown[Bill(b)].supersededBy # 0 => shown'[Bill(b)].supersededBy # 0
         /\ \/ shown'[Bill(b)].supersededBy = shown[Bill(b)].supersededBy
            \/ Bills(r) /\ shown'[Bill(b)].supersededBy = 0 /\ ~Exists(b)
            \/ Bills(r) /\ shown'[Bill(b)].supersededBy = NewBill(r)
         /\ shown'[Bill(b)].status = "SUPERSEDED" => shown'[Bill(b)].supersededBy # 0
  <1>1. Bill(b) \in Row /\ NewBill(r) # 0 BY RowsApart, NewBills
  <1>2. /\ shown[Bill(b)].status = "SUPERSEDED" => shown[Bill(b)].supersededBy # 0
        /\ ~Exists(b) => shown[Bill(b)].supersededBy = 0
    BY DEF PathInv, Sound, BillsSound, NoBill
  <1>3. CASE ~Holds(r, Bill(b)) BY <1>1, <1>2, <1>3 DEF Shows
  <1>4. CASE Holds(r, Bill(b))
    <2>1. shown'[Bill(b)] = row[Bill(b)] BY <1>1, <1>4 DEF Shows
    <2>2. CASE Restated(b) BY <2>1, <2>2, <1>2 DEF Restated
    <2>3. CASE NewCharge(r, b)
      <3>1. ~Exists(b) BY <2>3, NewOnly DEF NewCharge
      <3>2. QED BY <3>1, <2>1, <2>3, <1>2 DEF NewCharge
    <2>4. CASE RolledUp(r, b) BY <2>1, <2>4, <1>1 DEF RolledUp, Bills
    <2>5. CASE Exists(b) /\ row[Bill(b)] = shown[Bill(b)] BY <2>1, <2>5, <1>2
    <2>6. QED BY <1>4, <2>2, <2>3, <2>4, <2>5 DEF CommitRows
  <1>5. QED BY <1>3, <1>4

\* What becomes of a payment.
LEMMA PaymentsOnly ==
  ASSUME PathInv, NEW r \in Request, CommitRows(r), Shows(r), NEW p \in Request
  PROVE  /\ Paid(p) => Paid(p)'
         /\ Paid(p)' => \/ /\ Paid(p) /\ shown'[Payment(p)].bill = shown[Payment(p)].bill
                           /\ shown'[Payment(p)].applied = shown[Payment(p)].applied
                           /\ shown'[Payment(p)].amount = shown[Payment(p)].amount
                        \/ NewPayment(r, p) /\ shown'[Payment(p)] = row[Payment(p)]
         /\ ~Paid(p)' => shown'[Payment(p)] = shown[Payment(p)]
  <1>1. Payment(p) \in Row /\ shown[Payment(p)] \in PaymentRow BY RowsApart, RowTypes
  <1>2. CASE ~Holds(r, Payment(p)) BY <1>1, <1>2 DEF Shows, Paid
  <1>3. CASE Holds(r, Payment(p))
    <2>1. shown'[Payment(p)] = row[Payment(p)] BY <1>1, <1>3 DEF Shows
    <2>2. CASE NewPayment(r, p) BY <2>1, <2>2 DEF NewPayment, Paid
    <2>3. CASE Reversed(r, p) BY <2>1, <2>3, <1>1 DEF Reversed, Paid, PaymentRow
    <2>4. QED BY <1>3, <2>2, <2>3 DEF CommitRows
  <1>4. QED BY <1>2, <1>3

\* A commit keeps what is committed sound.
LEMMA CommitSound ==
  ASSUME PathInv, NEW r \in Request, at[r] # "done", CommitRows(r), Shows(r), job' = job,
         at'[r] = "done", \A q \in Request \ {r} : at'[q] = at[q]
  PROVE  Later /\ Sound' /\ OnlyBiller'
  <1>1. Sound /\ OnlyBiller BY DEF PathInv
  <1>2. \A q \in Request : NewBill(q) \in BillId BY NewBills
  <1>3. \A q : Bills(q)' <=> Bills(q) BY DEF Bills
  <1>4. Later
    BY NewOnly, SupersededOnly, PaymentsOnly DEF Later
  <1>5. BillsSound'
    <2>1. ASSUME NEW b \in BillId, ~Exists(b)' PROVE shown'[Bill(b)] = NoBill
      <3>1. ~Exists(b)
        BY <2>1, NewOnly
      <3>2. CASE ~Holds(r, Bill(b))
        <4>1. shown'[Bill(b)] = shown[Bill(b)] BY <3>2, RowsApart DEF Shows
        <4>2. QED BY <4>1, <3>1, <1>1 DEF Sound, BillsSound
      <3>3. CASE Holds(r, Bill(b))
        <4>1. shown'[Bill(b)] = row[Bill(b)] BY <3>3, RowsApart DEF Shows
        <4>2. ~Restated(b) /\ ~NewCharge(r, b) /\ ~RolledUp(r, b) /\ ~Exists(b)
          BY <4>1, <3>1, <2>1 DEF Restated, NewCharge, RolledUp, Exists
        <4>3. QED BY <4>2, <3>3 DEF CommitRows
      <3>4. QED BY <3>2, <3>3
    <2>2. \A b \in BillId : b <= M => Exists(b)'
      BY <1>1, NewOnly DEF Sound, BillsSound
    <2>3. \A b \in BillId : shown'[Bill(b)].status = "SUPERSEDED" => shown'[Bill(b)].supersededBy # 0
      BY SupersededOnly
    <2>4. ASSUME NEW b \in BillId, shown'[Bill(b)].supersededBy # 0
          PROVE  \E q \in Request : shown'[Bill(b)].supersededBy = NewBill(q) /\ Exists(NewBill(q))'
      <3>1. CASE shown'[Bill(b)].supersededBy = shown[Bill(b)].supersededBy
        <4>1. \E q \in Request : shown[Bill(b)].supersededBy = NewBill(q) /\ Exists(NewBill(q))
          BY <2>4, <3>1, <1>1 DEF Sound, BillsSound
        <4>2. QED BY <4>1, <3>1, <1>2, NewOnly
      <3>2. CASE Bills(r) /\ shown'[Bill(b)].supersededBy = NewBill(r)
        BY <3>2, NewOnly
      <3>3. QED BY <2>4, <3>1, <3>2, SupersededOnly
    <2>5. QED BY <2>1, <2>2, <2>3, <2>4 DEF BillsSound, Exists
  <1>6. NewBillsSound'
    <2>1. ASSUME NEW q \in Request, Exists(NewBill(q))' PROVE at'[q] = "done" /\ Bills(q)
      <3>1. CASE Exists(NewBill(q))
        <4>1. at[q] = "done" /\ Bills(q) BY <3>1, <1>1 DEF Sound, NewBillsSound
        <4>2. QED BY <4>1
      <3>2. CASE ~Exists(NewBill(q))
        <4>1. Bills(r) /\ NewBill(q) = NewBill(r) BY <3>2, <2>1, <1>2, NewOnly
        <4>2. QED BY <4>1, NewBills
      <3>3. QED BY <3>1, <3>2
    <2>2. ASSUME NEW p \in Request, Exists(NewBill(p))'
          PROVE  \E q \in Request : Exists(NewBill(q))' /\ shown'[Bill(NewBill(q))].supersededBy = 0
      <3>1. CASE Bills(r) BY <3>1, NewOnly
      <3>2. CASE ~Bills(r)
        <4>1. Exists(NewBill(p)) BY <3>2, <2>2, <1>2, NewOnly
        <4>2. PICK q \in Request : Exists(NewBill(q)) /\ shown[Bill(NewBill(q))].supersededBy = 0
          BY <4>1, <1>1 DEF Sound, NewBillsSound
        <4>3. shown'[Bill(NewBill(q))].supersededBy = 0 BY <4>2, <3>2, <1>2, SupersededOnly
        <4>4. QED BY <4>2, <4>3, <1>2, NewOnly
      <3>3. QED BY <3>1, <3>2
    <2>3. ASSUME NEW p \in Request, NEW q \in Request, job[p].kind = "ISSUE", job[q].kind = "ISSUE",
                 Exists(NewBill(p))', Exists(NewBill(q))'
          PROVE  p = q
      <3>1. \A z \in Request : Exists(NewBill(z))' /\ z # r => Exists(NewBill(z))
        BY <1>2, NewOnly, NewBills
      <3>2. CASE p # r /\ q # r
        BY <2>3, <3>1, <3>2, <1>1 DEF Sound, NewBillsSound
      <3>3. CASE p = r \/ q = r
        <4>1. SUFFICES ASSUME p # q PROVE FALSE
          OBVIOUS
        <4>2. job[r].kind = "ISSUE" /\ \E z \in Request : Exists(NewBill(z)) BY <4>1, <3>1, <3>3, <2>3
        <4>3. at[r] = "commit"
          <5>1. Good(r) /\ PathInv BY DEF PathInv
          <5>2. Holds(r, Bill(NewBill(r))) BY <4>2 DEF CommitRows, Bills
          <5>3. Bill(NewBill(r)) \in Row /\ Bill(NewBill(r)) # Payer BY <1>2, RowsApart
          <5>4. QED BY <5>1, <5>2, <5>3, <4>2 DEF Good, GoodIssue, HoldsOnly
        <4>4. QED BY <4>2, <4>3, <1>1 DEF OnlyBiller
      <3>4. QED BY <3>2, <3>3
    <2>4. QED BY <2>1, <2>2, <2>3, <1>3 DEF NewBillsSound
  <1>7. PaymentsSound'
    <2>1. ASSUME NEW p \in Request, Paid(p)'
          PROVE  /\ at'[p] = "done" /\ job[p].kind = "PAY"
                 /\ shown'[Payment(p)].bill \in BillId /\ Exists(shown[Payment(p)].bill)'
                 /\ shown'[Payment(p)].applied <= shown'[Payment(p)].amount
      <3>1. PICK b : b = shown'[Payment(p)].bill
        OBVIOUS
      <3>2. CASE Paid(p) /\ b = shown[Payment(p)].bill
                 /\ shown'[Payment(p)].applied = shown[Payment(p)].applied
                 /\ shown'[Payment(p)].amount = shown[Payment(p)].amount
        <4>1. /\ at[p] = "done" /\ job[p].kind = "PAY" /\ b \in BillId /\ Exists(b)
              /\ shown[Payment(p)].applied <= shown[Payment(p)].amount
          BY <3>2, <1>1 DEF Sound, PaymentsSound
        <4>2. Exists(b)' BY <4>1, NewOnly
        <4>3. at'[p] = "done" BY <4>1
        <4>4. QED BY <3>1, <3>2, <4>1, <4>2, <4>3 DEF Exists
      <3>3. CASE NewPayment(r, p) /\ shown'[Payment(p)] = row[Payment(p)]
        <4>1. /\ p = r /\ job[p].kind = "PAY" /\ b \in BillId /\ Exists(b)
              /\ row[Payment(p)].applied <= row[Payment(p)].amount
          BY <3>1, <3>3 DEF NewPayment
        <4>2. Exists(b)' BY <4>1, NewOnly
        <4>3. QED BY <3>1, <3>3, <4>1, <4>2 DEF Exists
      <3>4. QED BY <2>1, <3>1, <3>2, <3>3, PaymentsOnly
    <2>2. ASSUME NEW p \in Request, ~Paid(p)' PROVE shown'[Payment(p)] = NoPayment
      <3>1. shown'[Payment(p)] = shown[Payment(p)] /\ ~Paid(p) BY <2>2, PaymentsOnly
      <3>2. QED BY <3>1, <1>1 DEF Sound, PaymentsSound
    <2>3. QED BY <2>1, <2>2 DEF PaymentsSound
  <1>8. OnlyBiller'
    <2>1. SUFFICES ASSUME NEW q \in Request, job[q].kind = "ISSUE", at'[q] = "commit",
                          NEW p \in Request, Exists(NewBill(p))'
                   PROVE FALSE
      BY DEF OnlyBiller, Exists
    <2>2. q # r /\ at[q] = "commit" BY <2>1
    <2>3. ~Exists(NewBill(p)) BY <2>1, <2>2, <1>1 DEF OnlyBiller
    <2>4. Bills(r) BY <2>1, <2>3, <1>2, NewOnly
    <2>5. Holds(r, Payer) BY <2>4 DEF CommitRows
    <2>6. Holds(q, Payer) BY <2>1, <2>2 DEF PathInv, Good, GoodIssue, PayerLocked
    <2>7. QED BY <2>2, <2>5, <2>6, RowsApart DEF PathInv, LocksWork
  <1>9. QED BY <1>4, <1>5, <1>6, <1>7, <1>8 DEF Sound

\* A commit in full.
LEMMA CommitFacts ==
  ASSUME PathInv, NEW r \in Request, Commit(r)
  PROVE  /\ CommitRows(r) /\ Shows(r) /\ Unlocked(r) /\ LocksWork' /\ TypeOK'
         /\ at[r] \in {"commit", "refresh"} /\ at'[r] = "done" /\ \A q \in Request \ {r} : at'[q] = at[q]
         /\ row' = row /\ job' = job /\ on' = on /\ copy' = copy /\ todo' = todo /\ took' = took
  <1>1. TypeOK /\ LocksWork /\ LockTypes /\ RowsOK(row) /\ RowsOK(shown)
    BY DEF PathInv, TypeOK, LockTypes
  <1>2. /\ LocksWork' /\ LockTypes' /\ Unlocked(r) /\ DOMAIN shown' = Row /\ row' = row
        /\ \A x \in Row : shown'[x] = IF Holds(r, x) THEN row[x] ELSE shown[x]
    BY <1>1, CommitDoes
  <1>3. /\ at[r] \in {"commit", "refresh"} /\ Go(r, "done") /\ job' = job
        /\ on' = on /\ copy' = copy /\ todo' = todo /\ took' = took
    BY DEF Commit, locals
  <1>4. "done" \in Steps BY DEF Steps, Ended
  <1>5. at' \in [Request -> Steps] /\ at'[r] = "done" /\ \A q \in Request \ {r} : at'[q] = at[q]
    BY <1>1, <1>3, <1>4, Goes
  <1>6. RowsOK(shown)' BY <1>1, <1>2, RowsApart DEF RowsOK
  <1>7. TypeOK' BY <1>1, <1>2, <1>3, <1>5, <1>6 DEF TypeOK, LockTypes, RowsOK
  <1>8. QED BY <1>2, <1>3, <1>5, <1>7, CommitsWell DEF Shows

\* A commit keeps the invariant.
LEMMA CommitKeeps ==
  ASSUME PathInv, NEW r \in Request, Commit(r)
  PROVE  PathInv'
  <1>1. /\ CommitRows(r) /\ Shows(r) /\ Unlocked(r) /\ LocksWork' /\ TypeOK'
        /\ at[r] \in {"commit", "refresh"} /\ at'[r] = "done" /\ \A q \in Request \ {r} : at'[q] = at[q]
        /\ row' = row /\ job' = job /\ on' = on /\ copy' = copy /\ todo' = todo /\ took' = took
    BY CommitFacts
  <1>2. Later /\ Sound' /\ OnlyBiller' BY <1>1, CommitSound
  <1>3. ASSUME NEW q \in Request, q # r PROVE Undisturbed(q)
    <2>1. \A x \in Row : Holds(q, x) => ~Holds(r, x) BY <1>3 DEF PathInv, LocksWork
    <2>2. QED BY <2>1, <1>1, <1>3 DEF Undisturbed, Unlocked, Shows
  <1>4. ASSUME NEW q \in Request PROVE Good(q)'
    <2>1. CASE q = r BY <2>1, <1>1, <1>2, EndsGood DEF Ended
    <2>2. CASE q # r BY <2>2, <1>2, <1>3, GoodKept DEF PathInv
    <2>3. QED BY <2>1, <2>2
  <1>5. QED BY <1>1, <1>2, <1>4 DEF PathInv

\* Every other step commits nothing.
LEMMA StepKeeps ==
  ASSUME PathInv, NEW r \in Request, Step(r), ~Commit(r)
  PROVE  Keeps(r)
  <1>1. CASE BeginPayment(r) BY <1>1, BeginPaymentKeeps
  <1>2. CASE LockBill(r) BY <1>2, LockBillKeeps
  <1>3. CASE PostPayment(r) BY <1>3, PostPaymentKeeps
  <1>4. CASE BeginReversal(r) BY <1>4, BeginReversalKeeps
  <1>5. CASE LockPayment(r) BY <1>5, LockPaymentKeeps
  <1>6. CASE UndoPayment(r) BY <1>6, UndoPaymentKeeps
  <1>7. CASE CreditPayer(r) BY <1>7, CreditPayerKeeps
  <1>8. CASE LockPayer(r) BY <1>8, LockPayerKeeps
  <1>9. CASE IssueBill(r) BY <1>9, IssueBillKeeps
  <1>10. CASE ScanOpenBills(r) BY <1>10, ScanOpenBillsKeeps
  <1>11. CASE NextOpenBill(r) BY <1>11, NextOpenBillKeeps
  <1>12. CASE LockOpenBill(r) BY <1>12, LockOpenBillKeeps
  <1>13. CASE Supersede(r) BY <1>13, SupersedeKeeps
  <1>14. CASE ScanOverdueBills(r) BY <1>14, ScanOverdueBillsKeeps
  <1>15. CASE NextOverdueBill(r) BY <1>15, NextOverdueBillKeeps
  <1>16. CASE MarkOverdue(r) BY <1>16, MarkOverdueKeeps
  <1>17. CASE OpenCase(r) BY <1>17, OpenCaseKeeps
  <1>18. CASE BeginEdit(r) BY <1>18, BeginEditKeeps
  <1>19. CASE EditLine(r) BY <1>19, EditLineKeeps
  <1>20. CASE ReadBill(r) BY <1>20, ReadBillKeeps
  <1>21. CASE SettleBill(r) BY <1>21, SettleBillKeeps
  <1>22. CASE Abort(r) BY <1>22, AbortKeeps
  <1>23. QED
    BY <1>1, <1>2, <1>3, <1>4, <1>5, <1>6, <1>7, <1>8, <1>9, <1>10, <1>11, <1>12, <1>13, <1>14, <1>15,
       <1>16, <1>17, <1>18, <1>19, <1>20, <1>21, <1>22 DEF Step

\* So do they.
LEMMA KeepsInv ==
  ASSUME PathInv, NEW r \in Request, Keeps(r)
  PROVE  PathInv'
  BY QuietKeeps DEF Keeps

-----------------------------------------------------------------------------
\* The rows at first.
LEMMA InitRows ==
  ASSUME Init
  PROVE  /\ row = shown /\ DOMAIN row = Row /\ row[Payer] = 0
         /\ \A p \in Request : row[Payment(p)] = NoPayment
         /\ \A b \in BillId : row[Line(b)] \in Nat /\ row[Case(b)] \in {"ABSENT", "OPEN", "CLOSED"}
         /\ \A b \in BillId : row[Bill(b)] \in BillRow /\ row[Bill(b)].supersededBy = 0
                              /\ row[Bill(b)].paid = 0 /\ row[Bill(b)].status # "SUPERSEDED"
                              /\ IF b <= M THEN row[Bill(b)].status # "NONE" ELSE row[Bill(b)] = NoBill
  <1>1. PICK status \in {"ISSUED", "OVERDUE"}, stage \in {"ABSENT", "OPEN"} :
          row = [x \in Row |->
            IF x = Payer THEN 0
            ELSE IF x[1] = "payment" THEN NoPayment
            ELSE IF x[1] = "case" THEN (IF x[2] <= M THEN stage ELSE "ABSENT")
            ELSE IF x[1] = "line" THEN (IF x[2] <= M THEN OldCharge ELSE 0)
            ELSE IF x[2] <= M THEN [NoBill EXCEPT !.status = status, !.total = OldCharge]
            ELSE NoBill]
    BY DEF Init
  <1>2. row = shown BY DEF Init
  <1>3. \A p \in Request : row[Payment(p)] = NoPayment
    BY <1>1, RowsApart DEF Payment
  <1>4. ASSUME NEW b \in BillId
        PROVE  /\ row[Line(b)] = IF b <= M THEN OldCharge ELSE 0
               /\ row[Case(b)] = IF b <= M THEN stage ELSE "ABSENT"
               /\ row[Bill(b)] = IF b <= M THEN [NoBill EXCEPT !.status = status, !.total = OldCharge] ELSE NoBill
    <2>1. /\ Line(b) \in Row /\ Case(b) \in Row /\ Bill(b) \in Row
          /\ Line(b) # Payer /\ Case(b) # Payer /\ Bill(b) # Payer
      BY RowsApart
    <2>2. /\ Line(b)[1] = "line" /\ Line(b)[2] = b /\ Case(b)[1] = "case" /\ Case(b)[2] = b
          /\ Bill(b)[1] = "bill" /\ Bill(b)[2] = b
      BY DEF Line, Case, Bill
    <2>3. QED BY <1>1, <2>1, <2>2
  <1>5. NoBill \in BillRow /\ NoBill.supersededBy = 0 /\ NoBill.paid = 0 /\ NoBill.status = "NONE"
    BY PathConstants DEF NoBill, BillRow, BillStatus, OpenStatus
  <1>6. ASSUME NEW b \in BillId
        PROVE  /\ row[Bill(b)] \in BillRow /\ row[Bill(b)].supersededBy = 0
               /\ row[Bill(b)].paid = 0 /\ row[Bill(b)].status # "SUPERSEDED"
               /\ IF b <= M THEN row[Bill(b)].status # "NONE" ELSE row[Bill(b)] = NoBill
    <2>1. status \in BillStatus \ {"SUPERSEDED", "NONE"} /\ OldCharge \in Nat
      BY PathConstants DEF BillStatus, OpenStatus
    <2>2. QED BY <2>1, <1>4, <1>5 DEF BillRow
  <1>7. OldCharge \in Nat BY PathConstants
  <1>8. DOMAIN row = Row /\ row[Payer] = 0 BY <1>1, RowsApart
  <1>9. QED BY <1>2, <1>3, <1>4, <1>6, <1>7, <1>8

\* The invariant holds at first.
LEMMA InitPath ==
  ASSUME Init
  PROVE  PathInv
  <1>1. /\ row = shown /\ DOMAIN row = Row /\ row[Payer] = 0
        /\ \A p \in Request : row[Payment(p)] = NoPayment
        /\ \A b \in BillId : row[Line(b)] \in Nat /\ row[Case(b)] \in {"ABSENT", "OPEN", "CLOSED"}
        /\ \A b \in BillId : row[Bill(b)] \in BillRow /\ row[Bill(b)].supersededBy = 0
                              /\ row[Bill(b)].paid = 0 /\ row[Bill(b)].status # "SUPERSEDED"
                              /\ IF b <= M THEN row[Bill(b)].status # "NONE" ELSE row[Bill(b)] = NoBill
    BY InitRows
  <1>2. /\ job \in Workloads /\ at = [r \in Request |-> "idle"]
        /\ lock = [x \in Row |-> [r \in Request |-> 0]]
        /\ on = [r \in Request |-> 0] /\ copy = [r \in Request |-> NoBill]
        /\ todo = [r \in Request |-> {}] /\ took = [r \in Request |-> {}]
    BY DEF Init
  <1>3. NoPayment \in PaymentRow /\ NoBill \in BillRow /\ 0 \in 0..(M + N) /\ "idle" \in Steps
    BY PathConstants DEF NoPayment, PaymentRow, NoBill, BillRow, BillStatus, OpenStatus, Steps
  <1>4. RowsOK(row) BY <1>1, <1>3 DEF RowsOK
  <1>5. TypeOK
    <2>1. at \in [Request -> Steps] BY <1>2, <1>3
    <2>2. lock \in [Row -> [Request -> 0..3]] BY <1>2
    <2>3. on \in [Request -> 0..(M + N)] /\ copy \in [Request -> BillRow] BY <1>2, <1>3
    <2>4. todo \in [Request -> SUBSET (BillId \X BillStatus)] /\ took \in [Request -> SUBSET BillId] BY <1>2
    <2>5. RowsOK(shown) BY <1>1, <1>4
    <2>6. QED BY <2>1, <2>2, <2>3, <2>4, <2>5, <1>2, <1>4 DEF TypeOK
  <1>6. LocksWork BY <1>1, <1>2 DEF LocksWork, Holds
  <1>7. BillsSound BY <1>1 DEF BillsSound, Exists
  <1>8. ASSUME NEW r \in Request PROVE ~Exists(NewBill(r))
    <2>1. NewBill(r) \in BillId /\ ~(NewBill(r) <= M) BY NewBills, PathConstants DEF BillId
    <2>2. row[Bill(NewBill(r))] = NoBill BY <2>1, <1>1
    <2>3. QED BY <2>2, <1>1 DEF Exists, NoBill
  <1>9. NewBillsSound BY <1>8 DEF NewBillsSound
  <1>10. PaymentsSound BY <1>1 DEF PaymentsSound, Paid, NoPayment
  <1>11. OnlyBiller BY <1>2 DEF OnlyBiller
  <1>12. ASSUME NEW r \in Request PROVE Good(r)
    <2>1. at[r] = "idle" /\ todo[r] = {} /\ took[r] = {} BY <1>2
    <2>2. \A xs : HoldsOnly(r, xs) BY <1>2 DEF HoldsOnly, Holds
    <2>3. \A b \in 1..M : ~Holds(r, Bill(b)) BY <1>2, RowsApart, NewBills DEF Holds
    <2>4. GoodPayment(r) /\ GoodReversal(r) /\ GoodIssue(r) /\ GoodEdit(r)
      BY <2>1 DEF GoodPayment, GoodReversal, GoodIssue, GoodEdit
    <2>5. GoodRoll(r) BY <2>1 DEF GoodRoll
    <2>6. GoodRefresh(r) BY <2>1, <2>2, <2>3 DEF GoodRefresh
    <2>7. QED BY <2>2, <2>4, <2>5, <2>6 DEF Good
  <1>13. QED BY <1>5, <1>6, <1>7, <1>9, <1>10, <1>11, <1>12 DEF PathInv, Sound

\* And when nothing happens.
LEMMA StutterPath ==
  ASSUME PathInv, UNCHANGED vars
  PROVE  PathInv'
  <1>1. /\ job' = job /\ at' = at /\ row' = row /\ shown' = shown /\ lock' = lock
        /\ on' = on /\ copy' = copy /\ todo' = todo /\ took' = took
    BY DEF vars
  <1>2. TypeOK' /\ LocksWork' BY <1>1 DEF PathInv, TypeOK, RowsOK, LocksWork, Holds
  <1>3. Sound' BY <1>1 DEF PathInv, Sound, BillsSound, NewBillsSound, PaymentsSound, Exists, Paid, Bills
  <1>4. OnlyBiller' BY <1>1 DEF PathInv, OnlyBiller, Exists
  <1>5. ASSUME NEW q \in Request PROVE Good(q)'
    <2>1. Undisturbed(q) /\ Later BY <1>1 DEF Undisturbed, Later, Exists, Paid
    <2>2. QED BY <2>1, GoodKept DEF PathInv
  <1>6. QED BY <1>2, <1>3, <1>4, <1>5 DEF PathInv

\* The invariant holds of every workload.
THEOREM PathInvariance == Spec => []PathInv
  <1>1. Init => PathInv BY InitPath
  <1>2. PathInv /\ [Next]_vars => PathInv'
    <2>1. SUFFICES ASSUME PathInv, [Next]_vars PROVE PathInv'
      OBVIOUS
    <2>2. CASE \E r \in Request : Step(r)
      <3>1. PICK r \in Request : Step(r) BY <2>2
      <3>2. CASE Commit(r) BY <2>1, <3>2, CommitKeeps
      <3>3. CASE ~Commit(r) BY <2>1, <3>1, <3>3, StepKeeps, KeepsInv
      <3>4. QED BY <3>2, <3>3
    <2>3. CASE UNCHANGED vars BY <2>1, <2>3, StutterPath
    <2>4. QED BY <2>1, <2>2, <2>3 DEF Next, AllEnded
  <1>3. QED BY <1>1, <1>2, PTL DEF Spec

\* Every variable keeps its type, for every workload of overlapping requests.
THEOREM PathTypes == Spec => []TypeOK
  <1>1. PathInv => TypeOK BY DEF PathInv
  <1>2. QED BY <1>1, PathInvariance, PTL

\* However many requests bill the payer at once, one of those that look for a bill of the
\* year gets through: the payer's lock makes the check and the insert of issue_bill one step.
THEOREM OneBillPerYear == Spec => []OneLiveBillPerYear
  <1>1. PathInv => OneLiveBillPerYear
    BY DEF PathInv, Sound, NewBillsSound, OneLiveBillPerYear, Exists
  <1>2. QED BY <1>1, PathInvariance, PTL

-----------------------------------------------------------------------------
(* Waits. *)

\* How far a request is on its way through the locks, when it neither consolidates nor edits.
Rank(r) ==
  CASE at[r] = "hold" -> 1
    [] at[r] = "lock" -> 2
    [] at[r] \in {"refresh", "mark", "case"} -> 3
    [] at[r] \in {"post", "undo"} -> 4
    [] at[r] = "credit" -> 5
    [] OTHER -> 6

\* The values of Rank.
LEMMA RankIs ==
  ASSUME NEW r
  PROVE  /\ Rank(r) \in 1..6
         /\ Rank(r) <= 1 => at[r] = "hold"
         /\ Rank(r) <= 2 => at[r] \in {"hold", "lock"}
         /\ Rank(r) <= 3 => at[r] \in {"hold", "lock", "refresh", "mark", "case"}
         /\ Rank(r) <= 4 => at[r] \in {"hold", "lock", "refresh", "mark", "case", "post", "undo"}
         /\ Rank(r) <= 5 => at[r] \in {"hold", "lock", "refresh", "mark", "case", "post", "undo", "credit"}
  BY DEF Rank

\* What a request holds on its way: a payment before a bill, a bill before a line, a line
\* before the payer.
LEMMA HoldsInOrder ==
  ASSUME PathInv, NEW q \in Request, NEW x \in Row, Holds(q, x)
  PROVE  /\ at[q] # "hold"
         /\ at[q] = "lock" => x \in {Payment(p) : p \in Request}
         /\ at[q] \in {"refresh", "mark", "case"} => x \in {Bill(b) : b \in BillId} \cup {Case(b) : b \in BillId}
         /\ at[q] \in {"post", "undo"} => x \in {Bill(b) : b \in BillId} \cup {Payment(p) : p \in Request}
         /\ at[q] = "credit" => x # Payer
  <1>1. Good(q) /\ job \in Workloads BY DEF PathInv, TypeOK
  <1>2. /\ job[q].kind = "REVERSE" => job[q].ref \in Request
        /\ job[q].kind \in {"PAY", "REVERSE"} /\ at[q] \in {"undo", "post", "credit"} => on[q] \in BillId
    <2>1. TypeOK /\ Sound BY DEF PathInv
    <2>2. job[q].kind = "REVERSE" => at[q] # "post" BY KindAt
    <2>3. QED BY <1>1, <2>1, <2>2, OnIs
  <1>3. at[q] # "hold" BY <1>1, KindAt DEF Good, GoodReversal, HoldsOnly
  <1>4. CASE at[q] = "lock"
    <2>1. CASE job[q].kind = "PAY" BY <1>1, <1>4, <2>1 DEF Good, GoodPayment, HoldsOnly
    <2>2. CASE job[q].kind = "REVERSE"
      <3>1. x = Payment(job[q].ref) BY <1>1, <1>4, <2>2 DEF Good, GoodReversal, HoldsOnly
      <3>2. QED BY <1>2, <1>4, <2>2, <3>1
    <2>3. QED BY <1>4, <2>1, <2>2, KindAt
  <1>5. CASE at[q] \in {"refresh", "mark", "case"}
    <2>1. x \in {Bill(b) : b \in 1..M} \cup {Case(b) : b \in 1..M}
      BY <1>1, <1>5, KindAt DEF Good, GoodRefresh, HoldsOnly
    <2>2. QED BY <1>5, <2>1, NewBills
  <1>6. CASE at[q] = "post"
    <2>1. x = Bill(on[q]) BY <1>1, <1>6, KindAt DEF Good, GoodPayment, HoldsOnly
    <2>2. QED BY <1>2, <1>6, <2>1, KindAt
  <1>7. CASE at[q] = "undo"
    <2>1. x \in {Payment(job[q].ref), Bill(on[q])} BY <1>1, <1>7, KindAt DEF Good, GoodReversal, HoldsOnly
    <2>2. QED BY <1>2, <1>7, <2>1, KindAt
  <1>8. CASE at[q] = "credit"
    <2>1. CASE job[q].kind = "PAY"
      <3>1. x \in {Bill(on[q]), Line(on[q]), Case(on[q]), Payment(q)}
        BY <1>1, <1>8, <2>1 DEF Good, GoodPayment, HoldsOnly
      <3>2. QED BY <1>2, <1>8, <2>1, <3>1, RowsApart
    <2>2. CASE job[q].kind = "REVERSE"
      <3>1. x \in {Bill(on[q]), Payment(job[q].ref)}
        BY <1>1, <1>8, <2>2 DEF Good, GoodReversal, HoldsOnly
      <3>2. QED BY <1>2, <1>8, <2>2, <3>1, RowsApart
    <2>3. QED BY <1>8, <2>1, <2>2, KindAt
  <1>9. QED BY <1>3, <1>4, <1>5, <1>6, <1>7, <1>8

\* Whom a request waits for is further on than itself.
LEMMA WaitsAhead ==
  ASSUME PathInv, NEW p \in Request, NEW q \in Request, InOrder(p), InOrder(q), WaitsFor(p, q)
  PROVE  Rank(q) > Rank(p)
  <1>1. PICK w \in Wanted(p) : q # p /\ lock[w[1]][q] + w[2] > 3 BY DEF WaitsFor
  <1>2. at[p] \notin {"open", "settle", "edit"} BY KindAt DEF InOrder
  <1>3. Rank(p) \in 1..6 /\ Rank(q) \in 1..6 BY RankIs
  <1>4. ASSUME NEW x \in Row, NEW mode \in 0..3, w = <<x, mode>> PROVE Holds(q, x)
    <2>1. lock[x][q] \in 0..3 /\ lock[x][q] + mode > 3 BY <1>1, <1>4 DEF PathInv, TypeOK
    <2>2. QED BY <2>1 DEF Holds
  <1>5. CASE at[p] = "hold"
    <2>1. w = <<Payment(job[p].ref), 3>> BY <1>1, <1>5, Strengths DEF Wanted
    <2>2. Payment(job[p].ref) \in Row
      BY <1>5, KindAt, JobsAreGood, RowsApart DEF PathInv, TypeOK
    <2>3. Holds(q, Payment(job[p].ref)) BY <1>4, <2>1, <2>2
    <2>4. ~ Rank(q) <= 1 BY <2>2, <2>3, HoldsInOrder, RankIs
    <2>5. Rank(p) = 1 BY <1>5 DEF Rank
    <2>6. QED BY <1>3, <2>4, <2>5
  <1>6. CASE at[p] = "lock"
    <2>1. w = <<Bill(on[p]), 3>> BY <1>1, <1>6, Strengths DEF Wanted
    <2>2. on[p] \in BillId BY <1>6, KindAt, OnIs DEF PathInv
    <2>3. Holds(q, Bill(on[p])) /\ Bill(on[p]) \in Row BY <1>4, <2>1, <2>2, RowsApart
    <2>4. ~ Rank(q) <= 2 BY <2>2, <2>3, HoldsInOrder, RankIs, RowsApart
    <2>5. Rank(p) = 2 BY <1>6 DEF Rank
    <2>6. QED BY <1>3, <2>4, <2>5
  <1>7. CASE at[p] \in {"refresh", "mark"}
    <2>1. PICK b \in BillId, mode \in 0..3 : w = <<Bill(b), mode>>
      <3>1. CASE at[p] = "mark"
        <4>1. w = <<Bill(on[p]), 2>> BY <1>1, <3>1, Strengths DEF Wanted
        <4>2. on[p] \in 1..M BY <3>1, KindAt DEF PathInv, Good, GoodRefresh
        <4>3. QED BY <4>1, <4>2, NewBills
      <3>2. CASE at[p] = "refresh"
        <4>1. PICK b \in InsertedCases(p) : w = <<Bill(b), KeyShare>> BY <1>1, <3>2 DEF Wanted
        <4>2. b \in BillId /\ KeyShare \in 0..3 BY DEF InsertedCases, KeyShare
        <4>3. QED BY <4>1, <4>2
      <3>3. QED BY <1>7, <3>1, <3>2
    <2>2. Holds(q, Bill(b)) /\ Bill(b) \in Row BY <1>4, <2>1, RowsApart
    <2>3. at[q] \notin {"hold", "lock"} BY <2>2, HoldsInOrder, RowsApart
    <2>4. at[q] \notin {"refresh", "mark", "case"}
      <3>1. job \in Workloads /\ job[p].kind = "REFRESH" BY <1>7, KindAt DEF PathInv, TypeOK
      <3>2. job[q].kind # "REFRESH" BY <1>1, <3>1, PathConstants
      <3>3. QED BY <3>2, KindAt
    <2>5. ~ Rank(q) <= 3 BY <2>3, <2>4, RankIs
    <2>6. Rank(p) = 3 BY <1>7 DEF Rank
    <2>7. QED BY <1>3, <2>5, <2>6
  <1>8. CASE at[p] = "post"
    <2>1. w = <<Line(on[p]), 3>> BY <1>1, <1>8, Strengths DEF Wanted
    <2>2. on[p] \in BillId BY <1>8, KindAt, OnIs DEF PathInv
    <2>3. Holds(q, Line(on[p])) /\ Line(on[p]) \in Row BY <1>4, <2>1, <2>2, RowsApart
    <2>4. ~ Rank(q) <= 4 BY <2>2, <2>3, HoldsInOrder, RankIs, RowsApart
    <2>5. Rank(p) = 4 BY <1>8 DEF Rank
    <2>6. QED BY <1>3, <2>4, <2>5
  <1>9. CASE at[p] = "credit"
    <2>1. w = <<Payer, 2>> BY <1>1, <1>9, Strengths DEF Wanted
    <2>2. Holds(q, Payer) /\ Payer \in Row BY <1>4, <2>1, RowsApart
    <2>3. ~ Rank(q) <= 5 BY <2>2, HoldsInOrder, RankIs, RowsApart
    <2>4. Rank(p) = 5 BY <1>9 DEF Rank
    <2>5. QED BY <1>3, <2>3, <2>4
  <1>10. at[p] \in {"hold", "lock", "refresh", "mark", "post", "credit"}
    BY <1>1, <1>2 DEF Wanted
  <1>11. QED BY <1>5, <1>6, <1>7, <1>8, <1>9, <1>10

\* However many payments, reversals and new bills overlap with each other and the refresh,
\* no chain of waits comes back: along it everyone is further on (post_payment,
\* reverse_payment, issue_bill, refresh_debt).
THEOREM OneOrder == Spec => []OneLockOrder
  <1>1. ASSUME PathInv PROVE OneLockOrder
    <2>1. PICK R : R = {r \in Request : InOrder(r)} OBVIOUS
    <2>2. ASSUME NEW r \in R, WaitsInCircle(r, R) PROVE FALSE
      <3>1. PICK S : S = {q \in R : Rank(q) > Rank(r)} OBVIOUS
      <3>2. ASSUME NEW p \in S \cup {r}, NEW q \in R, WaitsFor(p, q) PROVE q \in S
        <4>1. Rank(q) > Rank(p) BY <1>1, <2>1, <2>2, <3>1, <3>2, WaitsAhead
        <4>2. Rank(p) >= Rank(r) BY <2>2, <3>1, RankIs
        <4>3. Rank(p) \in Nat /\ Rank(q) \in Nat /\ Rank(r) \in Nat BY RankIs
        <4>4. QED BY <3>1, <4>1, <4>2, <4>3
      <3>3. r \in S BY <2>2, <3>1, <3>2 DEF WaitsInCircle
      <3>4. QED BY <3>1, <3>3, RankIs
    <2>3. QED BY <2>1, <2>2 DEF OneLockOrder
  <1>2. QED BY <1>1, PathInvariance, PTL

-----------------------------------------------------------------------------
(* Money. *)

\* Which steps lead where.
LEMMA LeadsTo ==
  ASSUME PathInv, NEW r \in Request, Step(r), ~Commit(r)
  PROVE  /\ job[r].kind = "REVERSE" /\ at'[r] \in {"hold", "lock", "undo", "credit", "commit"} =>
              BeginReversal(r) \/ at[r] \in {"hold", "lock", "undo", "credit", "commit"}
         /\ job[r].kind = "PAY" /\ at'[r] \in {"credit", "commit"} => PostPayment(r) \/ CreditPayer(r)
         /\ job[r].kind = "ROLL" /\ at'[r] = "commit" => Supersede(r)
         /\ job[r].kind = "EDIT" /\ at'[r] = "settle" => ReadBill(r)
         /\ job[r].kind = "EDIT" /\ at'[r] = "commit" => SettleBill(r)
  <1>1. at \in [Request -> Steps] BY DEF PathInv, TypeOK
  <1>3. CASE BeginPayment(r) BY <1>1, <1>3 DEF BeginPayment, Go
  <1>4. CASE LockBill(r) BY <1>1, <1>4 DEF LockBill, Go
  <1>5. CASE PostPayment(r) BY <1>1, <1>5, KindAt DEF PostPayment
  <1>6. CASE BeginReversal(r) BY <1>1, <1>6 DEF BeginReversal, Go
  <1>7. CASE LockPayment(r) BY <1>1, <1>7, KindAt DEF LockPayment, Go
  <1>8. CASE UndoPayment(r) BY <1>1, <1>8, KindAt DEF UndoPayment, Go
  <1>9. CASE CreditPayer(r) BY <1>1, <1>9, KindAt DEF CreditPayer, Go
  <1>10. CASE LockPayer(r) BY <1>1, <1>10 DEF LockPayer, Go
  <1>11. CASE IssueBill(r) BY <1>1, <1>11, KindAt DEF IssueBill, Go
  <1>12. CASE ScanOpenBills(r) BY <1>1, <1>12 DEF ScanOpenBills, Go
  <1>13. CASE NextOpenBill(r) BY <1>1, <1>13 DEF NextOpenBill, Go
  <1>14. CASE LockOpenBill(r) BY <1>1, <1>14 DEF LockOpenBill, Go
  <1>15. CASE Supersede(r) BY <1>1, <1>15, KindAt DEF Supersede
  <1>16. CASE ScanOverdueBills(r) BY <1>1, <1>16 DEF ScanOverdueBills, Go
  <1>17. CASE NextOverdueBill(r) BY <1>1, <1>17 DEF NextOverdueBill, Go
  <1>18. CASE MarkOverdue(r) BY <1>1, <1>18 DEF MarkOverdue, Go
  <1>19. CASE OpenCase(r) BY <1>1, <1>19 DEF OpenCase, Go
  <1>20. CASE BeginEdit(r) BY <1>1, <1>20 DEF BeginEdit, Go
  <1>21. CASE EditLine(r) BY <1>1, <1>21 DEF EditLine, Go
  <1>22. CASE ReadBill(r) BY <1>1, <1>22, KindAt DEF ReadBill, Go
  <1>23. CASE SettleBill(r) BY <1>1, <1>23, KindAt DEF SettleBill, Go
  <1>24. CASE Abort(r) BY <1>1, <1>24 DEF Abort, Rollback, Go
  <1>25. QED
    BY <1>3, <1>4, <1>5, <1>6, <1>7, <1>8, <1>9, <1>10, <1>11, <1>12, <1>13, <1>14, <1>15, <1>16, <1>17,
       <1>18, <1>19, <1>20, <1>21, <1>22, <1>23, <1>24 DEF Step

-----------------------------------------------------------------------------
(* What a commit does to the sums. *)

\* The summands are numbers.
LEMMA CreditTypes ==
  ASSUME PathInv
  PROVE  Credits \in [1..N -> Int] /\ \A b \in BillId : PutOn(b) \in [1..N -> Nat]
  <1>1. ASSUME NEW p \in Request PROVE Leftover(shown[Payment(p)]) \in Int
    <2>1. shown[Payment(p)] \in PaymentRow BY RowTypes
    <2>2. QED BY <2>1 DEF PaymentRow, Leftover
  <1>2. Credits \in [1..N -> Int] BY <1>1 DEF Credits, Request
  <1>3. QED BY <1>2, PutOnTypes

\* A commit that touches no payment leaves both sums.
LEMMA PaymentsStay ==
  ASSUME PathInv, NEW r \in Request, Shows(r), \A p \in Request : ~Holds(r, Payment(p))
  PROVE  Credits' = Credits /\ \A b \in BillId : PutOn(b)' = PutOn(b)
  <1>1. \A p \in Request : shown'[Payment(p)] = shown[Payment(p)]
    BY RowsApart DEF Shows
  <1>2. Credits' = Credits BY <1>1 DEF Credits, Leftover
  <1>3. \A b \in BillId : PutOn(b)' = PutOn(b) BY <1>1 DEF PutOn
  <1>4. QED BY <1>2, <1>3

\* A commit that changes one payment moves the sums by that payment.
LEMMA OnePaymentMoves ==
  ASSUME PathInv, PathInv', NEW r \in Request, Shows(r), NEW p \in Request,
         \A q \in Request : Holds(r, Payment(q)) => q = p
  PROVE  /\ SumTo(Credits, N)' = SumTo(Credits, N) + (Credits'[p] - Credits[p])
         /\ \A b \in BillId : SumTo(PutOn(b), N)' = SumTo(PutOn(b), N) + (PutOn(b)'[p] - PutOn(b)[p])
  <1>1. \A q \in Request : q # p => shown'[Payment(q)] = shown[Payment(q)]
    BY RowsApart DEF Shows
  <1>2. N \in Nat /\ p \in 1..N BY PathConstants DEF Request
  <1>3. Credits \in [1..N -> Int] /\ \A b \in BillId : PutOn(b) \in [1..N -> Nat]
    BY CreditTypes
  <1>4. Credits' \in [1..N -> Int] /\ \A b \in BillId : PutOn(b)' \in [1..N -> Nat]
    <2>1. \A q \in Request : shown'[Payment(q)] \in PaymentRow BY DEF PathInv, TypeOK, RowsOK
    <2>2. \A q \in Request : shown'[Payment(q)].applied \in Nat /\ shown'[Payment(q)].amount \in Nat
      BY <2>1 DEF PaymentRow
    <2>3. Credits' \in [1..N -> Int] BY <2>2 DEF Credits, Leftover, Request
    <2>4. \A b \in BillId : PutOn(b)' \in [1..N -> Nat] BY <2>2 DEF PutOn, Request
    <2>5. QED BY <2>3, <2>4
  <1>5. \A q \in 1..N : q # p => Credits'[q] = Credits[q]
    BY <1>1 DEF Credits, Leftover, Request
  <1>6. \A b \in BillId : \A q \in 1..N : q # p => PutOn(b)'[q] = PutOn(b)[q]
    BY <1>1 DEF PutOn, Request
  <1>7. SumTo(Credits', N) = SumTo(Credits, N) + (Credits'[p] - Credits[p])
    BY <1>2, <1>3, <1>4, <1>5, SumUpdate
  <1>8. ASSUME NEW b \in BillId
        PROVE  SumTo(PutOn(b)', N) = SumTo(PutOn(b), N) + (PutOn(b)'[p] - PutOn(b)[p])
    <2>1. PutOn(b) \in [1..N -> Int] /\ PutOn(b)' \in [1..N -> Int] BY <1>3, <1>4
    <2>2. \A q \in 1..N : p # q => PutOn(b)'[q] = PutOn(b)[q] BY <1>6
    <2>3. QED BY <2>1, <2>2, <1>2, SumUpdate
  <1>9. QED BY <1>7, <1>8 DEF SumTo, Running

-----------------------------------------------------------------------------
(* Money. *)

\* Requests whose part of a sum is still to come.
Reversing(r) == job[r].kind = "REVERSE" /\ at[r] \in {"hold", "lock", "undo", "credit", "commit"}
Paying(r) == job[r].kind = "PAY" /\ at[r] \in {"credit", "commit"}

\* What a payment about to commit applies fits in what the line still owes.
Covers(r) ==
  LET y == row[Payment(r)]
  IN y.applied > 0 => SumTo(PutOn(on[r]), N) + y.applied <= shown[Line(on[r])]

\* A step that commits nothing leaves the sums.
LEMMA QuietMoney ==
  ASSUME PathInv, PathInv', MoneyInv, NEW r \in Request, Step(r), ~Commit(r), Keeps(r)
  PROVE  MoneyInv'
  <1>1. /\ job' = job /\ shown' = shown
        /\ \A q \in Request \ {r} : at'[q] = at[q] /\ on'[q] = on[q]
        /\ \A x \in Row : \A q \in Request \ {r} : Holds(q, x) => row'[x] = row[x]
    BY DEF Keeps, Quiet
  <1>2. \A b \in BillId : PutOn(b)' = PutOn(b)
    BY <1>1 DEF PutOn
  <1>3. Credits' = Credits
    BY <1>1 DEF Credits, Leftover
  <1>4. ASSUME NEW q \in Request, Reversing(q)' PROVE shown'[Payment(job'[q].ref)].status = "CONFIRMED"
    <2>1. CASE Reversing(q) BY <2>1, <1>1 DEF MoneyInv, Reversing
    <2>2. CASE ~Reversing(q)
      <3>1. q = r /\ BeginReversal(r) BY <2>2, <1>1, <1>4, LeadsTo DEF Reversing
      <3>2. shown[Payment(job[r].ref)].status = "CONFIRMED"
        BY <3>1, <1>4 DEF BeginReversal, Go, Reversing, PathInv, TypeOK
      <3>3. QED BY <3>1, <3>2, <1>1
    <2>3. QED BY <2>1, <2>2
  <1>5. ASSUME NEW q \in Request, Paying(q)' PROVE Covers(q)'
    <2>1. PICK b : b = on'[q]
      OBVIOUS
    <2>2. b \in BillId
      BY <2>1, <1>5 DEF PathInv, Good, GoodPayment, Paying
    <2>3. /\ SumTo(PutOn(b), N)' = SumTo(PutOn(b), N) /\ shown'[Line(b)] = shown[Line(b)]
      BY <1>1, <1>2, <2>2 DEF SumTo, Running
    <2>4. CASE q # r
      <3>1. Paying(q) /\ on[q] = b BY <2>1, <2>4, <1>1, <1>5 DEF Paying
      <3>2. Holds(q, Payment(q)) BY <3>1 DEF PathInv, Good, GoodPayment, Paying
      <3>3. row'[Payment(q)] = row[Payment(q)] BY <3>2, <2>4, <1>1, RowsApart
      <3>4. Covers(q) BY <3>1 DEF MoneyInv, Paying, Covers
      <3>5. QED BY <3>1, <3>3, <3>4, <2>1, <2>3 DEF Covers
    <2>5. CASE q = r /\ CreditPayer(r)
      <3>1. /\ on' = on /\ at[r] = "credit" /\ row'[Payment(r)] = row[Payment(r)]
        BY <2>5, <1>1, <1>5, CreditPayerKeeps DEF Paying
      <3>2. Paying(r) BY <3>1, <2>5, <1>1, <1>5 DEF Paying
      <3>3. Covers(r) BY <3>2 DEF MoneyInv, Paying, Covers
      <3>4. QED BY <3>1, <3>3, <2>1, <2>3, <2>5 DEF Covers
    <2>6. CASE q = r /\ PostPayment(r)
      <3>1. on' = on /\ row'[Payment(r)].applied = Least(job[r].amount, Owing(b))
        BY <2>1, <2>6, PostPaymentKeeps
      <3>2. PICK z : z = row'[Payment(r)].applied
        OBVIOUS
      <3>3. job[r].amount \in Nat BY JobsAreGood DEF PathInv, TypeOK
      <3>4. /\ SumTo(PutOn(b), N) \in Nat /\ Owing(b) \in Nat /\ shown[Line(b)] \in Nat
            /\ Owing(b) > 0 => Owing(b) = shown[Line(b)] - SumTo(PutOn(b), N)
        BY <2>2, PutOnTypes
      <3>5. z <= Owing(b) BY <3>1, <3>2, <3>3, <3>4 DEF Least
      <3>6. z \in Nat BY <3>1, <3>2, <3>3, <3>4 DEF Least
      <3>7. z > 0 => SumTo(PutOn(b), N) + z <= shown[Line(b)]
        BY <3>4, <3>5, <3>6
      <3>8. QED BY <3>2, <3>7, <2>1, <2>3, <2>6 DEF Covers
    <2>7. QED BY <2>4, <2>5, <2>6, <1>1, <1>5, LeadsTo DEF Paying
  <1>6. /\ \A b \in BillId : SumTo(PutOn(b), N)' = SumTo(PutOn(b), N)
        /\ SumTo(Credits, N)' = SumTo(Credits, N)
    BY <1>2, <1>3 DEF SumTo, Running
  <1>7. \A b \in BillId : shown'[Bill(b)].paid = SumTo(PutOn(b), N)'
    BY <1>1, <1>6 DEF MoneyInv
  <1>8. shown'[Payer] = SumTo(Credits, N)'
    BY <1>1, <1>6 DEF MoneyInv
  <1>9. QED BY <1>4, <1>5, <1>7, <1>8 DEF MoneyInv, Reversing, Paying, Covers

\* The sums agree after a commit, and no payment goes beyond what its line charges.
SumsRight ==
  /\ \A b \in BillId : shown'[Bill(b)].paid = SumTo(PutOn(b), N)'
  /\ shown'[Payer] = SumTo(Credits, N)'
  /\ \A b \in BillId : SumTo(PutOn(b), N)' > SumTo(PutOn(b), N) => SumTo(PutOn(b), N)' <= shown'[Line(b)]

\* The sums are numbers.
LEMMA SumTypes ==
  ASSUME PathInv
  PROVE  SumTo(Credits, N) \in Int /\ \A b \in BillId : SumTo(PutOn(b), N) \in Nat
  <1>1. Credits \in [1..N -> Int] BY CreditTypes
  <1>2. N \in Nat /\ N \in 0..N BY PathConstants
  <1>3. SumTo(Credits, N) \in Int BY <1>1, <1>2, SumInt
  <1>4. QED BY <1>3, PutOnTypes

\* The commit of a payment adds it to both sums.
LEMMA PaymentSums ==
  ASSUME PathInv, PathInv', MoneyInv, NEW r \in Request, Shows(r), at[r] = "commit", job[r].kind = "PAY"
  PROVE  SumsRight
  <1>1. PICK b, y : b = on[r] /\ y = row[Payment(r)]
    OBVIOUS
  <1>2. /\ HoldsOnly(r, {Bill(b), Line(b), Case(b), Payment(r), Payer})
        /\ Holds(r, Bill(b)) /\ Holds(r, Line(b)) /\ Holds(r, Payment(r)) /\ b \in BillId
        /\ row[Line(b)] = shown[Line(b)] /\ y.status = "CONFIRMED" /\ y.bill = b
        /\ row[Bill(b)].paid = shown[Bill(b)].paid + y.applied
        /\ CreditDone(r)
    <2>1. GoodPayment(r) BY DEF PathInv, Good
    <2>2. HoldsOnly(r, {Bill(b), Line(b), Case(b), Payment(r)} \cup {Payer}) BY <2>1, <1>1 DEF GoodPayment
    <2>3. QED BY <2>1, <2>2, <1>1 DEF GoodPayment, HoldsOnly
  <1>3. Bill(b) \in Row /\ Line(b) \in Row /\ Payment(r) \in Row /\ Payer \in Row BY <1>2, RowsApart
  <1>4. shown[Payment(r)] = NoPayment BY DEF PathInv, Sound, PaymentsSound
  <1>5. shown'[Payment(r)] = y /\ shown'[Line(b)] = shown[Line(b)] /\ shown'[Bill(b)] = row[Bill(b)]
    BY <1>1, <1>2, <1>3 DEF Shows
  <1>6. \A q \in Request : Holds(r, Payment(q)) => q = r
    BY <1>2, RowsApart DEF HoldsOnly
  <1>7. /\ SumTo(Credits, N)' = SumTo(Credits, N) + (Credits'[r] - Credits[r])
        /\ \A c \in BillId : SumTo(PutOn(c), N)' = SumTo(PutOn(c), N) + (PutOn(c)'[r] - PutOn(c)[r])
    BY <1>6, OnePaymentMoves
  <1>8. Credits[r] = 0 /\ \A c \in BillId : PutOn(c)[r] = 0
    BY <1>4 DEF Credits, PutOn, NoPayment
  <1>9. Credits'[r] = Leftover(y) /\ \A c \in BillId : PutOn(c)'[r] = IF c = b THEN y.applied ELSE 0
    BY <1>2, <1>5 DEF Credits, PutOn, Leftover
  <1>10. y \in PaymentRow /\ y.applied \in Nat /\ Leftover(y) \in Int
    <2>1. y \in PaymentRow BY <1>1, RowTypes
    <2>2. QED BY <2>1 DEF PaymentRow, Leftover
  <1>11. /\ SumTo(Credits, N) \in Int /\ \A c \in BillId : SumTo(PutOn(c), N) \in Nat
         /\ shown[Payer] = SumTo(Credits, N) /\ \A c \in BillId : shown[Bill(c)].paid = SumTo(PutOn(c), N)
    BY SumTypes DEF MoneyInv
  <1>12. SumTo(Credits, N)' = SumTo(Credits, N) + Leftover(y)
    BY <1>7, <1>8, <1>9, <1>10, <1>11
  <1>13. \A c \in BillId : SumTo(PutOn(c), N)' = SumTo(PutOn(c), N) + IF c = b THEN y.applied ELSE 0
    BY <1>7, <1>8, <1>9, <1>10, <1>11
  <1>14. ASSUME NEW c \in BillId PROVE shown'[Bill(c)].paid = SumTo(PutOn(c), N)'
    <2>1. CASE c = b BY <2>1, <1>2, <1>5, <1>10, <1>11, <1>13
    <2>2. CASE c # b
      <3>1. Bill(c) \in Row /\ ~Holds(r, Bill(c)) BY <2>2, <1>2, RowsApart DEF HoldsOnly
      <3>2. shown'[Bill(c)] = shown[Bill(c)] BY <3>1 DEF Shows
      <3>3. QED BY <2>2, <3>2, <1>11, <1>13
    <2>3. QED BY <2>1, <2>2
  <1>15. shown'[Payer] = SumTo(Credits, N)'
    <2>1. CreditChange(r) = Leftover(y) BY <1>1 DEF CreditChange
    <2>2. CASE Holds(r, Payer)
      <3>1. shown'[Payer] = shown[Payer] + Leftover(y) BY <2>1, <2>2, <1>2, <1>3 DEF Shows, CreditDone
      <3>2. QED BY <3>1, <1>11, <1>12
    <2>3. CASE ~Holds(r, Payer)
      <3>1. shown'[Payer] = shown[Payer] /\ Leftover(y) = 0 BY <2>1, <2>3, <1>2, <1>3 DEF Shows, CreditDone
      <3>2. QED BY <3>1, <1>11, <1>12
    <2>4. QED BY <2>2, <2>3
  <1>16. ASSUME NEW c \in BillId, SumTo(PutOn(c), N)' > SumTo(PutOn(c), N)
         PROVE  SumTo(PutOn(c), N)' <= shown'[Line(c)]
    <2>1. c = b /\ y.applied > 0 BY <1>10, <1>11, <1>13, <1>16
    <2>2. SumTo(PutOn(b), N) + y.applied <= shown[Line(b)]
      BY <2>1, <1>1 DEF MoneyInv
    <2>3. QED BY <2>1, <2>2, <1>5, <1>13
  <1>17. QED BY <1>14, <1>15, <1>16 DEF SumsRight

\* The commit of a reversal takes it out of both.
LEMMA ReversalSums ==
  ASSUME PathInv, PathInv', MoneyInv, NEW r \in Request, Shows(r), at[r] = "commit", job[r].kind = "REVERSE"
  PROVE  SumsRight
  <1>1. PICK b, p, y : b = on[r] /\ p = job[r].ref /\ y = shown[Payment(p)]
    OBVIOUS
  <1>2. /\ HoldsOnly(r, {Bill(b), Payment(p), Payer})
        /\ Holds(r, Bill(b)) /\ Holds(r, Payment(p)) /\ y.bill = b
        /\ row[Payment(p)] = [y EXCEPT !.status = "REVERSED"]
        /\ row[Bill(b)].paid = Positive(shown[Bill(b)].paid - y.applied)
        /\ CreditDone(r)
    <2>1. GoodReversal(r) BY DEF PathInv, Good
    <2>2. HoldsOnly(r, {Bill(b), Payment(p)} \cup {Payer}) BY <2>1, <1>1 DEF GoodReversal
    <2>3. QED BY <2>1, <2>2, <1>1 DEF GoodReversal, HoldsOnly
  <1>3. b \in BillId /\ p \in Request BY <1>1, OnIs DEF PathInv
  <1>4. Bill(b) \in Row /\ Payment(p) \in Row /\ Payer \in Row BY <1>3, RowsApart
  <1>5. y.status = "CONFIRMED" BY <1>1 DEF MoneyInv
  <1>6. y \in PaymentRow /\ y.applied \in Nat /\ Leftover(y) \in Int
    <2>1. y \in PaymentRow BY <1>1, <1>3, RowTypes
    <2>2. QED BY <2>1 DEF PaymentRow, Leftover
  <1>7. shown'[Payment(p)] = row[Payment(p)] /\ shown'[Bill(b)] = row[Bill(b)]
    BY <1>2, <1>4 DEF Shows
  <1>8. /\ row[Payment(p)].status = "REVERSED" /\ Leftover(row[Payment(p)]) = Leftover(y)
    BY <1>2, <1>6 DEF PaymentRow, Leftover
  <1>9. \A q \in Request : Holds(r, Payment(q)) => q = p
    BY <1>2, <1>3, RowsApart DEF HoldsOnly
  <1>10. /\ SumTo(Credits, N)' = SumTo(Credits, N) + (Credits'[p] - Credits[p])
         /\ \A c \in BillId : SumTo(PutOn(c), N)' = SumTo(PutOn(c), N) + (PutOn(c)'[p] - PutOn(c)[p])
    BY <1>3, <1>9, OnePaymentMoves
  <1>11. Credits[p] = Leftover(y) /\ \A c \in BillId : PutOn(c)[p] = IF c = b THEN y.applied ELSE 0
    BY <1>1, <1>2, <1>3, <1>5 DEF Credits, PutOn
  <1>12. Credits'[p] = 0 /\ \A c \in BillId : PutOn(c)'[p] = 0
    BY <1>3, <1>7, <1>8 DEF Credits, PutOn
  <1>13. /\ SumTo(Credits, N) \in Int /\ \A c \in BillId : SumTo(PutOn(c), N) \in Nat
         /\ shown[Payer] = SumTo(Credits, N) /\ \A c \in BillId : shown[Bill(c)].paid = SumTo(PutOn(c), N)
    BY SumTypes DEF MoneyInv
  <1>14. SumTo(Credits, N)' = SumTo(Credits, N) - Leftover(y)
    BY <1>6, <1>10, <1>11, <1>12, <1>13
  <1>15. \A c \in BillId : SumTo(PutOn(c), N)' = SumTo(PutOn(c), N) - IF c = b THEN y.applied ELSE 0
    BY <1>6, <1>10, <1>11, <1>12, <1>13
  <1>16. y.applied <= SumTo(PutOn(b), N)
    <2>1. PutOn(b) \in [1..N -> Nat] BY <1>3, PutOnTypes
    <2>2. N \in Nat /\ p \in 1..N BY <1>3, PathConstants DEF Request
    <2>3. PutOn(b)[p] <= SumTo(PutOn(b), N) BY <2>1, <2>2, SumMember
    <2>4. QED BY <2>3, <1>3, <1>11
  <1>17. ASSUME NEW c \in BillId PROVE shown'[Bill(c)].paid = SumTo(PutOn(c), N)'
    <2>1. CASE c = b
      <3>1. row[Bill(b)].paid = Positive(SumTo(PutOn(b), N) - y.applied) BY <1>2, <1>3, <1>13
      <3>2. Positive(SumTo(PutOn(b), N) - y.applied) = SumTo(PutOn(b), N) - y.applied
        BY <1>3, <1>6, <1>13, <1>16 DEF Positive
      <3>3. QED BY <2>1, <3>1, <3>2, <1>7, <1>15
    <2>2. CASE c # b
      <3>1. Bill(c) \in Row /\ ~Holds(r, Bill(c)) BY <2>2, <1>2, <1>3, RowsApart DEF HoldsOnly
      <3>2. shown'[Bill(c)] = shown[Bill(c)] BY <3>1 DEF Shows
      <3>3. QED BY <2>2, <3>2, <1>13, <1>15
    <2>3. QED BY <2>1, <2>2
  <1>18. shown'[Payer] = SumTo(Credits, N)'
    <2>1. CreditChange(r) = -Leftover(y) BY <1>1, <1>8 DEF CreditChange
    <2>2. CASE Holds(r, Payer)
      <3>1. shown'[Payer] = shown[Payer] + (-Leftover(y)) BY <2>1, <2>2, <1>2, <1>4 DEF Shows, CreditDone
      <3>2. QED BY <3>1, <1>6, <1>13, <1>14
    <2>3. CASE ~Holds(r, Payer)
      <3>1. shown'[Payer] = shown[Payer] /\ -Leftover(y) = 0 BY <2>1, <2>3, <1>2, <1>4 DEF Shows, CreditDone
      <3>2. QED BY <3>1, <1>6, <1>13, <1>14
    <2>4. QED BY <2>2, <2>3
  <1>19. \A c \in BillId : ~(SumTo(PutOn(c), N)' > SumTo(PutOn(c), N))
    BY <1>6, <1>13, <1>15
  <1>20. QED BY <1>17, <1>18, <1>19 DEF SumsRight

\* A commit of the other kinds moves no money.
NoMoney(r) ==
  /\ \A p \in Request : ~Holds(r, Payment(p))
  /\ shown'[Payer] = shown[Payer]
  /\ \A b \in BillId : shown'[Bill(b)].paid = shown[Bill(b)].paid

\* A bill of fresh charges.
LEMMA IssueMoney ==
  ASSUME PathInv, NEW r \in Request, Shows(r), at[r] = "commit", job[r].kind = "ISSUE"
  PROVE  NoMoney(r)
  <1>1. PICK b : b = NewBill(r)
    OBVIOUS
  <1>2. /\ row[Payer] = shown[Payer] /\ HoldsOnly(r, {Payer, Bill(b), Line(b)})
        /\ row[Bill(b)] = NewRow(job[r].amount, 0)
    BY <1>1 DEF PathInv, Good, GoodIssue, PayerLocked
  <1>3. b \in BillId /\ job[r].amount \in Nat BY <1>1, NewBills, JobsAreGood DEF PathInv, TypeOK
  <1>4. \A p \in Request : ~Holds(r, Payment(p)) BY <1>2, <1>3, RowsApart DEF HoldsOnly
  <1>5. shown'[Payer] = shown[Payer] BY <1>2, RowsApart DEF Shows
  <1>6. shown[Bill(b)].paid = 0 /\ row[Bill(b)].paid = 0
    <2>1. ~Exists(b) BY <1>1 DEF PathInv, Sound, NewBillsSound
    <2>2. shown[Bill(b)] = NoBill BY <2>1, <1>3 DEF PathInv, Sound, BillsSound
    <2>3. QED BY <2>2, <1>2, <1>3, NewRowType DEF NoBill
  <1>7. ASSUME NEW c \in BillId PROVE shown'[Bill(c)].paid = shown[Bill(c)].paid
    <2>1. CASE c = b BY <2>1, <1>3, <1>6, RowsApart DEF Shows
    <2>2. CASE c # b
      <3>1. Bill(c) \in Row /\ ~Holds(r, Bill(c)) BY <2>2, <1>2, <1>3, RowsApart DEF HoldsOnly
      <3>2. QED BY <3>1 DEF Shows
    <2>3. QED BY <2>1, <2>2
  <1>8. QED BY <1>4, <1>5, <1>7 DEF NoMoney

\* A consolidation.
LEMMA RollMoney ==
  ASSUME PathInv, NEW r \in Request, Shows(r), at[r] = "commit", job[r].kind = "ROLL"
  PROVE  NoMoney(r)
  <1>1. PICK b : b = NewBill(r)
    OBVIOUS
  <1>2. GoodRoll(r) BY DEF PathInv, Good
  <1>3. /\ b \in BillId /\ job[r].amount \in Nat
        /\ \A c \in BillId : shown[Bill(c)] \in BillRow /\ row[Bill(c)] \in BillRow
    BY <1>1, NewBills, JobsAreGood, RowTypes DEF PathInv, TypeOK
  <1>4. /\ row[Payer] = shown[Payer]
        /\ HoldsOnly(r, {Payer, Line(b)} \cup {Bill(c) : c \in BillId} \cup {Case(c) : c \in BillId})
        /\ row[Bill(b)] = NewRow(job[r].amount, row[Bill(b)].arrears)
    BY <1>1, <1>2 DEF GoodRoll, PayerLocked, Ended
  <1>5. \A p \in Request : ~Holds(r, Payment(p)) BY <1>3, <1>4, RowsApart DEF HoldsOnly
  <1>6. shown'[Payer] = shown[Payer] BY <1>4, RowsApart DEF Shows
  <1>7. shown[Bill(b)].paid = 0 /\ row[Bill(b)].paid = 0
    <2>1. ~Exists(b) BY <1>1 DEF PathInv, Sound, NewBillsSound
    <2>2. shown[Bill(b)] = NoBill BY <2>1, <1>3 DEF PathInv, Sound, BillsSound
    <2>3. row[Bill(b)].arrears \in Nat BY <1>3 DEF BillRow
    <2>4. QED BY <2>2, <2>3, <1>3, <1>4, NewRowType DEF NoBill
  <1>8. ASSUME NEW c \in BillId PROVE shown'[Bill(c)].paid = shown[Bill(c)].paid
    <2>1. Bill(c) \in Row BY RowsApart
    <2>2. CASE c = b BY <2>1, <2>2, <1>7 DEF Shows
    <2>3. CASE c # b /\ Holds(r, Bill(c))
      <3>1. row[Bill(c)] = IF c \in took[r]
                    THEN [shown[Bill(c)] EXCEPT !.status = "SUPERSEDED", !.supersededBy = b]
                    ELSE shown[Bill(c)]
        BY <2>3, <1>1, <1>2 DEF GoodRoll
      <3>2. row[Bill(c)].paid = shown[Bill(c)].paid BY <3>1, <1>3 DEF BillRow
      <3>3. QED BY <3>2, <2>1, <2>3 DEF Shows
    <2>4. CASE c # b /\ ~Holds(r, Bill(c)) BY <2>1, <2>4 DEF Shows
    <2>5. QED BY <2>2, <2>3, <2>4
  <1>9. QED BY <1>5, <1>6, <1>8 DEF NoMoney

\* A line edit.
LEMMA EditMoney ==
  ASSUME PathInv, NEW r \in Request, Shows(r), at[r] = "commit", job[r].kind = "EDIT"
  PROVE  NoMoney(r)
  <1>1. PICK b : b = on[r]
    OBVIOUS
  <1>2. HoldsOnly(r, {Line(b), Bill(b)}) /\ b \in BillId /\ row[Bill(b)].paid = shown[Bill(b)].paid
    BY <1>1 DEF PathInv, Good, GoodEdit
  <1>3. \A p \in Request : ~Holds(r, Payment(p)) BY <1>2, RowsApart DEF HoldsOnly
  <1>4. ~Holds(r, Payer) BY <1>2, RowsApart DEF HoldsOnly
  <1>5. shown'[Payer] = shown[Payer] BY <1>4, RowsApart DEF Shows
  <1>6. ASSUME NEW c \in BillId PROVE shown'[Bill(c)].paid = shown[Bill(c)].paid
    <2>1. Bill(c) \in Row /\ (c # b => ~Holds(r, Bill(c))) BY <1>2, RowsApart DEF HoldsOnly
    <2>2. QED BY <2>1, <1>2 DEF Shows
  <1>7. QED BY <1>3, <1>5, <1>6 DEF NoMoney

\* The nightly refresh.
LEMMA RefreshMoney ==
  ASSUME PathInv, NEW r \in Request, Shows(r), job[r].kind = "REFRESH"
  PROVE  NoMoney(r)
  <1>1. /\ HoldsOnly(r, OverdueRows)
        /\ \A b \in 1..M : Holds(r, Bill(b)) => row[Bill(b)] = [shown[Bill(b)] EXCEPT !.status = "OVERDUE"]
    BY RefreshHolds
  <1>2. 1..M \subseteq BillId BY NewBills
  <1>3. \A b \in BillId : Holds(r, Bill(b)) => b \in 1..M
    BY <1>1, <1>2, RowsApart DEF HoldsOnly, OverdueRows
  <1>4. (\A p \in Request : ~Holds(r, Payment(p))) /\ ~Holds(r, Payer)
    BY <1>1, <1>2, RowsApart DEF HoldsOnly, OverdueRows
  <1>5. shown'[Payer] = shown[Payer] BY <1>4, RowsApart DEF Shows
  <1>6. ASSUME NEW c \in BillId PROVE shown'[Bill(c)].paid = shown[Bill(c)].paid
    <2>1. Bill(c) \in Row BY RowsApart
    <2>2. CASE ~Holds(r, Bill(c)) BY <2>1, <2>2 DEF Shows
    <2>3. CASE Holds(r, Bill(c))
      <3>1. row[Bill(c)] = [shown[Bill(c)] EXCEPT !.status = "OVERDUE"] BY <2>3, <1>1, <1>3
      <3>2. shown[Bill(c)] \in BillRow BY RowTypes
      <3>3. QED BY <3>1, <3>2, <2>1, <2>3 DEF Shows, BillRow
    <2>4. QED BY <2>2, <2>3
  <1>7. QED BY <1>4, <1>5, <1>6 DEF NoMoney

\* Every commit leaves the sums right.
LEMMA CommitSums ==
  ASSUME PathInv, PathInv', MoneyInv, NEW r \in Request, Shows(r), at[r] \in {"commit", "refresh"}
  PROVE  SumsRight
  <1>1. job[r].kind \in {"PAY", "REVERSE", "ISSUE", "ROLL", "EDIT", "REFRESH"} /\ (at[r] = "refresh" => job[r].kind = "REFRESH")
        /\ (at[r] = "commit" => job[r].kind # "REFRESH")
    BY KindAt
  <1>2. CASE job[r].kind = "PAY" BY <1>1, <1>2, PaymentSums
  <1>3. CASE job[r].kind = "REVERSE" BY <1>1, <1>3, ReversalSums
  <1>4. CASE job[r].kind \in {"ISSUE", "ROLL", "EDIT", "REFRESH"}
    <2>1. NoMoney(r) BY <1>1, <1>4, IssueMoney, RollMoney, EditMoney, RefreshMoney
    <2>2. Credits' = Credits /\ \A b \in BillId : PutOn(b)' = PutOn(b)
      BY <2>1, PaymentsStay DEF NoMoney
    <2>3. /\ \A b \in BillId : SumTo(PutOn(b), N)' = SumTo(PutOn(b), N)
          /\ SumTo(Credits, N)' = SumTo(Credits, N)
      BY <2>2 DEF SumTo, Running
    <2>4. \A b \in BillId : SumTo(PutOn(b), N) \in Nat BY SumTypes
    <2>5. \A b \in BillId : ~(SumTo(PutOn(b), N)' > SumTo(PutOn(b), N)) BY <2>3, <2>4
    <2>6. QED BY <2>1, <2>3, <2>5 DEF SumsRight, NoMoney, MoneyInv
  <1>5. QED BY <1>1, <1>2, <1>3, <1>4

\* Those who have yet to commit.
LEMMA CommitMoney ==
  ASSUME PathInv, PathInv', MoneyInv, ReversedOnce, NEW r \in Request, Commit(r)
  PROVE  MoneyInv' /\ SumsRight
  <1>1. /\ CommitRows(r) /\ Shows(r) /\ at[r] \in {"commit", "refresh"} /\ at'[r] = "done"
        /\ \A q \in Request \ {r} : at'[q] = at[q]
        /\ row' = row /\ job' = job /\ on' = on
    BY CommitFacts
  <1>2. SumsRight BY <1>1, CommitSums
  <1>3. ASSUME NEW q \in Request, Reversing(q)' PROVE shown'[Payment(job'[q].ref)].status = "CONFIRMED"
    <2>1. PICK p : p = job[q].ref
      OBVIOUS
    <2>2. q # r /\ Reversing(q) BY <1>1, <1>3 DEF Reversing
    <2>3. p \in Request /\ Payment(p) \in Row BY <2>1, <2>2, JobsAreGood, RowsApart DEF PathInv, TypeOK, Reversing
    <2>4. shown[Payment(p)].status = "CONFIRMED" BY <2>1, <2>2 DEF MoneyInv, Reversing
    <2>5. CASE ~Holds(r, Payment(p))
      BY <2>1, <2>3, <2>4, <2>5, <1>1 DEF Shows
    <2>6. CASE Holds(r, Payment(p))
      <3>1. ~Reversed(r, p) BY <2>1, <2>2 DEF Reversed, ReversedOnce, Reversing
      <3>2. NewPayment(r, p) BY <3>1, <2>3, <2>6, <1>1 DEF CommitRows
      <3>3. row[Payment(p)].status = "CONFIRMED" BY <3>2 DEF NewPayment
      <3>4. QED BY <3>3, <2>1, <2>3, <2>6, <1>1 DEF Shows
    <2>7. QED BY <2>5, <2>6
  <1>4. ASSUME NEW q \in Request, Paying(q)' PROVE Covers(q)'
    <2>1. PICK b : b = on[q]
      OBVIOUS
    <2>2. q # r /\ Paying(q) BY <1>1, <1>4 DEF Paying
    <2>3. b \in BillId /\ Holds(q, Bill(b)) /\ Holds(q, Line(b)) /\ Bill(b) \in Row /\ Line(b) \in Row
      <3>1. GoodPayment(q) BY <2>2 DEF PathInv, Good, Paying
      <3>2. QED BY <3>1, <2>1, <2>2, RowsApart DEF GoodPayment, Paying
    <2>4. ~Holds(r, Bill(b)) /\ ~Holds(r, Line(b)) BY <2>2, <2>3 DEF PathInv, LocksWork
    <2>5. shown'[Line(b)] = shown[Line(b)] /\ shown'[Bill(b)] = shown[Bill(b)]
      BY <2>3, <2>4, <1>1 DEF Shows
    <2>6. SumTo(PutOn(b), N)' = SumTo(PutOn(b), N)
      BY <2>3, <2>5, <1>2 DEF SumsRight, MoneyInv
    <2>7. Covers(q) BY <2>2 DEF MoneyInv, Paying, Covers
    <2>8. QED BY <2>1, <2>5, <2>6, <2>7, <1>1 DEF Covers
  <1>5. QED BY <1>2, <1>3, <1>4 DEF SumsRight, MoneyInv, Reversing, Paying, Covers

-----------------------------------------------------------------------------
\* Nothing has been paid at first.
LEMMA InitMoney ==
  ASSUME Init
  PROVE  MoneyInv
  <1>1. PathInv BY InitPath
  <1>2. /\ row = shown /\ row[Payer] = 0 /\ at = [r \in Request |-> "idle"]
        /\ \A p \in Request : row[Payment(p)] = NoPayment
        /\ \A b \in BillId : row[Bill(b)].paid = 0
    BY InitRows DEF Init
  <1>3. N \in Nat BY PathConstants
  <1>4. Credits \in [1..N -> Int] /\ \A b \in BillId : PutOn(b) \in [1..N -> Nat] BY <1>1, CreditTypes
  <1>5. \A p \in 1..N : Credits[p] = 0 BY <1>2 DEF Credits, NoPayment, Request
  <1>6. \A b \in BillId : \A p \in 1..N : PutOn(b)[p] = 0 BY <1>2 DEF PutOn, NoPayment, Request
  <1>7. SumTo(Credits, N) = 0 BY <1>3, <1>4, <1>5, SumOfZeros
  <1>8. ASSUME NEW b \in BillId PROVE SumTo(PutOn(b), N) = 0
    <2>1. PutOn(b) \in [1..N -> Int] BY <1>4
    <2>2. QED BY <2>1, <1>3, <1>6, SumOfZeros
  <1>9. QED BY <1>2, <1>7, <1>8 DEF MoneyInv

\* No payment is taken beyond what its line charges.
NoOverpayment ==
  \A b \in BillId : SumTo(PutOn(b), N)' > SumTo(PutOn(b), N) => SumTo(PutOn(b), N)' <= shown'[Line(b)]

\* What is not shown counts in no sum.
LEMMA SumsStay ==
  ASSUME PathInv, shown' = shown
  PROVE  /\ \A b \in BillId : SumTo(PutOn(b), N)' = SumTo(PutOn(b), N)
         /\ SumTo(Credits, N)' = SumTo(Credits, N)
         /\ NoOverpayment
  <1>1. Credits' = Credits /\ \A b \in BillId : PutOn(b)' = PutOn(b)
    BY DEF Credits, Leftover, PutOn
  <1>2. /\ \A b \in BillId : SumTo(PutOn(b), N)' = SumTo(PutOn(b), N)
        /\ SumTo(Credits, N)' = SumTo(Credits, N)
    BY <1>1 DEF SumTo, Running
  <1>3. \A b \in BillId : SumTo(PutOn(b), N) \in Nat BY SumTypes
  <1>4. QED BY <1>2, <1>3 DEF NoOverpayment

\* Every step keeps the sums.
LEMMA MoneyStep ==
  ASSUME PathInv, PathInv', MoneyInv, ReversedOnce, [Next]_vars
  PROVE  MoneyInv' /\ ReversedOnce' /\ NoOverpayment
  <1>1. CASE \E r \in Request : Step(r)
    <2>1. PICK r \in Request : Step(r) BY <1>1
    <2>2. CASE Commit(r)
      <3>1. MoneyInv' /\ SumsRight BY <2>2, CommitMoney
      <3>2. job' = job BY <2>2 DEF Commit
      <3>3. QED BY <3>1, <3>2 DEF SumsRight, NoOverpayment, ReversedOnce
    <2>3. CASE ~Commit(r)
      <3>1. Keeps(r) BY <2>1, <2>3, StepKeeps
      <3>2. MoneyInv' BY <3>1, <2>1, <2>3, QuietMoney
      <3>3. job' = job /\ shown' = shown BY <3>1 DEF Keeps, Quiet
      <3>4. QED BY <3>2, <3>3, SumsStay DEF ReversedOnce
    <2>4. QED BY <2>2, <2>3
  <1>2. CASE UNCHANGED vars
    <2>1. job' = job /\ at' = at /\ row' = row /\ shown' = shown /\ on' = on BY <1>2 DEF vars
    <2>2. /\ \A b \in BillId : SumTo(PutOn(b), N)' = SumTo(PutOn(b), N)
          /\ SumTo(Credits, N)' = SumTo(Credits, N)
          /\ NoOverpayment
      BY <2>1, SumsStay
    <2>3. ASSUME NEW q \in Request, Paying(q)' PROVE Covers(q)'
      <3>1. PICK b : b = on[q] OBVIOUS
      <3>2. Paying(q) BY <2>1, <2>3 DEF Paying
      <3>3. b \in BillId BY <3>1, <3>2 DEF PathInv, Good, GoodPayment, Paying
      <3>4. Covers(q) BY <3>2 DEF MoneyInv, Paying, Covers
      <3>5. SumTo(PutOn(b), N)' = SumTo(PutOn(b), N) BY <2>2, <3>3
      <3>6. QED BY <3>1, <3>4, <3>5, <2>1 DEF Covers
    <2>4. QED BY <2>1, <2>2, <2>3 DEF MoneyInv, ReversedOnce, Paying, Covers
  <1>3. QED BY <1>1, <1>2 DEF Next, AllEnded

\* No money is lost or spent twice, whatever overlaps, as long as no two requests reverse
\* the same payment (reverse_payment does not look at its status again under the lock).
THEOREM MoneyIsKept == Spec /\ ReversedOnce => MoneyAddsUp
<1> DEFINE PaidRight == \A b \in BillId : shown[Bill(b)].paid = SumTo(PutOn(b), N)
           CreditRight == shown[Payer] = SumTo([p \in Request |->
              IF shown[Payment(p)].status = "CONFIRMED" THEN Leftover(shown[Payment(p)]) ELSE 0], N)
<1>1. Init => MoneyInv BY InitMoney
<1>2. PathInv /\ PathInv' /\ MoneyInv /\ ReversedOnce /\ [Next]_vars => MoneyInv' /\ ReversedOnce'
  BY MoneyStep
<1>3. PathInv /\ PathInv' /\ MoneyInv /\ ReversedOnce /\ [Next]_vars => [NoOverpayment]_vars
  BY MoneyStep
<1>4. MoneyInv => PaidRight /\ CreditRight
  BY DEF MoneyInv, Credits
<1>5. Spec => []PathInv BY PathInvariance
<1>6. Spec /\ ReversedOnce => [](MoneyInv /\ ReversedOnce)
  BY <1>1, <1>2, <1>5, PTL DEF Spec
<1>7. Spec /\ ReversedOnce => [][NoOverpayment]_vars
  BY <1>3, <1>5, <1>6, PTL DEF Spec
<1>8. Spec /\ ReversedOnce => []PaidRight /\ []CreditRight
  <2> HIDE DEF PaidRight, CreditRight
  <2>. QED  BY <1>4, <1>6, PTL
<1>. QED  BY <1>7, <1>8, PTL DEF MoneyAddsUp, NoOverpayment

-----------------------------------------------------------------------------
(* What a commit leaves alone: it touches the line of a bill, or a payment of it, only
   while it holds the bill. *)

\* The request is at its last step.
Committing(r) == at[r] = "commit" \/ (at[r] = "refresh" /\ job[r].kind = "REFRESH")

\* A request that commits a line holds its bill.
LEMMA LinesWithBills ==
  ASSUME PathInv, NEW r \in Request, Committing(r), NEW b \in BillId, Holds(r, Line(b))
  PROVE  Holds(r, Bill(b))
  <1>1. job[r].kind \in {"PAY", "REVERSE", "ISSUE", "ROLL", "EDIT", "REFRESH"}
        /\ (at[r] = "commit" => job[r].kind # "REFRESH")
    BY KindAt DEF Committing
  <1>2. Line(b) \in Row /\ Good(r) BY RowsApart DEF PathInv
  <1>3. NewBill(r) \in BillId BY NewBills
  <1>4. CASE job[r].kind = "PAY"
    <2>1. at[r] = "commit" /\ GoodPayment(r) BY <1>2, <1>4 DEF Committing, Good
    <2>2. /\ HoldsOnly(r, {Bill(on[r]), Line(on[r]), Case(on[r]), Payment(r), Payer})
          /\ Holds(r, Bill(on[r])) /\ on[r] \in BillId
      BY <2>1 DEF GoodPayment, HoldsOnly
    <2>3. b = on[r] BY <2>2, <1>2, RowsApart DEF HoldsOnly
    <2>4. QED BY <2>2, <2>3
  <1>5. CASE job[r].kind = "REVERSE"
    <2>1. at[r] = "commit" /\ GoodReversal(r) BY <1>2, <1>5 DEF Committing, Good
    <2>2. on[r] \in BillId /\ job[r].ref \in Request BY <2>1, <1>2, <1>5, OnIs DEF PathInv
    <2>3. HoldsOnly(r, {Bill(on[r]), Payment(job[r].ref), Payer}) BY <2>1 DEF GoodReversal, HoldsOnly
    <2>4. FALSE BY <2>2, <2>3, <1>2, RowsApart DEF HoldsOnly
    <2>5. QED BY <2>4
  <1>6. CASE job[r].kind = "ISSUE"
    <2>1. at[r] = "commit" /\ GoodIssue(r) BY <1>2, <1>6 DEF Committing, Good
    <2>2. /\ HoldsOnly(r, {Payer, Bill(NewBill(r)), Line(NewBill(r))}) /\ Holds(r, Bill(NewBill(r)))
      BY <2>1 DEF GoodIssue
    <2>3. b = NewBill(r) BY <2>2, <1>2, <1>3, RowsApart DEF HoldsOnly
    <2>4. QED BY <2>2, <2>3
  <1>7. CASE job[r].kind = "ROLL"
    <2>1. at[r] = "commit" /\ GoodRoll(r) BY <1>2, <1>7 DEF Committing, Good
    <2>2. /\ HoldsOnly(r, {Payer, Line(NewBill(r))} \cup {Bill(c) : c \in BillId} \cup {Case(c) : c \in BillId})
          /\ Holds(r, Bill(NewBill(r)))
      BY <2>1 DEF GoodRoll
    <2>3. b = NewBill(r) BY <2>2, <1>2, <1>3, RowsApart DEF HoldsOnly
    <2>4. QED BY <2>2, <2>3
  <1>8. CASE job[r].kind = "EDIT"
    <2>1. at[r] = "commit" /\ GoodEdit(r) BY <1>2, <1>8 DEF Committing, Good
    <2>2. HoldsOnly(r, {Line(on[r]), Bill(on[r])}) /\ Holds(r, Bill(on[r])) /\ on[r] \in BillId
      BY <2>1 DEF GoodEdit
    <2>3. b = on[r] BY <2>2, <1>2, RowsApart DEF HoldsOnly
    <2>4. QED BY <2>2, <2>3
  <1>9. CASE job[r].kind = "REFRESH"
    <2>1. HoldsOnly(r, OverdueRows) /\ 1..M \subseteq BillId BY <1>9, RefreshHolds, NewBills
    <2>2. FALSE BY <2>1, <1>2, RowsApart DEF HoldsOnly, OverdueRows
    <2>3. QED BY <2>2
  <1>10. QED BY <1>1, <1>4, <1>5, <1>6, <1>7, <1>8, <1>9

\* A request that commits a payment holds the bill it was put on.
LEMMA PaymentsWithBills ==
  ASSUME PathInv, NEW r \in Request, Committing(r), NEW b \in BillId, ~Holds(r, Bill(b)),
         NEW p \in Request, Holds(r, Payment(p))
  PROVE  row[Payment(p)].bill # b /\ shown[Payment(p)].bill # b
  <1>1. job[r].kind \in {"PAY", "REVERSE", "ISSUE", "ROLL", "EDIT", "REFRESH"}
        /\ (at[r] = "commit" => job[r].kind # "REFRESH")
    BY KindAt DEF Committing
  <1>2. Payment(p) \in Row /\ Good(r) /\ NewBill(r) \in BillId BY RowsApart, NewBills DEF PathInv
  <1>3. b # 0 BY PathConstants DEF BillId
  <1>4. CASE job[r].kind = "PAY"
    <2>1. at[r] = "commit" /\ GoodPayment(r) BY <1>2, <1>4 DEF Committing, Good
    <2>2. /\ HoldsOnly(r, {Bill(on[r]), Line(on[r]), Case(on[r]), Payment(r), Payer})
          /\ Holds(r, Bill(on[r])) /\ on[r] \in BillId /\ row[Payment(r)].bill = on[r]
      BY <2>1 DEF GoodPayment, HoldsOnly
    <2>3. p = r BY <2>2, <1>2, RowsApart DEF HoldsOnly
    <2>4. shown[Payment(p)] = NoPayment BY <2>1, <2>3 DEF PathInv, Sound, PaymentsSound
    <2>5. QED BY <2>2, <2>3, <2>4, <1>3 DEF NoPayment
  <1>5. CASE job[r].kind = "REVERSE"
    <2>1. at[r] = "commit" /\ GoodReversal(r) BY <1>2, <1>5 DEF Committing, Good
    <2>2. on[r] \in BillId /\ job[r].ref \in Request BY <2>1, <1>2, <1>5, OnIs DEF PathInv
    <2>3. /\ HoldsOnly(r, {Bill(on[r]), Payment(job[r].ref), Payer}) /\ Holds(r, Bill(on[r]))
          /\ on[r] = shown[Payment(job[r].ref)].bill
          /\ row[Payment(job[r].ref)] = [shown[Payment(job[r].ref)] EXCEPT !.status = "REVERSED"]
      BY <2>1 DEF GoodReversal, HoldsOnly
    <2>4. p = job[r].ref BY <2>2, <2>3, <1>2, RowsApart DEF HoldsOnly
    <2>5. shown[Payment(p)] \in PaymentRow BY RowTypes
    <2>6. row[Payment(p)].bill = on[r] /\ shown[Payment(p)].bill = on[r] BY <2>3, <2>4, <2>5 DEF PaymentRow
    <2>7. QED BY <2>3, <2>6
  <1>6. CASE job[r].kind = "ISSUE"
    <2>1. at[r] = "commit" /\ GoodIssue(r) BY <1>2, <1>6 DEF Committing, Good
    <2>2. HoldsOnly(r, {Payer, Bill(NewBill(r)), Line(NewBill(r))}) BY <2>1 DEF GoodIssue
    <2>3. FALSE BY <2>2, <1>2, RowsApart DEF HoldsOnly
    <2>4. QED BY <2>3
  <1>7. CASE job[r].kind = "ROLL"
    <2>1. at[r] = "commit" /\ GoodRoll(r) BY <1>2, <1>7 DEF Committing, Good
    <2>2. HoldsOnly(r, {Payer, Line(NewBill(r))} \cup {Bill(c) : c \in BillId} \cup {Case(c) : c \in BillId})
      BY <2>1 DEF GoodRoll
    <2>3. FALSE BY <2>2, <1>2, RowsApart DEF HoldsOnly
    <2>4. QED BY <2>3
  <1>8. CASE job[r].kind = "EDIT"
    <2>1. at[r] = "commit" /\ GoodEdit(r) BY <1>2, <1>8 DEF Committing, Good
    <2>2. HoldsOnly(r, {Line(on[r]), Bill(on[r])}) /\ on[r] \in BillId BY <2>1 DEF GoodEdit
    <2>3. FALSE BY <2>2, <1>2, RowsApart DEF HoldsOnly
    <2>4. QED BY <2>3
  <1>9. CASE job[r].kind = "REFRESH"
    <2>1. HoldsOnly(r, OverdueRows) /\ 1..M \subseteq BillId BY <1>9, RefreshHolds, NewBills
    <2>2. FALSE BY <2>1, <1>2, RowsApart DEF HoldsOnly, OverdueRows
    <2>3. QED BY <2>2
  <1>10. QED BY <1>1, <1>4, <1>5, <1>6, <1>7, <1>8, <1>9

\* What a bill owes changes only with the bill's lock held.
LEMMA OwingStays ==
  ASSUME PathInv, NEW r \in Request, Committing(r), Shows(r), NEW b \in BillId, ~Holds(r, Bill(b))
  PROVE  Owing(b)' = Owing(b)
  <1>1. Line(b) \in Row BY RowsApart
  <1>2. shown'[Line(b)] = shown[Line(b)] BY <1>1, LinesWithBills DEF Shows
  <1>3. ASSUME NEW p \in Request PROVE PutOn(b)'[p] = PutOn(b)[p]
    <2>1. Payment(p) \in Row BY RowsApart
    <2>2. CASE Holds(r, Payment(p))
      <3>1. shown'[Payment(p)].bill # b /\ shown[Payment(p)].bill # b
        BY <2>1, <2>2, PaymentsWithBills DEF Shows
      <3>2. QED BY <3>1 DEF PutOn
    <2>3. CASE ~Holds(r, Payment(p)) BY <2>1, <2>3 DEF Shows, PutOn
    <2>4. QED BY <2>2, <2>3
  <1>4. PutOn(b)' = PutOn(b) BY <1>3 DEF PutOn
  <1>5. QED BY <1>2, <1>4 DEF Owing, Positive, SumTo, Running

-----------------------------------------------------------------------------
(* What is rolled up is what is owed when it is committed. *)

\* The debt of bills that the committing request does not hold stays what it was.
LEMMA OwedStays ==
  ASSUME NEW bills, \A b \in BillId : b \in bills => Owing(b)' = Owing(b)
  PROVE  SumTo([b \in BillId |-> IF b \in bills THEN Owing(b)' ELSE 0], M + N) = OwedOn(bills)
  <1>1. [b \in BillId |-> IF b \in bills THEN Owing(b)' ELSE 0]
          = [b \in BillId |-> IF b \in bills THEN Owing(b) ELSE 0]
    OBVIOUS
  <1>2. QED BY <1>1 DEF OwedOn

\* No consolidation is under way at first.
LEMMA InitRoll ==
  ASSUME Init
  PROVE  RollInv
  BY DEF Init, RollInv

\* The debt a consolidation has added up stays right while others run.
LEMMA QuietRoll ==
  ASSUME PathInv, RollInv, NEW r \in Request, Step(r), ~Commit(r), Keeps(r)
  PROVE  RollInv'
  <1>1. /\ job' = job /\ shown' = shown
        /\ \A q \in Request \ {r} : at'[q] = at[q] /\ took'[q] = took[q]
        /\ \A x \in Row : \A q \in Request \ {r} : Holds(q, x) => row'[x] = row[x]
    BY DEF Keeps, Quiet
  <1>2. \A b \in BillId : Owing(b)' = Owing(b)
    BY <1>1 DEF Owing, PutOn, Positive, SumTo, Running
  <1>3. ASSUME NEW q \in Request, job'[q].kind = "ROLL", at'[q] = "commit"
        PROVE  row'[Bill(NewBill(q))].arrears = OwedOn(took[q]) /\ took'[q] = took[q]
    <2>1. CASE q = r
      <3>1. Supersede(r) BY <2>1, <1>1, <1>3, LeadsTo
      <3>2. QED BY <2>1, <3>1, SupersedeKeeps
    <2>2. CASE q # r
      <3>1. at[q] = "commit" /\ job[q].kind = "ROLL" /\ took'[q] = took[q] BY <2>2, <1>1, <1>3
      <3>2. Holds(q, Bill(NewBill(q))) /\ Bill(NewBill(q)) \in Row
        BY <3>1, NewBills, RowsApart DEF PathInv, Good, GoodRoll
      <3>3. row'[Bill(NewBill(q))] = row[Bill(NewBill(q))] BY <3>2, <2>2, <1>1
      <3>4. QED BY <3>1, <3>3 DEF RollInv
    <2>3. QED BY <2>1, <2>2
  <1>4. ASSUME NEW q \in Request, job'[q].kind = "ROLL", at'[q] = "commit"
        PROVE  row'[Bill(NewBill(q))].arrears
                 = SumTo([b \in BillId |-> IF b \in took'[q] THEN Owing(b)' ELSE 0], M + N)
    BY <1>2, <1>3, <1>4, OwedStays
  <1>5. QED BY <1>4 DEF RollInv, OwedOn, SumTo, Running

\* Also when another request commits, for it does not hold the bills taken.
LEMMA CommitRoll ==
  ASSUME PathInv, RollInv, NEW r \in Request, Commit(r)
  PROVE  RollInv'
  <1>1. /\ Shows(r) /\ at'[r] = "done" /\ \A q \in Request \ {r} : at'[q] = at[q]
        /\ row' = row /\ job' = job /\ took' = took /\ Committing(r)
    BY CommitFacts, KindAt DEF Committing
  <1>2. ASSUME NEW q \in Request, job'[q].kind = "ROLL", at'[q] = "commit"
        PROVE  row'[Bill(NewBill(q))].arrears
                 = SumTo([b \in BillId |-> IF b \in took'[q] THEN Owing(b)' ELSE 0], M + N)
    <2>1. q # r /\ at[q] = "commit" /\ job[q].kind = "ROLL" BY <1>1, <1>2
    <2>2. \A b \in took[q] : Holds(q, Bill(b)) BY <2>1 DEF PathInv, Good, GoodRoll
    <2>3. \A b \in BillId : b \in took[q] => Owing(b)' = Owing(b)
      <3>1. \A b \in BillId : b \in took[q] => ~Holds(r, Bill(b))
        BY <2>1, <2>2, RowsApart DEF PathInv, LocksWork
      <3>2. QED BY <3>1, <1>1, OwingStays
    <2>4. row[Bill(NewBill(q))].arrears = OwedOn(took[q]) BY <2>1 DEF RollInv
    <2>5. QED BY <2>3, <2>4, <1>1, OwedStays
  <1>3. QED BY <1>2 DEF RollInv, OwedOn, SumTo, Running

\* The bill a request adds carries what the bills it superseded still owe.
ArrearsAreOwed ==
  \A b \in BillId :
    shown[Bill(b)].status = "NONE" /\ shown'[Bill(b)].status # "NONE" =>
      shown'[Bill(b)].arrears = StillOwed({c \in BillId : shown[Bill(c)].supersededBy = b})'

\* Which bills the new one superseded, and what they owe once it is there.
Superseded(r, bills) ==
  /\ \A c \in BillId : shown'[Bill(c)].supersededBy = NewBill(r) <=> c \in bills
  /\ \A c \in BillId : c \in bills => Owing(c)' = Owing(c)
  /\ shown'[Bill(NewBill(r))].arrears = OwedOn(bills)

\* A bill that is being committed was not there, and superseded none.
LEMMA NotYet ==
  ASSUME PathInv, NEW r \in Request, Committing(r)
  PROVE  /\ NewBill(r) \in BillId /\ shown[Bill(NewBill(r))].status = "NONE"
         /\ \A c \in BillId : shown[Bill(c)].supersededBy # NewBill(r)
  <1>1. ~Exists(NewBill(r)) BY DEF PathInv, Sound, NewBillsSound, Committing
  <1>2. NewBill(r) \in BillId /\ NewBill(r) # 0 BY NewBills
  <1>3. ASSUME NEW c \in BillId PROVE shown[Bill(c)].supersededBy # NewBill(r)
    BY <1>1, <1>2, NewBills DEF PathInv, Sound, BillsSound
  <1>4. QED BY <1>1, <1>2, <1>3 DEF Exists

\* A bill of fresh charges supersedes none.
LEMMA IssueSupersedes ==
  ASSUME PathInv, NEW r \in Request, Committing(r), Shows(r), job[r].kind = "ISSUE"
  PROVE  Superseded(r, {})
  <1>1. PICK b : b = NewBill(r)
    OBVIOUS
  <1>2. at[r] = "commit" /\ GoodIssue(r) BY KindAt DEF PathInv, Good, Committing
  <1>3. /\ HoldsOnly(r, {Payer, Bill(b), Line(b)}) /\ Holds(r, Bill(b))
        /\ row[Bill(b)] = NewRow(job[r].amount, 0)
    BY <1>1, <1>2 DEF GoodIssue
  <1>4. b \in BillId /\ b # 0 /\ job[r].amount \in Nat BY <1>1, NewBills, JobsAreGood DEF PathInv, TypeOK
  <1>5. row[Bill(b)].arrears = 0 /\ row[Bill(b)].supersededBy = 0 BY <1>3, <1>4, NewRowType
  <1>6. shown'[Bill(b)] = row[Bill(b)] BY <1>3, <1>4, RowsApart DEF Shows
  <1>7. ASSUME NEW c \in BillId PROVE shown'[Bill(c)].supersededBy # b
    <2>1. CASE c = b BY <2>1, <1>4, <1>5, <1>6
    <2>2. CASE c # b
      <3>1. Bill(c) \in Row /\ ~Holds(r, Bill(c)) BY <2>2, <1>3, <1>4, RowsApart DEF HoldsOnly
      <3>2. shown'[Bill(c)] = shown[Bill(c)] BY <3>1 DEF Shows
      <3>3. QED BY <3>2, <1>1, NotYet
    <2>3. QED BY <2>1, <2>2
  <1>8. OwedOn({}) = 0
    <2>1. M + N \in Nat /\ [c \in BillId |-> IF c \in {} THEN Owing(c) ELSE 0] \in [1..(M + N) -> Int]
      BY PathConstants DEF BillId
    <2>2. \A c \in 1..(M + N) : [d \in BillId |-> IF d \in {} THEN Owing(d) ELSE 0][c] = 0
      BY DEF BillId
    <2>3. QED BY <2>1, <2>2, SumOfZeros DEF OwedOn
  <1>9. QED BY <1>1, <1>5, <1>6, <1>7, <1>8 DEF Superseded

\* A consolidation supersedes the bills it took.
LEMMA RollSupersedes ==
  ASSUME PathInv, RollInv, NEW r \in Request, Committing(r), Shows(r), job[r].kind = "ROLL"
  PROVE  Superseded(r, took[r])
  <1>1. PICK b : b = NewBill(r)
    OBVIOUS
  <1>2. at[r] = "commit" /\ GoodRoll(r) BY KindAt DEF PathInv, Good, Committing
  <1>3. /\ HoldsOnly(r, {Payer, Line(b)} \cup {Bill(c) : c \in BillId} \cup {Case(c) : c \in BillId})
        /\ Holds(r, Bill(b)) /\ row[Bill(b)] = NewRow(job[r].amount, row[Bill(b)].arrears)
        /\ \A c \in took[r] : Holds(r, Bill(c)) /\ IsOpen(c)
    BY <1>1, <1>2 DEF GoodRoll
  <1>4. /\ b \in BillId /\ b # 0 /\ job[r].amount \in Nat /\ row[Bill(b)].arrears \in Nat
        /\ \A c \in BillId : shown[Bill(c)] \in BillRow
    BY <1>1, NewBills, JobsAreGood, RowTypes DEF PathInv, TypeOK, BillRow
  <1>5. shown[Bill(b)].status = "NONE" /\ \A c \in BillId : shown[Bill(c)].supersededBy # b
    BY <1>1, NotYet
  <1>6. b \notin took[r] BY <1>3, <1>5 DEF IsOpen, OpenStatus
  <1>7. row[Bill(b)].supersededBy = 0 BY <1>3, <1>4, NewRowType
  <1>8. shown'[Bill(b)] = row[Bill(b)] BY <1>3, <1>4, RowsApart DEF Shows
  <1>9. ASSUME NEW c \in BillId PROVE shown'[Bill(c)].supersededBy = b <=> c \in took[r]
    <2>1. Bill(c) \in Row BY RowsApart
    <2>2. CASE c = b BY <2>2, <1>4, <1>6, <1>7, <1>8
    <2>3. CASE c # b /\ Holds(r, Bill(c))
      <3>1. row[Bill(c)] = IF c \in took[r]
                    THEN [shown[Bill(c)] EXCEPT !.status = "SUPERSEDED", !.supersededBy = b]
                    ELSE shown[Bill(c)]
        BY <2>3, <1>1, <1>2 DEF GoodRoll
      <3>2. shown'[Bill(c)] = row[Bill(c)] BY <2>1, <2>3 DEF Shows
      <3>3. CASE c \in took[r] BY <3>1, <3>2, <3>3, <1>4 DEF BillRow
      <3>4. CASE c \notin took[r] BY <3>1, <3>2, <3>4, <1>5
      <3>5. QED BY <3>3, <3>4
    <2>4. CASE c # b /\ ~Holds(r, Bill(c)) BY <2>1, <2>4, <1>3, <1>5 DEF Shows
    <2>5. QED BY <2>2, <2>3, <2>4
  <1>10. ASSUME NEW c \in BillId, c \in took[r] PROVE Owing(c)' = Owing(c)
    <2>1. \A p \in Request : ~Holds(r, Payment(p)) BY <1>3, <1>4, RowsApart DEF HoldsOnly
    <2>2. PutOn(c)' = PutOn(c) BY <2>1, PaymentsStay
    <2>3. Line(c) \in Row /\ ~Holds(r, Line(c)) BY <1>3, <1>4, <1>6, <1>10, RowsApart DEF HoldsOnly
    <2>4. shown'[Line(c)] = shown[Line(c)] BY <2>3 DEF Shows
    <2>5. QED BY <2>2, <2>4 DEF Owing, Positive, SumTo, Running
  <1>11. row[Bill(b)].arrears = OwedOn(took[r]) BY <1>1, <1>2 DEF RollInv
  <1>12. QED BY <1>1, <1>8, <1>9, <1>10, <1>11 DEF Superseded

\* Its arrears are what they owe.
LEMMA SupersededOwed ==
  ASSUME NEW r \in Request, NEW bills, Superseded(r, bills)
  PROVE  shown'[Bill(NewBill(r))].arrears = StillOwed({c \in BillId : shown[Bill(c)].supersededBy = NewBill(r)})'
  <1>1. \A c \in BillId : c \in {d \in BillId : shown'[Bill(d)].supersededBy = NewBill(r)} <=> c \in bills
    BY DEF Superseded
  <1>2. [c \in BillId |-> IF c \in {d \in BillId : shown'[Bill(d)].supersededBy = NewBill(r)} THEN Owing(c)' ELSE 0]
          = [c \in BillId |-> IF c \in bills THEN Owing(c) ELSE 0]
    BY <1>1 DEF Superseded
  <1>3. SumTo([c \in BillId |-> IF c \in {d \in BillId : shown'[Bill(d)].supersededBy = NewBill(r)}
                                THEN Owing(c)' ELSE 0], M + N) = OwedOn(bills)
    BY <1>2 DEF OwedOn
  <1>4. QED BY <1>3 DEF Superseded, StillOwed, SumTo, Running

\* Every step keeps what is rolled up exact.
LEMMA ArrearsStep ==
  ASSUME PathInv, RollInv, [Next]_vars
  PROVE  RollInv' /\ ArrearsAreOwed
  <1>1. CASE \E r \in Request : Step(r)
    <2>1. PICK r \in Request : Step(r) BY <1>1
    <2>2. CASE Commit(r)
      <3>1. /\ CommitRows(r) /\ Shows(r) /\ Committing(r) /\ at[r] # "done"
        BY <2>2, CommitFacts, KindAt DEF Committing
      <3>2. ASSUME NEW b \in BillId, shown[Bill(b)].status = "NONE", shown'[Bill(b)].status # "NONE"
            PROVE  shown'[Bill(b)].arrears = StillOwed({c \in BillId : shown[Bill(c)].supersededBy = b})'
        <4>1. Bills(r) /\ b = NewBill(r) BY <3>1, <3>2, NewOnly DEF Exists
        <4>2. \E bills : Superseded(r, bills) BY <3>1, <4>1, IssueSupersedes, RollSupersedes DEF Bills
        <4>3. QED BY <4>1, <4>2, SupersededOwed
      <3>3. QED BY <3>2, <2>2, CommitRoll DEF ArrearsAreOwed
    <2>3. CASE ~Commit(r)
      <3>1. Keeps(r) BY <2>1, <2>3, StepKeeps
      <3>2. shown' = shown BY <3>1 DEF Keeps, Quiet
      <3>3. QED BY <3>1, <3>2, <2>1, <2>3, QuietRoll DEF ArrearsAreOwed
    <2>4. QED BY <2>2, <2>3
  <1>2. CASE UNCHANGED vars
    <2>1. job' = job /\ at' = at /\ row' = row /\ shown' = shown /\ took' = took BY <1>2 DEF vars
    <2>2. ArrearsAreOwed BY <2>1 DEF ArrearsAreOwed
    <2>3. \A b \in BillId : Owing(b)' = Owing(b)
      BY <2>1 DEF Owing, PutOn, Positive, SumTo, Running
    <2>4. ASSUME NEW q \in Request, job'[q].kind = "ROLL", at'[q] = "commit"
          PROVE  row'[Bill(NewBill(q))].arrears
                   = SumTo([b \in BillId |-> IF b \in took'[q] THEN Owing(b)' ELSE 0], M + N)
      <3>1. row[Bill(NewBill(q))].arrears = OwedOn(took[q]) BY <2>1, <2>4 DEF RollInv
      <3>2. QED BY <3>1, <2>1, <2>3, OwedStays
    <2>5. QED BY <2>2, <2>4 DEF RollInv, OwedOn, SumTo, Running
  <1>3. QED BY <1>1, <1>2 DEF Next, AllEnded

\* Whatever overlaps a consolidation, what it carries forward is what the bills it
\* supersedes owe when it commits: the bills are locked before their debt is added up
\* (_roll_open_bills), and only a holder of the lock changes what a bill owes.
THEOREM RollUpsAreOwed == Spec => [][ArrearsAreOwed]_vars
<1>1. Init => RollInv BY InitRoll
<1>2. PathInv /\ RollInv /\ [Next]_vars => RollInv' BY ArrearsStep
<1>3. PathInv /\ RollInv /\ [Next]_vars => [ArrearsAreOwed]_vars BY ArrearsStep
<1>4. Spec => []PathInv BY PathInvariance
<1>. QED  BY <1>1, <1>2, <1>3, <1>4, PTL DEF Spec

-----------------------------------------------------------------------------
(* A bill that has been paid is not superseded, unless a line edit meets the refresh. *)

\* What becomes of the status of a bill that a request commits.
LEMMA StatusShown ==
  ASSUME PathInv, NEW r \in Request, Committing(r), Shows(r), NEW b \in BillId, Holds(r, Bill(b))
  PROVE  /\ shown'[Bill(b)] = row[Bill(b)]
         /\ job[r].kind \in {"PAY", "REVERSE"} =>
              (row[Bill(b)].status = "SUPERSEDED" <=> shown[Bill(b)].status = "SUPERSEDED")
         /\ job[r].kind \in {"PAY", "EDIT"} => b = on[r] /\ Holds(r, Line(b))
         /\ job[r].kind \in {"ISSUE", "ROLL"} =>
              \/ shown[Bill(b)].status = "NONE" /\ row[Bill(b)].status = "ISSUED"
              \/ row[Bill(b)] = shown[Bill(b)]
              \/ IsOpen(b)
         /\ job[r].kind = "REFRESH" => row[Bill(b)].status # "SUPERSEDED"
  <1>1. Bill(b) \in Row /\ Good(r) BY RowsApart DEF PathInv
  <1>2. shown'[Bill(b)] = row[Bill(b)] BY <1>1 DEF Shows
  <1>3. NewBill(r) \in BillId /\ shown[Bill(b)] \in BillRow BY NewBills, RowTypes
  <1>4. ASSUME job[r].kind = "PAY"
        PROVE  /\ row[Bill(b)].status = "SUPERSEDED" <=> shown[Bill(b)].status = "SUPERSEDED"
               /\ b = on[r] /\ Holds(r, Line(b))
    <2>1. at[r] = "commit" /\ GoodPayment(r) BY <1>1, <1>4 DEF Committing, Good
    <2>2. /\ HoldsOnly(r, {Bill(on[r]), Line(on[r]), Case(on[r]), Payment(r), Payer})
          /\ Holds(r, Line(on[r])) /\ on[r] \in BillId
          /\ row[Bill(on[r])].status = "SUPERSEDED" <=> shown[Bill(on[r])].status = "SUPERSEDED"
      BY <2>1 DEF GoodPayment, HoldsOnly
    <2>3. b = on[r] BY <2>2, <1>1, RowsApart DEF HoldsOnly
    <2>4. QED BY <2>2, <2>3
  <1>5. ASSUME job[r].kind = "REVERSE"
        PROVE  row[Bill(b)].status = "SUPERSEDED" <=> shown[Bill(b)].status = "SUPERSEDED"
    <2>1. at[r] = "commit" /\ GoodReversal(r) BY <1>1, <1>5 DEF Committing, Good
    <2>2. on[r] \in BillId /\ job[r].ref \in Request BY <2>1, <1>1, <1>5, OnIs DEF PathInv
    <2>3. /\ HoldsOnly(r, {Bill(on[r]), Payment(job[r].ref), Payer})
          /\ row[Bill(on[r])].status = "SUPERSEDED" <=> shown[Bill(on[r])].status = "SUPERSEDED"
      BY <2>1 DEF GoodReversal, HoldsOnly
    <2>4. b = on[r] BY <2>2, <2>3, <1>1, RowsApart DEF HoldsOnly
    <2>5. QED BY <2>3, <2>4
  <1>6. ASSUME job[r].kind = "EDIT" PROVE b = on[r] /\ Holds(r, Line(b))
    <2>1. at[r] = "commit" /\ GoodEdit(r) BY <1>1, <1>6 DEF Committing, Good
    <2>2. HoldsOnly(r, {Line(on[r]), Bill(on[r])}) /\ Holds(r, Line(on[r])) /\ on[r] \in BillId
      BY <2>1 DEF GoodEdit
    <2>3. b = on[r] BY <2>2, <1>1, RowsApart DEF HoldsOnly
    <2>4. QED BY <2>2, <2>3
  <1>7. shown[Bill(NewBill(r))].status = "NONE" BY NotYet
  <1>8. ASSUME job[r].kind = "ISSUE"
        PROVE  shown[Bill(b)].status = "NONE" /\ row[Bill(b)].status = "ISSUED"
    <2>1. at[r] = "commit" /\ GoodIssue(r) BY <1>1, <1>8 DEF Committing, Good
    <2>2. /\ HoldsOnly(r, {Payer, Bill(NewBill(r)), Line(NewBill(r))})
          /\ row[Bill(NewBill(r))] = NewRow(job[r].amount, 0) /\ job[r].amount \in Nat
      BY <2>1, JobsAreGood DEF GoodIssue, PathInv, TypeOK
    <2>3. b = NewBill(r) BY <2>2, <1>1, <1>3, RowsApart DEF HoldsOnly
    <2>4. QED BY <2>2, <2>3, <1>7, NewRowType
  <1>9. ASSUME job[r].kind = "ROLL"
        PROVE  \/ shown[Bill(b)].status = "NONE" /\ row[Bill(b)].status = "ISSUED"
               \/ row[Bill(b)] = shown[Bill(b)]
               \/ IsOpen(b)
    <2>1. at[r] = "commit" /\ GoodRoll(r) BY <1>1, <1>9 DEF Committing, Good
    <2>2. /\ row[Bill(NewBill(r))] = NewRow(job[r].amount, row[Bill(NewBill(r))].arrears)
          /\ \A c \in took[r] : IsOpen(c)
          /\ b # NewBill(r) /\ b \notin took[r] => row[Bill(b)] = shown[Bill(b)]
      BY <2>1 DEF GoodRoll
    <2>3. job[r].amount \in Nat /\ row[Bill(NewBill(r))].arrears \in Nat
      BY <1>3, JobsAreGood, RowTypes DEF PathInv, TypeOK, BillRow
    <2>4. row[Bill(NewBill(r))].status = "ISSUED" BY <2>2, <2>3, NewRowType
    <2>5. QED BY <2>2, <2>4, <1>7
  <1>10. ASSUME job[r].kind = "REFRESH" PROVE row[Bill(b)].status # "SUPERSEDED"
    <2>1. HoldsOnly(r, OverdueRows) /\ 1..M \subseteq BillId BY <1>10, RefreshHolds, NewBills
    <2>2. b \in 1..M BY <2>1, <1>1, RowsApart DEF HoldsOnly, OverdueRows
    <2>3. row[Bill(b)] = [shown[Bill(b)] EXCEPT !.status = "OVERDUE"] BY <2>2, <1>10, RefreshHolds
    <2>4. QED BY <2>3, <1>3 DEF BillRow
  <1>11. QED BY <1>2, <1>4, <1>5, <1>6, <1>8, <1>9, <1>10

\* A superseded bill stays so, unless the refresh or an edit of its line commits.
LEMMA StaysSuperseded ==
  ASSUME PathInv, NEW r \in Request, Committing(r), Shows(r), job[r].kind # "REFRESH",
         NEW b \in BillId, ~(job[r].kind = "EDIT" /\ Holds(r, Line(b))),
         shown[Bill(b)].status = "SUPERSEDED"
  PROVE  shown'[Bill(b)].status = "SUPERSEDED"
  <1>1. Bill(b) \in Row BY RowsApart
  <1>2. CASE ~Holds(r, Bill(b)) BY <1>1, <1>2 DEF Shows
  <1>3. CASE Holds(r, Bill(b))
    <2>1. job[r].kind \in {"PAY", "REVERSE", "ISSUE", "ROLL", "EDIT"}
      BY JobsAreGood DEF PathInv, TypeOK
    <2>2. ~IsOpen(b) BY DEF IsOpen, OpenStatus
    <2>3. QED BY <2>1, <2>2, <1>3, StatusShown
  <1>4. QED BY <1>2, <1>3

\* An edit reads a bill as superseded only if it is.
LEMMA QuietEdit ==
  ASSUME PathInv, EditInv, NEW r \in Request, Step(r), ~Commit(r), Keeps(r)
  PROVE  EditInv'
  <1>1. /\ job' = job /\ shown' = shown
        /\ \A q \in Request \ {r} : at'[q] = at[q] /\ on'[q] = on[q] /\ copy'[q] = copy[q]
        /\ \A x \in Row : \A q \in Request \ {r} : Holds(q, x) => row'[x] = row[x]
    BY DEF Keeps, Quiet
  <1>2. ASSUME NEW q \in Request, job[q].kind = "EDIT"
        PROVE  /\ at'[q] = "settle" /\ copy'[q].status = "SUPERSEDED" => shown'[Bill(on'[q])].status = "SUPERSEDED"
               /\ at'[q] = "commit" /\ row'[Bill(on'[q])].status = "SUPERSEDED" =>
                     shown'[Bill(on'[q])].status = "SUPERSEDED"
    <2>1. CASE q # r
      <3>1. on'[q] = on[q] /\ copy'[q] = copy[q] /\ at'[q] = at[q] BY <2>1, <1>1
      <3>2. ASSUME at[q] = "commit" PROVE row'[Bill(on[q])] = row[Bill(on[q])]
        <4>1. on[q] \in BillId /\ Holds(q, Bill(on[q])) BY <3>2, <1>2 DEF PathInv, Good, GoodEdit
        <4>2. QED BY <4>1, <2>1, <1>1, RowsApart
      <3>3. QED BY <3>1, <3>2, <1>1, <1>2 DEF EditInv
    <2>2. ASSUME q = r, at'[q] = "settle", copy'[q].status = "SUPERSEDED"
          PROVE  shown'[Bill(on'[q])].status = "SUPERSEDED"
      <3>1. ReadBill(r) BY <2>2, <1>2, LeadsTo
      <3>2. on' = on /\ copy'[r] = shown[Bill(on[r])] BY <3>1 DEF ReadBill, PathInv, TypeOK
      <3>3. QED BY <3>2, <2>2, <1>1
    <2>3. ASSUME q = r, at'[q] = "commit", row'[Bill(on'[q])].status = "SUPERSEDED"
          PROVE  shown'[Bill(on'[q])].status = "SUPERSEDED"
      <3>1. SettleBill(r) BY <2>3, <1>2, LeadsTo
      <3>2. on' = on /\ at[r] = "settle" BY <3>1 DEF SettleBill, locals
      <3>3. copy[r].status = "SUPERSEDED" BY <3>1, <3>2, <2>3, SettleBillKeeps
      <3>4. QED BY <3>2, <3>3, <2>3, <1>1, <1>2 DEF EditInv
    <2>4. QED BY <2>1, <2>2, <2>3
  <1>3. QED BY <1>1, <1>2 DEF EditInv

\* It stays so until the edit commits, unless the refresh commits in between.
LEMMA CommitEdit ==
  ASSUME PathInv, EditInv, NoEditDuringRefresh, NEW r \in Request, Commit(r)
  PROVE  EditInv'
  <1>1. /\ Shows(r) /\ at'[r] = "done" /\ \A q \in Request \ {r} : at'[q] = at[q]
        /\ row' = row /\ job' = job /\ on' = on /\ copy' = copy /\ Committing(r)
    BY CommitFacts, KindAt DEF Committing
  <1>2. ASSUME NEW q \in Request, job[q].kind = "EDIT", q # r, at[q] \in {"settle", "commit"},
               shown[Bill(on[q])].status = "SUPERSEDED"
        PROVE  shown'[Bill(on[q])].status = "SUPERSEDED"
    <2>1. on[q] \in BillId /\ Holds(q, Line(on[q])) BY <1>2 DEF PathInv, Good, GoodEdit
    <2>2. ~Holds(r, Line(on[q])) BY <2>1, <1>2, RowsApart DEF PathInv, LocksWork
    <2>3. job[r].kind # "REFRESH" BY <1>2 DEF NoEditDuringRefresh
    <2>4. QED BY <2>1, <2>2, <2>3, <1>1, <1>2, StaysSuperseded
  <1>3. ASSUME NEW q \in Request, job[q].kind = "EDIT"
        PROVE  /\ at'[q] = "settle" /\ copy[q].status = "SUPERSEDED" => shown'[Bill(on[q])].status = "SUPERSEDED"
               /\ at'[q] = "commit" /\ row[Bill(on[q])].status = "SUPERSEDED" =>
                     shown'[Bill(on[q])].status = "SUPERSEDED"
    <2>1. CASE q = r BY <2>1, <1>1
    <2>2. CASE q # r BY <2>2, <1>1, <1>2, <1>3 DEF EditInv
    <2>3. QED BY <2>1, <2>2
  <1>4. QED BY <1>1, <1>3 DEF EditInv

\* A bill that a payment settled is not rolled up.
PaidStays ==
  \A b \in BillId : shown[Bill(b)].status = "PAID" => shown'[Bill(b)].status # "SUPERSEDED"

\* No step supersedes a bill that has been paid.
LEMMA PaidStep ==
  ASSUME PathInv, EditInv, NoEditDuringRefresh, [Next]_vars
  PROVE  EditInv' /\ NoEditDuringRefresh' /\ PaidStays
  <1>1. CASE \E r \in Request : Step(r)
    <2>1. PICK r \in Request : Step(r) BY <1>1
    <2>2. CASE Commit(r)
      <3>1. Shows(r) /\ Committing(r) /\ job' = job
        BY <2>2, CommitFacts, KindAt DEF Committing
      <3>2. ASSUME NEW b \in BillId, shown[Bill(b)].status = "PAID", shown'[Bill(b)].status = "SUPERSEDED"
            PROVE  FALSE
        <4>1. Bill(b) \in Row /\ ~IsOpen(b) BY <3>2, RowsApart DEF IsOpen, OpenStatus
        <4>2. Holds(r, Bill(b)) BY <4>1, <3>1, <3>2 DEF Shows
        <4>3. job[r].kind \in {"PAY", "REVERSE", "ISSUE", "ROLL", "EDIT", "REFRESH"}
          BY JobsAreGood DEF PathInv, TypeOK
        <4>4. shown'[Bill(b)] = row[Bill(b)] BY <3>1, <4>2, StatusShown
        <4>5. job[r].kind = "EDIT" BY <4>1, <4>2, <4>3, <4>4, <3>1, <3>2, StatusShown
        <4>6. at[r] = "commit" /\ b = on[r] BY <4>2, <4>5, <3>1, StatusShown DEF Committing
        <4>7. QED BY <4>4, <4>5, <4>6, <3>2 DEF EditInv
      <3>3. EditInv' BY <2>2, CommitEdit
      <3>4. QED BY <3>1, <3>2, <3>3 DEF PaidStays, NoEditDuringRefresh
    <2>3. CASE ~Commit(r)
      <3>1. Keeps(r) BY <2>1, <2>3, StepKeeps
      <3>2. shown' = shown /\ job' = job BY <3>1 DEF Keeps, Quiet
      <3>3. EditInv' BY <3>1, <2>1, <2>3, QuietEdit
      <3>4. QED BY <3>2, <3>3 DEF PaidStays, NoEditDuringRefresh
    <2>4. QED BY <2>2, <2>3
  <1>2. CASE UNCHANGED vars
    <2>1. job' = job /\ at' = at /\ row' = row /\ shown' = shown /\ on' = on /\ copy' = copy BY <1>2 DEF vars
    <2>2. QED BY <2>1 DEF EditInv, NoEditDuringRefresh, PaidStays
  <1>3. QED BY <1>1, <1>2 DEF Next, AllEnded

\* Both halves, as long as no line edit meets the nightly refresh (an edit that read the
\* bill as superseded would write that status over the one the refresh and a later
\* payment gave it).
THEOREM RollUpsAreRight == Spec /\ NoEditDuringRefresh => RollUpsAreExact
<1>1. Init => EditInv BY DEF Init, EditInv
<1>2. PathInv /\ EditInv /\ NoEditDuringRefresh /\ [Next]_vars => EditInv' /\ NoEditDuringRefresh'
  BY PaidStep
<1>3. PathInv /\ EditInv /\ NoEditDuringRefresh /\ [Next]_vars => [PaidStays]_vars
  BY PaidStep
<1>4. Spec => []PathInv BY PathInvariance
<1>5. Spec => [][ArrearsAreOwed]_vars BY RollUpsAreOwed
<1>6. Spec /\ NoEditDuringRefresh => [][PaidStays]_vars
  BY <1>1, <1>2, <1>3, <1>4, PTL DEF Spec
<1>7. Spec /\ NoEditDuringRefresh => [][ArrearsAreOwed /\ PaidStays]_vars
  BY <1>5, <1>6, PTL
<1> DEFINE Exact == \A b \in BillId :
       /\ shown[Bill(b)].status = "NONE" /\ shown'[Bill(b)].status # "NONE" =>
            shown'[Bill(b)].arrears = StillOwed({c \in BillId : shown[Bill(c)].supersededBy = b})'
       /\ shown[Bill(b)].status = "PAID" => shown'[Bill(b)].status # "SUPERSEDED"
<1>8. [ArrearsAreOwed /\ PaidStays]_vars => [Exact]_vars
  BY DEF ArrearsAreOwed, PaidStays
<1>9. Spec /\ NoEditDuringRefresh => [][Exact]_vars
  BY <1>7, <1>8, PTL
<1>. QED  BY <1>9, PTL DEF RollUpsAreExact
=============================================================================
