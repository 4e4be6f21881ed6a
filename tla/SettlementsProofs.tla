-------------------------- MODULE SettlementsProofs ---------------------------
(***************************************************************************)
(* What a settlement pays changes by a computation of its period only, and *)
(* computations wait for each other in a circle only over firms of one     *)
(* name: for any number of requests, firms, bills and periods.             *)
(*                                                                         *)
(* Both rest on who holds what.  A request that holds a row has only to    *)
(* commit, unless it is a computation on its way through the firms; and    *)
(* that one holds settlements of firms it has passed, whose names do not   *)
(* come after that of the firm it is at.                                   *)
(***************************************************************************)
EXTENDS Settlements, FiniteSetTheorems, SequenceTheorems, TLAPS

-----------------------------------------------------------------------------
(* What the statements of Requests do to a set R of rows and to who holds them. *)

\* UPDATE and INSERT of one row.
LEMMA PutDoes ==
  ASSUME NEW R, RowsAre(R), NEW r, NEW x \in R, NEW version, Put(r, x, version)
  PROVE  /\ RowsAre(R)' /\ holder[x] \in {0, r}
         /\ row'[x] = version /\ holder'[x] = r
         /\ \A y \in R \ {x} : row'[y] = row[y] /\ holder'[y] = holder[y]
         /\ shown' = shown
  BY DEF RowsAre, Put, Free

\* ROLLBACK.
LEMMA UndoDoes ==
  ASSUME NEW R, RowsAre(R), NEW r, Undo(HeldBy(r))
  PROVE  /\ RowsAre(R)'
         /\ \A x \in R : row'[x] = IF holder[x] = r THEN shown[x] ELSE row[x]
         /\ \A x \in R : holder'[x] = IF holder[x] = r THEN 0 ELSE holder[x]
         /\ shown' = shown
  BY DEF RowsAre, Undo, HeldBy

\* COMMIT.
LEMMA PublishDoes ==
  ASSUME NEW R, RowsAre(R), NEW r, Publish(r)
  PROVE  /\ RowsAre(R)'
         /\ \A x \in R : shown'[x] = IF holder[x] = r THEN row[x] ELSE shown[x]
         /\ \A x \in R : holder'[x] = IF holder[x] = r THEN 0 ELSE holder[x]
         /\ row' = row
  BY DEF RowsAre, Publish

-----------------------------------------------------------------------------
(* The invariant. *)

\* The steps a request of each kind goes through before its commit.
StepsOf ==
  [PAY      |-> {"pay"},
   REVERSE  |-> {"check", "undo"},
   STANDING |-> {"stand"},
   COMPUTE  |-> {"list", "sum", "save"},
   STATUS   |-> {"load", "store"}]

Passing(r) == at[r] \in {"sum", "save"}
Own(r) == Settlement(job[r].firm, job[r].period)
Priced(version) == {"gross", "commission"} \subseteq DOMAIN version

\* A computation has firms to settle, in the order of their names; a status change has found
\* its settlement.
Progress(r) ==
  /\ at[r] \in StepsOf[job[r].kind] \cup {"commit"} \cup Ended
  /\ Passing(r) => /\ todo[r] \in Seq(Firm) /\ todo[r] # <<>>
                   /\ \A i, j \in 1..Len(todo[r]) : i < j => Name[todo[r][i]] <= Name[todo[r][j]]
  /\ at[r] = "store" => Priced(shown[Own(r)])

\* Who holds a row is about to commit, or a computation that has passed its firm.
HeldWell(x) ==
  holder[x] # 0 =>
    /\ holder[x] \in Request
    /\ \/ at[holder[x]] = "commit"
       \/ /\ Passing(holder[x])
          /\ \E f \in Firm : /\ x = Settlement(f, job[holder[x]].period)
                             /\ Name[f] <= Name[Head(todo[holder[x]])]

\* A settlement has its amounts and keeps them, and one that differs from the committed one
\* was computed, for its period.
Computed(x) ==
  /\ row[x] # Absent => Priced(row[x])
  /\ shown[x] # Absent => Priced(shown[x])
  /\ Priced(shown[x]) => Priced(row[x])
  /\ shown[x] # Absent /\ (row[x].gross # shown[x].gross \/ row[x].commission # shown[x].commission) =>
       /\ holder[x] \in Request /\ job[holder[x]].kind = "COMPUTE"
       /\ job[holder[x]].period = x[2][2]

SettleInv ==
  /\ job \in Workloads
  /\ at \in [Request -> {"pay", "check", "undo", "stand", "list", "sum", "save", "load", "store", "commit"} \cup Ended]
  /\ DOMAIN todo = Request
  /\ RowsAre(Row) /\ LocksHold(Row)
  /\ \A r \in Request : Progress(r)
  /\ \A x \in Row : HeldWell(x)
  /\ \A x \in Settlements : Computed(x)

-----------------------------------------------------------------------------
(* What one step of a request may do. *)

\* Request r makes a step and the others stay where they are.
Alone(r) ==
  /\ job' = job /\ DOMAIN todo' = Request
  /\ at' \in [Request -> {"pay", "check", "undo", "stand", "list", "sum", "save", "load", "store", "commit"} \cup Ended]
  /\ \A q \in Request \ {r} : at'[q] = at[q] /\ todo'[q] = todo[q]

\* Rows differ by what they are rows of.
LEMMA RowsApart ==
  /\ \A p \in PaymentId : Payment(p) \in Row /\ Payment(p) \notin Settlements
  /\ \A f \in Firm : FirmRow(f) \in Row /\ FirmRow(f) \notin Settlements
  /\ \A f \in Firm, w \in Period : /\ Settlement(f, w) \in Row /\ Settlement(f, w) \in Settlements
                                   /\ Settlement(f, w)[2][2] = w
  /\ \A f, g, v, w : Settlement(f, v) = Settlement(g, w) => f = g /\ v = w
  /\ \A p, f, w : Payment(p) # Settlement(f, w)
  /\ \A g, f, w : FirmRow(g) # Settlement(f, w)
  /\ Settlements \subseteq Row
  <1>1. \A f, g, v, w : Settlement(f, v) = Settlement(g, w) => f = g /\ v = w
    <2>1. ASSUME NEW f, NEW g, NEW v, NEW w, Settlement(f, v) = Settlement(g, w) PROVE f = g /\ v = w
      <3>1. <<"settlement", <<f, v>>>>[2] = <<"settlement", <<g, w>>>>[2] BY <2>1 DEF Settlement
      <3>2. <<f, v>> = <<g, w>> BY <3>1
      <3>3. QED BY <3>2
    <2>2. QED BY <2>1
  <1>2. \A p, f, w : Payment(p) # Settlement(f, w) BY DEF Payment, Settlement
  <1>3. \A g, f, w : FirmRow(g) # Settlement(f, w) BY DEF FirmRow, Settlement
  <1>4. \A f \in Firm, w \in Period : /\ Settlement(f, w) \in Row /\ Settlement(f, w) \in Settlements
                                      /\ Settlement(f, w)[2][2] = w
    BY DEF Row, Settlements, Settlement
  <1>5. \A p \in PaymentId : Payment(p) \in Row /\ Payment(p) \notin Settlements
    BY <1>2 DEF Row, Payments, Settlements
  <1>6. \A f \in Firm : FirmRow(f) \in Row /\ FirmRow(f) \notin Settlements
    BY <1>3 DEF Row, Settlements
  <1>7. Settlements \subseteq Row BY DEF Row
  <1>8. QED BY <1>1, <1>2, <1>3, <1>4, <1>5, <1>6, <1>7

\* What a job may name.
LEMMA JobsAreGood ==
  ASSUME SettleInv, NEW r \in Request
  PROVE  /\ job[r].kind \in Kinds /\ job[r].payment \in PaymentId
         /\ job[r].firm \in Firm /\ job[r].period \in Period /\ job[r].status \in Status
         /\ r \in PaymentId /\ r # 0
         /\ Own(r) \in Row /\ Own(r) \in Settlements
  <1>1. /\ job[r].kind \in Kinds /\ job[r].payment \in PaymentId
        /\ job[r].firm \in Firm /\ job[r].period \in Period /\ job[r].status \in Status
        /\ r \in PaymentId /\ r # 0
    BY SettlementConstants DEF SettleInv, Request
  <1>2. QED BY <1>1, RowsApart DEF Own

\* Which kind of request is at a step.
LEMMA KindAt ==
  ASSUME SettleInv, NEW r \in Request
  PROVE  /\ at[r] = "pay" => job[r].kind = "PAY"
         /\ at[r] \in {"check", "undo"} => job[r].kind = "REVERSE"
         /\ at[r] = "stand" => job[r].kind = "STANDING"
         /\ at[r] \in {"list", "sum", "save"} => job[r].kind = "COMPUTE"
         /\ at[r] \in {"load", "store"} => job[r].kind = "STATUS"
  <1>1. job[r].kind \in Kinds /\ at[r] \in StepsOf[job[r].kind] \cup {"commit"} \cup Ended
    BY JobsAreGood DEF SettleInv, Progress
  <1>2. QED BY <1>1 DEF StepsOf, Kinds, Ended

\* A step of one request keeps the invariant when it keeps it of that request and of the
\* rows it touches.
LEMMA InvKept ==
  ASSUME SettleInv, NEW r \in Request, Alone(r), Progress(r)', RowsAre(Row)', LocksHold(Row)',
         \A x \in Settlements : Priced(shown[x]) => Priced(shown'[x]),
         \A x \in Row : (holder'[x] = holder[x] /\ holder[x] # r) \/ HeldWell(x)',
         \A x \in Settlements : Computed(x)'
  PROVE  SettleInv'
  <1>1. ASSUME NEW q \in Request PROVE Progress(q)'
    <2>1. CASE q = r BY <2>1
    <2>2. CASE q # r
      <3>1. Progress(q) /\ at'[q] = at[q] /\ todo'[q] = todo[q] /\ job' = job
        BY <2>2 DEF SettleInv, Alone
      <3>2. /\ Own(q)' = Own(q)
            /\ Priced(shown[Own(q)]) => Priced(shown'[Own(q)])
        BY <3>1, JobsAreGood DEF Own, Settlement
      <3>3. QED BY <3>1, <3>2 DEF Progress, Passing
    <2>3. QED BY <2>1, <2>2
  <1>2. ASSUME NEW x \in Row PROVE HeldWell(x)'
    <2>1. CASE holder'[x] = holder[x] /\ holder[x] # r
      <3>1. HeldWell(x) BY DEF SettleInv
      <3>2. CASE holder[x] = 0 BY <2>1, <3>2 DEF HeldWell
      <3>3. CASE holder[x] # 0
        <4>1. PICK q \in Request : q = holder[x] /\ q # r BY <2>1, <3>1, <3>3 DEF HeldWell
        <4>2. at'[q] = at[q] /\ todo'[q] = todo[q] /\ job'[q] = job[q] BY <4>1 DEF Alone
        <4>3. QED BY <2>1, <3>1, <3>3, <4>1, <4>2 DEF HeldWell, Passing, Settlement
      <3>4. QED BY <3>2, <3>3
    <2>2. QED BY <2>1
  <1>3. QED BY <1>1, <1>2 DEF SettleInv, Alone

\* A step that only reads, of a request that holds nothing or a computation that goes on
\* with the same firm.
LEMMA ReadKeeps ==
  ASSUME SettleInv, NEW r \in Request, Alone(r), Progress(r)', ReadOnly,
         \/ \A x \in Row : holder[x] # r
         \/ Passing(r) /\ Passing(r)' /\ todo'[r] = todo[r]
  PROVE  SettleInv'
  <1>1. RowsAre(Row)' /\ LocksHold(Row)' /\ row' = row /\ shown' = shown /\ holder' = holder
    BY DEF SettleInv, ReadOnly, rows, RowsAre, LocksHold
  <1>2. \A x \in Settlements : (Priced(shown[x]) => Priced(shown'[x])) /\ Computed(x)'
    BY <1>1 DEF SettleInv, Alone, Computed
  <1>3. ASSUME NEW x \in Row, holder[x] = r PROVE HeldWell(x)'
    <2>1. Passing(r) /\ Passing(r)' /\ todo'[r] = todo[r] /\ job' = job BY <1>3 DEF Alone
    <2>2. HeldWell(x) BY DEF SettleInv
    <2>3. \E f \in Firm : x = Settlement(f, job[r].period) /\ Name[f] <= Name[Head(todo[r])]
      BY <1>3, <2>1, <2>2, JobsAreGood DEF HeldWell, Passing
    <2>4. QED BY <1>1, <1>3, <2>1, <2>3 DEF HeldWell, Settlement
  <1>4. QED BY <1>1, <1>2, <1>3, InvKept

\* A request at no step of a computation and not before its commit holds nothing.
LEMMA HoldsNothing ==
  ASSUME SettleInv, NEW r \in Request, at[r] # "commit", ~Passing(r)
  PROVE  \A x \in Row : holder[x] # r
  BY JobsAreGood DEF SettleInv, HeldWell

\* A step that writes one row and is done with it.
LEMMA PutKeeps ==
  ASSUME SettleInv, NEW r \in Request, Alone(r), Progress(r)', at'[r] = "commit",
         NEW x \in Row, NEW version, Put(r, x, version),
         x \in Settlements =>
           /\ Priced(version)
           /\ \/ job[r].kind = "COMPUTE" /\ job[r].period = x[2][2]
              \/ /\ holder[x] # r /\ Priced(row[x])
                 /\ version.gross = row[x].gross /\ version.commission = row[x].commission
  PROVE  SettleInv'
  <1>1. RowsAre(Row) /\ LocksHold(Row) /\ r # 0 /\ job' = job BY JobsAreGood DEF SettleInv, Alone
  <1>2. /\ RowsAre(Row)' /\ holder[x] \in {0, r} /\ row'[x] = version /\ holder'[x] = r
        /\ \A y \in Row \ {x} : row'[y] = row[y] /\ holder'[y] = holder[y]
        /\ shown' = shown
    BY <1>1, PutDoes
  <1>3. LocksHold(Row)' BY <1>1, <1>2 DEF LocksHold
  <1>4. \A y \in Settlements : Priced(shown[y]) => Priced(shown'[y])
    BY <1>2
  <1>5. ASSUME NEW y \in Row, holder'[y] = r PROVE HeldWell(y)'
    BY <1>5 DEF HeldWell
  <1>6. ASSUME NEW y \in Row, holder[y] = r PROVE HeldWell(y)'
    <2>1. holder'[y] = r BY <1>2, <1>6
    <2>2. QED BY <1>5, <2>1
  <1>7. \A y \in Row : (holder'[y] = holder[y] /\ holder[y] # r) \/ HeldWell(y)'
    BY <1>2, <1>5, <1>6
  <1>8. ASSUME NEW y \in Settlements PROVE Computed(y)'
    <2>1. Computed(y) /\ y \in Row BY RowsApart DEF SettleInv
    <2>2. CASE y # x BY <1>1, <1>2, <2>1, <2>2 DEF Computed
    <2>3. CASE y = x /\ job[r].kind = "COMPUTE" /\ job[r].period = x[2][2]
      BY <1>1, <1>2, <2>1, <2>3 DEF Computed
    <2>4. CASE y = x /\ holder[x] # r /\ Priced(row[x])
               /\ version.gross = row[x].gross /\ version.commission = row[x].commission
      <3>1. row[x] = shown[x] BY <1>1, <1>2, <2>4 DEF LocksHold
      <3>2. QED BY <1>1, <1>2, <2>1, <2>4, <3>1 DEF Computed
    <2>5. QED BY <2>2, <2>3, <2>4
  <1>9. QED BY <1>2, <1>3, <1>4, <1>7, <1>8, InvKept

-----------------------------------------------------------------------------
(* The steps. *)

\* A request goes to a step that asks nothing of it.
LEMMA GoesTo ==
  ASSUME SettleInv, NEW r \in Request, NEW step, Go(r, step), UNCHANGED <<job, todo>>,
         step \in StepsOf[job[r].kind] \cup {"commit"} \cup Ended, step \notin {"sum", "save", "store"}
  PROVE  Alone(r) /\ Progress(r)' /\ at'[r] = step
  <1>1. at'[r] = step /\ \A q \in Request \ {r} : at'[q] = at[q]
    BY DEF Go, SettleInv
  <1>2. step \in {"pay", "check", "undo", "stand", "list", "sum", "save", "load", "store", "commit"} \cup Ended
    BY JobsAreGood DEF StepsOf, Kinds
  <1>3. Alone(r) BY <1>1, <1>2 DEF Alone, Go, SettleInv
  <1>4. QED BY <1>1, <1>3 DEF Progress, Passing, Alone

\* Requests that look and go on, or give up.
LEMMA LookSteps ==
  ASSUME SettleInv, NEW r \in Request, CheckPayment(r) \/ (LoadSettlement(r) /\ at'[r] # "store")
  PROVE  SettleInv'
  <1>1. at[r] \in {"check", "load"} /\ ReadOnly /\ UNCHANGED <<job, todo>>
    BY DEF CheckPayment, LoadSettlement, Refuse, Stay
  <1>2. PICK step : Go(r, step) /\ step \in {"undo", "refused", "store"} /\ (step = "undo" => at[r] = "check")
    BY DEF CheckPayment, LoadSettlement, Refuse
  <1>3. step # "store" BY <1>1, <1>2 DEF CheckPayment, LoadSettlement, Go, SettleInv
  <1>4. step \in StepsOf[job[r].kind] \cup Ended
    <2>1. "refused" \in Ended BY DEF Ended
    <2>2. step = "undo" => job[r].kind = "REVERSE" BY <1>2, KindAt
    <2>3. QED BY <1>2, <1>3, <2>1, <2>2 DEF StepsOf
  <1>5. Alone(r) /\ Progress(r)' BY <1>1, <1>2, <1>3, <1>4, GoesTo
  <1>6. \A x \in Row : holder[x] # r BY <1>1, HoldsNothing DEF Passing
  <1>7. QED BY <1>1, <1>5, <1>6, ReadKeeps

\* A status change that finds its settlement.
LEMMA LoadStep ==
  ASSUME SettleInv, NEW r \in Request, LoadSettlement(r), at'[r] = "store"
  PROVE  SettleInv'
  <1>1. at[r] = "load" /\ ReadOnly /\ UNCHANGED <<job, todo>>
    BY DEF LoadSettlement, Refuse, Stay
  <1>2. shown[Own(r)] # Absent /\ Go(r, "store")
    BY DEF LoadSettlement, Refuse, Go, SettleInv, MayMove, Own
  <1>3. /\ at'[r] = "store" /\ \A q \in Request \ {r} : at'[q] = at[q]
        /\ "store" \in StepsOf["STATUS"]
    BY <1>2 DEF Go, SettleInv, StepsOf
  <1>4. Alone(r) BY <1>1, <1>2, <1>3 DEF Alone, Go, SettleInv
  <1>5. Priced(shown[Own(r)]) BY <1>2, JobsAreGood DEF SettleInv, Computed
  <1>6. Priced(shown[Own(r)])' BY <1>1, <1>5 DEF Own, Settlement, ReadOnly, rows
  <1>7. job[r].kind = "STATUS" BY <1>1, KindAt
  <1>8. Progress(r)' BY <1>1, <1>3, <1>6, <1>7 DEF Progress, Passing
  <1>9. \A x \in Row : holder[x] # r BY <1>1, HoldsNothing DEF Passing
  <1>10. QED BY <1>1, <1>4, <1>8, <1>9, ReadKeeps

\* Payments, reversals, changes of standing and of status: one row, then the commit.
LEMMA WriteSteps ==
  ASSUME SettleInv, NEW r \in Request,
         Pay(r) \/ ReversePayment(r) \/ ChangeStanding(r) \/ SaveStatus(r)
  PROVE  SettleInv'
  <1>1. /\ at[r] \in {"pay", "undo", "stand", "store"} /\ Go(r, "commit") /\ UNCHANGED <<job, todo>>
    BY DEF Pay, ReversePayment, ChangeStanding, SaveStatus, Stay
  <1>2. Alone(r) /\ Progress(r)' /\ at'[r] = "commit" BY <1>1, GoesTo
  <1>3. \A x \in Row : holder[x] # r BY <1>1, HoldsNothing DEF Passing
  <1>4. ASSUME NEW x \in Row \ Settlements, NEW version, Put(r, x, version) PROVE SettleInv'
    BY <1>2, <1>4, PutKeeps
  <1>5. CASE Pay(r)
    <2>1. Payment(r) \in Row \ Settlements BY JobsAreGood, RowsApart
    <2>2. QED BY <1>4, <1>5, <2>1 DEF Pay
  <1>6. CASE ReversePayment(r)
    <2>1. Payment(job[r].payment) \in Row \ Settlements BY JobsAreGood, RowsApart
    <2>2. QED BY <1>4, <1>6, <2>1 DEF ReversePayment
  <1>7. CASE ChangeStanding(r)
    <2>1. FirmRow(job[r].firm) \in Row \ Settlements BY JobsAreGood, RowsApart
    <2>2. QED BY <1>4, <1>7, <2>1 DEF ChangeStanding
  <1>8. CASE SaveStatus(r)
    <2>1. PICK x \in Row : x = Own(r) /\ x \in Settlements BY JobsAreGood
    <2>2. PICK version : Put(r, x, version) /\ version = Saved(r, row[x])
      BY <1>8, <2>1 DEF SaveStatus, Own
    <2>3. Priced(row[x])
      <3>1. Priced(shown[x]) BY <1>8, <2>1 DEF SaveStatus, SettleInv, Progress
      <3>2. QED BY <2>1, <3>1 DEF SettleInv, Computed
    <2>4. /\ Priced(version)
          /\ version.gross = row[x].gross /\ version.commission = row[x].commission
      BY <2>2, <2>3 DEF Saved, Priced
    <2>5. QED BY <1>2, <1>3, <2>1, <2>2, <2>3, <2>4, PutKeeps
  <1>9. QED BY <1>5, <1>6, <1>7, <1>8

\* The listed firms come in the order of their names.
LEMMA ListingsIncrease ==
  ASSUME SettleInv, NEW S \in SUBSET Firm, NEW firms \in Listings(S)
  PROVE  firms \in Seq(Firm) /\ \A i, j \in 1..Len(firms) : i < j => Name[firms[i]] <= Name[firms[j]]
  <1>1. Cardinality(S) \in Nat BY SettlementConstants, FS_Subset, FS_CardinalityType
  <1>2. PICK n \in Nat : n = Cardinality(S) BY <1>1
  <1>3. firms \in [1..n -> S] /\ \A i, j \in DOMAIN firms : i < j => Name[firms[i]] <= Name[firms[j]]
    BY <1>2 DEF Listings, AnyOrder, SetToSeqs
  <1>4. firms \in Seq(Firm) /\ Len(firms) = n BY <1>3
  <1>5. QED BY <1>3, <1>4

\* A computation lists the firms.
LEMMA ListStep ==
  ASSUME SettleInv, NEW r \in Request, ListFirms(r)
  PROVE  SettleInv'
  <1>1. PICK firms :
          /\ \E S \in SUBSET Firm : firms \in Listings(S)
          /\ todo' = [todo EXCEPT ![r] = firms]
          /\ Go(r, IF firms = <<>> THEN "commit" ELSE "sum")
    BY DEF ListFirms
  <1>2. firms \in Seq(Firm) /\ \A i, j \in 1..Len(firms) : i < j => Name[firms[i]] <= Name[firms[j]]
    BY <1>1, ListingsIncrease
  <1>3. /\ at[r] = "list" /\ ReadOnly /\ job' = job /\ todo'[r] = firms
        /\ at'[r] = IF firms = <<>> THEN "commit" ELSE "sum"
        /\ \A q \in Request \ {r} : at'[q] = at[q] /\ todo'[q] = todo[q]
    BY <1>1 DEF ListFirms, Go, SettleInv
  <1>4. Alone(r) BY <1>1, <1>3 DEF Alone, Go, SettleInv
  <1>5. job[r].kind = "COMPUTE" /\ {"sum", "save"} \subseteq StepsOf["COMPUTE"]
    BY <1>3, KindAt DEF StepsOf
  <1>6. Progress(r)' BY <1>2, <1>3, <1>5 DEF Progress, Passing
  <1>7. \A x \in Row : holder[x] # r BY <1>3, HoldsNothing DEF Passing
  <1>8. QED BY <1>3, <1>4, <1>6, <1>7, ReadKeeps

\* It sums a firm's collections.
LEMMA SumStep ==
  ASSUME SettleInv, NEW r \in Request, SumGross(r)
  PROVE  SettleInv'
  <1>1. /\ at[r] = "sum" /\ ReadOnly /\ job' = job /\ todo' = todo /\ at'[r] = "save"
        /\ \A q \in Request \ {r} : at'[q] = at[q]
    BY DEF SumGross, Go, SettleInv
  <1>2. Alone(r) BY <1>1 DEF SumGross, Alone, Go, SettleInv
  <1>3. job[r].kind = "COMPUTE" /\ "save" \in StepsOf["COMPUTE"]
    BY <1>1, KindAt DEF StepsOf
  <1>4. Progress(r)' BY <1>1, <1>3 DEF SettleInv, Progress, Passing
  <1>5. QED BY <1>1, <1>2, <1>4, ReadKeeps DEF Passing

\* It saves a firm's settlement, and the next firm's name does not come before it.
LEMMA SaveStep ==
  ASSUME SettleInv, NEW r \in Request, SaveComputed(r)
  PROVE  SettleInv'
  <1>1. PICK f \in Firm, x \in Row :
          f = Head(todo[r]) /\ x = Settlement(f, job[r].period) /\ x \in Settlements
            /\ x[2][2] = job[r].period
    <2>1. at[r] = "save" BY DEF SaveComputed
    <2>2. Head(todo[r]) \in Firm BY <2>1 DEF SettleInv, Progress, Passing
    <2>3. QED BY <2>2, JobsAreGood, RowsApart
  <1>2. PICK version : Put(r, x, version) /\ Priced(version)
    BY <1>1 DEF SaveComputed, Priced
  <1>3. /\ at[r] = "save" /\ todo' = [todo EXCEPT ![r] = Tail(@)] /\ job' = job
        /\ Go(r, IF Len(todo[r]) = 1 THEN "commit" ELSE "sum")
    BY DEF SaveComputed
  <1>4. /\ at'[r] = (IF Len(todo[r]) = 1 THEN "commit" ELSE "sum") /\ todo'[r] = Tail(todo[r])
        /\ \A q \in Request \ {r} : at'[q] = at[q] /\ todo'[q] = todo[q]
    BY <1>3 DEF Go, SettleInv
  <1>5. Alone(r) BY <1>3, <1>4 DEF Alone, Go, SettleInv
  <1>6. /\ todo[r] \in Seq(Firm) /\ todo[r] # <<>>
        /\ \A i, j \in 1..Len(todo[r]) : i < j => Name[todo[r][i]] <= Name[todo[r][j]]
    BY <1>3 DEF SettleInv, Progress, Passing
  <1>7. Len(todo[r]) # 1 =>
          /\ todo'[r] \in Seq(Firm) /\ todo'[r] # <<>> /\ Name[f] <= Name[Head(todo'[r])]
          /\ \A i, j \in 1..Len(todo'[r]) : i < j => Name[todo'[r][i]] <= Name[todo'[r][j]]
    <2>1. SUFFICES ASSUME Len(todo[r]) # 1
                   PROVE  /\ todo'[r] \in Seq(Firm) /\ todo'[r] # <<>> /\ Name[f] <= Name[Head(todo'[r])]
                          /\ \A i, j \in 1..Len(todo'[r]) : i < j => Name[todo'[r][i]] <= Name[todo'[r][j]]
      OBVIOUS
    <2>2. Len(todo[r]) \in Nat /\ Len(todo[r]) >= 2
      <3>1. \A seq \in Seq(Firm) : seq # <<>> => Len(seq) \in Nat \ {0} BY EmptySeq
      <3>2. PICK n \in Nat \ {0} : n = Len(todo[r]) BY <1>6, <3>1
      <3>3. n # 1 BY <2>1, <3>2
      <3>4. n \in Nat /\ n >= 2 BY <3>3
      <3>5. QED BY <3>2, <3>4
    <2>3. /\ todo'[r] \in Seq(Firm) /\ Len(todo'[r]) = Len(todo[r]) - 1
          /\ \A i \in 1..Len(todo'[r]) : todo'[r][i] = todo[r][i + 1]
      BY <1>4, <1>6, <2>2, HeadTailProperties
    <2>4. todo'[r] # <<>> /\ Head(todo'[r]) = todo[r][2] /\ f = todo[r][1]
      BY <1>1, <1>6, <2>2, <2>3, EmptySeq
    <2>5. Name[f] <= Name[Head(todo'[r])] BY <1>6, <2>2, <2>4
    <2>6. ASSUME NEW i \in 1..Len(todo'[r]), NEW j \in 1..Len(todo'[r]), i < j
          PROVE  Name[todo'[r][i]] <= Name[todo'[r][j]]
      BY <1>6, <2>2, <2>3, <2>6
    <2>7. QED BY <2>3, <2>4, <2>5, <2>6
  <1>8. job[r].kind = "COMPUTE" /\ "sum" \in StepsOf["COMPUTE"]
    BY <1>3, KindAt DEF StepsOf
  <1>9. Progress(r)' BY <1>3, <1>4, <1>7, <1>8 DEF Progress, Passing
  <1>10. CASE Len(todo[r]) = 1
    <2>1. at'[r] = "commit" BY <1>4, <1>10
    <2>2. QED BY <1>1, <1>2, <1>5, <1>8, <1>9, <2>1, PutKeeps
  <1>11. CASE Len(todo[r]) # 1
    <2>1. RowsAre(Row) /\ LocksHold(Row) /\ r # 0 BY JobsAreGood DEF SettleInv
    <2>2. /\ RowsAre(Row)' /\ holder[x] \in {0, r} /\ row'[x] = version /\ holder'[x] = r
          /\ \A y \in Row \ {x} : row'[y] = row[y] /\ holder'[y] = holder[y]
          /\ shown' = shown
      BY <1>2, <2>1, PutDoes
    <2>3. LocksHold(Row)' BY <2>1, <2>2 DEF LocksHold
    <2>4. \A y \in Settlements : Priced(shown[y]) => Priced(shown'[y])
      BY <2>2
    <2>5. ASSUME NEW y \in Row, holder'[y] = r PROVE HeldWell(y)'
      <3>1. /\ Passing(r)' /\ Name[f] <= Name[Head(todo'[r])]
              /\ Name[f] \in Nat /\ Name[Head(todo'[r])] \in Nat
        <4>1. Head(todo'[r]) \in Firm BY <1>7, <1>11, EmptySeq
        <4>2. QED BY <1>4, <1>7, <1>11, <4>1, SettlementConstants DEF Passing
      <3>2. CASE y = x BY <1>1, <1>3, <2>5, <3>1, <3>2 DEF HeldWell, Settlement
      <3>3. CASE y # x
        <4>1. holder[y] = r /\ HeldWell(y) BY <2>2, <2>5, <3>3 DEF SettleInv
        <4>2. PICK g \in Firm : y = Settlement(g, job[r].period) /\ Name[g] <= Name[f]
          BY <1>1, <1>3, <2>1, <4>1 DEF HeldWell
        <4>3. Name[g] <= Name[Head(todo'[r])] BY <3>1, <4>2, SettlementConstants
        <4>4. QED BY <1>3, <2>5, <3>1, <4>2, <4>3 DEF HeldWell, Settlement
      <3>4. QED BY <3>2, <3>3
    <2>6. \A y \in Row : (holder'[y] = holder[y] /\ holder[y] # r) \/ HeldWell(y)'
      BY <2>2, <2>5
    <2>7. ASSUME NEW y \in Settlements PROVE Computed(y)'
      <3>1. Computed(y) /\ y \in Row BY RowsApart DEF SettleInv
      <3>2. CASE y # x BY <1>3, <2>2, <3>1, <3>2 DEF Computed
      <3>3. CASE y = x BY <1>1, <1>2, <1>3, <1>8, <2>2, <3>1, <3>3 DEF Computed
      <3>4. QED BY <3>2, <3>3
    <2>8. QED BY <1>5, <1>9, <2>2, <2>3, <2>4, <2>6, <2>7, InvKept
  <1>12. QED BY <1>10, <1>11

\* A request commits what it holds.
LEMMA CommitStep ==
  ASSUME SettleInv, NEW r \in Request, Commit(r)
  PROVE  SettleInv'
  <1>1. at[r] = "commit" /\ Go(r, "done") /\ UNCHANGED <<job, todo>> /\ Publish(r)
    BY DEF Commit, Stay
  <1>2. Alone(r) /\ Progress(r)' /\ job' = job
    BY <1>1, GoesTo DEF Ended
  <1>3. RowsAre(Row) /\ LocksHold(Row) /\ r # 0 BY JobsAreGood DEF SettleInv
  <1>4. /\ RowsAre(Row)' /\ row' = row
        /\ \A x \in Row : shown'[x] = IF holder[x] = r THEN row[x] ELSE shown[x]
        /\ \A x \in Row : holder'[x] = IF holder[x] = r THEN 0 ELSE holder[x]
    BY <1>1, <1>3, PublishDoes
  <1>5. LocksHold(Row)' BY <1>3, <1>4 DEF LocksHold
  <1>6. \A x \in Settlements : Priced(shown[x]) => Priced(shown'[x])
    BY <1>4, RowsApart DEF SettleInv, Computed
  <1>7. \A x \in Row : (holder'[x] = holder[x] /\ holder[x] # r) \/ HeldWell(x)'
    BY <1>4 DEF HeldWell
  <1>8. ASSUME NEW x \in Settlements PROVE Computed(x)'
    <2>1. Computed(x) /\ x \in Row BY RowsApart DEF SettleInv
    <2>2. CASE holder[x] = r BY <1>2, <1>4, <2>1, <2>2 DEF Computed
    <2>3. CASE holder[x] # r BY <1>2, <1>4, <2>1, <2>3 DEF Computed
    <2>4. QED BY <2>2, <2>3
  <1>9. QED BY <1>2, <1>4, <1>5, <1>6, <1>7, <1>8, InvKept

\* A request that is picked in a circle is rolled back.
LEMMA AbortStep ==
  ASSUME SettleInv, NEW r \in Request, Abort(r)
  PROVE  SettleInv'
  <1>1. Go(r, "failed") /\ UNCHANGED <<job, todo>> /\ Undo(HeldBy(r)) BY DEF Abort, Stay
  <1>2. Alone(r) /\ Progress(r)' /\ job' = job
    BY <1>1, GoesTo DEF Ended
  <1>3. RowsAre(Row) /\ LocksHold(Row) /\ r # 0 BY JobsAreGood DEF SettleInv
  <1>4. /\ RowsAre(Row)' /\ shown' = shown
        /\ \A x \in Row : row'[x] = IF holder[x] = r THEN shown[x] ELSE row[x]
        /\ \A x \in Row : holder'[x] = IF holder[x] = r THEN 0 ELSE holder[x]
    BY <1>1, <1>3, UndoDoes
  <1>5. LocksHold(Row)' BY <1>3, <1>4 DEF LocksHold
  <1>6. ASSUME NEW x \in Settlements PROVE Computed(x)' /\ (Priced(shown[x]) => Priced(shown'[x]))
    <2>1. Computed(x) /\ x \in Row BY RowsApart DEF SettleInv
    <2>2. CASE holder[x] = r BY <1>2, <1>4, <2>1, <2>2 DEF Computed
    <2>3. CASE holder[x] # r BY <1>2, <1>4, <2>1, <2>3 DEF Computed
    <2>4. QED BY <2>2, <2>3
  <1>7. \A x \in Row : (holder'[x] = holder[x] /\ holder[x] # r) \/ HeldWell(x)'
    BY <1>4 DEF HeldWell
  <1>8. QED BY <1>2, <1>4, <1>5, <1>6, <1>7, InvKept

\* The settlements there are from the start have their amounts, and nobody holds a row.
LEMMA SettleInit ==
  ASSUME Init PROVE SettleInv
  <1>1. job \in Workloads /\ RowsAre(Row) /\ DOMAIN todo = Request BY DEF Init, RowsAre
  <1>2. LocksHold(Row) BY DEF Init, LocksHold
  <1>3. ASSUME NEW r \in Request
        PROVE  /\ at[r] \in {"pay", "check", "stand", "list", "load"}
               /\ at[r] \in StepsOf[job[r].kind]
    <2>1. job[r].kind \in Kinds /\ at[r] = First[job[r].kind]
      BY <1>1, SettlementConstants DEF Init
    <2>2. QED BY <2>1 DEF First, Kinds, StepsOf
  <1>4. \A r \in Request : Progress(r) BY <1>3 DEF Progress, Passing
  <1>5. at \in [Request -> {"pay", "check", "undo", "stand", "list", "sum", "save", "load", "store", "commit"} \cup Ended]
    <2>1. at = [r \in Request |-> First[job[r].kind]] BY DEF Init
    <2>2. QED BY <1>3, <2>1
  <1>6. \A x \in Row : HeldWell(x) BY DEF Init, HeldWell
  <1>7. ASSUME NEW x \in Settlements PROVE Computed(x)
    <2>1. x \in Row /\ x[1] = "settlement" /\ x \notin Payments
      BY RowsApart DEF Settlements, Settlement, Payments, Payment
    <2>2. shown[x] = row[x] /\ row[x] = IF x \in DOMAIN FirstRows THEN FirstRows[x] ELSE Absent
      BY <2>1 DEF Init
    <2>3. x \in DOMAIN FirstRows => FirstRows[x] \in SettlementRow BY <2>1, FirstRowsAreRows
    <2>4. row[x] # Absent => Priced(row[x]) BY <2>2, <2>3 DEF Priced, SettlementRow
    <2>5. QED BY <2>2, <2>4 DEF Computed
  <1>8. QED BY <1>1, <1>2, <1>4, <1>5, <1>6, <1>7 DEF SettleInv

\* Every step keeps it.
LEMMA SettleStep ==
  ASSUME SettleInv, [Next]_vars
  PROVE  SettleInv'
  <1>1. CASE UNCHANGED vars
    BY <1>1 DEF vars, SettleInv, RowsAre, LocksHold, Progress, Passing, Own, HeldWell, Computed
  <1>2. ASSUME NEW r \in Request, Work(r) PROVE SettleInv'
    BY <1>2, LookSteps, LoadStep, WriteSteps, ListStep, SumStep, SaveStep, CommitStep, AbortStep DEF Work
  <1>3. QED BY <1>1, <1>2 DEF Next, AllEnded

\* Who holds which rows, and which amounts wait to be committed.
THEOREM SettleInvariance == Spec => []SettleInv
  <1>1. QED BY SettleInit, SettleStep, PTL DEF Spec

-----------------------------------------------------------------------------
(* What follows. *)

\* What a settlement pays changes when a computation of its period commits, and at no other
\* time (compute_settlements, status_change).
THEOREM OnlyComputationsPay == Spec => AmountsChangeByComputation
  <1>1. SettleInv /\ [Next]_vars =>
          \A x \in Settlements :
            shown[x] # Absent /\ (shown'[x].gross # shown[x].gross \/ shown'[x].commission # shown[x].commission) =>
              \E r \in Request : job[r].kind = "COMPUTE" /\ at[r] = "commit" /\ at'[r] = "done" /\ job[r].period = x[2][2]
    <2>1. SUFFICES ASSUME SettleInv, [Next]_vars, NEW x \in Settlements, shown[x] # Absent,
                          shown'[x].gross # shown[x].gross \/ shown'[x].commission # shown[x].commission
                   PROVE  \E r \in Request : /\ job[r].kind = "COMPUTE" /\ at[r] = "commit" /\ at'[r] = "done"
                                             /\ job[r].period = x[2][2]
      OBVIOUS
    <2>2. x \in Row /\ Computed(x) /\ RowsAre(Row) BY <2>1, RowsApart DEF SettleInv
    <2>3. PICK r \in Request : Commit(r)
      <3>1. shown' # shown BY <2>1
      <3>2. PICK r \in Request : Work(r) BY <2>1, <3>1 DEF Next, AllEnded, vars
      <3>3. ASSUME NEW y, NEW version, Put(r, y, version) PROVE shown' = shown BY <3>3 DEF Put
      <3>4. Commit(r)
        BY <3>1, <3>2, <3>3 DEF Work, Pay, CheckPayment, ReversePayment, ChangeStanding, ListFirms, SumGross,
           SaveComputed, LoadSettlement, Refuse, SaveStatus, Abort, Undo, ReadOnly, rows
      <3>5. QED BY <3>4
    <2>4. shown'[x] = IF holder[x] = r THEN row[x] ELSE shown[x]
      BY <2>2, <2>3, PublishDoes DEF Commit
    <2>5. holder[x] = r /\ shown'[x] = row[x] BY <2>1, <2>4
    <2>6. at[r] = "commit" /\ at'[r] = "done" BY <2>1, <2>3 DEF Commit, Go, SettleInv
    <2>7. QED BY <2>1, <2>2, <2>5, <2>6 DEF Computed
  <1>2. QED BY <1>1, SettleInvariance, PTL DEF Spec, AmountsChangeByComputation

\* Of the rows a request may wait for, there is one at a time; a computation waits for the
\* settlement of the firm it is at.
LEMMA WantsOne ==
  ASSUME SettleInv, NEW p \in Request
  PROVE  /\ at[p] \in {"commit", "sum"} => Wants(p) = {}
         /\ at[p] = "save" => Wants(p) = {Settlement(Head(todo[p]), job[p].period)} /\ Head(todo[p]) \in Firm
         /\ Wants(p) \subseteq Row
  <1>1. at[p] \in {"commit", "sum"} => Wants(p) = {} BY DEF Wants
  <1>2. at[p] = "save" => Wants(p) = {Settlement(Head(todo[p]), job[p].period)} BY DEF Wants
  <1>3. at[p] = "save" => Head(todo[p]) \in Firm
    BY HeadTailProperties DEF SettleInv, Progress, Passing
  <1>4. at[p] = "undo" => Wants(p) = {Payment(job[p].payment)} BY DEF Wants
  <1>5. at[p] = "stand" => Wants(p) = {FirmRow(job[p].firm)} BY DEF Wants
  <1>6. at[p] = "store" => Wants(p) = {Settlement(job[p].firm, job[p].period)} BY DEF Wants
  <1>7. at[p] \notin {"undo", "stand", "save", "store"} => Wants(p) = {} BY DEF Wants
  <1>8. Wants(p) \subseteq Row
    BY <1>2, <1>3, <1>4, <1>5, <1>6, <1>7, JobsAreGood, RowsApart
  <1>9. QED BY <1>1, <1>2, <1>3, <1>8

\* Whom a request waits for has only to commit, or computes and has passed a firm of the
\* settlement waited for.
LEMMA WaitedFor ==
  ASSUME SettleInv, NEW p \in Request, NEW q \in Request, NEW x \in Wants(p), holder[x] = q
  PROVE  \/ at[q] \in {"commit", "sum"}
         \/ /\ at[q] = "save"
            /\ \E f \in Firm : x = Settlement(f, job[q].period) /\ Name[f] <= Name[Head(todo[q])]
  <1>1. x \in Row /\ q # 0 BY WantsOne, JobsAreGood
  <1>2. HeldWell(x) BY <1>1 DEF SettleInv
  <1>3. QED BY <1>1, <1>2 DEF HeldWell, Passing

\* Along a chain of waits the names of the firms never go back: so a request of a circle
\* computes, and the firm for which others wait in the end for it has the name of the firm
\* it waits for itself (SubConsultant.Meta.ordering in compute_settlements).
THEOREM OnlyNamesakesCircle == Spec => []CirclesAreOfNamesakes
  <1>1. ASSUME SettleInv, NEW r \in Request, InCircle(r)
        PROVE  /\ at[r] = "save"
               /\ \E g \in Firm : /\ g # Head(todo[r]) /\ Name[g] = Name[Head(todo[r])]
                                  /\ holder[Settlement(g, job[r].period)] = r
    <2>1. PICK Waits : Waits = {e \in Request \X Request : e[1] # e[2] /\ \E x \in Wants(e[1]) : holder[x] = e[2]}
      OBVIOUS
    <2>2. /\ \E q \in Request : <<r, q>> \in Waits
          /\ \A S \in SUBSET Request :
               (\A p \in S \cup {r}, q \in Request : <<p, q>> \in Waits => q \in S) => r \in S
      BY <1>1, <2>1 DEF InCircle, InWaitCycle
    \* Of the requests at which a chain of waits from r can arrive: those that wait for
    \* nobody, and the computations at a firm whose name does not come before that of the
    \* firm r waits for.
    <2>3. PICK S \in SUBSET Request :
            S = {q \in Request : \/ at[q] \in {"commit", "sum"}
                                 \/ /\ at[q] = "save"
                                    /\ \E f \in Firm, w \in Period :
                                         /\ Settlement(f, w) \in Wants(r) /\ job[q].period = w
                                         /\ \E g \in Firm : /\ Name[f] <= Name[g] /\ Name[g] <= Name[Head(todo[q])]
                                                            /\ holder[Settlement(g, w)] = q}
      OBVIOUS
    <2>4. ASSUME NEW p \in S \cup {r}, NEW q \in Request, <<p, q>> \in Waits
          PROVE  q \in S
      <3>1. PICK x \in Wants(p) : holder[x] = q /\ p # q BY <2>1, <2>4
      <3>2. CASE at[q] \in {"commit", "sum"} BY <2>3, <3>2
      <3>3. CASE /\ at[q] = "save"
                 /\ \E g \in Firm : x = Settlement(g, job[q].period) /\ Name[g] <= Name[Head(todo[q])]
        <4>1. PICK g \in Firm : x = Settlement(g, job[q].period) /\ Name[g] <= Name[Head(todo[q])]
          BY <3>3
        <4>2. CASE p = r
          <5>1. job[q].period \in Period /\ q # r BY <1>1, <3>1, <4>2, JobsAreGood
          <5>2. Name[g] <= Name[g] BY SettlementConstants
          <5>3. QED BY <2>3, <3>1, <3>3, <4>1, <4>2, <5>1, <5>2
        <4>3. CASE p # r
          <5>1. p \in Request /\ at[p] = "save" BY <1>1, <2>3, <2>4, <3>1, <4>3, WantsOne
          <5>2. PICK f \in Firm, w \in Period, h \in Firm :
                  /\ Settlement(f, w) \in Wants(r) /\ job[p].period = w
                  /\ Name[f] <= Name[h] /\ Name[h] <= Name[Head(todo[p])]
            BY <2>3, <2>4, <4>3, <5>1
          <5>3. x = Settlement(Head(todo[p]), w) BY <1>1, <3>1, <5>1, <5>2, WantsOne
          <5>4. g = Head(todo[p]) /\ job[q].period = w
            <6>1. \A i, j, v, u : Settlement(i, v) = Settlement(j, u) => i = j /\ v = u BY RowsApart
            <6>2. Settlement(g, job[q].period) = Settlement(Head(todo[p]), w) BY <4>1, <5>3
            <6>3. QED BY ONLY <6>1, <6>2
          <5>5. Name[f] <= Name[g]
            <6>1. Name[f] \in Nat /\ Name[g] \in Nat /\ Name[h] \in Nat BY SettlementConstants
            <6>2. QED BY <5>2, <5>4, <6>1
          <5>6. QED BY <2>3, <3>1, <3>3, <4>1, <5>2, <5>4, <5>5
        <4>4. QED BY <4>2, <4>3
      <3>4. QED BY <1>1, <2>3, <2>4, <3>1, <3>2, <3>3, WaitedFor
    <2>5. r \in S BY <2>2, <2>4
    <2>6. Wants(r) # {} BY <2>1, <2>2
    <2>7. PICK f \in Firm, w \in Period, g \in Firm :
            /\ at[r] = "save" /\ Settlement(f, w) \in Wants(r) /\ job[r].period = w
            /\ Name[f] <= Name[g] /\ Name[g] <= Name[Head(todo[r])]
            /\ holder[Settlement(g, w)] = r
      BY <1>1, <2>3, <2>5, <2>6, WantsOne
    <2>8. f = Head(todo[r]) /\ Head(todo[r]) \in Firm BY <1>1, <2>7, WantsOne, RowsApart
    <2>9. Name[g] = Name[Head(todo[r])]
      <3>1. Name[f] \in Nat /\ Name[g] \in Nat BY SettlementConstants
      <3>2. QED BY <2>7, <2>8, <3>1
    <2>10. g # Head(todo[r])
      <3>1. PICK y \in Wants(r) : holder[y] # r BY <2>1, <2>2
      <3>2. y = Settlement(Head(todo[r]), w) BY <1>1, <2>7, <3>1, WantsOne
      <3>3. QED BY <2>7, <3>1, <3>2
    <2>11. QED BY <2>7, <2>9, <2>10
  <1>2. SettleInv => CirclesAreOfNamesakes BY <1>1 DEF CirclesAreOfNamesakes
  <1>3. QED BY <1>2, SettleInvariance, PTL
=============================================================================
