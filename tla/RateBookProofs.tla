---------------------------- MODULE RateBookProofs -----------------------------
(***************************************************************************)
(* The price list, for any number of requests, bands and labels and any    *)
(* workload: an item has one open rate, an assessment agrees with the row  *)
(* it cites, and the bands of one replacement are closed together.         *)
(*                                                                         *)
(* The invariant has what holds of the rows, committed and in the making   *)
(* (OnRows), and what each request knows of itself (Local): that all it    *)
(* listed is closed before it commits, that nothing else is, and that it   *)
(* has opened what replaces it. A row bears the number of the request that *)
(* opens it, so what is committed is of requests that are done, and no row *)
(* comes back once it is deleted.                                          *)
(***************************************************************************)
EXTENDS RateBook, FiniteSetTheorems, SequenceTheorems, TLAPS

-----------------------------------------------------------------------------
(* What the statements of Requests do to a set R of rows and to who holds them. *)

\* UPDATE and INSERT of one row.
LEMMA PutDoes ==
  ASSUME NEW R, RowsAre(R), NEW r, NEW x \in R, NEW version, Put(r, x, version)
  PROVE  /\ RowsAre(R)' /\ holder[x] \in {0, r}
         /\ row'[x] = version /\ holder'[x] = r
         /\ \A y \in R \ {x} : row'[y] = row[y] /\ holder'[y] = holder[y]
         /\ shown' = shown
  BY DEF RowsAre, Put, Free

\* UPDATE and INSERT of several rows.
LEMMA WriteDoes ==
  ASSUME NEW R, RowsAre(R), NEW r, NEW new, Write(r, new)
  PROVE  /\ RowsAre(R)' /\ \A x \in DOMAIN new : holder[x] \in {0, r}
         /\ \A x \in R : row'[x] = IF x \in DOMAIN new THEN new[x] ELSE row[x]
         /\ \A x \in R : holder'[x] = IF x \in DOMAIN new THEN r ELSE holder[x]
         /\ shown' = shown
  BY DEF RowsAre, Write, Free

\* ROLLBACK, also to a savepoint.
LEMMA UndoDoes ==
  ASSUME NEW R, RowsAre(R), NEW xs, Undo(xs)
  PROVE  /\ RowsAre(R)'
         /\ \A x \in R : row'[x] = IF x \in xs THEN shown[x] ELSE row[x]
         /\ \A x \in R : holder'[x] = IF x \in xs THEN 0 ELSE holder[x]
         /\ shown' = shown
  BY DEF RowsAre, Undo

\* COMMIT.
LEMMA PublishDoes ==
  ASSUME NEW R, RowsAre(R), NEW r, Publish(r)
  PROVE  /\ RowsAre(R)'
         /\ \A x \in R : shown'[x] = IF holder[x] = r THEN row[x] ELSE shown[x]
         /\ \A x \in R : holder'[x] = IF holder[x] = r THEN 0 ELSE holder[x]
         /\ row' = row
  BY DEF RowsAre, Publish

\* Whatever a request does to rows, one that nobody holds is as committed.
LEMMA LocksKept ==
  ASSUME NEW R, RowsAre(R), LocksHold(R), NEW r, r # 0,
         \/ \E x \in R : \E version : Put(r, x, version)
         \/ \E new : Write(r, new)
         \/ \E xs : Undo(xs)
         \/ Publish(r)
         \/ ReadOnly
  PROVE  RowsAre(R)' /\ LocksHold(R)'
  <1>1. CASE \E x \in R : \E version : Put(r, x, version)
    <2>1. PICK x \in R : \E version : Put(r, x, version) BY <1>1
    <2>2. PICK version : Put(r, x, version) BY <2>1
    <2>3. QED BY <2>2, PutDoes DEF LocksHold
  <1>2. CASE \E new : Write(r, new)
    <2>1. PICK new : Write(r, new) BY <1>2
    <2>2. QED BY <2>1, WriteDoes DEF LocksHold
  <1>3. CASE \E xs : Undo(xs)
    <2>1. PICK xs : Undo(xs) BY <1>3
    <2>2. QED BY <2>1, UndoDoes DEF LocksHold
  <1>4. CASE Publish(r)
    BY <1>4, PublishDoes DEF LocksHold
  <1>5. CASE ReadOnly
    BY <1>5 DEF ReadOnly, rows, RowsAre, LocksHold
  <1>6. QED BY <1>1, <1>2, <1>3, <1>4, <1>5

-----------------------------------------------------------------------------
(* The invariant. *)

Prices == Rates \cup Bands
Listers == {"RATE", "BANDS", "SEED"}
Makers == {"CREATE", "RESEED"}

Running(r) == at[r] \notin Ended

\* Whoever opened x is done.
Old(x) == x[2] = 0 \/ at[x[2]] = "done"

\* The item that the price row x is of.
ItemOf(x) == IF x[2] = 0 THEN Item(0) ELSE Priced(x[2])

Base ==
  /\ job \in Workloads /\ at \in [Request -> Steps]
  /\ found \in [Request -> Seq(Row)] /\ done \in [Request -> Nat]
  /\ RowsAre(Row) /\ LocksHold(Row)

PriceTyped(x, y) ==
  /\ y \in PriceRow /\ y.item = ItemOf(x) /\ (x \in Rates => y.label = 0)
  /\ x[2] # 0 => Is(x[2], Listers \cup Makers)

Typed(x, y) ==
  /\ x \in Prices => y = Absent \/ PriceTyped(x, y)
  /\ x \in Demands => y = Absent \/ y \in DemandRow

SameTerms(y, z) == y.item = z.item /\ y.prices = z.prices
SameDemand(y, z) ==
  y.item = z.item /\ y.cites = z.cites /\ y.unit = z.unit /\ y.quantity = z.quantity /\ y.amount = z.amount

\* What becomes of a row: it keeps its terms, and stays closed once it is.
Follows(x, y, z) ==
  /\ x \in Prices => SameTerms(y, z) /\ (z.open => y.open)
  /\ x \in Demands => SameDemand(y, z)

RowOK(x) ==
  /\ Typed(x, row[x]) /\ Typed(x, shown[x])
  /\ holder[x] # 0 => holder[x] \in Request /\ Running(holder[x])
  /\ row[x] # Absent /\ shown[x] = Absent => holder[x] = x[2] /\ x[2] # 0
  /\ shown[x] # Absent => Old(x)
  /\ row[x] # Absent /\ shown[x] # Absent => Follows(x, shown[x], row[x])

\* Versions of two rates that uniq_open_rate_per_item keeps apart.
Both(y, z) == y # Absent /\ z # Absent /\ y.open /\ z.open /\ y.item = z.item

Apart(x, y) ==
  /\ ~Both(row[x], row[y]) /\ ~Both(shown[x], shown[y])
  /\ holder[x] # holder[y] => ~Both(row[x], shown[y])

\* A demand d agrees with version y of the row it cites.
Agrees(d, y) == y # Absent => y.item = d.item /\ d.unit \in y.prices

Cited(d) ==
  /\ Old(d.cites) /\ d.amount = d.unit * d.quantity
  /\ Agrees(d, row[d.cites]) /\ Agrees(d, shown[d.cites])

DemandOK(x) ==
  /\ row[x] # Absent => Cited(row[x])
  /\ shown[x] # Absent => Cited(shown[x]) /\ shown[shown[x].cites] # Absent

IsOpen(x, i) == shown[x] # Absent /\ shown[x].open /\ shown[x].item = i
HasRate(i) == shown[i] # Absent => \E x \in Rates : IsOpen(x, i)

Together(x, y) == x[2] = y[2] /\ shown[x] # Absent /\ shown[y] # Absent => shown[x].open = shown[y].open

OnRows ==
  /\ \A x \in Row : RowOK(x)
  /\ \A x, y \in Rates : x # y => Apart(x, y)
  /\ \A x \in Demands : DemandOK(x)
  /\ \A i \in Items : HasRate(i)
  /\ \A x, y \in Bands : Together(x, y)

-----------------------------------------------------------------------------
(* What a request knows of itself. *)

Holds(r, x) == holder[x] = r /\ row[x] # Absent
Closed(r, x) == Holds(r, x) /\ ~row[x].open
HoldsNone(r) == \A x \in Row : holder[x] # r

\* The kinds that come to a step, and the steps before anything is written.
AtItsStep(r) ==
  /\ at[r] = "find" => ~Is(r, {"SETTLE"})
  /\ at[r] = "save" => Is(r, {"RETIRE"})
  /\ at[r] = "settle" => Is(r, {"SETTLE"})
  /\ at[r] = "issue" => Is(r, {"BILL"}) /\ Holds(r, Demand(r))
  /\ at[r] \in {"list", "close"} => Is(r, Listers)
  /\ at[r] = "open" => Is(r, Listers \cup Makers)
  /\ at[r] = "create" => Is(r, Makers)
  /\ at[r] = "price" => Is(r, {"ENROL", "BILL"})
  /\ Is(r, Makers) /\ at[r] \notin Ended => at[r] \in {"check", "clear", "create", "open", "commit"} \cup Clearing
  /\ at[r] \in {"find", "list", "price", "check", "settle", "clear"} => HoldsNone(r)
  /\ Is(r, Listers \cup {"ENROL", "BILL"}) /\ at[r] \notin {"find", "refused", "failed"} => Old(Asked(r))

\* What it listed was committed, and of its item.
FoundOK(r) ==
  \A x \in Range(found[r]) :
    /\ Old(x)
    /\ Is(r, {"RATE"}) /\ at[r] # "list" => x \in Rates /\ ItemOf(x) = Asked(r)
    /\ Is(r, {"BANDS", "SEED", "ENROL", "BILL"}) => x \in Bands /\ ItemOf(x) = Asked(r)

\* It closes what it listed, and nothing else.
Closing(r) ==
  /\ at[r] = "close" => done[r] <= Len(found[r]) /\ \A k \in 1..done[r] : Closed(r, found[r][k])
  /\ at[r] \in {"open", "commit"} /\ Is(r, Listers) =>
       (\A x \in Range(found[r]) : Closed(r, x)) \/ (at[r] = "commit" /\ HoldsNone(r))
  /\ \A x \in Prices : Closed(r, x) /\ shown[x] # Absent /\ shown[x].open => Is(r, Listers) /\ x \in Range(found[r])

\* It listed a replacement set as a whole.
Whole(r) ==
  Is(r, {"BANDS", "SEED"}) /\ at[r] \in {"close", "open", "commit"} =>
    \A x \in Range(found[r]), y \in Bands : x[2] = y[2] /\ shown[y] # Absent => y \in Range(found[r])

\* It opens the rows that bear its number, the rate first, and the item before that.
Opening(r) ==
  /\ \A x \in Prices : Holds(r, x) /\ x[2] = r => row[x].open
  /\ Is(r, {"RATE"} \cup Makers) /\ (at[r] = "commit" \/ (at[r] = "open" /\ done[r] >= 1)) => Holds(r, Rate(r))
  /\ Holds(r, Item(r)) => Is(r, Makers) /\ at[r] \in {"open", "commit"}

\* Deleted by r.
Deleted(r, x) == holder[x] = r /\ row[x] = Absent /\ shown[x] # Absent

\* _clear deletes the items of the rates it deletes.
Clearance(r) ==
  /\ Is(r, Makers) /\ at[r] \in Clearing => \A x \in Row : holder[x] = r => row[x] = Absent /\ x \notin Items
  /\ at[r] \in {"bands", "rates"} => \A x \in Range(found[r]) : x \in Prices => ItemOf(x) \in Range(found[r])
  /\ at[r] = "items" => \A x \in Range(found[r]) : x \notin Rates
  /\ \A x \in Rates : Deleted(r, x) =>
       /\ Is(r, {"RESEED"})
       /\ shown[ItemOf(x)] # Absent =>
            IF at[r] \in Clearing THEN ItemOf(x) \in Range(found[r]) ELSE Deleted(r, ItemOf(x))

Local(r) == AtItsStep(r) /\ FoundOK(r) /\ Closing(r) /\ Whole(r) /\ Opening(r) /\ Clearance(r)

RateInv == Base /\ OnRows /\ \A r \in Request : Local(r)

-----------------------------------------------------------------------------
(* Rows and requests. *)

\* Rows of different tables or requests differ, and all are in Row.
LEMMA RowsApart ==
  /\ N \in Nat /\ Request \subseteq 0..N /\ 0 \notin Request
  /\ \A i \in 0..N : /\ Item(i) \in Items /\ Rate(i) \in Rates
                     /\ Item(i)[2] = i /\ Rate(i)[2] = i
                     /\ \A k \in 1..MaxBands : Band(i, k) \in Bands /\ Band(i, k)[2] = i /\ Band(i, k)[3] = k
  /\ \A r \in Request : Demand(r) \in Demands /\ Demand(r)[2] = r
  /\ \A x \in Items : x[2] \in 0..N /\ x = Item(x[2]) /\ x \notin Prices /\ x \notin Demands
  /\ \A x \in Rates : x[2] \in 0..N /\ x = Rate(x[2]) /\ x \notin Bands /\ x \notin Demands
  /\ \A x \in Bands : x[2] \in 0..N /\ x[3] \in 1..MaxBands /\ x = Band(x[2], x[3]) /\ x \notin Demands
  /\ \A x \in Demands : x[2] \in Request /\ x = Demand(x[2])
  /\ Row = Items \cup Prices \cup Demands
  <1>1. N \in Nat /\ Request \subseteq 0..N /\ 0 \notin Request
    BY RateBookConstants DEF Request
  <1>2. \A i \in 0..N : /\ Item(i) \in Items /\ Rate(i) \in Rates
                       /\ Item(i)[2] = i /\ Rate(i)[2] = i
    BY DEF Item, Items, Rate, Rates
  <1>3. \A i \in 0..N, k \in 1..MaxBands : Band(i, k) \in Bands /\ Band(i, k)[2] = i /\ Band(i, k)[3] = k
    BY DEF Band, Bands
  <1>4. \A r \in Request : Demand(r) \in Demands /\ Demand(r)[2] = r
    BY DEF Demand, Demands
  <1>5. \A x \in Items : x[1] = "item" /\ x[2] \in 0..N /\ x = Item(x[2])
    BY DEF Item, Items
  <1>6. \A x \in Rates : x[1] = "rate" /\ x[2] \in 0..N /\ x = Rate(x[2])
    BY DEF Rate, Rates
  <1>7. \A x \in Bands : x[1] = "band" /\ x[2] \in 0..N /\ x[3] \in 1..MaxBands /\ x = Band(x[2], x[3])
    BY DEF Band, Bands
  <1>8. \A x \in Demands : x[1] = "assessment" /\ x[2] \in Request /\ x = Demand(x[2])
    BY DEF Demand, Demands
  <1>9. Row = Items \cup Prices \cup Demands
    BY DEF Row, Prices
  <1>10. QED BY <1>1, <1>2, <1>3, <1>4, <1>5, <1>6, <1>7, <1>8, <1>9 DEF Prices

\* There are finitely many rows.
LEMMA FinitelyManyRows == ASSUME NEW S \in SUBSET Row PROVE IsFiniteSet(S) /\ Cardinality(S) \in Nat
  <1>1. IsFiniteSet(0..N) /\ IsFiniteSet(1..MaxBands) /\ IsFiniteSet(Request)
    <2>1. 0 \in Int /\ 1 \in Int /\ N \in Int /\ MaxBands \in Int
      BY RateBookConstants
    <2>2. QED BY <2>1, FS_Interval DEF Request
  <1>2. IsFiniteSet(Items)
    <2>1. [i \in 0..N |-> Item(i)] \in Surjection(0..N, Items)
      BY DEF Surjection, Items
    <2>2. QED BY <1>1, <2>1, FS_Surjection
  <1>3. IsFiniteSet(Rates)
    <2>1. [i \in 0..N |-> Rate(i)] \in Surjection(0..N, Rates)
      BY DEF Surjection, Rates
    <2>2. QED BY <1>1, <2>1, FS_Surjection
  <1>4. IsFiniteSet(Bands)
    <2>1. IsFiniteSet((0..N) \X (1..MaxBands))
      BY <1>1, FS_Product
    <2> DEFINE f == [p \in (0..N) \X (1..MaxBands) |-> Band(p[1], p[2])]
    <2>2. f \in [(0..N) \X (1..MaxBands) -> Bands]
      BY DEF Bands
    <2>3. ASSUME NEW x \in Bands PROVE \E p \in (0..N) \X (1..MaxBands) : f[p] = x
      <3>1. PICK i \in 0..N, k \in 1..MaxBands : x = Band(i, k)
        BY DEF Bands
      <3>2. <<i, k>> \in (0..N) \X (1..MaxBands) /\ f[<<i, k>>] = x
        BY <3>1
      <3>3. QED BY <3>2
    <2>4. f \in Surjection((0..N) \X (1..MaxBands), Bands)
      BY <2>2, <2>3 DEF Surjection
    <2>5. QED BY <2>1, <2>4, FS_Surjection
  <1>5. IsFiniteSet(Demands)
    <2>1. [i \in Request |-> Demand(i)] \in Surjection(Request, Demands)
      BY DEF Surjection, Demands
    <2>2. QED BY <1>1, <2>1, FS_Surjection
  <1>6. IsFiniteSet(Row)
    BY <1>2, <1>3, <1>4, <1>5, FS_Union DEF Row
  <1>7. QED BY <1>6, FS_Subset, FS_CardinalityType

\* What a query lists is what there was.
LEMMA ListingLists ==
  ASSUME NEW r, NEW S \in SUBSET Row, NEW s \in Listings(r, S)
  PROVE  s \in Seq(Row) /\ Range(s) = S /\ Len(s) \in Nat /\ DOMAIN s = 1..Len(s)
  <1>1. Cardinality(S) \in Nat
    BY FinitelyManyRows
  <1>2. s \in [1..Cardinality(S) -> S] /\ \A x \in S : \E k \in DOMAIN s : s[k] = x
    BY DEF Listings
  <1>3. s \in Seq(Row) /\ Len(s) = Cardinality(S)
    BY <1>1, <1>2
  <1>4. QED BY <1>1, <1>2, <1>3 DEF Range

\* SetToSeq lists a set of rows.
LEMMA SetToSeqLists ==
  ASSUME NEW S \in SUBSET Row
  PROVE  SetToSeq(S) \in Seq(Row) /\ Range(SetToSeq(S)) = S
  <1> DEFINE n == Cardinality(S)
  <1>1. IsFiniteSet(S) /\ n \in Nat
    BY FinitelyManyRows
  <1>2. ExistsBijection(1..n, S)
    BY <1>1, FS_CardinalityType
  <1>3. PICK f \in Bijection(1..n, S) : TRUE
    BY <1>2 DEF ExistsBijection
  <1>4. f \in [1..n -> S] /\ IsInjective(f)
    BY <1>3 DEF Bijection, Injection, IsInjective
  <1> DEFINE s == SetToSeq(S)
  <1>5. s \in [1..n -> S] /\ IsInjective(s)
    BY <1>4 DEF SetToSeq
  <1>6. s \in Injection(1..n, S)
    BY <1>5 DEF Injection, IsInjective
  <1>7. IsFiniteSet(1..n) /\ Cardinality(1..n) = n
    BY <1>1, FS_Interval
  <1>8. s \in Surjection(1..n, S)
    BY <1>1, <1>6, <1>7, FS_Injection
  <1>9. QED BY <1>1, <1>5, <1>8 DEF Surjection, Range

-----------------------------------------------------------------------------
(* What the jobs ask for. *)

\* What RateBookConstants says of a job.
LEMMA JobsAre ==
  ASSUME job \in Workloads, NEW r \in Request
  PROVE  /\ Asked(r) \in Items /\ Priced(r) \in Items /\ job[r].price \in Nat /\ job[r].quantity \in Int
         /\ job[r].band \in Bands \cup {NoRow}
         /\ job[r].specs \in Seq(Spec1) /\ Len(job[r].specs) <= MaxBands
  <1>1. /\ job[r].item \in Items /\ job[r].price \in Nat /\ job[r].quantity \in Int
        /\ job[r].band \in Bands \cup {NoRow}
        /\ job[r].specs \in Seq(Spec1) /\ Len(job[r].specs) <= MaxBands
    BY RateBookConstants
  <1>2. r \in 0..N /\ Item(r) \in Items
    BY RowsApart
  <1>3. QED BY <1>1, <1>2 DEF Asked, Priced

\* A band is opened with amounts that are numbers.
LEMMA BandsTyped ==
  ASSUME NEW i \in Items, NEW s \in Spec1
  PROVE  BandOf(i, s) \in PriceRow
  <1>1. s.label \in Nat /\ s.mode \in Mode /\ s.flat \in Int /\ s.min \in Int /\ s.max \in Int /\ s.tiers \in Seq(Label \X Nat)
    BY RateBookConstants DEF Spec1
  <1>2. PricesOf(s) \in SUBSET Int
    <2>1. CASE s.mode = "FLAT"
      BY <1>1, <2>1 DEF PricesOf
    <2>2. CASE s.mode = "RANGE"
      BY <1>1, <2>2 DEF PricesOf
    <2>3. CASE s.mode = "TIERED"
      <3>1. \A k \in DOMAIN s.tiers : s.tiers[k][2] \in Nat
        BY <1>1
      <3>2. PricesOf(s) = {s.tiers[k][2] : k \in DOMAIN s.tiers}
        BY <2>3 DEF PricesOf
      <3>3. QED BY <3>1, <3>2
    <2>4. QED BY <1>1, <2>1, <2>2, <2>3 DEF Mode
  <1>3. QED BY <1>1, <1>2 DEF BandOf, PriceRow

\* A rate is opened with the price asked for.
LEMMA SchedulesTyped ==
  ASSUME NEW i \in Items, NEW price \in Nat
  PROVE  Schedule(i, price) \in PriceRow
  BY DEF Schedule, PriceRow

\* The rows a request opens bear its number and are of its item; the rate is the first.
LEMMA OpensWhat ==
  ASSUME job \in Workloads, NEW r \in Request
  PROVE  /\ Len(Opens(r)) \in Nat
         /\ Is(r, {"RATE"} \cup Makers) => Len(Opens(r)) >= 1 /\ Opens(r)[1][1] = Rate(r)
         /\ \A k \in 1..Len(Opens(r)) :
              LET x == Opens(r)[k][1]
                  y == Opens(r)[k][2]
              IN /\ x \in Prices /\ x[2] = r
                 /\ y \in PriceRow /\ y.item = Priced(r) /\ y.open
                 /\ x \in Rates => y.label = 0
  <1>1. /\ Priced(r) \in Items /\ job[r].price \in Nat
        /\ job[r].specs \in Seq(Spec1) /\ Len(job[r].specs) <= MaxBands
    BY JobsAre
  <1>2. r \in 0..N /\ Rate(r) \in Rates /\ Rate(r)[2] = r
    BY RowsApart
  <1> DEFINE a == NewRate(r)
             b == NewBands(r)
             n == Len(job[r].specs)
  <1>3. n \in Nat /\ DOMAIN job[r].specs = 1..n /\ \A k \in 1..n : job[r].specs[k] \in Spec1
    BY <1>1
  <1>4. b = [k \in 1..n |-> <<Band(r, k), BandOf(Priced(r), job[r].specs[k])>>]
    BY <1>3 DEF NewBands
  <1>5. \A k \in 1..n : /\ b[k][1] \in Bands /\ b[k][1][2] = r
                        /\ b[k][2] \in PriceRow /\ b[k][2].item = Priced(r) /\ b[k][2].open
    <2> SUFFICES ASSUME NEW k \in 1..n
                 PROVE  /\ b[k][1] \in Bands /\ b[k][1][2] = r
                        /\ b[k][2] \in PriceRow /\ b[k][2].item = Priced(r) /\ b[k][2].open
      OBVIOUS
    <2>1. b[k][1] = Band(r, k) /\ b[k][2] = BandOf(Priced(r), job[r].specs[k])
      BY <1>4
    <2>2. k \in 1..MaxBands
      BY <1>1, <1>3, RateBookConstants
    <2>3. Band(r, k) \in Bands /\ Band(r, k)[2] = r
      BY <1>2, <2>2, RowsApart
    <2>4. job[r].specs[k] \in Spec1
      BY <1>3
    <2>5. BandOf(Priced(r), job[r].specs[k]) \in PriceRow
      BY <1>1, <2>4, BandsTyped
    <2>6. QED BY <2>1, <2>3, <2>5 DEF BandOf
  <1>6. b \in Seq(Prices \X PriceRow) /\ Len(b) = n
    <2>1. ASSUME NEW k \in 1..n PROVE b[k] \in Prices \X PriceRow
      <3>1. b[k] = <<Band(r, k), BandOf(Priced(r), job[r].specs[k])>>
        BY <1>4
      <3>2. b[k][1] \in Prices /\ b[k][2] \in PriceRow
        BY <1>5 DEF Prices
      <3>3. QED BY <3>1, <3>2
    <2>2. b \in [1..n -> Prices \X PriceRow]
      BY <1>4, <2>1
    <2>3. QED BY <1>3, <2>2
  <1>7. CASE Is(r, {"RATE"} \cup Makers)
    <2>1. a = <<<<Rate(r), Schedule(Priced(r), job[r].price)>>>>
      BY <1>7 DEF NewRate, Is, Makers
    <2>2. Schedule(Priced(r), job[r].price) \in PriceRow
      BY <1>1, SchedulesTyped
    <2>3. a \in Seq(Prices \X PriceRow) /\ Len(a) = 1 /\ a[1] = <<Rate(r), Schedule(Priced(r), job[r].price)>>
      BY <1>2, <2>1, <2>2 DEF Prices
    <2> HIDE DEF a, b, n
    <2>4. Len(a \o b) = 1 + n /\ (a \o b)[1] = a[1] /\ \A k \in 1..n : (a \o b)[k + 1] = b[k]
      <3>1. /\ Len(a \o b) = Len(a) + Len(b)
            /\ \A k \in 1..(Len(a) + Len(b)) : (a \o b)[k] = IF k <= Len(a) THEN a[k] ELSE b[k - Len(a)]
        BY <1>6, <2>3, ConcatProperties
      <3>2. Len(a \o b) = 1 + n /\ \A k \in 1..(1 + n) : (a \o b)[k] = IF k <= 1 THEN a[k] ELSE b[k - 1]
        BY <1>6, <2>3, <3>1
      <3>3. 1 \in 1..(1 + n) /\ \A k \in 1..n : k + 1 \in 1..(1 + n) /\ ~(k + 1 <= 1) /\ (k + 1) - 1 = k
        BY <1>3
      <3>4. QED BY <3>2, <3>3
    <2>5. Opens(r) = a \o b
      BY DEF Opens, a, b
    <2>6. a[1][1] = Rate(r) /\ a[1][2] = Schedule(Priced(r), job[r].price)
      BY <2>3
    <2>7. /\ a[1][2].item = Priced(r) /\ a[1][2].open /\ a[1][2].label = 0
      BY <2>6 DEF Schedule
    <2>8. \A k \in 1..(1 + n) : k = 1 \/ (k - 1 \in 1..n /\ (a \o b)[k] = b[k - 1])
      <3> SUFFICES ASSUME NEW k \in 1..(1 + n), k # 1 PROVE k - 1 \in 1..n /\ (a \o b)[k] = b[k - 1]
        OBVIOUS
      <3>1. k - 1 \in 1..n /\ (k - 1) + 1 = k
        BY <1>3
      <3>2. QED BY <2>4, <3>1
    <2>9. \A x \in Bands : x \in Prices /\ x \notin Rates
      BY RowsApart DEF Prices
    <2>10. Len(Opens(r)) = 1 + n /\ 1 + n \in Nat /\ 1 + n >= 1 /\ Opens(r)[1] = a[1]
      BY <1>3, <2>4, <2>5
    <2>11. ASSUME NEW k \in 1..Len(Opens(r))
           PROVE LET x == Opens(r)[k][1]
                     y == Opens(r)[k][2]
                 IN /\ x \in Prices /\ x[2] = r
                    /\ y \in PriceRow /\ y.item = Priced(r) /\ y.open
                    /\ x \in Rates => y.label = 0
      <3>1. CASE k = 1
        BY <1>2, <2>2, <2>6, <2>7, <2>10, <3>1 DEF Prices
      <3>2. CASE k # 1
        <4>1. k - 1 \in 1..n /\ Opens(r)[k] = b[k - 1]
          BY <2>5, <2>8, <2>10, <3>2
        <4>2. QED BY <1>5, <2>9, <4>1
      <3>3. QED BY <3>1, <3>2
    <2>12. QED BY <2>6, <2>10, <2>11
  <1>8. CASE ~Is(r, {"RATE"} \cup Makers)
    <2>1. a = <<>>
      BY <1>8 DEF NewRate, Is, Makers
    <2> HIDE DEF b, n
    <2>2. Opens(r) = b
      BY <1>6, <2>1, ConcatEmptySeq DEF Opens, b
    <2>3. \A x \in Bands : x \in Prices /\ x \notin Rates
      BY RowsApart DEF Prices
    <2>4. QED BY <1>3, <1>5, <1>6, <1>8, <2>2, <2>3
  <1>9. QED BY <1>7, <1>8

-----------------------------------------------------------------------------
(* What a step of a request may do to the rows. *)

\* r, which runs, goes on; the others stay where they are.
Moves(r) ==
  /\ Running(r) /\ Base' /\ job' = job
  /\ \A q \in Request \ {r} : at'[q] = at[q] /\ found'[q] = found[q] /\ done'[q] = done[q]

\* No other rate is, or may yet be, open for the item of the rate r inserts.
Fits(r, x) ==
  \A y \in Rates \ {x} : /\ ~Both(row'[x], row[y])
                         /\ holder[y] \notin {0, r} => ~Both(row'[x], shown[y])

\* A row that bears the number of r.
Inserted(r, x) ==
  /\ x[2] = r /\ Typed(x, row'[x])
  /\ x \in Rates => Fits(r, x)
  /\ x \in Demands /\ row'[x] # Absent => Cited(row'[x]) /\ shown[row'[x].cites] # Absent

Updated(x) == row[x] # Absent /\ Typed(x, row'[x]) /\ Follows(x, row[x], row'[x])

Touched(r, x) ==
  /\ holder[x] \in {0, r} /\ holder'[x] = r
  /\ row'[x] = Absent \/ Inserted(r, x) \/ Updated(x)

Kept(x) == row'[x] = row[x] /\ holder'[x] = holder[x]

\* Rows are locked, updated, inserted, deleted.
Touches(r) == shown' = shown /\ \A x \in Row : Kept(x) \/ Touched(r, x)

\* Who was done is.
LEMMA OldStays ==
  ASSUME NEW r \in Request, Moves(r), NEW x \in Row, Old(x)
  PROVE  Old(x)' /\ x[2] # r
  <1>1. x[2] = 0 \/ x[2] \in Request
    BY RowsApart DEF Prices, Request
  <1>2. at[r] # "done"
    BY DEF Moves, Running, Ended
  <1>3. QED BY <1>1, <1>2, RowsApart DEF Old, Moves

\* The kinds and items of rows are fixed.
LEMMA JobsFixed ==
  ASSUME job' = job
  PROVE  /\ \A x : ItemOf(x)' = ItemOf(x)
         /\ \A x, y : PriceTyped(x, y)' <=> PriceTyped(x, y)
         /\ \A x, y : Typed(x, y)' <=> Typed(x, y)
         /\ \A r, kinds : Is(r, kinds)' <=> Is(r, kinds)
         /\ \A r : Asked(r)' = Asked(r) /\ Priced(r)' = Priced(r)
  <1>1. \A r, kinds : Is(r, kinds)' <=> Is(r, kinds)
    BY DEF Is
  <1>2. \A r : Asked(r)' = Asked(r) /\ Priced(r)' = Priced(r)
    BY DEF Asked, Priced, Is
  <1>3. \A x : ItemOf(x)' = ItemOf(x)
    BY <1>2 DEF ItemOf
  <1>4. \A x, y : PriceTyped(x, y)' <=> PriceTyped(x, y)
    BY <1>1, <1>3 DEF PriceTyped
  <1>5. QED BY <1>1, <1>2, <1>3, <1>4 DEF Typed

\* A row of r stays a row of its kind.
LEMMA TouchedRowOK ==
  ASSUME NEW r \in Request, Moves(r), Touches(r), at'[r] \in Ended => HoldsNone(r)',
         NEW x \in Row, RowOK(x)
  PROVE  RowOK(x)'
  <1>1. shown' = shown /\ LocksHold(Row)' /\ job' = job
    BY DEF Touches, Moves, Base
  <1>2. r # 0 /\ x[2] \in 0..N /\ 0..N = {0} \cup Request
    BY RowsApart DEF Request, Prices
  <1>3. Typed(x, row'[x])
    BY DEF Touches, Kept, Touched, Inserted, Updated, RowOK, Typed
  <1>4. Typed(x, shown[x])
    BY DEF RowOK
  <1>5. Typed(x, row[x])' /\ Typed(x, shown[x])'
    BY <1>1, <1>3, <1>4, JobsFixed
  <1>6. holder'[x] # 0 => holder'[x] \in Request /\ Running(holder[x])'
    <2>1. CASE holder'[x] = r
      BY <2>1 DEF HoldsNone, Running
    <2>2. CASE holder'[x] # r
      <3>1. holder'[x] = holder[x]
        BY <2>2 DEF Touches, Kept, Touched
      <3>2. QED BY <2>2, <3>1 DEF RowOK, Running, Moves
    <2>3. QED BY <2>1, <2>2
  <1>7. shown[x] # Absent => Old(x)' /\ x[2] # r
    BY OldStays DEF RowOK
  <1>8. row'[x] # Absent /\ shown[x] = Absent => holder'[x] = x[2] /\ x[2] # 0
    <2>1. CASE Kept(x)
      BY <2>1 DEF Kept, RowOK
    <2>2. CASE Touched(r, x) /\ Inserted(r, x)
      BY <1>2, <2>2 DEF Touched, Inserted
    <2>3. CASE Touched(r, x) /\ Updated(x)
      BY <1>2, <2>3 DEF Touched, Updated, RowOK
    <2>4. QED BY <2>1, <2>2, <2>3 DEF Touches, Touched
  <1>9. row'[x] # Absent /\ shown[x] # Absent => Follows(x, shown[x], row'[x])
    <2>1. CASE Kept(x)
      BY <2>1 DEF Kept, RowOK
    <2>2. CASE Inserted(r, x)
      BY <1>7, <2>2 DEF Inserted
    <2>3. CASE Updated(x)
      BY <2>3 DEF Updated, RowOK, Follows, SameTerms, SameDemand
    <2>4. QED BY <2>1, <2>2, <2>3 DEF Touches, Touched
  <1>10. QED
    BY <1>1, <1>5, <1>6, <1>7, <1>8, <1>9 DEF RowOK, Follows, SameTerms, SameDemand, Running

\* Rates stay apart.
LEMMA TouchedApart ==
  ASSUME NEW r \in Request, Moves(r), Touches(r), LocksHold(Row), \A x \in Row : RowOK(x),
         \A x, y \in Rates : x # y => Apart(x, y),
         NEW x \in Rates, NEW y \in Rates, x # y
  PROVE  Apart(x, y)'
  <1>1. shown' = shown /\ x \in Row /\ y \in Row /\ r # 0
    BY RowsApart DEF Touches, Prices
  <1>2. Apart(x, y) /\ Apart(y, x)
    OBVIOUS
  <1>3. \A z \in {x, y} : /\ holder'[z] = holder[z] \/ (holder[z] \in {0, r} /\ holder'[z] = r)
                          /\ holder[z] = 0 => row[z] = shown[z]
    BY <1>1 DEF Touches, Kept, Touched, LocksHold
  <1>4. \A z \in {x, y} : \/ row'[z] = Absent
                          \/ Inserted(r, z) /\ holder'[z] = r
                          \/ row[z] # Absent /\ row'[z] # Absent /\ row'[z].item = row[z].item /\ (row'[z].open => row[z].open)
    <2> SUFFICES ASSUME NEW z \in {x, y}
                 PROVE  \/ row'[z] = Absent
                        \/ Inserted(r, z) /\ holder'[z] = r
                        \/ row[z] # Absent /\ row'[z] # Absent /\ row'[z].item = row[z].item /\ (row'[z].open => row[z].open)
      OBVIOUS
    <2>1. z \in Prices
      BY DEF Prices
    <2>2. QED BY <1>1, <2>1 DEF Touches, Kept, Touched, Updated, Follows, SameTerms
  <1>5. \A z, w \in {x, y} : z # w /\ Inserted(r, z) => ~Both(row'[z], row[w]) /\ (holder[w] \notin {0, r} => ~Both(row'[z], shown[w]))
    BY DEF Inserted, Fits
  <1>6. ~(Inserted(r, x) /\ Inserted(r, y))
    BY RowsApart DEF Inserted
  <1>7. \A z, w \in {x, y} : z # w /\ Inserted(r, z) => ~Both(row'[z], row'[w])
    <2> SUFFICES ASSUME NEW z \in {x, y}, NEW w \in {x, y}, z # w, Inserted(r, z) PROVE ~Both(row'[z], row'[w])
      OBVIOUS
    <2>1. ~Inserted(r, w) /\ ~Both(row'[z], row[w])
      BY <1>5, <1>6
    <2>2. QED BY <1>4, <2>1 DEF Both
  <1>8. ~Both(row'[x], row'[y])
    <2>1. CASE Inserted(r, x) \/ Inserted(r, y)
      BY <1>7, <2>1 DEF Both
    <2>2. CASE ~Inserted(r, x) /\ ~Inserted(r, y)
      BY <1>2, <1>4, <2>2 DEF Both, Apart
    <2>3. QED BY <2>1, <2>2
  <1>9. holder'[x] # holder'[y] => ~Both(row'[x], shown[y])
    <2> SUFFICES ASSUME holder'[x] # holder'[y] PROVE ~Both(row'[x], shown[y])
      OBVIOUS
    <2>1. CASE Inserted(r, x) /\ holder'[x] = r
      <3>1. holder[y] # r /\ ~Both(row'[x], row[y])
        BY <1>3, <1>5, <2>1
      <3>2. CASE holder[y] = 0
        BY <1>3, <3>1, <3>2
      <3>3. CASE holder[y] # 0
        BY <1>5, <2>1, <3>1, <3>3
      <3>4. QED BY <3>2, <3>3
    <2>2. CASE row'[x] # Absent /\ row[x] # Absent /\ row'[x].item = row[x].item /\ (row'[x].open => row[x].open)
      <3>1. Both(row'[x], shown[y]) => Both(row[x], shown[y])
        BY <2>2 DEF Both
      <3>2. CASE holder[x] # holder[y]
        BY <1>2, <3>1, <3>2 DEF Apart
      <3>3. CASE holder[x] = holder[y] /\ holder[x] = 0
        BY <1>2, <1>3, <3>1, <3>3 DEF Apart
      <3>4. CASE holder[x] = holder[y] /\ holder[x] # 0
        BY <1>3, <3>4
      <3>5. QED BY <3>2, <3>3, <3>4
    <2>3. CASE row'[x] = Absent
      BY <2>3 DEF Both
    <2>4. QED BY <1>4, <2>1, <2>2, <2>3
  <1>10. QED BY <1>1, <1>2, <1>8, <1>9 DEF Apart, Both

\* A demand agrees with the row it cites, whatever becomes of that row.
LEMMA CitedStays ==
  ASSUME NEW r \in Request, Moves(r), Touches(r), NEW d \in DemandRow, Cited(d)
  PROVE  Cited(d)'
  <1> DEFINE c == d.cites
  <1>1. c \in Prices /\ c \in Row
    BY RowsApart DEF DemandRow, Prices
  <1>2. Old(c)' /\ c[2] # r
    BY <1>1, OldStays DEF Cited
  <1>3. Agrees(d, row[c]) /\ Agrees(d, shown[c]) /\ d.amount = d.unit * d.quantity
    BY DEF Cited
  <1>4. shown'[c] = shown[c]
    BY DEF Touches
  <1>5. Agrees(d, row'[c])
    <2>1. CASE row'[c] = row[c]
      BY <1>3, <2>1
    <2>2. CASE row'[c] = Absent
      BY <2>2 DEF Agrees
    <2>3. CASE Updated(c)
      BY <1>1, <1>3, <2>3 DEF Updated, Follows, SameTerms, Agrees
    <2>4. ~Inserted(r, c)
      BY <1>2 DEF Inserted
    <2>5. QED BY <1>1, <2>1, <2>2, <2>3, <2>4 DEF Touches, Kept, Touched
  <1>6. QED BY <1>2, <1>3, <1>4, <1>5 DEF Cited, Agrees

\* Demands agree with what they cite.
LEMMA TouchedDemand ==
  ASSUME NEW r \in Request, Moves(r), Touches(r), \A x \in Row : RowOK(x),
         NEW x \in Demands, DemandOK(x)
  PROVE  DemandOK(x)'
  <1>1. shown' = shown /\ x \in Row
    BY RowsApart DEF Touches
  <1>2. shown[x] # Absent => shown[x] \in DemandRow /\ Cited(shown[x]) /\ shown[shown[x].cites] # Absent
    BY <1>1 DEF RowOK, Typed, DemandOK
  <1>3. shown[x] # Absent => Cited(shown[x])'
    <2>1. CASE shown[x] # Absent
      <3>1. PICK e \in DemandRow : e = shown[x]
        BY <1>2, <2>1
      <3>2. Cited(e)
        BY <1>2, <2>1, <3>1
      <3>3. Cited(e)'
        BY <3>2, CitedStays
      <3>4. e = shown'[x]
        BY <1>1, <3>1
      <3>5. QED BY <3>3, <3>4 DEF Cited, Agrees, Old
    <2>2. QED BY <2>1
  <1>4. row'[x] # Absent => row'[x] \in DemandRow
    BY <1>1 DEF Touches, Kept, Touched, Inserted, Updated, RowOK, Typed
  <1>5. row'[x] # Absent => Cited(row'[x])
    <2>1. CASE Kept(x)
      BY <2>1 DEF Kept, DemandOK
    <2>2. CASE Inserted(r, x)
      BY <2>2 DEF Inserted
    <2>3. CASE Updated(x) /\ row'[x] # Absent
      <3>1. Cited(row[x]) /\ SameDemand(row[x], row'[x])
        BY <2>3 DEF Updated, DemandOK, Follows
      <3>2. QED BY <3>1 DEF SameDemand, Cited, Agrees
    <2>4. QED BY <1>1, <2>1, <2>2, <2>3 DEF Touches, Touched
  <1>6. row'[x] # Absent => Cited(row[x])'
    <2>1. CASE row'[x] # Absent
      <3>1. PICK e \in DemandRow : e = row'[x]
        BY <1>4, <2>1
      <3>2. Cited(e)
        BY <1>5, <2>1, <3>1
      <3>3. Cited(e)'
        BY <3>2, CitedStays
      <3>4. QED BY <3>1, <3>3 DEF Cited, Agrees, Old
    <2>2. QED BY <2>1
  <1>7. QED BY <1>1, <1>2, <1>3, <1>6 DEF DemandOK

\* What is on the rows holds on through a step that commits nothing.
LEMMA TouchesKeepRows ==
  ASSUME NEW r \in Request, Moves(r), Touches(r), at'[r] \in Ended => HoldsNone(r)', Base, OnRows
  PROVE  OnRows'
  <1>1. shown' = shown /\ LocksHold(Row)
    BY DEF Touches, Base
  <1>2. ASSUME NEW x \in Row PROVE RowOK(x)'
    BY TouchedRowOK DEF OnRows
  <1>3. ASSUME NEW x \in Rates, NEW y \in Rates, x # y PROVE Apart(x, y)'
    <2>1. (\A z \in Row : RowOK(z)) /\ \A z, w \in Rates : z # w => Apart(z, w)
      BY DEF OnRows
    <2>2. QED BY <1>1, <1>3, <2>1, TouchedApart
  <1>4. ASSUME NEW x \in Demands PROVE DemandOK(x)'
    BY TouchedDemand DEF OnRows
  <1>5. \A i \in Items : HasRate(i)'
    BY <1>1 DEF OnRows, HasRate, IsOpen
  <1>6. \A x, y \in Bands : Together(x, y)'
    BY <1>1 DEF OnRows, Together
  <1>7. QED BY <1>2, <1>3, <1>4, <1>5, <1>6 DEF OnRows

\* A rollback.
Undoes(r) == Undo(HeldBy(r)) /\ at'[r] = "failed"

\* What a rollback makes of each row.
LEMMA UndoesRows ==
  ASSUME NEW r \in Request, Base, Undoes(r)
  PROVE  /\ shown' = shown
         /\ \A x \in Row : IF holder[x] = r THEN row'[x] = shown[x] /\ holder'[x] = 0
                           ELSE row'[x] = row[x] /\ holder'[x] = holder[x]
  <1>1. RowsAre(Row) /\ Undo(HeldBy(r))
    BY DEF Base, Undoes
  <1>2. \A x \in Row : x \in HeldBy(r) <=> holder[x] = r
    BY <1>1 DEF HeldBy, RowsAre
  <1>3. QED BY <1>1, <1>2, UndoDoes

\* Demands agree with what they cite after a rollback.
LEMMA UndoneDemand ==
  ASSUME NEW r \in Request, Moves(r), Base, OnRows, Undoes(r), NEW x \in Demands
  PROVE  DemandOK(x)'
  <1>1. shown' = shown /\ x \in Row
    BY UndoesRows, RowsApart
  <1>2. \A y \in Row : row'[y] = row[y] \/ row'[y] = shown[y]
    BY UndoesRows
  <1>3. RowOK(x) /\ DemandOK(x)
    BY <1>1 DEF OnRows
  <1>4. ASSUME NEW d \in DemandRow, Cited(d) PROVE Cited(d)'
    <2>1. d.cites \in Row
      BY RowsApart DEF DemandRow, Prices
    <2>2. Old(d.cites)'
      BY <1>4, <2>1, OldStays DEF Cited
    <2>3. Agrees(d, row'[d.cites]) /\ Agrees(d, shown'[d.cites])
      BY <1>1, <1>2, <1>4, <2>1 DEF Cited
    <2>4. QED BY <1>4, <2>2, <2>3 DEF Cited, Agrees
  <1>5. \A y \in {row[x], shown[x]} : y # Absent => y \in DemandRow /\ Cited(y)
    BY <1>3 DEF RowOK, Typed, DemandOK
  <1>6. ASSUME NEW y, y \in {row[x], shown[x]}, y # Absent PROVE \E e \in DemandRow : e = y /\ Cited(e)'
    <2>1. PICK e \in DemandRow : e = y
      BY <1>5, <1>6
    <2>2. Cited(e)
      BY <1>5, <1>6, <2>1
    <2>3. QED BY <1>4, <2>1, <2>2
  <1>7. row'[x] # Absent => Cited(row[x])'
    <2>1. CASE row'[x] # Absent
      <3>1. row'[x] \in {row[x], shown[x]}
        BY <1>1, <1>2
      <3>2. PICK e \in DemandRow : e = row'[x] /\ Cited(e)'
        BY <1>6, <2>1, <3>1
      <3>3. QED BY <3>2 DEF Cited, Agrees, Old
    <2>2. QED BY <2>1
  <1>8. shown'[x] # Absent => Cited(shown[x])'
    <2>1. CASE shown'[x] # Absent
      <3>1. shown'[x] \in {row[x], shown[x]}
        BY <1>1
      <3>2. PICK e \in DemandRow : e = shown'[x] /\ Cited(e)'
        BY <1>6, <2>1, <3>1
      <3>3. QED BY <3>2 DEF Cited, Agrees, Old
    <2>2. QED BY <2>1
  <1>9. QED BY <1>1, <1>3, <1>7, <1>8 DEF DemandOK

\* What is on the rows holds on through a rollback.
LEMMA UndoKeepsRows ==
  ASSUME NEW r \in Request, Moves(r), Base, OnRows, Undoes(r)
  PROVE  OnRows' /\ HoldsNone(r)'
  <1>1. shown' = shown
    BY UndoesRows
  <1>2. \A x \in Row : IF holder[x] = r THEN row'[x] = shown[x] /\ holder'[x] = 0
                       ELSE row'[x] = row[x] /\ holder'[x] = holder[x]
    BY UndoesRows
  <1>3. job' = job /\ r # 0
    BY RowsApart DEF Moves
  <1>4. ASSUME NEW x \in Row PROVE RowOK(x)'
    <2>1. RowOK(x)
      BY DEF OnRows
    <2>2. Typed(x, row'[x]) /\ Typed(x, shown'[x])
      BY <1>1, <1>2, <2>1 DEF RowOK
    <2>3. Typed(x, row[x])' /\ Typed(x, shown[x])'
      BY <1>3, <2>2, JobsFixed
    <2>4. holder'[x] # 0 => holder'[x] \in Request /\ Running(holder[x])'
      BY <1>2, <2>1 DEF RowOK, Running, Moves
    <2>5. shown[x] # Absent => Old(x)'
      BY <2>1, OldStays DEF RowOK
    <2>6. row'[x] # Absent /\ shown'[x] = Absent => holder'[x] = x[2] /\ x[2] # 0
      BY <1>1, <1>2, <2>1 DEF RowOK
    <2>7. row'[x] # Absent /\ shown[x] # Absent => Follows(x, shown[x], row'[x])
      BY <1>2, <2>1 DEF RowOK, Follows, SameTerms, SameDemand
    <2>8. QED BY <1>1, <2>3, <2>4, <2>5, <2>6, <2>7 DEF RowOK, Follows, SameTerms, SameDemand, Running
  <1>5. ASSUME NEW x \in Rates, NEW y \in Rates, x # y PROVE Apart(x, y)'
    <2>1. x \in Row /\ y \in Row
      BY RowsApart DEF Prices
    <2>2. Apart(x, y) /\ Apart(y, x)
      BY <1>5 DEF OnRows
    <2>3. QED BY <1>1, <1>2, <2>1, <2>2 DEF Apart, Both
  <1>6. ASSUME NEW x \in Demands PROVE DemandOK(x)'
    BY UndoneDemand
  <1>7. \A i \in Items : HasRate(i)'
    BY <1>1 DEF OnRows, HasRate, IsOpen
  <1>8. \A x, y \in Bands : Together(x, y)'
    BY <1>1 DEF OnRows, Together
  <1>9. HoldsNone(r)'
    BY <1>2, <1>3 DEF HoldsNone
  <1>10. QED BY <1>4, <1>5, <1>6, <1>7, <1>8, <1>9 DEF OnRows

-----------------------------------------------------------------------------
(* Commits. *)

Commits(r) == at[r] = "commit" /\ at'[r] = "done" /\ Publish(r) /\ ReferencesHold(r)

\* What a commit makes of each row.
LEMMA CommitsRows ==
  ASSUME NEW r \in Request, Base, Commits(r)
  PROVE  /\ row' = row
         /\ \A x \in Row : IF holder[x] = r THEN shown'[x] = row[x] /\ holder'[x] = 0
                           ELSE shown'[x] = shown[x] /\ holder'[x] = holder[x]
  BY PublishDoes DEF Base, Commits

\* The deferred foreign keys of the assessments.
LEMMA DemandsRefer ==
  ASSUME NEW r \in Request, Base, Commits(r), NEW x \in Demands
  PROVE  /\ holder[x] = r /\ row[x] # Absent /\ shown[x] = Absent => row[row[x].cites] # Absent
         /\ There(r, x) /\ holder[Sees(r, x).cites] = r => row[Sees(r, x).cites] # Absent
  <1>1. x[1] = "assessment" /\ x \in Row
    BY RowsApart DEF Demands, Demand
  <1>2. \A y : RefersTo(x, y) = {y.item, y.cites}
    BY <1>1 DEF RefersTo
  <1>3. /\ \A z \in Needed(r) : row[z] # Absent
        /\ There(r, x) => \A y \in RefersTo(x, Sees(r, x)) : holder[y] = r => row[y] # Absent
    BY <1>1 DEF Commits, ReferencesHold
  <1>4. holder[x] = r /\ row[x] # Absent /\ shown[x] = Absent => row[x].cites \in Needed(r)
    <2>1. SUFFICES ASSUME holder[x] = r, row[x] # Absent, shown[x] = Absent PROVE row[x].cites \in Needed(r)
      OBVIOUS
    <2>2. x \in HeldBy(r)
      BY <1>1, <2>1 DEF HeldBy, Base, RowsAre
    <2>3. row[x].cites \in RefersTo(x, row[x])
      BY <1>2
    <2>4. QED BY <2>1, <2>2, <2>3 DEF Needed
  <1>5. QED BY <1>2, <1>3, <1>4

\* A committed assessment agrees with the row it cites, which is there.
LEMMA CommittedDemand ==
  ASSUME NEW r \in Request, Moves(r), Base, OnRows, Commits(r), NEW x \in Demands
  PROVE  DemandOK(x)'
  <1>1. x \in Row /\ RowOK(x) /\ DemandOK(x)
    BY RowsApart DEF OnRows
  <1>2. /\ row' = row
        /\ \A y \in Row : IF holder[y] = r THEN shown'[y] = row[y] /\ holder'[y] = 0
                          ELSE shown'[y] = shown[y] /\ holder'[y] = holder[y]
    BY CommitsRows
  <1>3. ASSUME NEW d \in DemandRow, Cited(d) PROVE Cited(d)'
    <2>1. d.cites \in Row
      BY RowsApart DEF DemandRow, Prices
    <2>2. Old(d.cites)'
      BY <1>3, <2>1, OldStays DEF Cited
    <2>3. Agrees(d, row'[d.cites]) /\ Agrees(d, shown'[d.cites])
      BY <1>2, <1>3, <2>1 DEF Cited
    <2>4. QED BY <1>3, <2>2, <2>3 DEF Cited, Agrees
  <1>4. \A y \in {row[x], shown[x]} : y # Absent => y \in DemandRow /\ Cited(y)
    BY <1>1 DEF RowOK, Typed, DemandOK
  <1>5. ASSUME NEW y, y \in {row[x], shown[x]}, y # Absent PROVE \E e \in DemandRow : e = y /\ Cited(e)'
    <2>1. PICK e \in DemandRow : e = y
      BY <1>4, <1>5
    <2>2. Cited(e)
      BY <1>4, <1>5, <2>1
    <2>3. QED BY <1>3, <2>1, <2>2
  <1>6. row'[x] # Absent => Cited(row[x])'
    <2>1. CASE row'[x] # Absent
      <3>1. PICK e \in DemandRow : e = row'[x] /\ Cited(e)'
        BY <1>2, <1>5, <2>1
      <3>2. QED BY <3>1 DEF Cited, Agrees, Old
    <2>2. QED BY <2>1
  <1>7. shown'[x] \in {row[x], shown[x]} /\ shown'[x] = Sees(r, x)
    BY <1>1, <1>2 DEF Sees
  <1>8. shown'[x] # Absent => Cited(shown[x])'
    <2>1. CASE shown'[x] # Absent
      <3>1. PICK e \in DemandRow : e = shown'[x] /\ Cited(e)'
        BY <1>5, <1>7, <2>1
      <3>2. QED BY <3>1 DEF Cited, Agrees, Old
    <2>2. QED BY <2>1
  <1>9. ASSUME shown'[x] # Absent PROVE shown'[shown'[x].cites] # Absent
    <2> DEFINE d == shown'[x]
               y == d.cites
    <2>1. d \in DemandRow /\ Cited(d)
      BY <1>4, <1>7, <1>9
    <2>2. y \in Prices /\ y \in Row
      BY <2>1, RowsApart DEF DemandRow, Prices
    <2>3. CASE holder[y] = r
      <3>1. There(r, x) /\ holder[Sees(r, x).cites] = r
        BY <1>7, <1>9, <2>3 DEF There
      <3>2. row[y] # Absent
        BY <1>7, <3>1, DemandsRefer
      <3>3. QED BY <1>2, <2>2, <2>3, <3>2
    <2>4. CASE holder[y] # r /\ shown[x] # Absent
      <3>1. y = shown[x].cites
        <4>1. CASE holder[x] = r
          BY <1>1, <1>2, <1>9, <2>4, <4>1 DEF RowOK, Follows, SameDemand
        <4>2. CASE holder[x] # r
          BY <1>1, <1>2, <4>2
        <4>3. QED BY <4>1, <4>2
      <3>2. QED BY <1>1, <1>2, <2>2, <2>4, <3>1 DEF DemandOK
    <2>5. CASE holder[y] # r /\ shown[x] = Absent
      <3>1. holder[x] = r /\ d = row[x] /\ row[x] # Absent
        BY <1>1, <1>2, <1>9, <2>5
      <3>2. row[y] # Absent
        BY <2>5, <3>1, DemandsRefer
      <3>3. Old(y) /\ RowOK(y)
        BY <2>1, <2>2 DEF Cited, OnRows
      <3>4. shown[y] # Absent
        <4>1. SUFFICES ASSUME shown[y] = Absent PROVE FALSE
          OBVIOUS
        <4>2. holder[y] = y[2] /\ y[2] # 0 /\ Running(holder[y])
          BY <3>2, <3>3, <4>1 DEF RowOK
        <4>3. QED BY <3>3, <4>2 DEF Old, Running, Ended
      <3>5. QED BY <1>2, <2>2, <2>5, <3>4
    <2>6. QED BY <2>3, <2>4, <2>5
  <1>10. QED BY <1>6, <1>8, <1>9 DEF DemandOK

\* A committed item has an open rate: that of before, or the one r puts in its place.
LEMMA CommittedRate ==
  ASSUME NEW r \in Request, Base, OnRows, Local(r), Commits(r), NEW i \in Items, shown'[i] # Absent
  PROVE  \E x \in Rates : IsOpen(x, i)'
  <1>1. /\ row' = row
        /\ \A y \in Row : IF holder[y] = r THEN shown'[y] = row[y] /\ holder'[y] = 0
                          ELSE shown'[y] = shown[y] /\ holder'[y] = holder[y]
    BY CommitsRows
  <1>2. i \in Row /\ RowOK(i) /\ HasRate(i)
    BY RowsApart DEF OnRows
  <1>3. r \in 0..N /\ r # 0 /\ Rate(r) \in Rates /\ Rate(r) \in Prices /\ Rate(r) \in Row /\ Rate(r)[2] = r
    BY RowsApart DEF Prices
  <1>4. at[r] = "commit"
    BY DEF Commits
  <1>5. ASSUME Is(r, {"RATE"} \cup Makers), Priced(r) = i PROVE IsOpen(Rate(r), i)'
    <2>1. Holds(r, Rate(r))
      BY <1>4, <1>5 DEF Local, Opening
    <2>2. row[Rate(r)].open
      BY <1>3, <2>1 DEF Local, Opening
    <2>3. RowOK(Rate(r)) /\ ItemOf(Rate(r)) = i
      BY <1>3, <1>5 DEF OnRows, ItemOf
    <2>4. row[Rate(r)].item = i
      BY <1>3, <2>1, <2>3 DEF RowOK, Typed, PriceTyped, Holds
    <2>5. shown'[Rate(r)] = row[Rate(r)]
      BY <1>1, <1>3, <2>1 DEF Holds
    <2>6. QED BY <2>1, <2>2, <2>4, <2>5 DEF IsOpen, Holds
  <1>6. CASE shown[i] = Absent
    <2>1. holder[i] = r /\ row[i] # Absent /\ i[2] = r
      BY <1>1, <1>2, <1>6 DEF RowOK
    <2>2. i = Item(r)
      BY <2>1, RowsApart
    <2>3. Is(r, Makers)
      BY <2>1, <2>2 DEF Local, Opening, Holds
    <2>4. Priced(r) = i /\ Is(r, {"RATE"} \cup Makers)
      BY <2>2, <2>3 DEF Priced, Is, Makers
    <2>5. QED BY <1>3, <1>5, <2>4
  <1>7. CASE shown[i] # Absent
    <2>1. PICK x \in Rates : IsOpen(x, i)
      BY <1>2, <1>7 DEF HasRate
    <2>2. x \in Prices /\ x \in Row /\ RowOK(x) /\ x \notin Bands
      BY RowsApart DEF Prices, OnRows
    <2>3. shown[x] # Absent /\ shown[x].open /\ shown[x].item = i /\ ItemOf(x) = i
      BY <2>1, <2>2 DEF IsOpen, RowOK, Typed, PriceTyped
    <2>4. CASE holder[x] # r
      <3>1. IsOpen(x, i)'
        BY <1>1, <2>2, <2>3, <2>4 DEF IsOpen
      <3>2. QED BY <3>1
    <2>5. CASE holder[x] = r /\ row[x] = Absent
      <3>1. Deleted(r, x)
        BY <2>3, <2>5 DEF Deleted
      <3>2. Deleted(r, i)
        BY <1>4, <1>7, <2>3, <3>1 DEF Local, Clearance, Clearing
      <3>3. QED BY <1>1, <1>2, <3>2 DEF Deleted
    <2>6. CASE holder[x] = r /\ row[x] # Absent /\ row[x].open
      <3>1. IsOpen(x, i)'
        BY <1>1, <2>2, <2>3, <2>6 DEF IsOpen, RowOK, Typed, PriceTyped
      <3>2. QED BY <3>1
    <2>7. CASE holder[x] = r /\ row[x] # Absent /\ ~row[x].open
      <3>1. Is(r, Listers) /\ x \in Range(found[r])
        BY <2>2, <2>3, <2>7 DEF Local, Closing, Closed, Holds
      <3>2. Is(r, {"RATE"}) /\ Asked(r) = i
        BY <1>4, <2>2, <2>3, <3>1 DEF Local, FoundOK, Is, Listers
      <3>3. Priced(r) = i /\ Is(r, {"RATE"} \cup Makers)
        BY <3>2 DEF Priced, Is
      <3>4. QED BY <1>3, <1>5, <3>3
    <2>8. QED BY <2>4, <2>5, <2>6, <2>7
  <1>8. QED BY <1>6, <1>7

\* The bands of one replacement are closed together.
LEMMA CommittedBands ==
  ASSUME NEW r \in Request, Base, OnRows, Local(r), Commits(r), NEW x \in Bands, NEW y \in Bands
  PROVE  Together(x, y)'
  <1>1. SUFFICES ASSUME x[2] = y[2], shown'[x] # Absent, shown'[y] # Absent
                 PROVE  shown'[x].open = shown'[y].open
    BY DEF Together
  <1>2. /\ row' = row
        /\ \A z \in Row : IF holder[z] = r THEN shown'[z] = row[z] /\ holder'[z] = 0
                          ELSE shown'[z] = shown[z] /\ holder'[z] = holder[z]
    BY CommitsRows
  <1>3. \A z \in {x, y} : z \in Row /\ z \in Prices /\ z \notin Rates /\ RowOK(z)
    BY RowsApart DEF OnRows, Prices
  <1>4. at[r] = "commit"
    BY DEF Commits
  <1>5. \A z \in {x, y} : shown[z] = Absent => z[2] = r /\ z[2] # 0 /\ shown'[z].open
    <2>1. SUFFICES ASSUME NEW z \in {x, y}, shown[z] = Absent PROVE z[2] = r /\ z[2] # 0 /\ shown'[z].open
      OBVIOUS
    <2>2. holder[z] = r /\ row[z] # Absent /\ shown'[z] = row[z]
      BY <1>1, <1>2, <1>3, <2>1
    <2>3. z[2] = r /\ z[2] # 0
      BY <1>3, <2>1, <2>2 DEF RowOK
    <2>4. QED BY <1>3, <2>2, <2>3 DEF Local, Opening, Holds
  <1>6. \A z \in {x, y} : shown[z] # Absent => z[2] # r \/ z[2] = 0
    BY <1>3, <1>4 DEF RowOK, Old
  <1>7. \A z \in {x, y} : shown'[z] \in PriceRow /\ shown'[z].open \in BOOLEAN
    BY <1>1, <1>2, <1>3 DEF RowOK, Typed, PriceTyped, PriceRow
  <1>8. CASE shown[x] = Absent \/ shown[y] = Absent
    <2>1. shown[x] = Absent /\ shown[y] = Absent
      BY <1>1, <1>5, <1>6, <1>8
    <2>2. QED BY <1>5, <1>7, <2>1
  <1>9. CASE shown[x] # Absent /\ shown[y] # Absent
    <2>1. shown[x].open = shown[y].open /\ shown[x].open \in BOOLEAN
      BY <1>1, <1>3, <1>9 DEF OnRows, Together, RowOK, Typed, PriceTyped, PriceRow
    <2>2. \A z \in {x, y} : shown'[z].open => shown[z].open
      BY <1>1, <1>2, <1>3, <1>9 DEF RowOK, Follows
    <2>3. \A z, w \in {x, y} : shown[z].open /\ ~shown'[z].open => ~shown'[w].open
      <3>1. SUFFICES ASSUME NEW z \in {x, y}, NEW w \in {x, y}, shown[z].open, ~shown'[z].open
                     PROVE  ~shown'[w].open
        OBVIOUS
      <3>2. holder[z] = r /\ shown'[z] = row[z]
        BY <1>2, <1>3, <3>1
      <3>3. Closed(r, z)
        BY <1>1, <3>1, <3>2 DEF Closed, Holds
      <3>4. Is(r, Listers) /\ z \in Range(found[r])
        BY <1>3, <1>9, <3>1, <3>3 DEF Local, Closing
      <3>5. Is(r, {"BANDS", "SEED"})
        BY <1>3, <1>4, <3>4 DEF Local, FoundOK, Is, Listers
      <3>6. w \in Range(found[r])
        BY <1>1, <1>4, <1>9, <3>4, <3>5 DEF Local, Whole
      <3>7. Closed(r, w)
        BY <1>3, <1>4, <3>2, <3>4, <3>6 DEF Local, Closing, HoldsNone
      <3>8. QED BY <1>2, <1>3, <3>7 DEF Closed, Holds
    <2>4. QED BY <1>7, <2>1, <2>2, <2>3
  <1>10. QED BY <1>8, <1>9

\* What is on the rows holds on through a commit.
LEMMA CommitKeepsRows ==
  ASSUME NEW r \in Request, Moves(r), Base, OnRows, Local(r), Commits(r)
  PROVE  OnRows' /\ HoldsNone(r)'
  <1>1. /\ row' = row
        /\ \A z \in Row : IF holder[z] = r THEN shown'[z] = row[z] /\ holder'[z] = 0
                          ELSE shown'[z] = shown[z] /\ holder'[z] = holder[z]
    BY CommitsRows
  <1>2. job' = job /\ r # 0 /\ at'[r] = "done"
    BY RowsApart DEF Moves, Commits
  <1>3. ASSUME NEW x \in Row PROVE RowOK(x)'
    <2>1. RowOK(x)
      BY DEF OnRows
    <2>2. Typed(x, row'[x]) /\ Typed(x, shown'[x])
      BY <1>1, <2>1 DEF RowOK
    <2>3. Typed(x, row[x])' /\ Typed(x, shown[x])'
      BY <1>2, <2>2, JobsFixed
    <2>4. holder'[x] # 0 => holder'[x] \in Request /\ Running(holder[x])'
      BY <1>1, <2>1 DEF RowOK, Running, Moves
    <2>5. shown'[x] # Absent => Old(x)'
      <3>1. CASE shown[x] # Absent
        BY <2>1, <3>1, OldStays DEF RowOK
      <3>2. CASE shown[x] = Absent /\ shown'[x] # Absent
        BY <1>1, <1>2, <2>1, <3>2 DEF RowOK, Old
      <3>3. QED BY <3>1, <3>2
    <2>6. row'[x] # Absent /\ shown'[x] = Absent => holder'[x] = x[2] /\ x[2] # 0
      BY <1>1, <2>1 DEF RowOK
    <2>7. row'[x] # Absent /\ shown'[x] # Absent => Follows(x, shown'[x], row'[x])
      BY <1>1, <2>1 DEF RowOK, Follows, SameTerms, SameDemand
    <2>8. QED BY <2>3, <2>4, <2>5, <2>6, <2>7 DEF RowOK, Follows, SameTerms, SameDemand, Running
  <1>4. ASSUME NEW x \in Rates, NEW y \in Rates, x # y PROVE Apart(x, y)'
    <2>1. x \in Row /\ y \in Row
      BY RowsApart DEF Prices
    <2>2. Apart(x, y) /\ Apart(y, x)
      BY <1>4 DEF OnRows
    <2>3. QED BY <1>1, <2>1, <2>2 DEF Apart, Both
  <1>5. ASSUME NEW x \in Demands PROVE DemandOK(x)'
    BY CommittedDemand
  <1>6. ASSUME NEW i \in Items PROVE HasRate(i)'
    BY CommittedRate DEF HasRate
  <1>7. ASSUME NEW x \in Bands, NEW y \in Bands PROVE Together(x, y)'
    BY CommittedBands
  <1>8. HoldsNone(r)'
    BY <1>1, <1>2 DEF HoldsNone
  <1>9. QED BY <1>3, <1>4, <1>5, <1>6, <1>7, <1>8 DEF OnRows

-----------------------------------------------------------------------------
(* What the other requests know stays true. *)

\* r leaves what others hold alone, and what it commits anew bears its number.
Leaves(r) ==
  \A x \in Row : /\ \A q \in Request \ {r} :
                      /\ holder'[x] = q <=> holder[x] = q
                      /\ holder[x] = q => row'[x] = row[x] /\ shown'[x] = shown[x]
                 /\ shown'[x] # Absent /\ shown[x] = Absent => x[2] = r /\ r # 0

\* So does any step.
LEMMA StepsLeave ==
  ASSUME NEW r \in Request, Base, OnRows, Touches(r) \/ Undoes(r) \/ Commits(r)
  PROVE  Leaves(r)
  <1>1. r # 0 /\ 0 \notin Request
    BY RowsApart
  <1>2. CASE Touches(r)
    BY <1>1, <1>2 DEF Touches, Kept, Touched, Leaves
  <1>3. CASE Undoes(r)
    BY <1>1, <1>3, UndoesRows DEF Leaves
  <1>4. CASE Commits(r)
    <2>1. \A x \in Row : IF holder[x] = r THEN shown'[x] = row[x] /\ holder'[x] = 0
                         ELSE shown'[x] = shown[x] /\ holder'[x] = holder[x]
      BY <1>4, CommitsRows
    <2>2. row' = row
      BY <1>4, CommitsRows
    <2>3. \A x \in Row : RowOK(x)
      BY DEF OnRows
    <2>4. QED BY <1>1, <2>1, <2>2, <2>3 DEF Leaves, RowOK
  <1>5. QED BY <1>2, <1>3, <1>4

\* A rate's item is as old as the rate.
LEMMA ItemsAreOlder ==
  ASSUME Base, OnRows, \A q \in Request : Local(q), NEW x \in Prices, shown[x] # Absent
  PROVE  Old(ItemOf(x)) /\ ItemOf(x) \in Items /\ ItemOf(x) \in Row
  <1>1. x \in Row /\ x[2] \in 0..N /\ 0..N = {0} \cup Request
    BY RowsApart DEF Prices, Request
  <1>2. RowOK(x)
    BY <1>1 DEF OnRows
  <1>3. Old(x) /\ (x[2] # 0 => Is(x[2], Listers \cup Makers))
    BY <1>2 DEF RowOK, Typed, PriceTyped
  <1>4. CASE x[2] = 0
    <2>1. ItemOf(x) = Item(0) /\ 0 \in 0..N
      BY <1>1, <1>4 DEF ItemOf
    <2>2. QED BY <2>1, RowsApart DEF Old
  <1>5. CASE x[2] # 0
    <2>1. x[2] \in Request /\ at[x[2]] = "done" /\ ItemOf(x) = Priced(x[2])
      BY <1>1, <1>3, <1>5 DEF Old, ItemOf
    <2>2. CASE Is(x[2], Makers)
      <3>1. ItemOf(x) = Item(x[2])
        BY <2>1, <2>2 DEF Priced, Is, Makers
      <3>2. QED BY <1>1, <2>1, <3>1, RowsApart DEF Old
    <2>3. CASE Is(x[2], Listers)
      <3>1. ItemOf(x) = Asked(x[2]) /\ Asked(x[2]) \in Items
        BY <2>1, <2>3, JobsAre DEF Priced, Is, Listers, Base
      <3>2. Old(Asked(x[2]))
        BY <2>1, <2>3 DEF Local, AtItsStep, Is, Listers
      <3>3. QED BY <3>1, <3>2, RowsApart
    <2>4. QED BY <1>3, <1>5, <2>2, <2>3 DEF Is, Listers, Makers
  <1>6. QED BY <1>4, <1>5

\* What another request knows of itself is not touched.
LEMMA OthersKeepLocal ==
  ASSUME NEW r \in Request, Moves(r), Leaves(r), Base, OnRows, \A s \in Request : Local(s),
         NEW q \in Request, q # r
  PROVE  Local(q)'
  <1>1. /\ Local(q) /\ job' = job /\ at'[q] = at[q] /\ found'[q] = found[q] /\ done'[q] = done[q]
        /\ found[q] \in Seq(Row)
    BY DEF Moves, Base
  <1>2. \A x \in Row : /\ holder'[x] = q <=> holder[x] = q
                       /\ holder[x] = q => row'[x] = row[x] /\ shown'[x] = shown[x]
    BY DEF Leaves
  <1>3. \A x \in Row : shown'[x] # Absent /\ shown[x] = Absent => x[2] = r /\ r # 0
    BY DEF Leaves
  <1>4. Range(found[q])' = Range(found[q]) /\ Range(found[q]) \subseteq Row
    BY <1>1 DEF Range
  <1>5. /\ \A x : ItemOf(x)' = ItemOf(x)
        /\ \A kinds : Is(q, kinds)' <=> Is(q, kinds)
        /\ Asked(q)' = Asked(q) /\ Asked(q) \in Items
    BY <1>1, JobsFixed, JobsAre DEF Base
  <1>6. Items \subseteq Row /\ Prices \subseteq Row /\ Rates \subseteq Prices /\ Bands \subseteq Prices
    BY RowsApart DEF Prices
  <1>7. \A x \in Row : Old(x) => Old(x)' /\ x[2] # r
    BY OldStays
  <1>8. /\ \A x \in Row : Holds(q, x)' <=> Holds(q, x)
        /\ \A x \in Row : Closed(q, x)' <=> Closed(q, x)
        /\ \A x \in Row : Deleted(q, x)' <=> Deleted(q, x)
        /\ HoldsNone(q)' <=> HoldsNone(q)
    BY <1>2 DEF Holds, Closed, Deleted, HoldsNone
  <1>9. AtItsStep(q)'
    <2>1. Demand(q) \in Row
      BY RowsApart
    <2>2. QED BY <1>1, <1>5, <1>6, <1>7, <1>8, <2>1 DEF Local, AtItsStep, Clearing, Ended
  <1>10. FoundOK(q)'
    BY <1>1, <1>4, <1>5, <1>7 DEF Local, FoundOK
  <1>11. Closing(q)'
    <2>1. (at[q] = "close" => done[q] <= Len(found[q]) /\ \A k \in 1..done[q] : Closed(q, found[q][k]))'
      <3>1. done[q] \in Nat /\ Len(found[q]) \in Nat /\ \A k \in 1..Len(found[q]) : found[q][k] \in Row
        BY <1>1 DEF Base
      <3>2. at[q] = "close" => done[q] <= Len(found[q]) /\ \A k \in 1..done[q] : Closed(q, found[q][k])
        BY <1>1 DEF Local, Closing
      <3>3. at[q] = "close" => \A k \in 1..done[q] : found[q][k] \in Row
        BY <3>1, <3>2
      <3>4. QED BY <1>1, <1>2, <3>2, <3>3 DEF Closed, Holds
    <2>2. at[q] \in {"open", "commit"} /\ Is(q, Listers) => (\A x \in Range(found[q]) : Closed(q, x)') \/ (at[q] = "commit" /\ HoldsNone(q)')
      BY <1>1, <1>4, <1>8 DEF Local, Closing
    <2>3. \A x \in Prices : Closed(q, x)' /\ shown'[x] # Absent /\ shown'[x].open => Is(q, Listers) /\ x \in Range(found[q])
      <3>1. SUFFICES ASSUME NEW x \in Prices, Closed(q, x)', shown'[x] # Absent, shown'[x].open
                     PROVE  Is(q, Listers) /\ x \in Range(found[q])
        OBVIOUS
      <3>2. Closed(q, x) /\ shown'[x] = shown[x]
        BY <1>2, <1>6, <1>8, <3>1 DEF Closed, Holds
      <3>3. QED BY <1>1, <3>1, <3>2 DEF Local, Closing
    <2>4. (at[q] \in {"open", "commit"} /\ Is(q, Listers) => (\A x \in Range(found[q]) : Closed(q, x)) \/ (at[q] = "commit" /\ HoldsNone(q)))'
      BY <1>1, <1>4, <1>5, <2>2
    <2>5. (\A x \in Prices : Closed(q, x) /\ shown[x] # Absent /\ shown[x].open => Is(q, Listers) /\ x \in Range(found[q]))'
      BY <1>4, <1>5, <2>3
    <2>6. QED BY <2>1, <2>4, <2>5 DEF Closing
  <1>12. Whole(q)'
    <2>1. SUFFICES ASSUME Is(q, {"BANDS", "SEED"}), at[q] \in {"close", "open", "commit"},
                          NEW x \in Range(found[q]), NEW y \in Bands, x[2] = y[2], shown'[y] # Absent
                   PROVE  y \in Range(found[q])
      BY <1>1, <1>4, <1>5 DEF Whole
    <2>2. Old(x) /\ x \in Row
      BY <1>1, <1>4, <2>1 DEF Local, FoundOK
    <2>3. x[2] # r
      BY <1>7, <2>2
    <2>4. shown[y] # Absent
      BY <1>3, <1>6, <2>1, <2>3
    <2>5. QED BY <1>1, <2>1, <2>4 DEF Local, Whole
  <1>13. Opening(q)'
    <2>1. q \in 0..N /\ Rate(q) \in Row /\ Item(q) \in Row
      BY <1>6, RowsApart
    <2>2. \A x \in Prices : Holds(q, x)' /\ x[2] = q => row'[x].open
      BY <1>1, <1>2, <1>6, <1>8 DEF Local, Opening, Holds
    <2>3. Is(q, {"RATE"} \cup Makers) /\ (at[q] = "commit" \/ (at[q] = "open" /\ done[q] >= 1)) => Holds(q, Rate(q))'
      BY <1>1, <1>8, <2>1 DEF Local, Opening
    <2>4. Holds(q, Item(q))' => Is(q, Makers) /\ at[q] \in {"open", "commit"}
      BY <1>1, <1>8, <2>1 DEF Local, Opening
    <2>5. QED BY <1>1, <1>5, <2>2, <2>3, <2>4 DEF Opening
  <1>14. Clearance(q)'
    <2>1. ASSUME NEW x \in Rates, Deleted(q, x)'
          PROVE  /\ Is(q, {"RESEED"})'
                 /\ (shown[ItemOf(x)] # Absent =>
                       IF at[q] \in Clearing THEN ItemOf(x) \in Range(found[q]) ELSE Deleted(q, ItemOf(x)))'
      <3>1. Deleted(q, x)
        BY <1>6, <1>8, <2>1
      <3>2. shown[x] # Absent /\ x \in Prices
        BY <1>6, <3>1 DEF Deleted
      <3> DEFINE i == ItemOf(x)
      <3>3. Old(i) /\ i \in Row
        BY <3>2, ItemsAreOlder
      <3>4. i' = i
        BY <1>5
      <3>5. /\ Is(q, {"RESEED"})
            /\ shown[i] # Absent => IF at[q] \in Clearing THEN i \in Range(found[q]) ELSE Deleted(q, i)
        BY <1>1, <3>1 DEF Local, Clearance
      <3>6. shown'[i] # Absent => shown[i] # Absent
        BY <1>3, <1>7, <3>3
      <3>7. Deleted(q, i) => holder'[i] = q /\ row'[i] = Absent /\ shown'[i] # Absent
        BY <1>2, <3>3 DEF Deleted
      <3>8. (shown[i] # Absent => IF at[q] \in Clearing THEN i \in Range(found[q]) ELSE Deleted(q, i))'
        BY <1>1, <1>4, <3>4, <3>5, <3>6, <3>7 DEF Deleted, Clearing
      <3>9. QED BY <1>5, <3>5, <3>8
    <2>2. (Is(q, Makers) /\ at[q] \in Clearing => \A x \in Row : holder[x] = q => row[x] = Absent /\ x \notin Items)'
      BY <1>1, <1>2, <1>5, <1>6 DEF Local, Clearance, Clearing
    <2>3. (at[q] \in {"bands", "rates"} => \A x \in Range(found[q]) : x \in Prices => ItemOf(x) \in Range(found[q]))'
      BY <1>1, <1>4, <1>5 DEF Local, Clearance
    <2>4. (at[q] = "items" => \A x \in Range(found[q]) : x \notin Rates)'
      BY <1>1, <1>4 DEF Local, Clearance
    <2>5. QED BY <2>1, <2>2, <2>3, <2>4 DEF Clearance
  <1>15. QED BY <1>9, <1>10, <1>11, <1>12, <1>13, <1>14 DEF Local

-----------------------------------------------------------------------------
(* The steps, one by one. *)

\* One statement, or none.
Statement(r) ==
  \/ \E x \in Row : \E version : Put(r, x, version)
  \/ \E new : Write(r, new)
  \/ \E xs : Undo(xs)
  \/ Publish(r)
  \/ ReadOnly

\* A step takes a request on.
LEMMA GoMoves ==
  ASSUME NEW r \in Request, Base, Running(r), Statement(r), NEW step \in Steps, Go(r, step), job' = job,
         NEW s \in Seq(Row), found' = [found EXCEPT ![r] = s], NEW n \in Nat, done' = [done EXCEPT ![r] = n]
  PROVE  Moves(r) /\ at'[r] = step /\ found'[r] = s /\ done'[r] = n
  <1>1. RowsAre(Row)' /\ LocksHold(Row)'
    <2>1. RowsAre(Row) /\ LocksHold(Row) /\ r # 0
      BY RowsApart DEF Base
    <2>2. QED BY <2>1, LocksKept DEF Statement
  <1>2. at \in [Request -> Steps] /\ found \in [Request -> Seq(Row)] /\ done \in [Request -> Nat] /\ job \in Workloads
    BY DEF Base
  <1>3. at' = [at EXCEPT ![r] = step]
    BY DEF Go
  <1>4. at' \in [Request -> Steps] /\ found' \in [Request -> Seq(Row)] /\ done' \in [Request -> Nat] /\ job' \in Workloads
    BY <1>2, <1>3
  <1>5. \A q \in Request \ {r} : at'[q] = at[q] /\ found'[q] = found[q] /\ done'[q] = done[q]
    BY <1>2, <1>3
  <1>6. at'[r] = step /\ found'[r] = s /\ done'[r] = n
    BY <1>2, <1>3
  <1>7. QED BY <1>1, <1>4, <1>5, <1>6 DEF Moves, Base

\* A step that takes a request on to the next of its parts.
LEMMA TurnMoves ==
  ASSUME NEW r \in Request, Base, Running(r), Statement(r), NEW step \in Steps, Turn(r, step)
  PROVE  Moves(r) /\ at'[r] = step /\ found'[r] = found[r] /\ done'[r] = 0 /\ job' = job
  <1>1. job' = job /\ Go(r, step) /\ done' = [done EXCEPT ![r] = 0] /\ found' = found
    BY DEF Turn, Keep
  <1>2. found \in [Request -> Seq(Row)] /\ found[r] \in Seq(Row)
    BY DEF Base
  <1>3. found' = [found EXCEPT ![r] = found[r]]
    BY <1>1, <1>2
  <1>4. QED BY <1>1, <1>2, <1>3, GoMoves

\* What a request that holds nothing knows of itself.
LEMMA EmptyHandedLocal ==
  ASSUME NEW r \in Request, Base', HoldsNone(r)', AtItsStep(r)', FoundOK(r)', Whole(r)',
         at'[r] = "close" => done'[r] = 0,
         at'[r] # "open" /\ (Is(r, {"RATE"} \cup Makers) => at'[r] # "commit"),
         at'[r] \in {"bands", "rates", "items"} => \A x \in Range(found'[r]) : x \notin Prices,
         job' = job
  PROVE  Local(r)'
  <1>1. \A x \in Row : ~Holds(r, x)' /\ ~Closed(r, x)' /\ ~Deleted(r, x)'
    BY DEF HoldsNone, Holds, Closed, Deleted
  <1>2. Prices \subseteq Row /\ Rates \subseteq Prices /\ Item(r) \in Row
    BY RowsApart DEF Prices
  <1>3. Closing(r)'
    <2>1. (at[r] = "close" => done[r] <= Len(found[r]) /\ \A k \in 1..done[r] : Closed(r, found[r][k]))'
      <3>1. Len(found'[r]) \in Nat
        BY DEF Base
      <3>2. at'[r] = "close" => done'[r] <= Len(found'[r]) /\ 1..done'[r] = {}
        BY <3>1
      <3>3. QED BY <3>2
    <2>2. QED BY <1>1, <1>2, <2>1 DEF Closing
  <1>4. Opening(r)'
    <2>1. ~(Is(r, {"RATE"} \cup Makers) /\ (at[r] = "commit" \/ (at[r] = "open" /\ done[r] >= 1)))'
      BY JobsFixed
    <2>2. QED BY <1>1, <1>2, <2>1 DEF Opening
  <1>5. Clearance(r)'
    <2>1. (Is(r, Makers) /\ at[r] \in Clearing => \A x \in Row : holder[x] = r => row[x] = Absent /\ x \notin Items)'
      BY DEF HoldsNone
    <2>2. (at[r] \in {"bands", "rates"} => \A x \in Range(found[r]) : x \in Prices => ItemOf(x) \in Range(found[r]))'
      OBVIOUS
    <2>3. (at[r] = "items" => \A x \in Range(found[r]) : x \notin Rates)'
      BY <1>2
    <2>4. QED BY <1>1, <1>2, <2>1, <2>2, <2>3 DEF Clearance
  <1>6. QED BY <1>3, <1>4, <1>5 DEF Local

\* What a step has to do to keep the invariant.
Keeps(r) ==
  /\ Moves(r) /\ Local(r)'
  /\ (Touches(r) /\ (at'[r] \in Ended => HoldsNone(r)')) \/ Undoes(r) \/ Commits(r)

\* Reading keeps the rows.
LEMMA ReadingKeeps ==
  ASSUME NEW r \in Request, Moves(r), ReadOnly, Local(r)', at'[r] \in Ended => HoldsNone(r)
  PROVE  Keeps(r)
  BY DEF ReadOnly, rows, Keeps, Touches, Kept, HoldsNone

\* A step of a request that holds nothing and writes nothing.
LEMMA EmptyHandedKeeps ==
  ASSUME NEW r \in Request, Moves(r), ReadOnly, HoldsNone(r), AtItsStep(r)', FoundOK(r)', Whole(r)',
         at'[r] = "close" => done'[r] = 0,
         at'[r] # "open" /\ (Is(r, {"RATE"} \cup Makers) => at'[r] # "commit"),
         at'[r] \in {"bands", "rates", "items"} => \A x \in Range(found'[r]) : x \notin Prices
  PROVE  Keeps(r)
  <1>1. HoldsNone(r)' /\ job' = job /\ Base'
    BY DEF ReadOnly, rows, HoldsNone, Moves
  <1>2. Local(r)'
    BY <1>1, EmptyHandedLocal
  <1>3. QED BY <1>2, ReadingKeeps

\* An error takes back what the request did.
LEMMA RollbackKeeps ==
  ASSUME NEW r \in Request, RateInv, Running(r), at[r] # "list", Rollback(r)
  PROVE  Keeps(r)
  <1>1. Base /\ OnRows /\ Local(r)
    BY DEF RateInv
  <1>2. Moves(r) /\ at'[r] = "failed" /\ found'[r] = found[r] /\ job' = job
    <2>1. Statement(r) /\ Turn(r, "failed") /\ "failed" \in Steps
      BY DEF Rollback, Statement, Steps, Ended
    <2>2. QED BY <1>1, <2>1, TurnMoves
  <1>3. Undoes(r)
    BY <1>2 DEF Rollback, Undoes
  <1>4. HoldsNone(r)' /\ Base'
    BY <1>1, <1>2, <1>3, UndoKeepsRows DEF Moves
  <1>5. AtItsStep(r)'
    BY <1>2, <1>4 DEF AtItsStep, Ended
  <1>6. FoundOK(r)'
    <2>1. Range(found[r])' = Range(found[r]) /\ Range(found[r]) \subseteq Row
      BY <1>1, <1>2 DEF Range, Base
    <2>2. \A x \in Range(found[r]) : Old(x)'
      BY <1>1, <1>2, <2>1, OldStays DEF Local, FoundOK
    <2>3. QED BY <1>1, <1>2, <2>1, <2>2, JobsFixed DEF Local, FoundOK
  <1>7. Whole(r)'
    BY <1>2 DEF Whole
  <1>8. Local(r)'
    BY <1>2, <1>4, <1>5, <1>6, <1>7, EmptyHandedLocal
  <1>9. QED BY <1>2, <1>3, <1>8 DEF Keeps

\* An UPDATE or INSERT of one row touches it, and no other.
LEMMA PutTouches ==
  ASSUME NEW r \in Request, Base, NEW x \in Row, NEW version, Put(r, x, version), Inserted(r, x) \/ Updated(x)
  PROVE  /\ Touches(r) /\ shown' = shown /\ row'[x] = version /\ holder'[x] = r
         /\ \A y \in Row \ {x} : Kept(y)
  <1>1. /\ holder[x] \in {0, r} /\ row'[x] = version /\ holder'[x] = r /\ shown' = shown
        /\ \A y \in Row \ {x} : Kept(y)
    BY PutDoes DEF Base, Kept
  <1>2. Touched(r, x)
    BY <1>1 DEF Touched
  <1>3. QED BY <1>1, <1>2 DEF Touches

\* So do those of several.
LEMMA WriteTouches ==
  ASSUME NEW r \in Request, Base, NEW new, Write(r, new),
         \A x \in Row : x \in DOMAIN new => new[x] = Absent \/ Updated(x)
  PROVE  /\ Touches(r) /\ shown' = shown
         /\ \A x \in Row : IF x \in DOMAIN new THEN row'[x] = new[x] /\ holder'[x] = r ELSE Kept(x)
  <1>1. /\ \A x \in DOMAIN new : holder[x] \in {0, r}
        /\ \A x \in Row : IF x \in DOMAIN new THEN row'[x] = new[x] /\ holder'[x] = r ELSE Kept(x)
        /\ shown' = shown
    BY WriteDoes DEF Base, Kept
  <1>2. ASSUME NEW x \in Row PROVE Kept(x) \/ Touched(r, x)
    BY <1>1 DEF Touched
  <1>3. QED BY <1>1, <1>2 DEF Touches

\* What a request that holds nothing sees is committed, and typed.
LEMMA SeesCommitted ==
  ASSUME NEW r, Base, OnRows, HoldsNone(r), NEW x \in Row
  PROVE  /\ Sees(r, x) = shown[x] /\ Typed(x, shown[x])
         /\ There(r, x) => shown[x] # Absent /\ Old(x)
  BY DEF Sees, There, HoldsNone, OnRows, RowOK

\* A request is of one of the kinds.
LEMMA KindsAre ==
  ASSUME Base, NEW r \in Request
  PROVE  job[r].kind \in Kinds
  BY RateBookConstants DEF Base

\* What a step that keeps the list of r knows of it.
LEMMA FoundStays ==
  ASSUME NEW r \in Request, RateInv, Moves(r), found'[r] = found[r], at[r] # "list"
  PROVE  FoundOK(r)' /\ Range(found[r])' = Range(found[r]) /\ Range(found[r]) \subseteq Row
  <1>1. Base /\ Local(r) /\ job' = job
    BY DEF RateInv, Moves
  <1>2. Range(found[r])' = Range(found[r]) /\ Range(found[r]) \subseteq Row
    BY <1>1 DEF Range, Base
  <1>3. \A x \in Range(found[r]) : Old(x)'
    BY <1>1, <1>2, OldStays DEF Local, FoundOK
  <1>4. QED BY <1>1, <1>2, <1>3, JobsFixed DEF Local, FoundOK

\* The item asked for, once found, stays old.
LEMMA AskedStays ==
  ASSUME NEW r \in Request, Base, Moves(r), Old(Asked(r))
  PROVE  Old(Asked(r))'
  <1>1. Asked(r) \in Row /\ Asked(r)' = Asked(r)
    BY JobsAre, JobsFixed, RowsApart DEF Base, Moves
  <1>2. PICK i \in Row : i = Asked(r)
    BY <1>1
  <1>3. Old(i)'
    BY <1>2, OldStays
  <1>4. QED BY <1>1, <1>2, <1>3 DEF Old

\* What a request that neither opens nor closes prices knows of itself.
LEMMA QuietLocal ==
  ASSUME NEW r \in Request, RateInv, Moves(r), shown' = shown, ~Is(r, Listers \cup Makers), at[r] # "list",
         found'[r] = found[r],
         \A x \in Prices : Kept(x), \A x \in Items : Kept(x) \/ Updated(x), AtItsStep(r)',
         at'[r] \notin {"close"} \cup Clearing
  PROVE  Local(r)'
  <1>1. Base /\ OnRows /\ Local(r) /\ job' = job
    BY DEF RateInv, Moves
  <1>2. \A kinds : Is(r, kinds)' <=> Is(r, kinds)
    BY <1>1, JobsFixed
  <1>3. FoundOK(r)'
    BY FoundStays
  <1>4. \A x \in Prices : /\ Holds(r, x)' <=> Holds(r, x)
                          /\ Closed(r, x)' <=> Closed(r, x)
                          /\ Deleted(r, x)' <=> Deleted(r, x)
                          /\ row'[x] = row[x] /\ shown'[x] = shown[x]
    BY DEF Kept, Holds, Closed, Deleted
  <1>5. ~Holds(r, Item(r))'
    <2>1. Item(r) \in Items /\ Item(r) \in Row /\ Item(r)[2] = r /\ r # 0
      BY RowsApart
    <2>2. ~Holds(r, Item(r))
      BY <1>1 DEF Local, Opening, Is
    <2>3. RowOK(Item(r))
      BY <1>1, <2>1 DEF OnRows
    <2>4. ~Old(Item(r))
      BY <2>1 DEF Old, Moves, Running, Ended
    <2>5. row[Item(r)] = Absent
      BY <2>1, <2>2, <2>3, <2>4 DEF RowOK, Holds
    <2>6. QED BY <2>1, <2>5 DEF Kept, Updated, Holds
  <1>6. ~Is(r, Listers) /\ ~Is(r, Makers) /\ ~Is(r, {"RATE"} \cup Makers) /\ ~Is(r, {"BANDS", "SEED"}) /\ ~Is(r, {"RESEED"})
    BY DEF Is, Listers, Makers
  <1>7. Closing(r)'
    <2>1. ~(at[r] = "close")' /\ ~Is(r, Listers)'
      BY <1>2, <1>6
    <2>2. (\A x \in Prices : Closed(r, x) /\ shown[x] # Absent /\ shown[x].open => Is(r, Listers) /\ x \in Range(found[r]))'
      BY <1>1, <1>2, <1>4, <1>6 DEF Local, Closing
    <2>3. QED BY <2>1, <2>2 DEF Closing
  <1>8. Whole(r)'
    BY <1>2, <1>6 DEF Whole
  <1>9. Opening(r)'
    <2>1. (\A x \in Prices : Holds(r, x) /\ x[2] = r => row[x].open)'
      BY <1>1, <1>4 DEF Local, Opening
    <2>2. QED BY <1>2, <1>5, <1>6, <2>1 DEF Opening
  <1>10. Clearance(r)'
    <2>1. (\A x \in Rates : ~Deleted(r, x))'
      BY <1>1, <1>4, <1>6 DEF Local, Clearance, Prices
    <2>2. ~(at[r] \in Clearing)'
      OBVIOUS
    <2>3. QED BY <1>2, <1>6, <2>1, <2>2 DEF Clearance, Clearing
  <1>11. QED BY <1>3, <1>7, <1>8, <1>9, <1>10 DEF Local

\* get_object and the band of a bill line: what is found was committed.
LEMMA FindItemKeeps ==
  ASSUME NEW r \in Request, RateInv, FindItem(r)
  PROVE  Keeps(r)
  <1>1. Base /\ OnRows /\ Local(r) /\ at[r] = "find" /\ Running(r)
    BY DEF RateInv, FindItem, Running, Ended
  <1>2. HoldsNone(r) /\ ~Is(r, {"SETTLE"})
    BY <1>1 DEF Local, AtItsStep
  <1>3. job[r].kind \in {"RATE", "BANDS", "SEED", "RETIRE", "ENROL", "BILL"}
    <2>1. ~Is(r, Makers)
      BY <1>1 DEF Local, AtItsStep, Ended, Clearing
    <2>2. QED BY <1>1, <1>2, <2>1, KindsAre DEF Is, Makers, Kinds
  <1>4. Asked(r) \in Items /\ Asked(r) \in Row /\ job[r].band \in Bands \cup {NoRow}
    BY <1>1, JobsAre, RowsApart DEF Base
  <1> DEFINE b == job[r].band
             fine == /\ There(r, Asked(r)) /\ Sees(r, Asked(r)).active
                     /\ Is(r, {"BANDS"}) => ValidBands(job[r].specs)
                     /\ b # NoRow => There(r, b) /\ Sees(r, b).item = Asked(r)
             s == IF fine /\ b # NoRow /\ Sees(r, b).open THEN <<b>> ELSE <<>>
             step == IF fine THEN Second[job[r].kind] ELSE "refused"
  <1>5. found' = [found EXCEPT ![r] = s] /\ Go(r, step) /\ ReadOnly /\ job' = job /\ done' = done
    BY DEF FindItem
  <1>6. fine => /\ Is(r, {"RATE", "BANDS", "SEED"}) => step = "list"
                /\ Is(r, {"RETIRE"}) => step = "check"
                /\ Is(r, {"ENROL", "BILL"}) => step = "price"
    BY DEF Second, Is
  <1>7. step \in {"list", "check", "price", "refused"}
    BY <1>3, <1>6 DEF Is
  <1>8. fine => shown[Asked(r)] # Absent /\ Old(Asked(r))
    BY <1>1, <1>2, <1>4, SeesCommitted
  <1>9. fine /\ b # NoRow => b \in Bands /\ b \in Row /\ Old(b) /\ ItemOf(b) = Asked(r)
    <2>1. b # NoRow => b \in Bands /\ b \in Row /\ b \in Prices
      BY <1>4, RowsApart DEF Prices
    <2>2. fine /\ b # NoRow => Sees(r, b) = shown[b] /\ Typed(b, shown[b]) /\ shown[b] # Absent /\ Old(b)
      BY <1>1, <1>2, <2>1, SeesCommitted
    <2>3. QED BY <2>1, <2>2 DEF Typed, PriceTyped
  <1>10. s \in Seq(Row) /\ \A x \in Range(s) : fine /\ b # NoRow /\ x = b
    <2>1. CASE fine /\ b # NoRow /\ Sees(r, b).open
      <3>1. s = <<b>> /\ Range(<<b>>) = {b}
        BY <2>1 DEF Range
      <3>2. QED BY <1>9, <2>1, <3>1
    <2>2. CASE ~(fine /\ b # NoRow /\ Sees(r, b).open)
      <3>1. s = <<>> /\ Range(<<>>) = {}
        BY <2>2 DEF Range
      <3>2. QED BY <3>1
    <2>3. QED BY <2>1, <2>2
  <1> HIDE DEF b, fine, s, step
  <1>11. Moves(r) /\ at'[r] = step /\ found'[r] = s
    <2>1. step \in Steps /\ Statement(r)
      BY <1>5, <1>7 DEF Steps, Ended, Statement
    <2>2. done[r] \in Nat /\ done' = [done EXCEPT ![r] = done[r]]
      BY <1>1, <1>5 DEF Base
    <2>3. QED BY <1>1, <1>5, <1>10, <2>1, <2>2, GoMoves
  <1>12. HoldsNone(r)' /\ \A kinds : Is(r, kinds)' <=> Is(r, kinds)
    BY <1>2, <1>5, JobsFixed DEF HoldsNone, ReadOnly, rows
  <1>13. step # "refused" => fine
    BY DEF step
  <1>14. AtItsStep(r)'
    <2>1. step # "refused" => Old(Asked(r))'
      BY <1>1, <1>8, <1>11, <1>13, AskedStays
    <2>2. /\ step = "list" => Is(r, Listers)
          /\ step = "price" => Is(r, {"ENROL", "BILL"})
          /\ ~Is(r, Makers)
      BY <1>3, <1>6, <1>7, <1>13 DEF Is, Listers, Makers
    <2>3. QED BY <1>7, <1>11, <1>12, <2>1, <2>2 DEF AtItsStep
  <1>15. FoundOK(r)'
    <2>1. \A x \in Range(s) : x \in Row /\ Old(x) /\ x \in Bands /\ ItemOf(x) = Asked(r) /\ (Is(r, {"RATE"}) => step = "list")
      BY <1>6, <1>9, <1>10 DEF Is
    <2>2. Range(found[r])' = Range(s)
      BY <1>11
    <2>3. \A x \in Range(s) : Old(x)'
      BY <1>11, <2>1, OldStays
    <2>4. QED BY <1>5, <1>11, <2>1, <2>2, <2>3, JobsFixed DEF FoundOK
  <1>16. Whole(r)'
    BY <1>7, <1>11 DEF Whole
  <1>17. QED BY <1>2, <1>5, <1>7, <1>11, <1>14, <1>15, <1>16, EmptyHandedKeeps

\* The open rows of an item are listed: of a replacement set all or none.
LEMMA ListOpenKeeps ==
  ASSUME NEW r \in Request, RateInv, ListOpen(r)
  PROVE  Keeps(r)
  <1>1. Base /\ OnRows /\ Local(r) /\ at[r] = "list" /\ Running(r)
    BY DEF RateInv, ListOpen, Running, Ended
  <1>2. HoldsNone(r) /\ Is(r, Listers) /\ Old(Asked(r))
    BY <1>1 DEF Local, AtItsStep, Is, Listers
  <1> DEFINE S == ToClose(r)
             step == IF Is(r, {"SEED"}) /\ ActiveBands(r, Asked(r)) # {} THEN "commit" ELSE "close"
  <1>3. /\ S \subseteq Row /\ (Is(r, {"RATE"}) => S \subseteq Rates) /\ (~Is(r, {"RATE"}) => S \subseteq Bands)
        /\ \A x \in S : There(r, x) /\ Sees(r, x).item = Asked(r) /\ Sees(r, x).open
    BY RowsApart DEF ToClose, CurrentRate, ActiveBands, OpenIn, Prices
  <1>4. ~Is(r, {"RATE"}) => S = {x \in Bands : There(r, x) /\ Sees(r, x).item = Asked(r) /\ Sees(r, x).open}
    BY DEF ToClose, ActiveBands, OpenIn
  <1>5. PICK s \in Listings(r, S) : found' = [found EXCEPT ![r] = s]
    BY DEF ListOpen
  <1>6. s \in Seq(Row) /\ Range(s) = S
    BY <1>3, <1>5, ListingLists
  <1>7. Go(r, step) /\ done' = [done EXCEPT ![r] = 0] /\ ReadOnly /\ job' = job
    BY DEF ListOpen
  <1>8. step \in {"commit", "close"}
    OBVIOUS
  <1> HIDE DEF S, step
  <1>9. \A x \in S : /\ x \in Row /\ x \in Prices /\ Old(x) /\ ItemOf(x) = Asked(r)
                     /\ shown[x] # Absent /\ shown[x].open
    <2>1. \A x \in S : x \in Row /\ x \in Prices
      BY <1>3 DEF Prices
    <2>2. \A x \in S : Sees(r, x) = shown[x] /\ Typed(x, shown[x]) /\ shown[x] # Absent /\ Old(x)
      BY <1>1, <1>2, <1>3, <2>1, SeesCommitted
    <2>3. QED BY <1>3, <2>1, <2>2 DEF Typed, PriceTyped
  <1>10. Moves(r) /\ at'[r] = step /\ found'[r] = s /\ done'[r] = 0
    <2>1. step \in Steps /\ Statement(r) /\ 0 \in Nat
      BY <1>7, <1>8 DEF Steps, Ended, Statement
    <2>2. QED BY <1>1, <1>5, <1>6, <1>7, <2>1, GoMoves
  <1>11. HoldsNone(r)' /\ \A kinds : Is(r, kinds)' <=> Is(r, kinds)
    BY <1>2, <1>7, JobsFixed DEF HoldsNone, ReadOnly, rows
  <1>12. ~Is(r, {"RATE"} \cup Makers) \/ step # "commit"
    BY <1>2 DEF Is, Listers, Makers, step
  <1>13. ~Is(r, Makers) /\ ~Is(r, {"ENROL", "BILL"})
    BY <1>2 DEF Is, Listers, Makers
  <1>14. AtItsStep(r)'
    <2>1. Old(Asked(r))'
      BY <1>1, <1>2, <1>10, AskedStays
    <2>2. QED BY <1>2, <1>8, <1>10, <1>11, <1>13, <2>1 DEF AtItsStep
  <1>15. Range(found[r])' = S
    BY <1>6, <1>10
  <1>16. FoundOK(r)'
    <2>1. \A x \in S : Old(x)' /\ ItemOf(x) = Asked(r)
      BY <1>9, <1>10, OldStays
    <2>2. (Is(r, {"RATE"}) => S \subseteq Rates) /\ (Is(r, {"BANDS", "SEED", "ENROL", "BILL"}) => S \subseteq Bands)
      BY <1>3 DEF Is
    <2>3. QED BY <1>7, <1>11, <1>15, <2>1, <2>2, JobsFixed DEF FoundOK
  <1>17. Whole(r)'
    <2>1. SUFFICES ASSUME Is(r, {"BANDS", "SEED"}), NEW x \in S, NEW y \in Bands, x[2] = y[2], shown[y] # Absent
                   PROVE  y \in S
      BY <1>7, <1>11, <1>15 DEF Whole, ReadOnly, rows
    <2>2. x \in Bands /\ y \in Row /\ y \in Prices
      BY <1>3, <2>1, RowsApart DEF Is, Prices
    <2>3. shown[y].open
      BY <1>1, <1>9, <2>1, <2>2 DEF OnRows, Together
    <2>4. Sees(r, y) = shown[y] /\ Typed(y, shown[y])
      BY <1>1, <1>2, <2>2, SeesCommitted
    <2>5. ItemOf(y) = ItemOf(x)
      BY <2>1 DEF ItemOf
    <2>6. Sees(r, y).item = Asked(r) /\ There(r, y)
      BY <1>9, <2>1, <2>2, <2>4, <2>5 DEF Typed, PriceTyped, There
    <2>7. ~Is(r, {"RATE"})
      BY <2>1 DEF Is
    <2>8. QED BY <1>4, <2>1, <2>3, <2>4, <2>6, <2>7
  <1>18. QED BY <1>2, <1>7, <1>8, <1>10, <1>11, <1>12, <1>14, <1>16, <1>17, EmptyHandedKeeps

\* A request that goes on within a part.
LEMMA CountMoves ==
  ASSUME NEW r \in Request, Base, Running(r), Statement(r), Count(r)
  PROVE  Moves(r) /\ at'[r] = at[r] /\ found'[r] = found[r] /\ done'[r] = done[r] + 1 /\ job' = job
  <1>1. job' = job /\ at' = at /\ found' = found /\ done' = [done EXCEPT ![r] = done[r] + 1]
    BY DEF Count, Keep
  <1>2. at[r] \in Steps /\ found[r] \in Seq(Row) /\ done[r] + 1 \in Nat
    BY DEF Base
  <1>3. Go(r, at[r]) /\ found' = [found EXCEPT ![r] = found[r]]
    BY <1>1 DEF Base, Go
  <1>4. QED BY <1>1, <1>2, <1>3, GoMoves

\* One more of the listed rows is closed.
LEMMA ClosingOne ==
  ASSUME NEW r \in Request, RateInv, at[r] = "close", done[r] < Len(found[r]),
         NEW x, x = found[r][done[r] + 1], row[x] # Absent,
         Put(r, x, [row[x] EXCEPT !.open = FALSE]), Count(r)
  PROVE  Keeps(r)
  <1>1. Base /\ OnRows /\ Local(r) /\ Running(r)
    BY DEF RateInv, Running, Ended
  <1>2. Is(r, Listers) /\ Old(Asked(r))
    BY <1>1 DEF Local, AtItsStep, Is, Listers
  <1>3. found[r] \in Seq(Row) /\ done[r] \in Nat /\ done[r] + 1 \in DOMAIN found[r] /\ Len(found[r]) \in Nat
    BY <1>1 DEF Base
  <1>4. x \in Range(found[r]) /\ x \in Row
    BY <1>3 DEF Range
  <1>5. x \in Prices /\ Old(x)
    BY <1>1, <1>2, <1>4 DEF Local, FoundOK, Is, Listers, Prices
  <1>6. row[x] \in PriceRow /\ Typed(x, row[x])
    BY <1>1, <1>4, <1>5 DEF OnRows, RowOK, Typed, PriceTyped
  <1> DEFINE y == [row[x] EXCEPT !.open = FALSE]
  <1>7. y \in PriceRow /\ y.item = row[x].item /\ y.label = row[x].label /\ y.prices = row[x].prices /\ ~y.open
    BY <1>6 DEF PriceRow
  <1>8. y # Absent
    BY <1>7, AbsentIsNoRow
  <1> HIDE DEF y
  <1>9. Put(r, x, y)
    BY DEF y
  <1>10. row'[x] = y
    BY <1>1, <1>4, <1>9, PutDoes DEF Base
  <1>11. Updated(x)
    <2>1. Typed(x, y)
      BY <1>5, <1>6, <1>7, RowsApart DEF Typed, PriceTyped, Prices
    <2>2. Follows(x, row[x], y)
      BY <1>5, <1>7, RowsApart DEF Follows, SameTerms, Prices
    <2>3. QED BY <1>10, <2>1, <2>2 DEF Updated
  <1>12. Touches(r) /\ shown' = shown /\ holder'[x] = r /\ \A z \in Row \ {x} : Kept(z)
    BY <1>1, <1>4, <1>9, <1>11, PutTouches
  <1>13. Moves(r) /\ at'[r] = "close" /\ found'[r] = found[r] /\ done'[r] = done[r] + 1 /\ job' = job
    <2>1. Statement(r)
      BY <1>4, <1>9 DEF Statement
    <2>2. QED BY <1>1, <2>1, CountMoves
  <1>14. (\A kinds : Is(r, kinds)' <=> Is(r, kinds)) /\ ~Is(r, Makers)
    BY <1>2, <1>13, JobsFixed DEF Is, Listers, Makers
  <1>15. AtItsStep(r)'
    <2>1. Old(Asked(r))'
      BY <1>1, <1>2, <1>13, AskedStays
    <2>2. QED BY <1>2, <1>13, <1>14, <2>1 DEF AtItsStep
  <1>16. FoundOK(r)' /\ Range(found[r])' = Range(found[r]) /\ Range(found[r]) \subseteq Row
    BY <1>13, FoundStays
  <1>17. Closed(r, x)' /\ \A z \in Row : Closed(r, z) => Closed(r, z)'
    <2>1. Closed(r, x)'
      BY <1>7, <1>8, <1>10, <1>12 DEF Closed, Holds
    <2>2. QED BY <1>12, <2>1 DEF Closed, Holds, Kept
  <1>18. Closing(r)'
    <2>1. ASSUME NEW k \in 1..(done[r] + 1) PROVE Closed(r, found[r][k])'
      <3>1. CASE k = done[r] + 1
        BY <1>13, <1>17, <3>1 DEF Closed, Holds
      <3>2. CASE k # done[r] + 1
        <4>1. k \in 1..done[r] /\ found[r][k] \in Row
          BY <1>3, <3>2
        <4>2. PICK z \in Row : z = found[r][k]
          BY <4>1
        <4>3. Closed(r, z)
          BY <1>1, <4>1, <4>2 DEF Local, Closing
        <4>4. QED BY <1>13, <1>17, <4>2, <4>3 DEF Closed, Holds
      <3>3. QED BY <3>1, <3>2
    <2>2. (at[r] = "close" => done[r] <= Len(found[r]) /\ \A k \in 1..done[r] : Closed(r, found[r][k]))'
      BY <1>3, <1>13, <2>1
    <2>3. ASSUME NEW z \in Prices, Closed(r, z)', shown'[z] # Absent, shown'[z].open
          PROVE  z \in Range(found[r])
      <3>1. CASE z = x
        BY <1>4, <3>1
      <3>2. CASE z # x
        <4>1. z \in Row /\ Kept(z)
          BY <1>12, <3>2, RowsApart
        <4>2. Closed(r, z)
          BY <2>3, <4>1 DEF Closed, Holds, Kept
        <4>3. QED BY <1>1, <1>12, <2>3, <4>2 DEF Local, Closing
      <3>3. QED BY <3>1, <3>2
    <2>4. (\A z \in Prices : Closed(r, z) /\ shown[z] # Absent /\ shown[z].open => Is(r, Listers) /\ z \in Range(found[r]))'
      BY <1>2, <1>14, <1>16, <2>3
    <2>5. QED BY <1>13, <2>2, <2>4 DEF Closing
  <1>19. Whole(r)'
    BY <1>1, <1>12, <1>13, <1>14, <1>16 DEF Local, Whole
  <1>20. Opening(r)'
    <2>1. x[2] # r
      BY <1>4, <1>5, <1>13, OldStays
    <2>2. (\A z \in Prices : Holds(r, z) /\ z[2] = r => row[z].open)'
      <3>1. \A z \in Prices : z[2] = r => Kept(z)
        BY <1>12, <2>1, RowsApart
      <3>2. QED BY <1>1, <3>1 DEF Local, Opening, Holds, Kept
    <2>3. ~Holds(r, Item(r))'
      <3>1. Item(r) \in Items /\ Item(r) \in Row /\ Item(r) # x
        BY <1>5, RowsApart
      <3>2. Kept(Item(r)) /\ ~Holds(r, Item(r))
        BY <1>1, <1>12, <3>1 DEF Local, Opening
      <3>3. QED BY <3>2 DEF Holds, Kept
    <2>4. QED BY <1>13, <2>2, <2>3 DEF Opening
  <1>21. Clearance(r)'
    <2>1. ~Is(r, {"RESEED"})
      BY <1>2 DEF Is, Listers
    <2>2. ASSUME NEW z \in Rates PROVE ~Deleted(r, z)'
      <3>1. z \in Row /\ ~Deleted(r, z)
        BY <1>1, <2>1, RowsApart DEF Local, Clearance, Prices
      <3>2. z = x \/ Kept(z)
        BY <1>12, <3>1
      <3>3. QED BY <1>8, <1>10, <1>12, <3>1, <3>2 DEF Deleted, Kept
    <2>3. QED BY <1>13, <2>2 DEF Clearance, Clearing
  <1>22. Local(r)'
    BY <1>15, <1>16, <1>18, <1>19, <1>20, <1>21 DEF Local
  <1>23. QED BY <1>12, <1>13, <1>22 DEF Keeps, Ended

\* The listed rows are closed one after the other.
LEMMA CloseOldKeeps ==
  ASSUME NEW r \in Request, RateInv, CloseOld(r)
  PROVE  Keeps(r)
  <1>1. Base /\ OnRows /\ Local(r) /\ at[r] = "close" /\ Running(r)
    BY DEF RateInv, CloseOld, Running, Ended
  <1>2. CASE done[r] < Len(found[r])
    <2> DEFINE x == found[r][done[r] + 1]
    <2>1. \/ row[x] # Absent /\ Put(r, x, [row[x] EXCEPT !.open = FALSE]) /\ Count(r)
          \/ Rollback(r)
      BY <1>2 DEF CloseOld
    <2>2. QED BY <1>1, <1>2, <2>1, ClosingOne, RollbackKeeps
  <1>3. CASE done[r] = Len(found[r]) /\ Turn(r, "open") /\ ReadOnly
    <2>1. Moves(r) /\ at'[r] = "open" /\ found'[r] = found[r] /\ done'[r] = 0 /\ job' = job
      BY <1>1, <1>3, TurnMoves DEF Statement, Steps
    <2>2. row' = row /\ shown' = shown /\ holder' = holder
      BY <1>3 DEF ReadOnly, rows
    <2>3. Is(r, Listers) /\ ~Is(r, Makers) /\ Old(Asked(r))
      BY <1>1 DEF Local, AtItsStep, Is, Listers, Makers
    <2>4. \A kinds : Is(r, kinds)' <=> Is(r, kinds)
      BY <2>1, JobsFixed
    <2>5. Is(r, Listers \cup Makers)
      BY <2>3 DEF Is
    <2>6. AtItsStep(r)'
      <3>1. Old(Asked(r))'
        BY <1>1, <2>1, <2>3, AskedStays
      <3>2. QED BY <2>1, <2>3, <2>4, <2>5, <3>1 DEF AtItsStep
    <2>7. FoundOK(r)' /\ Range(found[r])' = Range(found[r]) /\ Range(found[r]) \subseteq Row
      BY <1>1, <2>1, FoundStays
    <2>8. /\ \A x \in Row : Closed(r, x)' <=> Closed(r, x)
          /\ \A x \in Row : Holds(r, x)' <=> Holds(r, x)
          /\ \A x \in Row : Deleted(r, x)' <=> Deleted(r, x)
      BY <2>2 DEF Closed, Holds, Deleted
    <2>9. \A x \in Range(found[r]) : Closed(r, x)
      <3>1. \A k \in 1..Len(found[r]) : Closed(r, found[r][k])
        BY <1>1, <1>3 DEF Local, Closing
      <3>2. DOMAIN found[r] = 1..Len(found[r])
        BY <1>1 DEF Base
      <3>3. QED BY <3>1, <3>2 DEF Range
    <2>10. Closing(r)'
      <3>1. (\A x \in Prices : Closed(r, x) /\ shown[x] # Absent /\ shown[x].open => Is(r, Listers) /\ x \in Range(found[r]))'
        BY <1>1, <2>2, <2>4, <2>7, <2>8, RowsApart DEF Local, Closing
      <3>2. (\A x \in Range(found[r]) : Closed(r, x))'
        BY <2>7, <2>8, <2>9
      <3>3. QED BY <2>1, <3>1, <3>2 DEF Closing
    <2>11. Whole(r)'
      BY <1>1, <2>1, <2>2, <2>4, <2>7 DEF Local, Whole
    <2>12. Opening(r)'
      <3>1. (\A x \in Prices : Holds(r, x) /\ x[2] = r => row[x].open)'
        BY <1>1, <2>2, <2>8, RowsApart DEF Local, Opening
      <3>2. ~Holds(r, Item(r))'
        BY <1>1, <2>2 DEF Local, Opening, Holds
      <3>3. QED BY <2>1, <3>1, <3>2 DEF Opening
    <2>13. Clearance(r)'
      <3>1. ~Is(r, {"RESEED"})
        BY <2>3 DEF Is, Listers
      <3>2. (\A x \in Rates : ~Deleted(r, x))'
        BY <1>1, <2>2, <3>1 DEF Local, Clearance, Deleted
      <3>3. QED BY <2>1, <3>2 DEF Clearance, Clearing
    <2>14. Local(r)'
      BY <2>6, <2>7, <2>10, <2>11, <2>12, <2>13 DEF Local
    <2>15. QED BY <1>3, <2>1, <2>14, ReadingKeeps DEF Ended
  <1>4. QED BY <1>2, <1>3 DEF CloseOld

\* An insert that nothing is in the way of: no other open rate of the item.
LEMMA InsertFits ==
  ASSUME NEW r \in Request, Base, OnRows, NEW x \in Rates, NEW y \in PriceRow, y.label = 0, Rivals(r, x, y) = {},
         row'[x] = y
  PROVE  Fits(r, x)
  <1>1. ASSUME NEW z \in Rates \ {x}
        PROVE  ~Both(y, row[z]) /\ (holder[z] \notin {0, r} => ~Both(y, shown[z]))
    <2>1. z \in (Items \cup Rates \cup Bands) \ {x} /\ z \in Row /\ z \in Prices
      BY <1>1, RowsApart DEF Prices
    <2>2. x[1] = "rate" /\ z[1] = "rate"
      BY <1>1 DEF Rates, Rate
    <2>3. \A v : v # Absent /\ Typed(z, v) => v.label = 0
      BY <1>1, <2>1 DEF Typed, PriceTyped
    <2>4. Typed(z, row[z]) /\ Typed(z, shown[z])
      BY <2>1 DEF OnRows, RowOK
    <2>5. \A v : v # Absent /\ Typed(z, v) /\ Both(y, v) => Clashes(x, y, z, v)
      BY <2>2, <2>3 DEF Both, Clashes, PricesClash
    <2>6. /\ ~(row[z] # Absent /\ Clashes(x, y, z, row[z]))
          /\ ~(holder[z] \notin {0, r} /\ shown[z] # Absent /\ Clashes(x, y, z, shown[z]))
      BY <2>1 DEF Rivals
    <2>7. QED BY <2>4, <2>5, <2>6 DEF Both
  <1>2. QED BY <1>1 DEF Fits

\* One more of the rows that replace what was closed is opened.
LEMMA OpeningOne ==
  ASSUME NEW r \in Request, RateInv, at[r] = "open", done[r] < Len(Opens(r)),
         Rivals(r, NewRow(r), Next1(r)[2]) = {},
         Put(r, NewRow(r), Next1(r)[2]), Count(r)
  PROVE  Keeps(r)
  <1>1. Base /\ OnRows /\ Local(r) /\ Running(r)
    BY DEF RateInv, Running, Ended
  <1>2. Is(r, Listers \cup Makers) /\ done[r] \in Nat /\ r # 0
    BY <1>1, RowsApart DEF Local, AtItsStep, Base
  <1>3. /\ Len(Opens(r)) \in Nat
        /\ Is(r, {"RATE"} \cup Makers) => Len(Opens(r)) >= 1 /\ Opens(r)[1][1] = Rate(r)
        /\ \A k \in 1..Len(Opens(r)) :
             LET x == Opens(r)[k][1]
                 y == Opens(r)[k][2]
             IN /\ x \in Prices /\ x[2] = r
                /\ y \in PriceRow /\ y.item = Priced(r) /\ y.open
                /\ x \in Rates => y.label = 0
    BY <1>1, OpensWhat DEF Base
  <1>4. done[r] + 1 \in 1..Len(Opens(r))
    BY <1>2, <1>3
  <1> DEFINE x == NewRow(r)
             y == Next1(r)[2]
  <1>5. /\ x \in Prices /\ x[2] = r
        /\ y \in PriceRow /\ y.item = Priced(r) /\ y.open
        /\ x \in Rates => y.label = 0
    BY <1>3, <1>4 DEF NewRow, Next1
  <1>6. Put(r, x, y) /\ Rivals(r, x, y) = {}
    OBVIOUS
  <1>7. done[r] = 0 /\ Is(r, {"RATE"} \cup Makers) => x = Rate(r)
    BY <1>3 DEF NewRow, Next1
  <1> HIDE DEF x, y
  <1>8. x \in Row /\ y # Absent
    BY <1>5, RowsApart, AbsentIsNoRow
  <1>9. row'[x] = y
    BY <1>1, <1>6, <1>8, PutDoes DEF Base
  <1>10. Inserted(r, x)
    <2>1. ItemOf(x) = Priced(r)
      BY <1>2, <1>5 DEF ItemOf
    <2>2. PriceTyped(x, y)
      BY <1>2, <1>5, <2>1 DEF PriceTyped
    <2>3. Typed(x, y) /\ x \notin Demands
      BY <1>5, <2>2, RowsApart DEF Typed, Prices
    <2>4. x \in Rates => Fits(r, x)
      BY <1>1, <1>5, <1>6, <1>9, InsertFits
    <2>5. QED BY <1>5, <1>9, <2>3, <2>4 DEF Inserted
  <1>11. Touches(r) /\ shown' = shown /\ holder'[x] = r /\ \A z \in Row \ {x} : Kept(z)
    BY <1>1, <1>6, <1>8, <1>10, PutTouches
  <1>12. Moves(r) /\ at'[r] = "open" /\ found'[r] = found[r] /\ done'[r] = done[r] + 1 /\ job' = job
    <2>1. Statement(r)
      BY <1>6, <1>8 DEF Statement
    <2>2. QED BY <1>1, <2>1, CountMoves
  <1>13. \A kinds : Is(r, kinds)' <=> Is(r, kinds)
    BY <1>12, JobsFixed
  <1>14. AtItsStep(r)'
    <2>1. Is(r, Listers \cup {"ENROL", "BILL"}) => Old(Asked(r))'
      BY <1>1, <1>12, AskedStays DEF Local, AtItsStep
    <2>2. QED BY <1>2, <1>12, <1>13, <2>1 DEF AtItsStep
  <1>15. FoundOK(r)' /\ Range(found[r])' = Range(found[r]) /\ Range(found[r]) \subseteq Row
    BY <1>12, FoundStays
  <1>16. \A z \in Range(found[r]) : z \in Row /\ z # x
    <2>1. \A z \in Range(found[r]) : z \in Row /\ Old(z)
      BY <1>1, <1>15 DEF Local, FoundOK
    <2>2. QED BY <1>5, <1>12, <2>1, OldStays
  <1>17. \A z \in Row : Closed(r, z)' => Closed(r, z)
    BY <1>5, <1>9, <1>11 DEF Closed, Holds, Kept
  <1>18. Closing(r)'
    <2>1. Is(r, Listers) => \A z \in Range(found[r]) : Closed(r, z)'
      <3>1. Is(r, Listers) => \A z \in Range(found[r]) : Closed(r, z)
        BY <1>1 DEF Local, Closing
      <3>2. QED BY <1>11, <1>16, <3>1 DEF Closed, Holds, Kept
    <2>2. (Is(r, Listers) => \A z \in Range(found[r]) : Closed(r, z))'
      BY <1>13, <1>15, <2>1
    <2>3. (\A z \in Prices : Closed(r, z) /\ shown[z] # Absent /\ shown[z].open => Is(r, Listers) /\ z \in Range(found[r]))'
      BY <1>1, <1>11, <1>13, <1>15, <1>17, RowsApart DEF Local, Closing
    <2>4. QED BY <1>12, <2>2, <2>3 DEF Closing
  <1>19. Whole(r)'
    BY <1>1, <1>11, <1>12, <1>13, <1>15 DEF Local, Whole
  <1>20. \A z \in Row : Holds(r, z) => Holds(r, z)'
    BY <1>8, <1>9, <1>11 DEF Holds, Kept
  <1>21. Opening(r)'
    <2>1. ASSUME NEW z \in Prices, Holds(r, z)', z[2] = r PROVE row'[z].open
      <3>1. CASE z = x
        BY <1>5, <1>9, <3>1
      <3>2. CASE z # x
        <4>1. Kept(z)
          BY <1>11, <3>2, RowsApart
        <4>2. QED BY <1>1, <2>1, <4>1 DEF Local, Opening, Holds, Kept
      <3>3. QED BY <3>1, <3>2
    <2>2. Is(r, {"RATE"} \cup Makers) => Holds(r, Rate(r))'
      <3>1. CASE done[r] = 0
        BY <1>7, <1>8, <1>9, <1>11, <3>1 DEF Holds
      <3>2. CASE done[r] >= 1
        <4>1. Is(r, {"RATE"} \cup Makers) => Holds(r, Rate(r))
          BY <1>1, <3>2 DEF Local, Opening
        <4>2. Rate(r) \in Row
          BY RowsApart DEF Prices
        <4>3. QED BY <1>20, <4>1, <4>2
      <3>3. QED BY <1>2, <3>1, <3>2
    <2>3. Holds(r, Item(r))' => Is(r, Makers)
      <3>1. Item(r) \in Row /\ Item(r) # x
        BY <1>5, RowsApart
      <3>2. Kept(Item(r))
        BY <1>11, <3>1
      <3>3. QED BY <1>1, <3>2 DEF Local, Opening, Holds, Kept
    <2>4. QED BY <1>12, <1>13, <2>1, <2>2, <2>3 DEF Opening
  <1>22. Clearance(r)'
    <2>1. ASSUME NEW z \in Rates, Deleted(r, z)'
          PROVE  Is(r, {"RESEED"}) /\ (shown[ItemOf(z)] # Absent => Deleted(r, ItemOf(z))')
      <3>1. z \in Row /\ z \in Prices
        BY RowsApart DEF Prices
      <3>2. z # x
        BY <1>8, <1>9, <2>1 DEF Deleted
      <3>3. Deleted(r, z)
        BY <1>11, <2>1, <3>1, <3>2 DEF Deleted, Kept
      <3>4. Is(r, {"RESEED"}) /\ (shown[ItemOf(z)] # Absent => Deleted(r, ItemOf(z)))
        BY <1>1, <3>3 DEF Local, Clearance, Clearing
      <3>5. PICK i \in Items : i = ItemOf(z)
        BY <1>1, <3>1, <3>3, ItemsAreOlder DEF Deleted, RateInv
      <3>6. Kept(i)
        BY <1>5, <1>11, <3>5, RowsApart
      <3>7. ItemOf(z)' = i
        BY <1>12, <3>5, JobsFixed
      <3>8. QED BY <1>11, <3>4, <3>5, <3>6, <3>7 DEF Deleted, Kept
    <2>2. (\A z \in Rates : Deleted(r, z) => Is(r, {"RESEED"}) /\ (shown[ItemOf(z)] # Absent => Deleted(r, ItemOf(z))))'
      BY <1>11, <1>12, <1>13, <2>1, JobsFixed
    <2>3. QED BY <1>12, <2>2 DEF Clearance, Clearing
  <1>23. Local(r)'
    BY <1>14, <1>15, <1>18, <1>19, <1>21, <1>22 DEF Local
  <1>24. QED BY <1>11, <1>12, <1>23 DEF Keeps, Ended

\* What a request waits for.
LEMMA WantsAre ==
  ASSUME NEW r \in Request
  PROVE  /\ at[r] = "open" /\ done[r] < Len(Opens(r)) => Wants(r) = Rivals(r, NewRow(r), Next1(r)[2])
         /\ at[r] = "create" => Wants(r) = Rivals(r, Item(r), [code |-> job[r].code, active |-> TRUE])
         /\ at[r] \in Ended \cup {"list"} => Wants(r) = {}
  <1> DEFINE step == at[r]
             there == done[r] < Len(found[r])
             more == done[r] < Len(Opens(r))
             b == {found[r][done[r] + 1]}
             c == Rivals(r, NewRow(r), Next1(r)[2])
             d == Rivals(r, Item(r), [code |-> job[r].code, active |-> TRUE])
             e == Doomed(r)
             f == {x \in Needed(r) : row[x] = Absent}
  <1>1. Wants(r) = CASE step = "close" /\ there -> b
                     [] step = "open" /\ more -> c
                     [] step = "create" -> d
                     [] step = "save"   -> {Asked(r)}
                     [] step = "settle" -> Demands
                     [] step \in Clearing -> e
                     [] step = "commit" -> f
                     [] OTHER            -> {}
    BY DEF Wants
  <1> HIDE DEF step, there, more, b, c, d, e, f
  <1>2. step = "open" /\ more => Wants(r) = c
    BY <1>1 DEF Clearing
  <1>3. step = "create" => Wants(r) = d
    BY <1>1 DEF Clearing
  <1>4. step \in Ended \cup {"list"} => Wants(r) = {}
    BY <1>1 DEF Clearing, Ended
  <1>5. QED BY <1>2, <1>3, <1>4 DEF step, more, c, d

\* The new rows are opened one after the other.
LEMMA OpenNewKeeps ==
  ASSUME NEW r \in Request, RateInv, OpenNew(r)
  PROVE  Keeps(r)
  <1>1. Base /\ OnRows /\ Local(r) /\ at[r] = "open" /\ Running(r)
    BY DEF RateInv, OpenNew, Running, Ended
  <1>2. CASE done[r] < Len(Opens(r))
    <2>1. Wants(r) = Rivals(r, NewRow(r), Next1(r)[2])
      BY <1>1, <1>2, WantsAre
    <2>2. \/ Wants(r) = {} /\ Put(r, NewRow(r), Next1(r)[2]) /\ Count(r)
          \/ Rollback(r)
      BY <1>2 DEF OpenNew
    <2>3. QED BY <1>1, <1>2, <2>1, <2>2, OpeningOne, RollbackKeeps
  <1>3. CASE done[r] = Len(Opens(r)) /\ Turn(r, "commit") /\ ReadOnly
    <2>1. Moves(r) /\ at'[r] = "commit" /\ found'[r] = found[r] /\ done'[r] = 0 /\ job' = job
      BY <1>1, <1>3, TurnMoves DEF Statement, Steps
    <2>2. row' = row /\ shown' = shown /\ holder' = holder
      BY <1>3 DEF ReadOnly, rows
    <2>3. \A kinds : Is(r, kinds)' <=> Is(r, kinds)
      BY <2>1, JobsFixed
    <2>4. AtItsStep(r)'
      <3>1. Is(r, Listers \cup {"ENROL", "BILL"}) => Old(Asked(r))'
        BY <1>1, <2>1, AskedStays DEF Local, AtItsStep
      <3>2. QED BY <2>1, <2>3, <3>1 DEF AtItsStep
    <2>5. FoundOK(r)' /\ Range(found[r])' = Range(found[r]) /\ Range(found[r]) \subseteq Row
      BY <1>1, <2>1, FoundStays
    <2>6. /\ \A x \in Row : Closed(r, x)' <=> Closed(r, x)
          /\ \A x \in Row : Holds(r, x)' <=> Holds(r, x)
          /\ \A x \in Row : Deleted(r, x)' <=> Deleted(r, x)
      BY <2>2 DEF Closed, Holds, Deleted
    <2>7. Closing(r)'
      <3>1. (\A x \in Prices : Closed(r, x) /\ shown[x] # Absent /\ shown[x].open => Is(r, Listers) /\ x \in Range(found[r]))'
        BY <1>1, <2>2, <2>3, <2>5, <2>6, RowsApart DEF Local, Closing
      <3>2. Is(r, Listers) => \A x \in Range(found[r]) : Closed(r, x)
        BY <1>1 DEF Local, Closing
      <3>3. (Is(r, Listers) => \A x \in Range(found[r]) : Closed(r, x))'
        BY <2>3, <2>5, <2>6, <3>2
      <3>4. QED BY <2>1, <3>1, <3>3 DEF Closing
    <2>8. Whole(r)'
      BY <1>1, <2>1, <2>2, <2>3, <2>5 DEF Local, Whole
    <2>9. Opening(r)'
      <3>1. (\A x \in Prices : Holds(r, x) /\ x[2] = r => row[x].open)'
        BY <1>1, <2>2, <2>6, RowsApart DEF Local, Opening
      <3>2. Is(r, {"RATE"} \cup Makers) => Holds(r, Rate(r))
        <4>1. Is(r, {"RATE"} \cup Makers) => done[r] >= 1
          BY <1>1, <1>3, OpensWhat DEF Base
        <4>2. QED BY <1>1, <4>1 DEF Local, Opening
      <3>3. Holds(r, Item(r)) => Is(r, Makers)
        BY <1>1 DEF Local, Opening
      <3>4. Holds(r, Item(r))' => Is(r, Makers)
        BY <2>2, <3>3 DEF Holds
      <3>5. (Is(r, {"RATE"} \cup Makers) => Holds(r, Rate(r)))'
        BY <2>2, <2>3, <3>2 DEF Holds
      <3>6. QED BY <2>1, <2>3, <3>1, <3>4, <3>5 DEF Opening
    <2>10. Clearance(r)'
      <3>1. \A x \in Rates : Deleted(r, x) => Is(r, {"RESEED"}) /\ (shown[ItemOf(x)] # Absent => Deleted(r, ItemOf(x)))
        BY <1>1 DEF Local, Clearance, Clearing
      <3>2. \A x \in Rates : ItemOf(x)' = ItemOf(x)
        BY <2>1, JobsFixed
      <3>3. (\A x \in Rates : Deleted(r, x) => Is(r, {"RESEED"}) /\ (shown[ItemOf(x)] # Absent => Deleted(r, ItemOf(x))))'
        BY <2>2, <2>3, <3>1, <3>2 DEF Deleted
      <3>4. QED BY <2>1, <3>3 DEF Clearance, Clearing
    <2>11. Local(r)'
      BY <2>4, <2>5, <2>7, <2>8, <2>9, <2>10 DEF Local
    <2>12. QED BY <1>3, <2>1, <2>11, ReadingKeeps DEF Ended
  <1>4. QED BY <1>2, <1>3 DEF OpenNew

\* What is checked before anything is written leaves the rows alone.
LEMMA ChecksKeep ==
  ASSUME NEW r \in Request, RateInv, at[r] = "check", NEW step, Turn(r, step), ReadOnly,
         \/ step = "refused"
         \/ step = "create" /\ Is(r, {"CREATE"})
         \/ step = "save" /\ Is(r, {"RETIRE"})
         \/ step = "clear" /\ Is(r, {"RESEED"})
  PROVE  Keeps(r)
  <1>1. Base /\ Local(r) /\ Running(r) /\ step \in Steps
    BY DEF RateInv, Running, Steps, Ended
  <1>2. HoldsNone(r)
    BY <1>1 DEF Local, AtItsStep
  <1>3. Moves(r) /\ at'[r] = step /\ found'[r] = found[r] /\ job' = job
    BY <1>1, TurnMoves DEF Statement
  <1>4. HoldsNone(r)' /\ \A kinds : Is(r, kinds)' <=> Is(r, kinds)
    BY <1>2, <1>3, JobsFixed DEF HoldsNone, ReadOnly, rows
  <1>5. step \in {"refused", "create", "save", "clear"}
    OBVIOUS
  <1>6. AtItsStep(r)'
    <2>1. /\ step = "create" => Is(r, Makers) /\ ~Is(r, Listers \cup {"ENROL", "BILL"})
          /\ step = "save" => Is(r, {"RETIRE"}) /\ ~Is(r, Listers \cup {"ENROL", "BILL"}) /\ ~Is(r, Makers)
          /\ step = "clear" => Is(r, Makers) /\ ~Is(r, Listers \cup {"ENROL", "BILL"})
      BY DEF Is, Makers, Listers
    <2>2. QED BY <1>3, <1>4, <1>5, <2>1 DEF AtItsStep, Ended
  <1>7. FoundOK(r)'
    BY <1>3, FoundStays
  <1>8. Whole(r)'
    BY <1>3, <1>5 DEF Whole
  <1>9. QED BY <1>2, <1>3, <1>5, <1>6, <1>7, <1>8, EmptyHandedKeeps

\* validate_harmonised_code reads.
LEMMA ValidateCodeKeeps == ASSUME NEW r \in Request, RateInv, ValidateCode(r) PROVE Keeps(r)
  <1>1. at[r] = "check" /\ Is(r, {"CREATE"}) /\ ReadOnly
    BY DEF ValidateCode
  <1>2. Turn(r, "create") \/ Turn(r, "refused")
    BY DEF ValidateCode
  <1>3. QED BY <1>1, <1>2, ChecksKeep

\* The two queries of retire_revenue_item read.
LEMMA CheckRetireKeeps == ASSUME NEW r \in Request, RateInv, CheckRetire(r) PROVE Keeps(r)
  <1>1. at[r] = "check" /\ Is(r, {"RETIRE"}) /\ ReadOnly
    BY DEF CheckRetire
  <1>2. Turn(r, "save") \/ Turn(r, "refused")
    BY DEF CheckRetire
  <1>3. QED BY <1>1, <1>2, ChecksKeep

\* _guard_dependents reads.
LEMMA GuardDependentsKeeps == ASSUME NEW r \in Request, RateInv, GuardDependents(r) PROVE Keeps(r)
  <1>1. at[r] = "check" /\ Is(r, {"RESEED"}) /\ ReadOnly
    BY DEF GuardDependents
  <1>2. Turn(r, "clear") \/ Turn(r, "refused")
    BY DEF GuardDependents
  <1>3. QED BY <1>1, <1>2, ChecksKeep

\* The item is inserted, and its rate is yet to come.
LEMMA CreateItemKeeps ==
  ASSUME NEW r \in Request, RateInv, CreateItem(r)
  PROVE  Keeps(r)
  <1>1. Base /\ OnRows /\ Local(r) /\ at[r] = "create" /\ Running(r)
    BY DEF RateInv, CreateItem, Running, Ended
  <1> DEFINE x == Item(r)
             y == [code |-> job[r].code, active |-> TRUE]
  <1>2. (Put(r, x, y) /\ Turn(r, "open")) \/ Rollback(r)
    BY DEF CreateItem
  <1>3. /\ x \in Items /\ x \in Row /\ x[2] = r /\ r # 0 /\ Rates \subseteq Prices /\ Prices \subseteq Row
        /\ x \notin Prices /\ x \notin Rates /\ x \notin Demands
    BY RowsApart DEF Prices
  <1>4. CASE Put(r, x, y) /\ Turn(r, "open")
    <2> HIDE DEF y
    <2>1. Inserted(r, x)
      BY <1>3 DEF Inserted, Typed
    <2>2. Touches(r) /\ shown' = shown /\ holder'[x] = r /\ \A z \in Row \ {x} : Kept(z)
      BY <1>1, <1>3, <1>4, <2>1, PutTouches
    <2>3. Moves(r) /\ at'[r] = "open" /\ found'[r] = found[r] /\ done'[r] = 0 /\ job' = job
      <3>1. Statement(r)
        BY <1>3, <1>4 DEF Statement
      <3>2. QED BY <1>1, <1>4, <3>1, TurnMoves DEF Steps
    <2>4. Is(r, Makers) /\ \A kinds : Is(r, kinds)' <=> Is(r, kinds)
      BY <1>1, <2>3, JobsFixed DEF Local, AtItsStep
    <2>5. ~Is(r, Listers) /\ ~Is(r, Listers \cup {"ENROL", "BILL"}) /\ ~Is(r, {"BANDS", "SEED"}) /\ Is(r, Listers \cup Makers)
      BY <2>4 DEF Is, Makers, Listers
    <2>6. AtItsStep(r)'
      BY <2>3, <2>4, <2>5 DEF AtItsStep
    <2>7. FoundOK(r)'
      BY <1>1, <2>3, FoundStays
    <2>8. \A z \in Prices : /\ Kept(z)
                            /\ Holds(r, z)' <=> Holds(r, z)
                            /\ Closed(r, z)' <=> Closed(r, z)
                            /\ Deleted(r, z)' <=> Deleted(r, z)
      BY <1>3, <2>2 DEF Kept, Holds, Closed, Deleted
    <2>9. Closing(r)'
      <3>1. (\A z \in Prices : Closed(r, z) /\ shown[z] # Absent /\ shown[z].open => Is(r, Listers) /\ z \in Range(found[r]))'
        BY <1>1, <2>2, <2>5, <2>8 DEF Local, Closing
      <3>2. QED BY <2>3, <2>4, <2>5, <3>1 DEF Closing
    <2>10. Whole(r)'
      BY <2>4, <2>5 DEF Whole
    <2>11. Opening(r)'
      <3>1. (\A z \in Prices : Holds(r, z) /\ z[2] = r => row[z].open)'
        BY <1>1, <2>8 DEF Local, Opening, Kept
      <3>2. QED BY <2>3, <2>4, <3>1 DEF Opening
    <2>12. Clearance(r)'
      <3>1. ASSUME NEW z \in Rates, Deleted(r, z)'
            PROVE  Is(r, {"RESEED"}) /\ (shown[ItemOf(z)] # Absent => Deleted(r, ItemOf(z))')
        <4>1. Deleted(r, z) /\ z \in Prices
          BY <1>3, <2>8, <3>1
        <4>2. Is(r, {"RESEED"}) /\ (shown[ItemOf(z)] # Absent => Deleted(r, ItemOf(z)))
          BY <1>1, <4>1 DEF Local, Clearance, Clearing
        <4>3. PICK i \in Row : i = ItemOf(z)
          BY <1>1, <4>1, ItemsAreOlder DEF Deleted, RateInv
        <4>4. Old(i)
          BY <4>1, <4>3, ItemsAreOlder DEF Deleted, RateInv
        <4>5. Kept(i)
          BY <1>3, <2>2, <2>3, <4>3, <4>4, OldStays
        <4>6. ItemOf(z)' = i
          BY <2>3, <4>3, JobsFixed
        <4>7. QED BY <2>2, <4>2, <4>3, <4>5, <4>6 DEF Deleted, Kept
      <3>2. (\A z \in Rates : Deleted(r, z) => Is(r, {"RESEED"}) /\ (shown[ItemOf(z)] # Absent => Deleted(r, ItemOf(z))))'
        BY <2>2, <2>3, <2>4, <3>1, JobsFixed
      <3>3. QED BY <2>3, <3>2 DEF Clearance, Clearing
    <2>13. Local(r)'
      BY <2>6, <2>7, <2>9, <2>10, <2>11, <2>12 DEF Local
    <2>14. QED BY <2>2, <2>3, <2>13 DEF Keeps, Ended
  <1>5. CASE Rollback(r)
    BY <1>1, <1>5, RollbackKeeps
  <1>6. QED BY <1>2, <1>4, <1>5

\* retire_revenue_item writes the item, and nothing that is priced from it.
LEMMA SaveRetiredKeeps ==
  ASSUME NEW r \in Request, RateInv, SaveRetired(r)
  PROVE  Keeps(r)
  <1>1. Base /\ OnRows /\ Local(r) /\ at[r] = "save" /\ Running(r)
    BY DEF RateInv, SaveRetired, Running, Ended
  <1> DEFINE x == Asked(r)
             y == [row[x] EXCEPT !.active = FALSE]
  <1>2. (row[x] # Absent /\ Put(r, x, y) /\ Turn(r, "commit")) \/ Rollback(r)
    BY DEF SaveRetired
  <1>3. /\ x \in Items /\ x \in Row /\ x \notin Prices /\ x \notin Demands
        /\ Prices \subseteq Row /\ Items \subseteq Row
    BY <1>1, JobsAre, RowsApart DEF Base
  <1>4. CASE row[x] # Absent /\ Put(r, x, y) /\ Turn(r, "commit")
    <2> HIDE DEF x, y
    <2>1. Updated(x)
      BY <1>3, <1>4 DEF Updated, Typed, Follows
    <2>2. Touches(r) /\ shown' = shown /\ \A z \in Row \ {x} : Kept(z)
      BY <1>1, <1>3, <1>4, <2>1, PutTouches
    <2>3. Moves(r) /\ at'[r] = "commit" /\ found'[r] = found[r] /\ job' = job
      <3>1. Statement(r)
        BY <1>3, <1>4 DEF Statement
      <3>2. QED BY <1>1, <1>4, <3>1, TurnMoves DEF Steps
    <2>4. Is(r, {"RETIRE"}) /\ \A kinds : Is(r, kinds)' <=> Is(r, kinds)
      BY <1>1, <2>3, JobsFixed DEF Local, AtItsStep
    <2>5. ~Is(r, Listers \cup Makers) /\ ~Is(r, Listers \cup {"ENROL", "BILL"}) /\ ~Is(r, Makers)
      BY <2>4 DEF Is, Makers, Listers
    <2>6. AtItsStep(r)'
      BY <2>3, <2>4, <2>5 DEF AtItsStep
    <2>7. (\A z \in Prices : Kept(z)) /\ \A z \in Items : Kept(z) \/ Updated(z)
      BY <1>3, <2>1, <2>2
    <2>8. Local(r)'
      BY <1>1, <2>2, <2>3, <2>5, <2>6, <2>7, QuietLocal DEF Clearing
    <2>9. QED BY <2>2, <2>3, <2>8 DEF Keeps, Ended
  <1>5. CASE Rollback(r)
    BY <1>1, <1>5, RollbackKeeps
  <1>6. QED BY <1>2, <1>4, <1>5

\* What create_draft_assessment may settle on is committed, of the item, and one of its amounts.
LEMMA OffersAre ==
  ASSUME NEW r \in Request, RateInv, at[r] = "price", NEW c \in OnOffer(r)
  PROVE  /\ c[1] \in Rates \cup Bands /\ c[1] \in Row /\ Old(c[1])
         /\ shown[c[1]] # Absent /\ shown[c[1]] \in PriceRow
         /\ shown[c[1]].item = Asked(r) /\ c[2] \in shown[c[1]].prices
  <1>1. Base /\ OnRows /\ Local(r)
    BY DEF RateInv
  <1>2. HoldsNone(r) /\ Is(r, {"ENROL", "BILL"})
    BY <1>1 DEF Local, AtItsStep
  <1>3. Rates \subseteq Row /\ Bands \subseteq Row /\ Rates \subseteq Prices /\ Bands \subseteq Prices
    BY RowsApart DEF Prices
  <1>4. ASSUME NEW x \in Prices, There(r, x)
        PROVE  /\ Sees(r, x) = shown[x] /\ shown[x] # Absent /\ Old(x)
               /\ shown[x] \in PriceRow /\ shown[x].item = ItemOf(x)
    <2>1. x \in Row
      BY RowsApart
    <2>2. Sees(r, x) = shown[x] /\ Typed(x, shown[x]) /\ shown[x] # Absent /\ Old(x)
      BY <1>1, <1>2, <1>4, <2>1, SeesCommitted
    <2>3. QED BY <2>2 DEF Typed, PriceTyped
  <1>5. CASE OpenIn(r, Bands, Asked(r)) = {}
    <2>1. OnOffer(r) = UNION {{x} \X Sees(r, x).prices : x \in OpenIn(r, Rates, Asked(r))}
      BY <1>5 DEF OnOffer
    <2>2. PICK x \in OpenIn(r, Rates, Asked(r)) : c \in {x} \X Sees(r, x).prices
      BY <2>1
    <2>3. x \in Rates /\ There(r, x) /\ Sees(r, x).item = Asked(r)
      BY DEF OpenIn
    <2>4. c[1] = x /\ c[2] \in Sees(r, x).prices
      BY <2>2
    <2>5. QED BY <1>3, <1>4, <2>3, <2>4
  <1>6. CASE OpenIn(r, Bands, Asked(r)) # {}
    <2>1. OnOffer(r) =
            UNION {{b} \X {p \in Sees(r, b).prices : Allows(r, b, p)} : b \in {x \in Range(found[r]) : There(r, x)}}
      BY <1>6 DEF OnOffer
    <2>2. PICK b \in {x \in Range(found[r]) : There(r, x)} : c \in {b} \X {p \in Sees(r, b).prices : Allows(r, b, p)}
      BY <2>1
    <2>3. c[1] = b /\ c[2] \in Sees(r, b).prices
      BY <2>2
    <2>4. b \in Range(found[r]) /\ There(r, b)
      OBVIOUS
    <2>5. b \in Bands /\ ItemOf(b) = Asked(r)
      BY <1>1, <1>2, <2>4 DEF Local, FoundOK, Is
    <2>6. QED BY <1>3, <1>4, <2>3, <2>4, <2>5
  <1>7. QED BY <1>5, <1>6

\* create_draft_assessment writes an assessment that agrees with the row it cites.
LEMMA PriceKeeps ==
  ASSUME NEW r \in Request, RateInv, Price(r)
  PROVE  Keeps(r)
  <1>1. Base /\ OnRows /\ Local(r) /\ at[r] = "price" /\ Running(r)
    BY DEF RateInv, Price, Running, Ended
  <1>2. HoldsNone(r) /\ Is(r, {"ENROL", "BILL"}) /\ Old(Asked(r))
    BY <1>1 DEF Local, AtItsStep, Is
  <1>3. ~Is(r, Listers \cup Makers) /\ ~Is(r, Makers) /\ Is(r, Listers \cup {"ENROL", "BILL"})
    BY <1>2 DEF Is, Listers, Makers
  <1>4. /\ Demand(r) \in Demands /\ Demand(r) \in Row /\ Demand(r)[2] = r
        /\ \A x \in Demands : x \notin Prices /\ x \notin Items /\ x \notin Rates
        /\ Prices \subseteq Row /\ Items \subseteq Row
    BY RowsApart DEF Prices
  <1>5. Asked(r) \in Items /\ job[r].quantity \in Int
    BY <1>1, JobsAre DEF Base
  <1>6. CASE job[r].quantity > 0 /\ \E c \in OnOffer(r) : Assess(r, c[1], c[2])
    <2>1. PICK c \in OnOffer(r) : Assess(r, c[1], c[2])
      BY <1>6
    <2> DEFINE x == c[1]
               unit == c[2]
               d == [item |-> Asked(r), cites |-> x, unit |-> unit, quantity |-> job[r].quantity,
                     amount |-> unit * job[r].quantity, status |-> "DRAFT"]
               step == IF Is(r, {"BILL"}) THEN "issue" ELSE "commit"
    <2>2. Put(r, Demand(r), d) /\ Turn(r, step)
      BY <2>1 DEF Assess
    <2>3. /\ x \in Rates \cup Bands /\ x \in Row /\ Old(x)
          /\ shown[x] # Absent /\ shown[x] \in PriceRow
          /\ shown[x].item = Asked(r) /\ unit \in shown[x].prices
      BY <1>1, <2>1, OffersAre
    <2> HIDE DEF x, unit
    <2>4. unit \in Int
      BY <2>3 DEF PriceRow
    <2>5. job[r].quantity \in Nat \ {0} /\ unit * job[r].quantity \in Int
      BY <1>5, <1>6, <2>4
    <2>6. /\ d \in DemandRow /\ d.item = Asked(r) /\ d.cites = x /\ d.unit = unit
          /\ d.amount = d.unit * d.quantity
      BY <1>5, <2>3, <2>4, <2>5 DEF DemandRow
    <2>7. d # Absent
      BY <2>6, AbsentIsNoRow
    <2> HIDE DEF d
    <2>8. Cited(d)
      <3>1. Agrees(d, shown[x])
        BY <2>3, <2>6 DEF Agrees
      <3>2. RowOK(x) /\ x \in Prices
        BY <1>1, <2>3 DEF OnRows, Prices
      <3>3. Agrees(d, row[x])
        BY <2>3, <3>1, <3>2 DEF Agrees, RowOK, Follows, SameTerms
      <3>4. QED BY <2>3, <2>6, <3>1, <3>3 DEF Cited
    <2>9. row'[Demand(r)] = d
      BY <1>1, <1>4, <2>2, PutDoes DEF Base
    <2>10. Inserted(r, Demand(r))
      BY <1>4, <2>3, <2>6, <2>8, <2>9 DEF Inserted, Typed
    <2>11. Touches(r) /\ shown' = shown /\ holder'[Demand(r)] = r /\ \A z \in Row \ {Demand(r)} : Kept(z)
      BY <1>1, <1>4, <2>2, <2>10, PutTouches
    <2>12. step \in {"issue", "commit"} /\ (step = "issue" => Is(r, {"BILL"}))
      OBVIOUS
    <2> HIDE DEF step
    <2>13. Moves(r) /\ at'[r] = step /\ found'[r] = found[r] /\ job' = job
      <3>1. Statement(r) /\ step \in Steps
        BY <1>4, <2>2, <2>12 DEF Statement, Steps
      <3>2. QED BY <1>1, <2>2, <3>1, TurnMoves
    <2>14. \A kinds : Is(r, kinds)' <=> Is(r, kinds)
      BY <2>13, JobsFixed
    <2>15. AtItsStep(r)'
      <3>1. Old(Asked(r))'
        BY <1>1, <1>2, <2>13, AskedStays
      <3>2. Holds(r, Demand(r))'
        BY <2>7, <2>9, <2>11 DEF Holds
      <3>3. QED BY <1>3, <2>12, <2>13, <2>14, <3>1, <3>2 DEF AtItsStep
    <2>16. (\A z \in Prices : Kept(z)) /\ \A z \in Items : Kept(z)
      BY <1>4, <2>11
    <2>17. Local(r)'
      BY <1>1, <1>3, <2>11, <2>12, <2>13, <2>15, <2>16, QuietLocal DEF Clearing
    <2>18. QED BY <2>11, <2>12, <2>13, <2>17 DEF Keeps, Ended
  <1>7. CASE Turn(r, "refused") /\ ReadOnly
    <2>1. Moves(r) /\ at'[r] = "refused" /\ found'[r] = found[r] /\ job' = job
      BY <1>1, <1>7, TurnMoves DEF Statement, Steps, Ended
    <2>2. HoldsNone(r)' /\ \A kinds : Is(r, kinds)' <=> Is(r, kinds)
      BY <1>2, <1>7, <2>1, JobsFixed DEF HoldsNone, ReadOnly, rows
    <2>3. AtItsStep(r)'
      BY <1>3, <2>1, <2>2 DEF AtItsStep
    <2>4. FoundOK(r)'
      BY <1>1, <2>1, FoundStays
    <2>5. Whole(r)'
      BY <2>1 DEF Whole
    <2>6. QED BY <1>2, <1>7, <2>1, <2>3, <2>4, <2>5, EmptyHandedKeeps
  <1>8. QED BY <1>6, <1>7 DEF Price

\* Of a demand only the status changes.
LEMMA StatusUpdates ==
  ASSUME Base, OnRows, NEW x \in Demands, row[x] # Absent, NEW status \in {"DRAFT", "OUTSTANDING", "PAID"},
         row'[x] = [row[x] EXCEPT !.status = status]
  PROVE  Updated(x)
  <1>1. x \in Row /\ x \notin Prices
    BY RowsApart DEF Prices
  <1>2. row[x] \in DemandRow
    BY <1>1 DEF OnRows, RowOK, Typed
  <1>3. row'[x] \in DemandRow /\ SameDemand(row[x], row'[x])
    BY <1>2 DEF DemandRow, SameDemand
  <1>4. QED BY <1>1, <1>3 DEF Updated, Typed, Follows

\* The bill of a draft assessment is issued.
LEMMA IssueKeeps ==
  ASSUME NEW r \in Request, RateInv, Issue(r)
  PROVE  Keeps(r)
  <1>1. Base /\ OnRows /\ Local(r) /\ at[r] = "issue" /\ Running(r)
    BY DEF RateInv, Issue, Running, Ended
  <1>2. Is(r, {"BILL"}) /\ Holds(r, Demand(r)) /\ Old(Asked(r))
    BY <1>1 DEF Local, AtItsStep, Is
  <1>3. ~Is(r, Listers \cup Makers) /\ ~Is(r, Makers) /\ Is(r, Listers \cup {"ENROL", "BILL"})
    BY <1>2 DEF Is, Listers, Makers
  <1>4. /\ Demand(r) \in Demands /\ Demand(r) \in Row
        /\ \A z \in Demands : z \notin Prices /\ z \notin Items
        /\ Prices \subseteq Row /\ Items \subseteq Row
    BY RowsApart DEF Prices
  <1> DEFINE x == Demand(r)
             y == [row[x] EXCEPT !.status = "OUTSTANDING"]
  <1>5. Put(r, x, y) /\ Turn(r, "commit")
    BY DEF Issue
  <1>6. row'[x] = y
    BY <1>1, <1>4, <1>5, PutDoes DEF Base
  <1>7. Updated(x)
    BY <1>1, <1>2, <1>4, <1>6, StatusUpdates DEF Holds
  <1> HIDE DEF x, y
  <1>8. x \in Row /\ x \notin Prices /\ x \notin Items
    BY <1>4 DEF x
  <1>9. Touches(r) /\ shown' = shown /\ \A z \in Row \ {x} : Kept(z)
    BY <1>1, <1>5, <1>7, <1>8, PutTouches
  <1>10. Moves(r) /\ at'[r] = "commit" /\ found'[r] = found[r] /\ job' = job
    <2>1. Statement(r)
      BY <1>5, <1>8 DEF Statement
    <2>2. QED BY <1>1, <1>5, <2>1, TurnMoves DEF Steps
  <1>11. AtItsStep(r)'
    <2>1. Old(Asked(r))'
      BY <1>1, <1>2, <1>10, AskedStays
    <2>2. QED BY <1>3, <1>10, <2>1, JobsFixed DEF AtItsStep
  <1>12. (\A z \in Prices : Kept(z)) /\ \A z \in Items : Kept(z)
    BY <1>4, <1>8, <1>9
  <1>13. Local(r)'
    BY <1>1, <1>3, <1>9, <1>10, <1>11, <1>12, QuietLocal DEF Clearing
  <1>14. QED BY <1>9, <1>10, <1>13 DEF Keeps, Ended

\* Bills are paid.
LEMMA SettleKeeps ==
  ASSUME NEW r \in Request, RateInv, Settle(r)
  PROVE  Keeps(r)
  <1>1. Base /\ OnRows /\ Local(r) /\ at[r] = "settle" /\ Running(r)
    BY DEF RateInv, Settle, Running, Ended
  <1>2. Is(r, {"SETTLE"}) /\ HoldsNone(r)
    BY <1>1 DEF Local, AtItsStep
  <1>3. ~Is(r, Listers \cup Makers) /\ ~Is(r, Makers) /\ ~Is(r, Listers \cup {"ENROL", "BILL"})
    BY <1>2 DEF Is, Listers, Makers
  <1>4. /\ Demands \subseteq Row /\ Prices \subseteq Row /\ Items \subseteq Row
        /\ \A z \in Demands : z \notin Prices /\ z \notin Items
    BY RowsApart DEF Prices
  <1> DEFINE S == {y \in Demands : There(r, y) /\ Sees(r, y).status = "OUTSTANDING"}
             new == [x \in S |-> [row[x] EXCEPT !.status = "PAID"]]
  <1>5. Write(r, new) /\ Turn(r, "commit")
    BY DEF Settle
  <1>6. DOMAIN new = S /\ \A x \in S : new[x] = [row[x] EXCEPT !.status = "PAID"]
    OBVIOUS
  <1>7. \A x \in S : x \in Demands /\ x \in Row /\ There(r, x)
    BY <1>4
  <1> HIDE DEF S, new
  <1>8. ASSUME NEW x \in S PROVE Updated(x)
    <2>1. holder[x] \in {0, r} /\ row'[x] = new[x]
      BY <1>1, <1>5, <1>6, <1>7, WriteDoes DEF Base
    <2>2. shown[x] # Absent
      BY <1>1, <1>2, <1>7, SeesCommitted
    <2>3. row[x] = shown[x]
      BY <1>1, <1>2, <1>7, <2>1 DEF HoldsNone, Base, LocksHold
    <2>4. row'[x] = [row[x] EXCEPT !.status = "PAID"]
      BY <1>6, <2>1
    <2>5. QED BY <1>1, <1>7, <2>2, <2>3, <2>4, StatusUpdates
  <1>9. Touches(r) /\ shown' = shown /\ \A x \in Row : x \notin S => Kept(x)
    <2>1. \A x \in Row : x \in DOMAIN new => new[x] = Absent \/ Updated(x)
      BY <1>6, <1>8
    <2>2. QED BY <1>1, <1>5, <1>6, <2>1, WriteTouches
  <1>10. Moves(r) /\ at'[r] = "commit" /\ found'[r] = found[r] /\ job' = job
    <2>1. Statement(r)
      BY <1>5 DEF Statement
    <2>2. QED BY <1>1, <1>5, <2>1, TurnMoves DEF Steps
  <1>11. AtItsStep(r)'
    BY <1>3, <1>10, JobsFixed DEF AtItsStep
  <1>12. (\A z \in Prices : Kept(z)) /\ \A z \in Items : Kept(z)
    BY <1>4, <1>7, <1>9
  <1>13. Local(r)'
    BY <1>1, <1>3, <1>9, <1>10, <1>11, <1>12, QuietLocal DEF Clearing
  <1>14. QED BY <1>9, <1>10, <1>13 DEF Keeps, Ended

\* What _clear looks up is committed: what it holds it has deleted.
LEMMA ClearerSees ==
  ASSUME NEW r \in Request, RateInv, Is(r, Makers), at[r] \in Clearing, NEW x \in Row, There(r, x)
  PROVE  Sees(r, x) = shown[x] /\ shown[x] # Absent /\ Typed(x, shown[x]) /\ Old(x)
  <1>1. RowOK(x) /\ (holder[x] = r => row[x] = Absent)
    BY DEF RateInv, OnRows, Local, Clearance
  <1>2. Sees(r, x) = shown[x] /\ shown[x] # Absent
    BY <1>1 DEF There, Sees
  <1>3. QED BY <1>1, <1>2 DEF RowOK

\* _clear begins with the items there are.
LEMMA ClearStarts ==
  ASSUME NEW r \in Request, RateInv, Is(r, {"RESEED"}), at[r] = "clear",
         found' = [found EXCEPT ![r] = SetToSeq({x \in Items : There(r, x)})],
         Go(r, "bands"), ReadOnly, UNCHANGED <<job, done>>
  PROVE  Keeps(r)
  <1>1. Base /\ OnRows /\ Local(r) /\ Running(r)
    BY DEF RateInv, Running, Ended
  <1>2. /\ HoldsNone(r) /\ Is(r, Makers) /\ ~Is(r, Listers \cup {"ENROL", "BILL"})
        /\ ~Is(r, {"RATE"}) /\ ~Is(r, {"BANDS", "SEED", "ENROL", "BILL"})
    BY <1>1 DEF Local, AtItsStep, Is, Makers, Listers
  <1> DEFINE S == {x \in Items : There(r, x)}
  <1>3. S \subseteq Row /\ \A x \in S : x \in Row /\ x \notin Prices /\ There(r, x)
    BY RowsApart
  <1>4. SetToSeq(S) \in Seq(Row) /\ Range(SetToSeq(S)) = S
    BY <1>3, SetToSeqLists
  <1> HIDE DEF S
  <1>5. Moves(r) /\ at'[r] = "bands" /\ found'[r] = SetToSeq(S) /\ job' = job
    <2>1. Statement(r) /\ "bands" \in Steps
      BY DEF Statement, Steps
    <2>2. done[r] \in Nat /\ done' = [done EXCEPT ![r] = done[r]]
      BY <1>1 DEF Base
    <2> DEFINE list == SetToSeq(S)
    <2>3. found' = [found EXCEPT ![r] = list]
      BY DEF S
    <2>4. list \in Seq(Row)
      BY <1>4
    <2>5. job' = job
      OBVIOUS
    <2> HIDE DEF list
    <2>6. Moves(r) /\ at'[r] = "bands" /\ found'[r] = list
      BY <1>1, <2>1, <2>2, <2>3, <2>4, <2>5, GoMoves
    <2>7. QED BY <2>5, <2>6 DEF list
  <1>6. Range(found[r])' = S
    BY <1>4, <1>5
  <1>7. HoldsNone(r)' /\ \A kinds : Is(r, kinds)' <=> Is(r, kinds)
    BY <1>2, <1>5, JobsFixed DEF HoldsNone, ReadOnly, rows
  <1>8. AtItsStep(r)'
    BY <1>2, <1>5, <1>7 DEF AtItsStep, Clearing
  <1>9. FoundOK(r)'
    <2>1. \A x \in S : Old(x)'
      BY <1>1, <1>2, <1>3, <1>5, SeesCommitted, OldStays
    <2>2. QED BY <1>2, <1>6, <1>7, <2>1 DEF FoundOK
  <1>10. Whole(r)'
    BY <1>5 DEF Whole
  <1>11. QED BY <1>2, <1>3, <1>5, <1>6, <1>8, <1>9, <1>10, EmptyHandedKeeps

\* _clear looks up what it deletes next.
LEMMA ClearLooks ==
  ASSUME NEW r \in Request, RateInv, Is(r, {"RESEED"}), at[r] \in Clearing,
         NEW mine, mine = {x \in Range(found[r]) : x \in Items},
         NEW match,
         at[r] = "bands" => match = {x \in Bands : There(r, x) /\ Sees(r, x).item \in mine},
         at[r] = "rates" => match = {x \in Rates : There(r, x) /\ Sees(r, x).item \in mine},
         at[r] = "items" => match = {x \in Items \cup Bands : There(r, x)},
         found' = [found EXCEPT ![r] = IF at[r] = "items" THEN SetToSeq(match) ELSE SetToSeq(mine \cup match)],
         done' = [done EXCEPT ![r] = 1], ReadOnly, UNCHANGED <<job, at>>
  PROVE  Keeps(r)
  <1>1. Base /\ OnRows /\ Local(r) /\ Running(r)
    BY DEF RateInv, Running, Ended, Clearing
  <1>2. /\ Is(r, Makers) /\ ~Is(r, Listers) /\ ~Is(r, Listers \cup {"ENROL", "BILL"}) /\ ~Is(r, {"BANDS", "SEED"})
        /\ ~Is(r, {"RATE"}) /\ ~Is(r, {"BANDS", "SEED", "ENROL", "BILL"})
    BY DEF Is, Makers, Listers
  <1> DEFINE S == IF at[r] = "items" THEN match ELSE mine \cup match
  <1>3. Range(found[r]) \subseteq Row /\ \A x \in Range(found[r]) : Old(x)
    BY <1>1 DEF Range, Base, Local, FoundOK
  <1>4. \A x \in match : x \in Row /\ There(r, x)
    BY RowsApart DEF Clearing, Prices
  <1>5. \A x \in match : Sees(r, x) = shown[x] /\ shown[x] # Absent /\ Typed(x, shown[x]) /\ Old(x)
    BY <1>2, <1>4, ClearerSees
  <1>6. S \subseteq Row /\ \A x \in S : x \in Row /\ Old(x)
    BY <1>3, <1>4, <1>5
  <1>7. SetToSeq(S) \in Seq(Row) /\ Range(SetToSeq(S)) = S
    BY <1>6, SetToSeqLists
  <1>8. found' = [found EXCEPT ![r] = SetToSeq(S)]
    <2>1. CASE at[r] = "items"
      BY <2>1
    <2>2. CASE at[r] # "items"
      BY <2>2
    <2>3. QED BY <2>1, <2>2
  <1>9. at[r] \in {"bands", "rates"} => S = mine \cup match
    OBVIOUS
  <1>10. at[r] = "items" => S = match
    OBVIOUS
  <1> HIDE DEF S
  <1>11. Moves(r) /\ at'[r] = at[r] /\ found'[r] = SetToSeq(S) /\ done'[r] = 1 /\ job' = job
    <2>1. Statement(r) /\ at[r] \in Steps /\ Go(r, at[r])
      BY <1>1 DEF Statement, Base, Go
    <2>2. QED BY <1>1, <1>7, <1>8, <2>1, GoMoves
  <1>12. Range(found[r])' = S
    BY <1>7, <1>11
  <1>13. row' = row /\ shown' = shown /\ holder' = holder
    BY DEF ReadOnly, rows
  <1>14. \A kinds : Is(r, kinds)' <=> Is(r, kinds)
    BY <1>11, JobsFixed
  <1>15. AtItsStep(r)'
    BY <1>2, <1>11, <1>14 DEF AtItsStep, Clearing
  <1>16. FoundOK(r)'
    <2>1. \A x \in S : Old(x)'
      BY <1>6, <1>11, OldStays
    <2>2. QED BY <1>2, <1>12, <1>14, <2>1 DEF FoundOK
  <1>17. Closing(r)'
    <2>1. (\A x \in Prices : ~(Closed(r, x) /\ shown[x] # Absent /\ shown[x].open))'
      BY <1>1, <1>2, <1>13 DEF Local, Closing, Closed, Holds
    <2>2. QED BY <1>2, <1>11, <1>14, <2>1 DEF Closing, Clearing
  <1>18. Whole(r)'
    BY <1>2, <1>14 DEF Whole
  <1>19. Opening(r)'
    <2>1. (\A x \in Prices : Holds(r, x) /\ x[2] = r => row[x].open)'
      BY <1>1, <1>13 DEF Local, Opening, Holds
    <2>2. ~Holds(r, Item(r))'
      BY <1>1, <1>13 DEF Local, Opening, Holds, Clearing
    <2>3. QED BY <1>11, <2>1, <2>2 DEF Opening, Clearing
  <1>20. Clearance(r)'
    <2>1. (\A x \in Row : holder[x] = r => row[x] = Absent /\ x \notin Items)'
      BY <1>1, <1>2, <1>13 DEF Local, Clearance
    <2>2. ASSUME at[r] \in {"bands", "rates"}, NEW x \in S, x \in Prices PROVE ItemOf(x) \in S
      <3>1. x \in match
        BY <1>9, <2>2, RowsApart
      <3>2. Sees(r, x).item \in mine
        BY <2>2, <3>1
      <3>3. Sees(r, x).item = ItemOf(x)
        BY <1>5, <2>2, <3>1 DEF Typed, PriceTyped
      <3>4. QED BY <1>9, <2>2, <3>2, <3>3
    <2>3. (at[r] \in {"bands", "rates"} => \A x \in Range(found[r]) : x \in Prices => ItemOf(x) \in Range(found[r]))'
      BY <1>11, <1>12, <2>2, JobsFixed
    <2>4. (at[r] = "items" => \A x \in Range(found[r]) : x \notin Rates)'
      <3>1. at[r] = "items" => S \subseteq Items \cup Bands
        BY <1>10
      <3>2. \A x \in Items \cup Bands : x \notin Rates
        BY RowsApart DEF Prices
      <3>3. QED BY <1>11, <1>12, <3>1, <3>2
    <2>5. ASSUME NEW x \in Rates, Deleted(r, x), shown[ItemOf(x)] # Absent PROVE ItemOf(x) \in S
      <3>1. ItemOf(x) \in Range(found[r])
        BY <1>1, <2>5 DEF Local, Clearance
      <3>2. x \in Prices /\ shown[x] # Absent
        BY <2>5 DEF Prices, Deleted
      <3>3. ItemOf(x) \in Items /\ ItemOf(x) \in Row
        BY <3>2, ItemsAreOlder DEF RateInv
      <3>4. ItemOf(x) \in mine
        BY <3>1, <3>3
      <3>5. holder[ItemOf(x)] # r
        BY <1>1, <1>2, <3>3 DEF Local, Clearance
      <3>6. There(r, ItemOf(x))
        BY <2>5, <3>5 DEF There, Sees
      <3>7. at[r] = "items" => ItemOf(x) \in match
        BY <3>3, <3>6
      <3>8. QED BY <1>9, <1>10, <3>4, <3>7 DEF Clearing
    <2>6. \A x \in Rates : ItemOf(x)' = ItemOf(x)
      BY <1>11, JobsFixed
    <2>7. (\A x \in Rates : Deleted(r, x) => Is(r, {"RESEED"}) /\ (shown[ItemOf(x)] # Absent => ItemOf(x) \in Range(found[r])))'
      BY <1>12, <1>13, <1>14, <2>5, <2>6 DEF Deleted
    <2>8. (at[r] \in Clearing)'
      BY <1>11 DEF Clearing
    <2>9. QED BY <2>1, <2>3, <2>4, <2>7, <2>8 DEF Clearance
  <1>21. Local(r)'
    BY <1>15, <1>16, <1>17, <1>18, <1>19, <1>20 DEF Local
  <1>22. QED BY <1>1, <1>11, <1>21, ReadingKeeps DEF Running

\* _clear deletes what it looked up: the item of a rate goes after it.
LEMMA ClearDeletes ==
  ASSUME NEW r \in Request, RateInv, Is(r, {"RESEED"}), at[r] \in Clearing, done[r] = 1,
         NEW mine, mine = {x \in Range(found[r]) : x \in Items},
         NEW step, /\ at[r] = "bands" => step = "rates"
                   /\ at[r] = "rates" => step = "items"
                   /\ at[r] = "items" => step = "create",
         Write(r, [x \in Doomed(r) |-> Absent]), Go(r, step), done' = [done EXCEPT ![r] = 0],
         found' = [found EXCEPT ![r] = SetToSeq(mine)], job' = job
  PROVE  Keeps(r)
  <1>1. Base /\ OnRows /\ Local(r) /\ Running(r)
    BY DEF RateInv, Running, Ended, Clearing
  <1>2. /\ Is(r, Makers) /\ ~Is(r, Listers) /\ ~Is(r, Listers \cup {"ENROL", "BILL"}) /\ ~Is(r, {"BANDS", "SEED"})
        /\ ~Is(r, {"RATE"}) /\ ~Is(r, {"BANDS", "SEED", "ENROL", "BILL"})
    BY DEF Is, Makers, Listers
  <1>3. step \in {"rates", "items", "create"} /\ step \in Steps
    BY DEF Clearing, Steps
  <1>4. Range(found[r]) \subseteq Row /\ \A x \in Range(found[r]) : Old(x)
    BY <1>1 DEF Range, Base, Local, FoundOK
  <1>5. mine \subseteq Row /\ SetToSeq(mine) \in Seq(Row) /\ Range(SetToSeq(mine)) = mine
    BY <1>4, SetToSeqLists
  <1> DEFINE D == Doomed(r)
             new == [x \in D |-> Absent]
  <1>6. /\ D \subseteq Range(found[r])
        /\ at[r] = "items" => D = Range(found[r])
        /\ at[r] # "items" => \A x \in D : x \notin Items
    BY DEF Doomed
  <1>7. Write(r, new) /\ DOMAIN new = D /\ \A x \in D : new[x] = Absent
    OBVIOUS
  <1> HIDE DEF D, new
  <1>8. /\ Touches(r) /\ shown' = shown
        /\ \A x \in Row : IF x \in D THEN row'[x] = Absent /\ holder'[x] = r ELSE Kept(x)
    <2>1. \A x \in Row : x \in DOMAIN new => new[x] = Absent \/ Updated(x)
      BY <1>7
    <2>2. QED BY <1>1, <1>7, <2>1, WriteTouches
  <1>9. Moves(r) /\ at'[r] = step /\ found'[r] = SetToSeq(mine) /\ done'[r] = 0
    <2>1. Statement(r)
      BY <1>7 DEF Statement
    <2>2. QED BY <1>1, <1>3, <1>5, <2>1, GoMoves
  <1>10. Range(found[r])' = mine
    BY <1>5, <1>9
  <1>11. \A kinds : Is(r, kinds)' <=> Is(r, kinds)
    BY JobsFixed
  <1>12. AtItsStep(r)'
    BY <1>2, <1>3, <1>9, <1>11 DEF AtItsStep, Clearing
  <1>13. FoundOK(r)'
    <2>1. \A x \in mine : Old(x)'
      BY <1>4, <1>5, <1>9, OldStays
    <2>2. QED BY <1>2, <1>10, <1>11, <2>1 DEF FoundOK
  <1>14. \A x \in Row : Holds(r, x)' => Holds(r, x) /\ Kept(x)
    BY <1>8 DEF Holds, Kept
  <1>15. Closing(r)'
    <2>1. (\A x \in Prices : ~(Closed(r, x) /\ shown[x] # Absent /\ shown[x].open))'
      <3>1. \A x \in Prices : ~(Closed(r, x) /\ shown[x] # Absent /\ shown[x].open)
        BY <1>1, <1>2 DEF Local, Closing
      <3>2. \A x \in Row : Closed(r, x)' => Closed(r, x)
        BY <1>14 DEF Closed, Kept
      <3>3. QED BY <1>8, <3>1, <3>2, RowsApart
    <2>2. QED BY <1>2, <1>3, <1>9, <1>11, <2>1 DEF Closing
  <1>16. Whole(r)'
    BY <1>2, <1>11 DEF Whole
  <1>17. Opening(r)'
    <2>1. (\A x \in Prices : Holds(r, x) /\ x[2] = r => row[x].open)'
      BY <1>1, <1>14, RowsApart DEF Local, Opening, Kept
    <2>2. ~Holds(r, Item(r))'
      <3>1. Item(r) \in Row
        BY RowsApart
      <3>2. QED BY <1>1, <1>14, <3>1 DEF Local, Opening, Clearing
    <2>3. QED BY <1>3, <1>9, <2>1, <2>2 DEF Opening
  <1>18. Clearance(r)'
    <2>1. (Is(r, Makers) /\ at[r] \in Clearing => \A x \in Row : holder[x] = r => row[x] = Absent /\ x \notin Items)'
      <3>1. \A x \in Row : holder[x] = r => row[x] = Absent /\ x \notin Items
        BY <1>1, <1>2 DEF Local, Clearance
      <3>2. at[r] # "items" => \A x \in Row : holder'[x] = r => row'[x] = Absent /\ x \notin Items
        BY <1>6, <1>8, <3>1 DEF Kept
      <3>3. at'[r] \in {"bands", "rates", "items"} => at[r] # "items"
        BY <1>9
      <3>4. QED BY <3>2, <3>3 DEF Clearing
    <2>2. (\A x \in Range(found[r]) : x \notin Prices /\ x \notin Rates)'
      BY <1>10, RowsApart DEF Prices
    <2>3. ASSUME NEW x \in Rates, Deleted(r, x)', shown[ItemOf(x)] # Absent
          PROVE  IF step = "create" THEN Deleted(r, ItemOf(x))' ELSE ItemOf(x) \in mine
      <3>1. x \in Row /\ x \in Prices /\ shown[x] # Absent
        BY <1>8, <2>3, RowsApart DEF Prices, Deleted
      <3>2. ItemOf(x) \in Items /\ ItemOf(x) \in Row
        BY <3>1, ItemsAreOlder DEF RateInv
      <3>3. ItemOf(x) \in Range(found[r])
        <4>1. CASE x \in D
          <5>1. x \in Range(found[r]) /\ at[r] # "items"
            BY <1>1, <1>6, <4>1 DEF Local, Clearance
          <5>2. QED BY <1>1, <3>1, <5>1 DEF Local, Clearance, Clearing
        <4>2. CASE x \notin D
          <5>1. Deleted(r, x)
            BY <1>8, <2>3, <3>1, <4>2 DEF Deleted, Kept
          <5>2. QED BY <1>1, <2>3, <5>1 DEF Local, Clearance
        <4>3. QED BY <4>1, <4>2
      <3>4. CASE step = "create"
        <4>1. at[r] = "items"
          BY <3>4 DEF Clearing
        <4>2. PICK i \in Row : i = ItemOf(x)
          BY <3>2
        <4>3. i \in D
          BY <1>6, <3>3, <4>1, <4>2
        <4>4. Deleted(r, i)'
          BY <1>8, <2>3, <4>2, <4>3 DEF Deleted
        <4>5. ItemOf(x)' = i
          BY <4>2, JobsFixed
        <4>6. QED BY <3>4, <4>4, <4>5 DEF Deleted
      <3>5. CASE step # "create"
        BY <3>2, <3>3, <3>5
      <3>6. QED BY <3>4, <3>5
    <2>4. \A x \in Rates : ItemOf(x)' = ItemOf(x)
      BY JobsFixed
    <2>5. (\A x \in Rates : Deleted(r, x) => Is(r, {"RESEED"}) /\
             (shown[ItemOf(x)] # Absent =>
                IF at[r] \in Clearing THEN ItemOf(x) \in Range(found[r]) ELSE Deleted(r, ItemOf(x))))'
      <3>1. at'[r] \in {"bands", "rates", "items"} <=> step # "create"
        BY <1>3, <1>9
      <3>2. QED BY <1>8, <1>10, <1>11, <2>3, <2>4, <3>1 DEF Clearing
    <2>6. QED BY <2>1, <2>2, <2>5 DEF Clearance
  <1>19. Local(r)'
    BY <1>12, <1>13, <1>15, <1>16, <1>17, <1>18 DEF Local
  <1>20. QED BY <1>3, <1>8, <1>9, <1>19 DEF Keeps, Ended

\* _clear, query after query.
LEMMA ClearKeeps ==
  ASSUME NEW r \in Request, RateInv, Clear(r)
  PROVE  Keeps(r)
  <1> DEFINE mine == {x \in Range(found[r]) : x \in Items}
             match == CASE at[r] = "bands" -> {x \in Bands : There(r, x) /\ Sees(r, x).item \in mine}
                        [] at[r] = "rates" -> {x \in Rates : There(r, x) /\ Sees(r, x).item \in mine}
                        [] OTHER -> {x \in Items \cup Bands : There(r, x)}
             next == [bands |-> "rates", rates |-> "items", items |-> "create"]
  <1>1. Is(r, {"RESEED"})
    BY DEF Clear
  <1>2. CASE /\ at[r] = "clear"
             /\ found' = [found EXCEPT ![r] = SetToSeq({x \in Items : There(r, x)})]
             /\ Go(r, "bands") /\ ReadOnly /\ UNCHANGED <<job, done>>
    BY <1>1, <1>2, ClearStarts
  <1>3. CASE at[r] \in Clearing /\ Rollback(r)
    <2>1. Running(r) /\ at[r] # "list"
      BY <1>3 DEF Running, Ended, Clearing
    <2>2. QED BY <1>3, <2>1, RollbackKeeps
  <1>4. CASE /\ at[r] \in Clearing
             /\ found' = [found EXCEPT ![r] = IF at[r] = "items" THEN SetToSeq(match) ELSE SetToSeq(mine \cup match)]
             /\ done' = [done EXCEPT ![r] = 1] /\ ReadOnly /\ UNCHANGED <<job, at>>
    <2>1. at[r] = "bands" => match = {x \in Bands : There(r, x) /\ Sees(r, x).item \in mine}
      OBVIOUS
    <2>2. at[r] = "rates" => match = {x \in Rates : There(r, x) /\ Sees(r, x).item \in mine}
      OBVIOUS
    <2>3. at[r] = "items" => match = {x \in Items \cup Bands : There(r, x)}
      OBVIOUS
    <2> HIDE DEF match
    <2>4. mine = {x \in Range(found[r]) : x \in Items}
      OBVIOUS
    <2> HIDE DEF mine
    <2>5. QED BY <1>1, <1>4, <2>1, <2>2, <2>3, <2>4, ClearLooks
  <1>5. CASE /\ at[r] \in Clearing /\ done[r] = 1
             /\ Write(r, [x \in Doomed(r) |-> Absent])
             /\ Go(r, next[at[r]]) /\ done' = [done EXCEPT ![r] = 0]
             /\ found' = [found EXCEPT ![r] = SetToSeq(mine)] /\ UNCHANGED job
    <2>1. PICK step : step = next[at[r]]
      OBVIOUS
    <2>2. /\ at[r] = "bands" => step = "rates"
          /\ at[r] = "rates" => step = "items"
          /\ at[r] = "items" => step = "create"
      BY <2>1
    <2>3. mine = {x \in Range(found[r]) : x \in Items} /\ Go(r, step)
      BY <1>5, <2>1
    <2> HIDE DEF mine
    <2>4. QED BY <1>1, <1>5, <2>2, <2>3, ClearDeletes
  <1>6. QED BY <1>2, <1>3, <1>4, <1>5 DEF Clear

\* A commit, or its refusal.
LEMMA CommitKeeps ==
  ASSUME NEW r \in Request, RateInv, Commit(r)
  PROVE  Keeps(r)
  <1>1. Base /\ OnRows /\ Local(r) /\ at[r] = "commit" /\ Running(r)
    BY DEF RateInv, Commit, Running, Ended
  <1>2. CASE ReferencesHold(r) /\ Publish(r) /\ Turn(r, "done")
    <2>1. Moves(r) /\ at'[r] = "done" /\ found'[r] = found[r] /\ done'[r] = 0 /\ job' = job
      BY <1>1, <1>2, TurnMoves DEF Statement, Steps, Ended
    <2>2. Commits(r)
      BY <1>1, <1>2, <2>1 DEF Commits
    <2>3. HoldsNone(r)' /\ Base'
      BY <1>1, <2>1, <2>2, CommitKeepsRows DEF Moves
    <2>4. \A kinds : Is(r, kinds)' <=> Is(r, kinds)
      BY <2>1, JobsFixed
    <2>5. AtItsStep(r)'
      <3>1. Is(r, Listers \cup {"ENROL", "BILL"}) => Old(Asked(r))'
        BY <1>1, <2>1, AskedStays DEF Local, AtItsStep
      <3>2. QED BY <2>1, <2>4, <3>1 DEF AtItsStep, Ended
    <2>6. FoundOK(r)'
      BY <1>1, <2>1, FoundStays
    <2>7. Whole(r)'
      BY <2>1 DEF Whole
    <2>8. Local(r)'
      BY <2>1, <2>3, <2>5, <2>6, <2>7, EmptyHandedLocal
    <2>9. QED BY <2>1, <2>2, <2>8 DEF Keeps
  <1>3. CASE Rollback(r)
    BY <1>1, <1>3, RollbackKeeps
  <1>4. QED BY <1>2, <1>3 DEF Commit

\* The victim of a deadlock waits for a row, so it runs.
LEMMA AbortKeeps ==
  ASSUME NEW r \in Request, RateInv, Abort(r)
  PROVE  Keeps(r)
  <1>1. Rollback(r) /\ InWaitCycle(r, [q \in Request |-> Wants(q)])
    BY DEF Abort, DeadlockVictim
  <1>2. Wants(r) # {}
    <2> DEFINE wants == [q \in Request |-> Wants(q)]
    <2>1. \E q \in Request : \E x \in wants[r] : holder[x] = q
      <3> HIDE DEF wants
      <3>1. InWaitCycle(r, wants)
        BY <1>1 DEF wants
      <3>2. QED BY <3>1 DEF InWaitCycle
    <2>2. wants[r] = Wants(r)
      OBVIOUS
    <2>3. QED BY <2>1, <2>2
  <1>3. at[r] # "list" /\ Running(r)
    BY <1>2, WantsAre DEF Running
  <1>4. QED BY <1>1, <1>3, RollbackKeeps

\* A step of a request keeps the invariant.
LEMMA WorkKeeps ==
  ASSUME NEW r \in Request, RateInv, Work(r)
  PROVE  RateInv'
  <1>1. Keeps(r)
    BY FindItemKeeps, ListOpenKeeps, CloseOldKeeps, OpenNewKeeps, ValidateCodeKeeps, CreateItemKeeps,
       CheckRetireKeeps, SaveRetiredKeeps, PriceKeeps, IssueKeeps, SettleKeeps, GuardDependentsKeeps,
       ClearKeeps, CommitKeeps, AbortKeeps
    DEF Work
  <1>2. Base /\ OnRows /\ \A q \in Request : Local(q)
    BY DEF RateInv
  <1>3. Moves(r) /\ Local(r)' /\ Base'
    BY <1>1 DEF Keeps, Moves
  <1>4. (Touches(r) /\ (at'[r] \in Ended => HoldsNone(r)')) \/ Undoes(r) \/ Commits(r)
    BY <1>1 DEF Keeps
  <1>5. OnRows'
    BY <1>2, <1>3, <1>4, TouchesKeepRows, UndoKeepsRows, CommitKeepsRows
  <1>6. Leaves(r)
    BY <1>2, <1>4, StepsLeave
  <1>7. \A q \in Request \ {r} : Local(q)'
    BY <1>2, <1>3, <1>6, OthersKeepLocal
  <1>8. QED BY <1>3, <1>5, <1>7 DEF RateInv

\* What nothing changes stays true.
LEMMA StutterKeeps ==
  ASSUME RateInv, UNCHANGED vars
  PROVE  RateInv'
  <1>1. job' = job /\ at' = at /\ found' = found /\ done' = done /\ row' = row /\ shown' = shown /\ holder' = holder
    BY DEF vars
  <1>2. Base'
    BY <1>1 DEF RateInv, Base, RowsAre, LocksHold
  <1>3. \A x, y : Typed(x, y)' <=> Typed(x, y)
    BY <1>1, JobsFixed
  <1>4. \A x : Old(x)' <=> Old(x)
    BY <1>1 DEF Old
  <1>5. OnRows'
    <2>1. ASSUME NEW x \in Row PROVE RowOK(x)'
      <3>1. RowOK(x)
        BY DEF RateInv, OnRows
      <3>2. Typed(x, row[x])' /\ Typed(x, shown[x])'
        BY <1>1, <1>3, <3>1 DEF RowOK
      <3>3. QED BY <1>1, <3>1, <3>2 DEF RowOK, Old, Running, Follows, SameTerms, SameDemand
    <2>2. QED BY <1>1, <2>1 DEF RateInv, OnRows, Apart, Both, DemandOK, Cited, Agrees, Old, HasRate, IsOpen, Together
  <1>6. ASSUME NEW r \in Request PROVE Local(r)'
    <2>1. Local(r)
      BY DEF RateInv
    <2>2. (\A kinds : Is(r, kinds)' <=> Is(r, kinds)) /\ Asked(r)' = Asked(r) /\ \A x : ItemOf(x)' = ItemOf(x)
      BY <1>1, JobsFixed
    <2>3. AtItsStep(r)'
      BY <1>1, <2>1, <2>2 DEF Local, AtItsStep, Holds, HoldsNone, Old, Clearing, Ended
    <2>4. FoundOK(r)'
      BY <1>1, <2>1, <2>2, <1>4 DEF Local, FoundOK
    <2>5. Closing(r)'
      BY <1>1, <2>1, <2>2 DEF Local, Closing, Closed, Holds, HoldsNone
    <2>6. Whole(r)'
      BY <1>1, <2>1, <2>2 DEF Local, Whole
    <2>7. Opening(r)'
      BY <1>1, <2>1, <2>2 DEF Local, Opening, Holds
    <2>8. Clearance(r)'
      BY <1>1, <2>1, <2>2 DEF Local, Clearance, Deleted, Clearing
    <2>9. QED BY <2>3, <2>4, <2>5, <2>6, <2>7, <2>8 DEF Local
  <1>7. QED BY <1>2, <1>5, <1>6 DEF RateInv

\* At the start there is one item, with its rate and bands, and nobody has begun.
LEMMA InitRateInv ==
  ASSUME Init
  PROVE  RateInv
  <1>1. job \in Workloads /\ row = FirstRows /\ shown = row /\ holder = [x \in Row |-> 0]
    BY DEF Init
  <1>2. 0 \in 0..N /\ Item(0) \in Items /\ Rate(0) \in Rates /\ Rate(0)[2] = 0 /\ Item(0)[2] = 0 /\ 0 \notin Request
    <2>1. 0 \in 0..N
      BY RateBookConstants
    <2>2. QED BY <2>1, RowsApart
  <1>3. \A x \in Row : row[x] = IF x = Item(0) THEN [code |-> FirstCode, active |-> TRUE]
                                ELSE IF x = Rate(0) THEN Schedule(Item(0), 1)
                                ELSE IF x \in Bands /\ x[2] = 0 /\ x[3] \in DOMAIN FirstBands
                                     THEN BandOf(Item(0), FirstBands[x[3]])
                                ELSE Absent
    BY <1>1 DEF FirstRows
  <1>4. \A r \in Request : at[r] = First(job[r].kind) /\ found[r] = <<>> /\ done[r] = 0
    BY DEF Init
  <1>5. \A r \in Request : at[r] = IF Is(r, Makers) THEN "check" ELSE IF Is(r, {"SETTLE"}) THEN "settle" ELSE "find"
    BY <1>4 DEF First, Is, Makers
  <1>6. Base
    <2>1. at \in [Request -> Steps]
      <3>1. \A r \in Request : First(job[r].kind) \in Steps
        BY <1>4, <1>5 DEF Steps
      <3>2. QED BY <3>1 DEF Init
    <2>2. found \in [Request -> Seq(Row)] /\ done \in [Request -> Nat]
      BY DEF Init
    <2>3. RowsAre(Row) /\ LocksHold(Row)
      BY <1>1 DEF FirstRows, RowsAre, LocksHold
    <2>4. QED BY <1>1, <2>1, <2>2, <2>3 DEF Base
  <1>7. /\ Schedule(Item(0), 1) \in PriceRow /\ Schedule(Item(0), 1).item = Item(0)
        /\ Schedule(Item(0), 1).label = 0 /\ Schedule(Item(0), 1).open
    BY <1>2, SchedulesTyped DEF Schedule
  <1>8. \A x \in Bands : row[x] # Absent => x[2] = 0 /\ row[x] \in PriceRow /\ row[x].item = Item(0) /\ row[x].open
    <2> SUFFICES ASSUME NEW x \in Bands, row[x] # Absent
                 PROVE  x[2] = 0 /\ row[x] \in PriceRow /\ row[x].item = Item(0) /\ row[x].open
      OBVIOUS
    <2>1. x \in Row /\ x # Item(0) /\ x # Rate(0)
      BY <1>2, RowsApart DEF Prices
    <2>2. x[2] = 0 /\ x[3] \in DOMAIN FirstBands /\ row[x] = BandOf(Item(0), FirstBands[x[3]])
      BY <1>3, <2>1
    <2>3. FirstBands[x[3]] \in Spec1
      BY <2>2, RateBookConstants
    <2>4. QED BY <1>2, <2>2, <2>3, BandsTyped DEF BandOf
  <1>9. \A x \in Rates : row[x] # Absent => x = Rate(0) /\ row[x] = Schedule(Item(0), 1)
    BY <1>2, <1>3, RowsApart DEF Prices
  <1>10. \A x \in Demands : row[x] = Absent
    BY <1>2, <1>3, RowsApart DEF Prices
  <1>11. \A x \in Items : row[x] # Absent => x = Item(0)
    BY <1>2, <1>3, RowsApart DEF Prices
  <1>12. OnRows
    <2>1. ASSUME NEW x \in Row PROVE RowOK(x)
      <3>1. x \in Items \cup Prices \cup Demands
        BY RowsApart
      <3>2. row[x] # Absent => x[2] = 0 /\ x \notin Demands
        BY <1>2, <1>8, <1>9, <1>10, <1>11, <3>1 DEF Prices
      <3>3. x \in Prices /\ row[x] # Absent => PriceTyped(x, row[x])
        BY <1>7, <1>8, <1>9, <3>2, RowsApart DEF PriceTyped, ItemOf, Prices
      <3>4. Typed(x, row[x])
        BY <3>2, <3>3 DEF Typed
      <3>5. QED BY <1>1, <3>2, <3>4 DEF RowOK, Old, Follows, SameTerms, SameDemand
    <2>2. \A x, y \in Rates : x # y => Apart(x, y)
      BY <1>1, <1>9 DEF Apart, Both
    <2>3. \A x \in Demands : DemandOK(x)
      BY <1>1, <1>10 DEF DemandOK
    <2>4. \A i \in Items : HasRate(i)
      <3>1. Rate(0) \in Row /\ Rate(0) # Item(0)
        BY <1>2, RowsApart DEF Prices
      <3>2. row[Rate(0)] = Schedule(Item(0), 1) /\ row[Rate(0)] # Absent
        BY <1>3, <1>7, <3>1, AbsentIsNoRow
      <3>3. IsOpen(Rate(0), Item(0))
        BY <1>1, <1>7, <3>2 DEF IsOpen
      <3>4. QED BY <1>1, <1>2, <1>11, <3>3 DEF HasRate
    <2>5. \A x, y \in Bands : Together(x, y)
      BY <1>1, <1>8 DEF Together
    <2>6. QED BY <2>1, <2>2, <2>3, <2>4, <2>5 DEF OnRows
  <1>13. ASSUME NEW r \in Request PROVE Local(r)
    <2>1. HoldsNone(r)
      BY <1>1, <1>2 DEF HoldsNone
    <2>2. Item(r) \in Row /\ \A x \in Prices : x \in Row
      BY RowsApart
    <2>3. /\ \A x \in Prices : ~Holds(r, x) /\ ~Closed(r, x) /\ ~Deleted(r, x)
          /\ ~Holds(r, Item(r))
      BY <2>1, <2>2 DEF HoldsNone, Holds, Closed, Deleted
    <2>4. at[r] \in {"check", "settle", "find"} /\ Range(found[r]) = {}
      BY <1>4, <1>5 DEF Range
    <2>5. AtItsStep(r)
      <3>1. /\ at[r] = "check" => Is(r, Makers)
            /\ Is(r, Makers) => at[r] = "check"
            /\ at[r] = "settle" => Is(r, {"SETTLE"})
            /\ at[r] = "find" => ~Is(r, {"SETTLE"})
            /\ Is(r, Listers \cup {"ENROL", "BILL"}) => at[r] = "find"
        BY <1>5 DEF Is, Makers, Listers
      <3>2. QED BY <2>1, <2>4, <3>1 DEF AtItsStep
    <2>6. FoundOK(r) /\ Whole(r)
      BY <2>4 DEF FoundOK, Whole
    <2>7. Closing(r) /\ Opening(r)
      BY <2>3, <2>4 DEF Closing, Opening
    <2>8. Clearance(r)
      BY <2>3, <2>4 DEF Clearance, Clearing, Prices
    <2>9. QED BY <2>5, <2>6, <2>7, <2>8 DEF Local
  <1>14. QED BY <1>6, <1>12, <1>13 DEF RateInv

-----------------------------------------------------------------------------
(* The theorems. *)

\* The invariant holds in every state the requests reach (services.py of revenue, its
\* views, and the seed commands).
THEOREM RateInvariance == Spec => []RateInv
  <1>1. Init => RateInv
    BY InitRateInv
  <1>2. RateInv /\ [Next]_vars => RateInv'
    <2> SUFFICES ASSUME RateInv, [Next]_vars PROVE RateInv'
      OBVIOUS
    <2>1. CASE \E r \in Request : Work(r)
      BY <2>1, WorkKeeps
    <2>2. CASE UNCHANGED vars
      BY <2>2, StutterKeeps
    <2>3. QED BY <2>1, <2>2 DEF Next, AllEnded
  <1>3. QED BY <1>1, <1>2, PTL DEF Spec

\* An item that exists has exactly one open rate, however rate changes, creations and
\* seed runs overlap or fail (change_rate, uniq_open_rate_per_item).
THEOREM OneRatePerItem == Spec => []ItemHasOneRate
  <1>1. RateInv => ItemHasOneRate
    <2> SUFFICES ASSUME RateInv, NEW i \in Items, shown[i] # Absent
                 PROVE  \E x \in Rates : Open(Rates, i) = {x}
      BY DEF ItemHasOneRate
    <2>1. HasRate(i) /\ \A x, y \in Rates : x # y => ~Both(shown[x], shown[y])
      BY DEF RateInv, OnRows, Apart
    <2>2. PICK x \in Rates : IsOpen(x, i)
      BY <2>1 DEF HasRate
    <2>3. \A y \in Rates : IsOpen(y, i) => y = x
      BY <2>1, <2>2 DEF IsOpen, Both
    <2>4. Open(Rates, i) = {y \in Rates : IsOpen(y, i)}
      BY DEF Open, IsOpen
    <2>5. Open(Rates, i) = {x}
      BY <2>2, <2>3, <2>4
    <2>6. QED BY <2>5
  <1>2. QED BY <1>1, RateInvariance, PTL

\* An assessment agrees with the row it cites whatever becomes of the rate: a rate
\* change never alters what was assessed (create_draft_assessment, change_rate).
THEOREM DemandsKeepPrice == Spec => []DemandsKeepTheirPrice
  <1>1. RateInv => DemandsKeepTheirPrice
    <2> SUFFICES ASSUME RateInv, NEW x \in Demands, shown[x] # Absent
                 PROVE  LET d == shown[x]
                        IN /\ shown[d.cites] # Absent /\ shown[d.cites].item = d.item
                           /\ d.unit \in shown[d.cites].prices /\ d.amount = d.unit * d.quantity
      BY DEF DemandsKeepTheirPrice
    <2>1. Cited(shown[x]) /\ shown[shown[x].cites] # Absent
      BY DEF RateInv, OnRows, DemandOK
    <2>2. QED BY <2>1 DEF Cited, Agrees
  <1>2. QED BY <1>1, RateInvariance, PTL

\* The bands of one replacement are open together or closed together: no amendment
\* keeps a part of a set it supersedes (replace_rate_bands).
THEOREM BandsTogether == Spec => []BandsCloseTogether
  <1>1. RateInv => BandsCloseTogether
    <2> SUFFICES ASSUME RateInv, NEW r \in 0..N, NEW k \in 1..MaxBands, NEW l \in 1..MaxBands,
                        shown[Band(r, k)] # Absent, shown[Band(r, l)] # Absent
                 PROVE  shown[Band(r, k)].open = shown[Band(r, l)].open
      BY DEF BandsCloseTogether
    <2>1. /\ Band(r, k) \in Bands /\ Band(r, k)[2] = r
          /\ Band(r, l) \in Bands /\ Band(r, l)[2] = r
      BY RowsApart
    <2>2. Together(Band(r, k), Band(r, l))
      BY <2>1 DEF RateInv, OnRows
    <2>3. QED BY <2>1, <2>2 DEF Together
  <1>2. QED BY <1>1, RateInvariance, PTL
=============================================================================
