------------------------------ MODULE RateBook -------------------------------
(***************************************************************************)
(* What a council charges for: revenue items, their rate history and their *)
(* bands (apps/revenue/services.py, the views and the seed commands that   *)
(* call it), beside the assessments priced from them                       *)
(* (create_draft_assessment).  Requests overlap as in module Requests; a   *)
(* command is one more request.                                            *)
(*                                                                         *)
(* A price row is a RateSchedule or a RateBand with its tiers: it is never *)
(* changed except for being closed.  A failing insert undoes the service   *)
(* call (its savepoint), which is all the request had done.                *)
(***************************************************************************)
EXTENDS Requests, SequencesExt

CONSTANTS
  MaxBands,   \* bands in one replacement set
  Code, Label,
  FirstCode, FirstBands, \* the code of the item there is, and its open bands
  Workloads   \* the jobs the requests may have

Unset == -1
NoRow == <<"none", 0, 0>>

Item(i) == <<"item", i, 0>>      \* of request i; 0 is the item there from the start
Rate(r) == <<"rate", r, 0>>
Band(r, k) == <<"band", r, k>>   \* k is its sort_order
Demand(r) == <<"assessment", r, 0>>

Items == {Item(i) : i \in 0..N}
Rates == {Rate(r) : r \in 0..N}
Bands == {Band(r, k) : r \in 0..N, k \in 1..MaxBands}
Demands == {Demand(r) : r \in Request}
Row == Items \cup Rates \cup Bands \cup Demands

Mode == {"FLAT", "RANGE", "TIERED"}
\* One band of a request, before it is validated.
Spec1 == [label : Label, mode : Mode, flat : Int, min : Int, max : Int, tiers : Seq(Label \X Nat)]
Kinds == {"RATE", "BANDS", "SEED", "RETIRE", "CREATE", "ENROL", "BILL", "SETTLE", "RESEED"}

ASSUME RateBookConstants ==
  /\ FirstCode \in Code /\ FirstBands \in Seq(Spec1) /\ Len(FirstBands) <= MaxBands
  /\ N \in Nat /\ MaxBands \in Nat \ {0} /\ Label \subseteq Nat
  /\ \A w \in Workloads : \A r \in Request :
       /\ w[r].kind \in Kinds /\ w[r].item \in Items /\ w[r].code \in Code
       /\ w[r].band \in Bands \cup {NoRow} /\ w[r].tierOf \in Bands \cup {NoRow}
       /\ w[r].price \in Nat /\ w[r].want \in Nat /\ w[r].quantity \in Int
       /\ w[r].specs \in Seq(Spec1) /\ Len(w[r].specs) <= MaxBands /\ w[r].dry \in BOOLEAN

VARIABLES
  job,   \* Request -> what it asks for, fixed
  found, \* Request -> the rows it read, in order
  done   \* Request -> how many of its rows it has closed or opened

vars == <<job, at, found, done, row, shown, holder>>

ItemRow == [code : Code, active : BOOLEAN]
DemandRow == [item : Items, cites : Rates \cup Bands, unit : Int, quantity : Nat \ {0}, amount : Int,
              status : {"DRAFT", "OUTSTANDING", "PAID"}]

PriceRow == [item : Items, label : Nat, mode : Mode \cup {"SCHEDULE"}, prices : SUBSET Int, open : BOOLEAN]

\* A row that does not exist is no version of one.
ASSUME AbsentIsNoRow == Absent \notin PriceRow \cup DemandRow

\* The CHECK constraint rate_band_amount_fields_match_mode and the tiers beside it,
\* seen as the amounts a row lets be charged.
PriceRowOK(y) ==
  /\ y \in PriceRow /\ y.prices # {}
  /\ y.mode \in {"SCHEDULE", "FLAT"} => \E p \in y.prices : y.prices = {p}

RowsOK(v) ==
  /\ \A x \in Items : v[x] \in ItemRow \cup {Absent}
  /\ \A x \in Rates \cup Bands : v[x] # Absent => PriceRowOK(v[x])
  /\ \A x \in Demands : v[x] \in DemandRow \cup {Absent}

Steps == {"find", "list", "close", "open", "price", "check", "save", "create", "issue", "settle",
          "clear", "bands", "rates", "items", "commit"} \cup Ended

TypeOK ==
  /\ job \in Workloads
  /\ at \in [Request -> Steps]
  /\ \A r \in Request : Range(found[r]) \subseteq Row /\ done[r] \in 0..(N + 1) * MaxBands
  /\ RowsOK(row) /\ RowsOK(shown)
  /\ holder \in [Row -> 0..N]

-----------------------------------------------------------------------------
(* The rows a query returns. *)

Is(r, kinds) == job[r].kind \in kinds
Asked(r) == job[r].item
OpenIn(r, S, i) == {x \in S : There(r, x) /\ Sees(r, x).item = i /\ Sees(r, x).open}

\* Meta.ordering of RateBand: sort_order, then label.
BandOrder(r, x, y) ==
  \/ x[3] < y[3]
  \/ x[3] = y[3] /\ Sees(r, x).label < Sees(r, y).label

\* The rows of S as a query lists them.
Listings(r, S) ==
  {s \in [1..Cardinality(S) -> S] :
     /\ \A x \in S : \E k \in DOMAIN s : s[k] = x
     /\ \A j, k \in DOMAIN s : j < k => ~BandOrder(r, s[k], s[j])}

ActiveBands(r, i) == OpenIn(r, Bands, i)
CurrentRate(r, i) == OpenIn(r, Rates, i)

\* Defect: only the items have their index.
ItemsClash(x, new, y, old) ==
  x[1] = "item" /\ y[1] = "item" /\ old.active /\ old.code = new.code

\* uniq_open_rate_per_item, uniq_open_band_label_per_item
PricesClash(x, new, y, old) ==
  x[1] # "item" /\ x[1] = y[1] /\ old.open /\ old.item = new.item /\ old.label = new.label

\* With uniq_item_code_per_council, the unique indexes of the price list.
Clashes(x, new, y, old) == ItemsClash(x, new, y, old) \/ PricesClash(x, new, y, old)

\* Rows in the way of an insert: there, or there unless another request ends one way
\* or the other.
Rivals(r, x, new) ==
  {y \in (Items \cup Rates \cup Bands) \ {x} :
     \/ row[y] # Absent /\ Clashes(x, new, y, row[y])
     \/ holder[y] \notin {0, r} /\ shown[y] # Absent /\ Clashes(x, new, y, shown[y])}

\* The foreign keys of an assessment, a rate or a band y.
RefersTo(x, y) ==
  CASE x[1] = "assessment" -> {y.item, y.cites}
    [] x[1] \in {"rate", "band"} -> {y.item}
    [] OTHER -> {}

\* PROTECT: rows that are there refer to one of S (bands go with their item).
Protected(r, S) == \E x \in Demands \cup Rates : There(r, x) /\ RefersTo(x, Sees(r, x)) \cap S # {}

\* Defect: rows that were deleted meanwhile are not missed.
Unchecked(r) == TRUE

\* The deferred foreign keys, checked at the commit: what r inserted refers to rows
\* that are there, and nothing is left that refers to what r deleted.
Needed(r) == UNION {RefersTo(x, row[x]) : x \in {y \in HeldBy(r) : shown[y] = Absent /\ row[y] # Absent}}

ReferencesHold(r) ==
  /\ \A x \in Needed(r) : row[x] # Absent
  /\ \A x \in Row : There(r, x) => \A y \in RefersTo(x, Sees(r, x)) : holder[y] = r => row[y] # Absent

-----------------------------------------------------------------------------
(* _validate_band_spec and the checks of replace_rate_bands. *)

ValidSpec(s) ==
  CASE s.mode = "FLAT"   -> s.flat # Unset /\ s.min = Unset /\ s.max = Unset /\ s.tiers = <<>>
    [] s.mode = "RANGE"  -> /\ s.min # Unset /\ s.max # Unset /\ s.min <= s.max
                            /\ s.flat = Unset /\ s.tiers = <<>>
    [] s.mode = "TIERED" -> /\ Len(s.tiers) >= 2
                            /\ \A i, j \in DOMAIN s.tiers : s.tiers[i][1] = s.tiers[j][1] => i = j
                            /\ s.flat = Unset /\ s.min = Unset /\ s.max = Unset

ValidBands(specs) ==
  /\ \A i, j \in DOMAIN specs : specs[i].label = specs[j].label => i = j
  /\ \A i \in DOMAIN specs : ValidSpec(specs[i])

PricesOf(s) ==
  CASE s.mode = "FLAT"   -> {s.flat}
    [] s.mode = "RANGE"  -> s.min..s.max
    [] s.mode = "TIERED" -> {s.tiers[i][2] : i \in DOMAIN s.tiers}

Schedule(i, price) == [item |-> i, label |-> 0, mode |-> "SCHEDULE", prices |-> {price}, open |-> TRUE]

\* Defect: a rate is changed in place.
Overwrites(r) ==
  IF Is(r, {"RATE"}) THEN <<<<found[r][1], Schedule(Asked(r), job[r].price)>>>>
  ELSE IF Is(r, {"CREATE"}) THEN <<<<Rate(r), Schedule(Item(r), job[r].price)>>>>
  ELSE <<>>

Priced(r) == IF Is(r, {"CREATE", "RESEED"}) THEN Item(r) ELSE Asked(r)

NewRate(r) ==
  IF Is(r, {"RATE", "CREATE", "RESEED"}) THEN <<<<Rate(r), Schedule(Priced(r), job[r].price)>>>> ELSE <<>>

BandOf(i, s) == [item |-> i, label |-> s.label, mode |-> s.mode, prices |-> PricesOf(s), open |-> TRUE]

NewBands(r) == [k \in DOMAIN job[r].specs |-> <<Band(r, k), BandOf(Priced(r), job[r].specs[k])>>]

\* The rows a request opens, in order, each with its contents.
Opens(r) == NewRate(r) \o NewBands(r)

-----------------------------------------------------------------------------
(* The steps of the requests. *)

Next1(r) == Opens(r)[done[r] + 1]
NewRow(r) == Next1(r)[1]

\* What _clear deletes next, as its query found it; the items it began with stay listed.
Clearing == {"bands", "rates", "items"}
Doomed(r) == IF done[r] = 0 THEN {} ELSE Range(found[r]) \ (IF at[r] = "items" THEN {} ELSE Items)

\* The rows a request needs for its next step.
Wants(r) ==
  CASE at[r] = "close" /\ done[r] < Len(found[r]) -> {found[r][done[r] + 1]}
    [] at[r] = "open" /\ done[r] < Len(Opens(r)) -> Rivals(r, NewRow(r), Next1(r)[2])
    [] at[r] = "create" -> Rivals(r, Item(r), [code |-> job[r].code, active |-> TRUE])
    [] at[r] = "save"   -> {Asked(r)}
    [] at[r] = "settle" -> Demands
    [] at[r] \in Clearing -> Doomed(r)
    [] at[r] = "commit" -> {x \in Needed(r) : row[x] = Absent}
    [] OTHER            -> {}

Ready(r) == Free(r, Wants(r))
Keep == UNCHANGED <<job, found>>
Turn(r, step) == Go(r, step) /\ done' = [done EXCEPT ![r] = 0] /\ Keep
Count(r) == done' = [done EXCEPT ![r] = @ + 1] /\ UNCHANGED at /\ Keep
Rollback(r) == Undo(HeldBy(r)) /\ Turn(r, "failed")

\* What comes after the item is found.
Second ==
  [RATE |-> "list", BANDS |-> "list", SEED |-> "list", RETIRE |-> "check", ENROL |-> "price",
   BILL |-> "price"]

\* get_object, only of active items; then the band of a bill line, which must be of the item.
FindItem(r) ==
  LET b == job[r].band
      fine == /\ There(r, Asked(r)) /\ Sees(r, Asked(r)).active
              /\ Is(r, {"BANDS"}) => ValidBands(job[r].specs)
              /\ b # NoRow => There(r, b) /\ Sees(r, b).item = Asked(r)
  IN /\ at[r] = "find"
     /\ found' = [found EXCEPT ![r] = IF fine /\ b # NoRow /\ Sees(r, b).open THEN <<b>> ELSE <<>>]
     /\ Go(r, IF fine THEN Second[job[r].kind] ELSE "refused")
     /\ ReadOnly /\ UNCHANGED <<job, done>>

\* Defect: only the bands that get a successor are closed.
SameLabels(r) ==
  IF Is(r, {"RATE"}) THEN CurrentRate(r, Asked(r))
  ELSE {x \in ActiveBands(r, Asked(r)) : \E k \in DOMAIN job[r].specs : job[r].specs[k].label = Sees(r, x).label}

ToClose(r) == IF Is(r, {"RATE"}) THEN CurrentRate(r, Asked(r)) ELSE ActiveBands(r, Asked(r))

\* change_rate and replace_rate_bands read what is open; the seed command leaves
\* an item alone that has bands.
ListOpen(r) ==
  /\ at[r] = "list"
  /\ \E s \in Listings(r, ToClose(r)) : found' = [found EXCEPT ![r] = s]
  /\ Go(r, IF Is(r, {"SEED"}) /\ ActiveBands(r, Asked(r)) # {} THEN "commit" ELSE "close")
  /\ done' = [done EXCEPT ![r] = 0]
  /\ ReadOnly /\ UNCHANGED job

CloseOld(r) ==
  /\ at[r] = "close"
  /\ \/ /\ done[r] < Len(found[r])
        /\ LET x == found[r][done[r] + 1]
           IN \/ row[x] # Absent /\ Put(r, x, [row[x] EXCEPT !.open = FALSE]) /\ Count(r)
              \/ row[x] = Absent /\ Ready(r) /\ Rollback(r)
     \/ done[r] = Len(found[r]) /\ Turn(r, "open") /\ ReadOnly

OpenNew(r) ==
  /\ at[r] = "open"
  /\ \/ /\ done[r] < Len(Opens(r)) /\ Ready(r)
        /\ IF Wants(r) = {} THEN Put(r, NewRow(r), Next1(r)[2]) /\ Count(r)
           ELSE Rollback(r)
     \/ done[r] = Len(Opens(r)) /\ Turn(r, "commit") /\ ReadOnly

\* validate_harmonised_code
CodeIsFree(r) == \A x \in Items : There(r, x) /\ Sees(r, x).active => Sees(r, x).code # job[r].code

ValidateCode(r) ==
  /\ at[r] = "check" /\ Is(r, {"CREATE"})
  /\ Turn(r, IF CodeIsFree(r) THEN "create" ELSE "refused")
  /\ ReadOnly

CreateItem(r) ==
  /\ at[r] = "create" /\ Ready(r)
  /\ IF Wants(r) = {} THEN Put(r, Item(r), [code |-> job[r].code, active |-> TRUE]) /\ Turn(r, "open")
     ELSE Rollback(r)

\* The two queries of retire_revenue_item.
NothingLive(r) == \A x \in Demands : There(r, x) /\ Sees(r, x).item = Asked(r) => Sees(r, x).status = "PAID"

CheckRetire(r) ==
  /\ at[r] = "check" /\ Is(r, {"RETIRE"})
  /\ Turn(r, IF NothingLive(r) THEN "save" ELSE "refused")
  /\ ReadOnly

SaveRetired(r) ==
  /\ at[r] = "save" /\ Ready(r)
  /\ \/ row[Asked(r)] # Absent /\ Put(r, Asked(r), [row[Asked(r)] EXCEPT !.active = FALSE]) /\ Turn(r, "commit")
     \/ row[Asked(r)] = Absent /\ Rollback(r)

\* The amount a band asks for: its own, a free one within its limits, or that of one of
\* its tiers.
Allows(r, b, unit) ==
  /\ Sees(r, b).mode = "RANGE" => unit = job[r].want
  /\ Sees(r, b).mode = "TIERED" => unit = job[r].want /\ job[r].tierOf = b

Assess(r, x, unit) ==
  /\ Put(r, Demand(r), [item |-> Asked(r), cites |-> x, unit |-> unit, quantity |-> job[r].quantity,
                            amount |-> unit * job[r].quantity, status |-> "DRAFT"])
  /\ Turn(r, IF Is(r, {"BILL"}) THEN "issue" ELSE "commit")

\* The row and amount create_draft_assessment may settle on: a band when the item has
\* any, as it was when it was loaded (one deleted since fails the insert), else the rate
\* schedule.
OnOffer(r) ==
  IF OpenIn(r, Bands, Asked(r)) = {}
  THEN UNION {{x} \X Sees(r, x).prices : x \in OpenIn(r, Rates, Asked(r))}
  ELSE UNION {{b} \X {p \in Sees(r, b).prices : Allows(r, b, p)} : b \in {x \in Range(found[r]) : There(r, x)}}

Price(r) ==
  /\ at[r] = "price"
  /\ \/ job[r].quantity > 0 /\ \E c \in OnOffer(r) : Assess(r, c[1], c[2])
     \/ (job[r].quantity <= 0 \/ OnOffer(r) = {}) /\ Turn(r, "refused") /\ ReadOnly

Issue(r) ==
  /\ at[r] = "issue"
  /\ Put(r, Demand(r), [row[Demand(r)] EXCEPT !.status = "OUTSTANDING"])
  /\ Turn(r, "commit")

\* External to the rate book: the bills of committed assessments are paid.
Settle(r) ==
  /\ at[r] = "settle" /\ Ready(r)
  /\ Write(r, [x \in {y \in Demands : There(r, y) /\ Sees(r, y).status = "OUTSTANDING"} |->
                 [row[x] EXCEPT !.status = "PAID"]])
  /\ Turn(r, "commit")

\* _guard_dependents of seed_departments_and_revenue.
GuardDependents(r) ==
  /\ at[r] = "check" /\ Is(r, {"RESEED"})
  /\ Turn(r, IF \E x \in Demands : There(r, x) THEN "refused" ELSE "clear")
  /\ ReadOnly

\* _clear: the items are listed, then bands with their tiers, rates and items are each
\* looked up and deleted.  Departments go the same way and are left out.
Clear(r) ==
  LET mine == {x \in Range(found[r]) : x \in Items}
      match == CASE at[r] = "bands" -> {x \in Bands : There(r, x) /\ Sees(r, x).item \in mine}
                 [] at[r] = "rates" -> {x \in Rates : There(r, x) /\ Sees(r, x).item \in mine}
                 [] OTHER -> {x \in Items \cup Bands : There(r, x)}
      next == [bands |-> "rates", rates |-> "items", items |-> "create"]
  IN /\ Is(r, {"RESEED"})
     /\ \/ /\ at[r] = "clear"
           /\ found' = [found EXCEPT ![r] = SetToSeq({x \in Items : There(r, x)})]
           /\ Go(r, "bands") /\ ReadOnly /\ UNCHANGED <<job, done>>
        \/ /\ at[r] \in Clearing /\ done[r] = 0 /\ Protected(r, match)
           /\ Rollback(r)
        \/ /\ at[r] \in Clearing /\ done[r] = 0 /\ ~Protected(r, match)
           /\ found' = [found EXCEPT ![r] = IF at[r] = "items" THEN SetToSeq(match) ELSE SetToSeq(mine \cup match)]
           /\ done' = [done EXCEPT ![r] = 1] /\ ReadOnly /\ UNCHANGED <<job, at>>
        \/ /\ at[r] \in Clearing /\ done[r] = 1
           /\ Write(r, [x \in Doomed(r) |-> Absent])
           /\ Go(r, next[at[r]]) /\ done' = [done EXCEPT ![r] = 0]
           /\ found' = [found EXCEPT ![r] = SetToSeq(mine)] /\ UNCHANGED job

\* The end of a request; --dry-run rolls a command back instead.
Commit(r) ==
  /\ at[r] = "commit" /\ Ready(r)
  /\ \/ ReferencesHold(r) /\ ~job[r].dry /\ Publish(r) /\ Turn(r, "done")
     \/ (~ReferencesHold(r) \/ job[r].dry) /\ Rollback(r)

DeadlockVictim(r) == InWaitCycle(r, [q \in Request |-> Wants(q)])

Abort(r) == DeadlockVictim(r) /\ Rollback(r)

\* One item with its rate and bands, of request 0, is there from the start.
FirstRows ==
  [x \in Row |->
     IF x = Item(0) THEN [code |-> FirstCode, active |-> TRUE]
     ELSE IF x = Rate(0) THEN Schedule(Item(0), 1)
     ELSE IF x \in Bands /\ x[2] = 0 /\ x[3] \in DOMAIN FirstBands THEN BandOf(Item(0), FirstBands[x[3]])
     ELSE Absent]

First(kind) == CASE kind \in {"CREATE", "RESEED"} -> "check" [] kind = "SETTLE" -> "settle" [] OTHER -> "find"

Init ==
  /\ job \in Workloads
  /\ at = [r \in Request |-> First(job[r].kind)]
  /\ found = [r \in Request |-> <<>>]
  /\ done = [r \in Request |-> 0]
  /\ row = FirstRows
  /\ shown = row
  /\ holder = [x \in Row |-> 0]

Work(r) ==
  \/ FindItem(r) \/ ListOpen(r) \/ CloseOld(r) \/ OpenNew(r)
  \/ ValidateCode(r) \/ CreateItem(r) \/ CheckRetire(r) \/ SaveRetired(r)
  \/ Price(r) \/ Issue(r) \/ Settle(r) \/ GuardDependents(r) \/ Clear(r)
  \/ Commit(r) \/ Abort(r)

AllEnded == (\A r \in Request : at[r] \in Ended) /\ UNCHANGED vars

Next == (\E r \in Request : Work(r)) \/ AllEnded

\* As long as some request can go on, one does.
Spec == Init /\ [][Next]_vars /\ WF_vars(\E r \in Request : Work(r))

-----------------------------------------------------------------------------
(* Properties of what is committed. *)

Open(S, i) == {x \in S : shown[x] # Absent /\ shown[x].item = i /\ shown[x].open}

\* However rate changes overlap or fail, an item that exists, from its creation on, has
\* exactly one open rate: it can always be priced, in one way (change_rate).
ItemHasOneRate ==
  \A i \in Items : shown[i] # Absent => \E x \in Rates : Open(Rates, i) = {x}

\* An assessment keeps agreeing with the row it cites, whatever became of the rate since:
\* "Rate changes never mutate history" (change_rate).
DemandsKeepTheirPrice ==
  \A x \in Demands : shown[x] # Absent =>
    LET d == shown[x]
    IN /\ shown[d.cites] # Absent /\ shown[d.cites].item = d.item
       /\ d.unit \in shown[d.cites].prices /\ d.amount = d.unit * d.quantity

\* The bands of one replacement are all open or all closed: no amendment keeps a part of
\* a set it supersedes (replace_rate_bands).
BandsCloseTogether ==
  \A r \in 0..N, k, l \in 1..MaxBands :
    shown[Band(r, k)] # Absent /\ shown[Band(r, l)] # Absent =>
      shown[Band(r, k)].open = shown[Band(r, l)].open
=============================================================================
