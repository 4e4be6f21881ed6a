----------------------------- MODULE MCRateBook ------------------------------
(* Workloads for model-checking RateBook. *)
EXTENDS RateBook

CONSTANTS c1, c2

Flat(l, a) == [label |-> l, mode |-> "FLAT", flat |-> a, min |-> Unset, max |-> Unset, tiers |-> <<>>]
RangeOf(l, a, b) == [label |-> l, mode |-> "RANGE", flat |-> Unset, min |-> a, max |-> b, tiers |-> <<>>]
Tiered(l, ts) == [label |-> l, mode |-> "TIERED", flat |-> Unset, min |-> Unset, max |-> Unset, tiers |-> ts]

Job(kind) ==
  [kind |-> kind, item |-> Item(0), code |-> c1, price |-> 2, specs |-> <<>>, band |-> NoRow,
   tierOf |-> NoRow, want |-> 0, quantity |-> 1, dry |-> FALSE]
ChangeRate(p) == [Job("RATE") EXCEPT !.price = p]
Replace(specs) == [Job("BANDS") EXCEPT !.specs = specs]
Seed(specs) == [Job("SEED") EXCEPT !.specs = specs]
Reseed(c, specs) == [Job("RESEED") EXCEPT !.code = c, !.specs = specs, !.price = 4]
Create(c) == [Job("CREATE") EXCEPT !.code = c]
Bill(b, want) == [Job("BILL") EXCEPT !.band = b, !.want = want]
Of(j, i) == [j EXCEPT !.item = Item(i)]
TierOf(j, b) == [j EXCEPT !.tierOf = b]
Times(j, q) == [j EXCEPT !.quantity = q]

MCFirstBands == <<RangeOf(1, 1, 2), Tiered(2, <<<<1, 3>>, <<2, 4>>>>)>>

MCWorkloads == {
  \* Two rate changes, beside an enrolment and an issue that the bands decide.
  <<ChangeRate(2), ChangeRate(3), Replace(<<>>), Times(Job("ENROL"), 2)>>,
  <<ChangeRate(2), Replace(<<>>), Bill(NoRow, 0), Job("ENROL")>>,
  \* Amendments of the bands, one of them emptying them, beside bills under the old ones.
  <<Replace(<<Flat(1, 5)>>), Replace(<<RangeOf(2, 1, 3), Flat(3, 2)>>), Bill(Band(0, 1), 2), TierOf(Bill(Band(0, 2), 3), Band(0, 2))>>,
  <<Replace(<<>>), Replace(<<Flat(2, 5), Flat(3, 1)>>), Seed(<<Flat(3, 4), Flat(2, 2)>>), Bill(Band(1, 1), 1)>>,
  \* A bill under a band of the amendment; tiers of another band, amounts out of range.
  <<Replace(<<Tiered(3, <<<<1, 1>>, <<2, 2>>>>), Flat(1, 6)>>), TierOf(Bill(Band(1, 1), 2), Band(1, 1)), Bill(Band(1, 2), 0), TierOf(Bill(Band(1, 1), 3), Band(0, 2))>>,
  <<Replace(<<RangeOf(1, 3, 2)>>), Replace(<<Flat(1, 1), Flat(1, 2)>>), Bill(Band(0, 1), 3), Times(Bill(Band(0, 1), 1), 0)>>,
  \* Retirements and creations of one code; the item that was created is then used.
  <<Job("RETIRE"), Create(c1), Create(c1), Of(Bill(NoRow, 0), 2)>>,
  <<Create(c2), Of(ChangeRate(3), 1), Of(Job("RETIRE"), 1), Of(Times(Job("ENROL"), 2), 1)>>,
  <<Bill(Band(0, 1), 1), Job("SETTLE"), Job("RETIRE"), Create(c1)>>,
  \* The catalogue is seeded again, beside bills, edits and another seeding.
  <<Reseed(c1, <<Flat(1, 5)>>), Bill(Band(0, 1), 1), ChangeRate(2), Job("RETIRE")>>,
  <<Reseed(c1, <<Flat(1, 5)>>), Replace(<<Flat(3, 2)>>), Create(c2), Replace(<<>>)>>,
  <<Reseed(c2, <<Flat(2, 1), Flat(1, 5)>>), Reseed(c2, <<>>), Job("RETIRE"), Create(c2)>>,
  <<[Reseed(c2, <<Flat(1, 5)>>) EXCEPT !.dry = TRUE], Seed(<<Flat(3, 4)>>), Job("ENROL"), ChangeRate(3)>>
}
=============================================================================
