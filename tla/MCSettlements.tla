--------------------------- MODULE MCSettlements -----------------------------
(* Rows and workloads for model-checking Settlements. *)
EXTENDS Settlements

CONSTANTS b1, b2, b3, b4

\* The first two firms have one name.
MCName == <<1, 1, 2>>

\* Two bills of the first firm, one of the second, one of the council's own payer.
MCBillFirm == (b1 :> 1) @@ (b2 :> 1) @@ (b3 :> 2) @@ (b4 :> 0)
MCRate == <<30, 50, 20>>
MCPeriod == {<<1, 2>>, <<2, 3>>}
MCPaymentId == 1..4 \cup {11, 12}

Paid(b, amount, day) == [bill |-> b, amount |-> amount, day |-> day, status |-> "CONFIRMED"]
MCFirstRows ==
  (Payment(11) :> Paid(b1, 5, 2)) @@ (Payment(12) :> Paid(b3, 1, 1))
  @@ (Settlement(1, <<1, 2>>) :> [gross |-> 3, commission |-> 1, status |-> "APPROVED"])
  @@ (Settlement(2, <<2, 3>>) :> [gross |-> 0, commission |-> 0, status |-> "COMPUTED"])

Job(kind) ==
  [kind |-> kind, payment |-> 11, firm |-> 1, standing |-> "SUSPENDED", bill |-> b1, amount |-> 1, day |-> 2,
   period |-> <<1, 2>>, status |-> "APPROVED"]
PayOn(b, amount, day) == [Job("PAY") EXCEPT !.bill = b, !.amount = amount, !.day = day]
Undo1(p) == [Job("REVERSE") EXCEPT !.payment = p]
Stand(f, s) == [Job("STANDING") EXCEPT !.firm = f, !.standing = s]
Compute(w) == [Job("COMPUTE") EXCEPT !.period = w]
Move(f, w, s) == [Job("STATUS") EXCEPT !.firm = f, !.period = w, !.status = s]

Early == <<1, 2>>
Late == <<2, 3>>

MCWorkloads == {
  \* Two computations of a period, beside a status change and a payment on its last day.
  <<Compute(Early), Compute(Early), Move(1, Early, "SETTLED"), PayOn(b2, 3, 2)>>,
  \* Overlapping periods, payments inside and outside them, one taken back.
  <<Compute(Early), Compute(Late), PayOn(b3, 3, 3), Undo1(11)>>,
  <<Compute(Late), PayOn(b4, 2, 2), PayOn(b2, 5, 1), Undo1(3)>>,
  \* Status changes of one settlement at once, while it is recomputed.
  <<Move(1, Early, "SETTLED"), Move(1, Early, "DISPUTED"), Move(1, Early, "APPROVED"), Compute(Early)>>,
  <<Move(2, Late, "DISPUTED"), Move(2, Late, "APPROVED"), Compute(Late), Compute(Late)>>,
  \* A firm suspended before, between or after two computations.
  <<Stand(2, "SUSPENDED"), Compute(Early), Stand(2, "ACTIVE"), Compute(Late)>>,
  <<Compute(Early), Undo1(11), Undo1(11), PayOn(b1, 1, 2)>>
}
=============================================================================
