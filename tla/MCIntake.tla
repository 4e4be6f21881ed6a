------------------------------ MODULE MCIntake -------------------------------
(* Workloads for model-checking Intake. *)
EXTENDS Intake

CONSTANTS ref1, ref2, id1, id2, b1, b2, closed, unknown, c1, c2

MCBillState == [b \in Bill |-> IF b = closed THEN "TERMINAL" ELSE IF b = unknown THEN "MISSING" ELSE "OPEN"]

Told(ref, id, b, c) == [ref |-> ref, id |-> id, bill |-> b, amount |-> 1, client |-> c, valid |-> TRUE]
Garbled(ref, id) == [Told(ref, id, b1, c1) EXCEPT !.valid = FALSE]
Other(n) == [n EXCEPT !.amount = 2]

Bank(ref, b, c) == [kind |-> "WEBHOOK", notices |-> <<Told(ref, NoId, b, c)>>]
File(ns) == [kind |-> "FILE", notices |-> ns]
Hand(ref, b) == [kind |-> "MANUAL", notices |-> <<Told(ref, NoId, b, c1)>>]
Phone(ns) == [kind |-> "SYNC", notices |-> ns]
About(kind, ref) == [kind |-> kind, notices |-> <<Told(ref, NoId, b1, c1)>>]

InFile(ref, b) == Told(ref, NoId, b, c1)
Queued(ref, id, b) == Told(ref, id, b, c1)

Reconcile == About("RECONCILE", ref1)

MCWorkloads == {
  \* One reference told by the bank through two clients, typed in by hand, and in the file.
  <<Bank(ref1, b1, c1), Bank(ref1, b1, c2), Hand(ref1, b1), File(<<InFile(ref1, b1)>>)>>,
  \* A webhook and its redelivery on a closed bill, while the key is revoked.
  <<Bank(ref1, closed, c1), Bank(ref1, closed, c1), About("REVOKE", ref1), Reconcile>>,
  \* A payment typed in before its settlement file, reversed and typed in again.
  <<Hand(ref1, b1), About("REVERSE", ref1), Hand(ref1, b2),
    File(<<InFile(ref1, b1), InFile(ref2, b2)>>)>>,
  \* Two files with their rows in opposite orders: locks meet.
  <<File(<<InFile(ref1, b1), InFile(ref2, b2)>>), File(<<InFile(ref2, b2), InFile(ref1, b1)>>),
    Reconcile, Bank(ref2, b1, c1)>>,
  \* A batch of the phone, sent again with its records in another order.
  <<Phone(<<Queued(NoRef, id1, b1), Queued(NoRef, id2, b2)>>),
    Phone(<<Queued(NoRef, id2, b2), Queued(NoRef, id1, b1)>>),
    File(<<Garbled(ref1, NoId), InFile(ref1, b2)>>), Hand(ref1, closed)>>,
  \* Records that name a bank reference, one of them twice.
  <<Phone(<<Queued(ref1, id1, b1), Queued(ref1, id2, b1)>>),
    Phone(<<Queued(ref1, id1, b1), Garbled(NoRef, id2)>>), Bank(ref1, b1, c1), About("REVERSE", ref1)>>,
  \* A day reconciled twice, with a credit whose amount was typed in wrong.
  <<Hand(ref1, b1), File(<<Other(InFile(ref1, b1)), InFile(ref2, b2)>>), Reconcile, Reconcile>>,
  \* An exception resolved while the day is reconciled again.
  <<Bank(ref1, unknown, c1), Reconcile, Reconcile, About("RESOLVE", ref1)>>
}

\* The violating run: one batch, sent twice.
MCRetriedBatch == {<<Phone(<<Queued(NoRef, id1, b1)>>), Phone(<<Queued(NoRef, id1, b1)>>)>>}
=============================================================================
