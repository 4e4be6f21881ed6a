----------------------------- MODULE Collections -----------------------------
(***************************************************************************)
(* What collecting money promises a payer, whatever bills, lines and       *)
(* allocations it is done with: an account in double entry.  A payment is  *)
(* split once, when it comes in, into a part that discharges what is owed  *)
(* and a part that is held as credit.  Giving it back undoes that split    *)
(* and nothing else; what it had discharged is owed again, unless the debt *)
(* has been rolled into a later demand.  Nothing else moves money:         *)
(* assessing a payer anew changes only what is owed.                       *)
(***************************************************************************)
EXTENDS Integers

CONSTANTS Payer, PaymentId, NoPayer

VARIABLES
  state,   \* PaymentId -> what became of a payment
  parts,   \* PaymentId -> who paid it, and how it was split
  owed,    \* Payer -> what open demands come to
  held,    \* Payer -> money booked on demands
  credit   \* Payer -> money held for later

account == <<state, parts, owed, held, credit>>

NoParts == [payer |-> NoPayer, applied |-> 0, extra |-> 0]

Init ==
  /\ state = [p \in PaymentId |-> "NONE"]
  /\ parts = [p \in PaymentId |-> NoParts]
  /\ owed = [c \in Payer |-> 0] /\ held = owed /\ credit = owed

\* Money comes in: the applied part leaves what is owed, the rest is credit.
Take(p, c) ==
  LET y == parts'[p]
  IN /\ state[p] = "NONE"
     /\ state' = [state EXCEPT ![p] = "DUE"]
     /\ y.payer = c /\ y.applied \in Nat /\ y.extra \in Nat
     /\ parts' = [parts EXCEPT ![p] = y]
     /\ credit' = [credit EXCEPT ![c] = @ + y.extra]
     /\ held' = [held EXCEPT ![c] = @ + y.applied]
     /\ owed' = [owed EXCEPT ![c] = @ - y.applied]

\* Money goes back: both parts, and the debt returns unless it was rolled up.
GiveBack(p) ==
  LET y == parts[p]
  IN /\ state[p] \in {"DUE", "ROLLED"}
     /\ state' = [state EXCEPT ![p] = "RETURNED"]
     /\ credit' = [credit EXCEPT ![y.payer] = @ - y.extra]
     /\ held' = [held EXCEPT ![y.payer] = @ - y.applied]
     /\ owed' = IF state[p] = "DUE" THEN [owed EXCEPT ![y.payer] = @ + y.applied] ELSE owed
     /\ UNCHANGED parts

\* Demands are issued, withdrawn, or rolled up with what was paid on them: no
\* money moves, and nobody else's debt changes.
Assess(c) ==
  /\ UNCHANGED credit
  /\ \A p \in PaymentId :
       state'[p] # state[p] => state[p] = "DUE" /\ state'[p] = "ROLLED" /\ parts[p].payer = c
  /\ UNCHANGED <<parts, held>>
  /\ owed'[c] \in Nat /\ \A d \in Payer \ {c} : owed'[d] = owed[d]

Next ==
  \/ \E p \in PaymentId, c \in Payer : Take(p, c)
  \/ \E p \in PaymentId : GiveBack(p)
  \/ \E c \in Payer : Assess(c)

Spec == Init /\ [][Next]_account
=============================================================================
