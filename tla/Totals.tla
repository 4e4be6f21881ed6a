------------------------------- MODULE Totals -------------------------------
(***************************************************************************)
(* Sums of a function over 1..n, which the ledger modules use wherever the *)
(* code aggregates rows (Sum("amount"), sum(line.line_amount for ...)).    *)
(* The sum is a recursive FUNCTION over Nat, so that TLC evaluates it and  *)
(* BillLedgerProofs can prove what it computes.                            *)
(***************************************************************************)
EXTENDS Integers

\* f[i], or 0 where f has no value.
At(f, i) == IF i \in DOMAIN f THEN f[i] ELSE 0

\* Running(f)[n] = f[1] + ... + f[n].
Running(f) ==
  LET s[n \in Nat] == IF n = 0 THEN 0 ELSE s[n - 1] + At(f, n) IN s

SumTo(f, n) == Running(f)[n]

\* The part of an amount above zero: `if outstanding <= 0: continue`.
Positive(x) == IF x > 0 THEN x ELSE 0

Least(x, y) == IF x <= y THEN x ELSE y
=============================================================================
