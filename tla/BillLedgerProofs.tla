-------------------------- MODULE BillLedgerProofs --------------------------
(***************************************************************************)
(* Theorems about BillLedger, for every set of payers and kinds, every     *)
(* bound on bills, lines and payments, and every amount: its invariants,   *)
(* the rollups of a bill, the order in which a payment covers the lines,   *)
(* debt cases, what a consolidation carries forward, and that the ledger   *)
(* implements Collections.                                                 *)
(***************************************************************************)
EXTENDS BillAccounts, WellFoundedInduction, FiniteSetTheorems, TLAPS

-----------------------------------------------------------------------------
(* Sums: Running(f) satisfies its recursive equation.  Induction over Nat is by least  *)
(* counterexample (LeastNat), from the well-foundedness of < on Nat.                  *)

\* Every non-empty set of naturals has a least element.
LEMMA LeastNat ==
  ASSUME NEW S \in SUBSET Nat, S # {}
  PROVE  \E m \in S : \A k \in S : m <= k
<1>1. \E m \in S : \A k \in S : ~(<<k, m>> \in OpToRel(<, Nat))
  BY NatLessThanWellFounded, WFMin
<1>2. PICK m \in S : \A k \in S : ~(<<k, m>> \in OpToRel(<, Nat))
  BY <1>1
<1>3. ASSUME NEW k \in S PROVE m <= k
  <2>1. SUFFICES ASSUME k < m PROVE FALSE
    OBVIOUS
  <2>2. <<k, m>> \in OpToRel(<, Nat)
    BY <2>1 DEF OpToRel
  <2>. QED  BY <2>2, <1>2
<1>. QED  BY <1>3

\* Every non-empty set of naturals with an upper bound has a greatest element.
LEMMA GreatestNat ==
  ASSUME NEW n \in Nat, NEW S \in SUBSET (1..n), S # {}
  PROVE  \E m \in S : \A k \in S : k <= m
<1> DEFINE T == {j \in 0..n : n - j \in S}
<1>1. T \in SUBSET Nat
  OBVIOUS
<1>2. T # {}
  <2>1. PICK k \in S : TRUE
    OBVIOUS
  <2>2. n - k \in 0..n /\ n - (n - k) = k
    BY <2>1
  <2>. QED  BY <2>1, <2>2
<1>3. PICK j \in T : \A k \in T : j <= k
  BY <1>1, <1>2, LeastNat
<1>4. n - j \in S /\ j \in 0..n
  BY <1>3
<1>5. ASSUME NEW k \in S PROVE k <= n - j
  <2>1. k \in 1..n
    OBVIOUS
  <2>2. n - k \in 0..n /\ n - (n - k) = k
    BY <2>1
  <2>3. n - k \in T
    BY <2>2
  <2>4. j <= n - k
    BY <1>3, <2>3
  <2>. QED  BY <1>4, <2>1, <2>4
<1>. QED  BY <1>4, <1>5

\* s lists the partial sums of f up to n.
IsRunning(f, s, n) ==
  /\ s \in [0..n -> Int] /\ s[0] = 0
  /\ \A i \in 1..n : s[i] = s[i - 1] + At(f, i)

\* f has an integer wherever it has a value.
Integral(f) == \A i \in DOMAIN f : f[i] \in Int

\* The value of an integral function, or 0 outside its domain, is an integer.
LEMMA AtInt ==
  ASSUME NEW f, Integral(f), NEW i
  PROVE  At(f, i) \in Int
  BY DEF Integral, At

\* The recursive definition of the partial sums has a solution.
LEMMA RunningExists ==
  ASSUME NEW f, Integral(f), NEW n \in Nat
  PROVE  \E s : IsRunning(f, s, n)
<1> DEFINE Bad == {k \in Nat : ~ \E s : IsRunning(f, s, k)}
<1>1. SUFFICES ASSUME Bad # {} PROVE FALSE
  OBVIOUS
<1>2. PICK m \in Bad : \A k \in Bad : m <= k
  BY <1>1, LeastNat
<1>3. m # 0
  <2>1. IsRunning(f, [i \in 0..0 |-> 0], 0)
    BY DEF IsRunning
  <2>. QED  BY <2>1
<1>4. m - 1 \in Nat /\ m - 1 \notin Bad
  BY <1>2, <1>3
<1>5. PICK s : IsRunning(f, s, m - 1)
  BY <1>4
<1> DEFINE t == [i \in 0..m |-> IF i = m THEN s[m - 1] + At(f, m) ELSE s[i]]
<1>6. IsRunning(f, t, m)
  <2>1. At(f, m) \in Int
    BY AtInt
  <2>2. s \in [0..(m - 1) -> Int]
    BY <1>5 DEF IsRunning
  <2>3. t \in [0..m -> Int] /\ t[0] = 0
    BY <1>3, <1>4, <1>5, <2>1, <2>2 DEF IsRunning
  <2>4. ASSUME NEW i \in 1..m PROVE t[i] = t[i - 1] + At(f, i)
    <3>1. CASE i = m
      BY <3>1, <1>4
    <3>2. CASE i # m
      <4>1. i \in 1..(m - 1)
        BY <3>2, <1>4
      <4>2. s[i] = s[i - 1] + At(f, i)
        BY <4>1, <1>5 DEF IsRunning
      <4>. QED  BY <4>1, <4>2, <1>4
    <3>. QED  BY <3>1, <3>2
  <2>. QED  BY <2>3, <2>4 DEF IsRunning
<1>. QED  BY <1>6

\* It has no more than one.
LEMMA RunningUnique ==
  ASSUME NEW f, Integral(f), NEW n \in Nat, NEW m \in Nat, NEW s, NEW t,
         IsRunning(f, s, n), IsRunning(f, t, m)
  PROVE  \A i \in 0..n : i <= m => s[i] = t[i]
<1> DEFINE Bad == {i \in 0..n : i <= m /\ s[i] # t[i]}
<1>1. SUFFICES ASSUME Bad # {} PROVE FALSE
  OBVIOUS
<1>2. Bad \in SUBSET Nat
  OBVIOUS
<1>3. PICK i \in Bad : \A j \in Bad : i <= j
  BY <1>1, <1>2, LeastNat
<1>4. i # 0
  BY DEF IsRunning
<1>5. i - 1 \in 0..n /\ i - 1 <= m /\ i - 1 \notin Bad
  BY <1>3, <1>4
<1>6. s[i - 1] = t[i - 1]
  BY <1>5
<1>7. s[i] = s[i - 1] + At(f, i) /\ t[i] = t[i - 1] + At(f, i)
  BY <1>4 DEF IsRunning
<1>. QED  BY <1>6, <1>7

\* So the partial sums obey their recursive definition.
LEMMA RunningDef ==
  ASSUME NEW f, Integral(f)
  PROVE  Running(f) = [n \in Nat |-> IF n = 0 THEN 0 ELSE Running(f)[n - 1] + At(f, n)]
<1> DEFINE A(n) == CHOOSE s : IsRunning(f, s, n)
           R == [n \in Nat |-> A(n)[n]]
           G(s) == [n \in Nat |-> IF n = 0 THEN 0 ELSE s[n - 1] + At(f, n)]
<1>1. ASSUME NEW n \in Nat PROVE IsRunning(f, A(n), n)
  BY RunningExists
<1>2. ASSUME NEW n \in Nat PROVE R[n] = IF n = 0 THEN 0 ELSE R[n - 1] + At(f, n)
  <2>1. IsRunning(f, A(n), n)
    BY <1>1
  <2>2. CASE n = 0
    <3>1. A(n)[0] = 0
      BY <2>1 DEF IsRunning
    <3>. QED  BY <3>1, <2>2
  <2>3. CASE n # 0
    <3>1. n - 1 \in Nat
      BY <2>3
    <3>2. IsRunning(f, A(n - 1), n - 1)
      BY <1>1, <3>1
    <3> HIDE DEF A
    <3>3. A(n)[n] = A(n)[n - 1] + At(f, n)
      BY <2>1, <2>3 DEF IsRunning
    <3>4. A(n - 1)[n - 1] = A(n)[n - 1]
      <4>1. \A i \in 0..(n - 1) : i <= n => A(n - 1)[i] = A(n)[i]
        BY <2>1, <3>1, <3>2, RunningUnique
      <4>. QED  BY <4>1, <3>1
    <3>. QED  BY <3>1, <3>3, <3>4, <2>3
  <2>. QED  BY <2>2, <2>3
<1>3. R = G(R)
  <2> HIDE DEF A
  <2> SUFFICES ASSUME NEW n \in Nat PROVE R[n] = G(R)[n]
    OBVIOUS
  <2>. QED  BY <1>2
<1>4. Running(f) = CHOOSE s : s = G(s)
  BY DEF Running
<1> HIDE DEF R
<1>5. Running(f) = G(Running(f))
  BY <1>3, <1>4
<1>. QED  BY <1>5

-----------------------------------------------------------------------------
(* Sums over 1..n of a function on 1..n. *)

\* A set of naturals with 0 and closed under successor is Nat.
LEMMA NatInd ==
  ASSUME NEW S \in SUBSET Nat, 0 \in S, \A k \in S : k + 1 \in S
  PROVE  \A n \in Nat : n \in S
<1>1. SUFFICES ASSUME Nat \ S # {} PROVE FALSE
  OBVIOUS
<1>2. PICK m \in Nat \ S : \A k \in Nat \ S : m <= k
  BY <1>1, LeastNat
<1>3. m - 1 \in Nat /\ m - 1 \in S
  BY <1>2
<1>. QED  BY <1>2, <1>3

\* The empty sum.
LEMMA SumZero ==
  ASSUME NEW n \in Nat, NEW f \in [1..n -> Int]
  PROVE  SumTo(f, 0) = 0
<1>1. Integral(f)
  BY DEF Integral
<1>2. Running(f)[0] = 0
  BY <1>1, RunningDef
<1>. QED  BY <1>2 DEF SumTo

\* One more summand.
LEMMA SumStep ==
  ASSUME NEW n \in Nat, NEW f \in [1..n -> Int], NEW k \in Nat, k < n
  PROVE  SumTo(f, k + 1) = SumTo(f, k) + f[k + 1]
<1>1. Integral(f)
  BY DEF Integral
<1>2. k + 1 \in Nat /\ k + 1 # 0 /\ (k + 1) - 1 = k /\ k + 1 \in 1..n
  OBVIOUS
<1>3. Running(f)[k + 1] = Running(f)[(k + 1) - 1] + At(f, k + 1)
  BY <1>1, <1>2, RunningDef
<1>4. At(f, k + 1) = f[k + 1]
  BY <1>2 DEF At
<1>. QED  BY <1>2, <1>3, <1>4 DEF SumTo

\* Sums of integers are integers.
LEMMA SumInt ==
  ASSUME NEW n \in Nat, NEW f \in [1..n -> Int]
  PROVE  \A k \in 0..n : SumTo(f, k) \in Int
<1> DEFINE S == {k \in Nat : k <= n => SumTo(f, k) \in Int}
<1>1. 0 \in S
  BY SumZero
<1>2. ASSUME NEW k \in S PROVE k + 1 \in S
  <2>1. SUFFICES ASSUME k < n PROVE SumTo(f, k + 1) \in Int
    OBVIOUS
  <2>2. SumTo(f, k + 1) = SumTo(f, k) + f[k + 1]
    BY <2>1, SumStep
  <2>3. k + 1 \in 1..n /\ f[k + 1] \in Int /\ SumTo(f, k) \in Int
    BY <2>1
  <2>. QED  BY <2>2, <2>3
<1>3. \A k \in Nat : k \in S
  BY <1>1, <1>2, NatInd
<1>. QED  BY <1>3

\* Partial sums of naturals are naturals, never fall and never exceed the whole.
LEMMA SumNat ==
  ASSUME NEW n \in Nat, NEW f \in [1..n -> Nat]
  PROVE  \A k \in 0..n : SumTo(f, k) \in Nat
<1>0. f \in [1..n -> Int]
  OBVIOUS
<1> DEFINE S == {k \in Nat : k <= n => SumTo(f, k) \in Nat}
<1>1. 0 \in S
  BY <1>0, SumZero
<1>2. ASSUME NEW k \in S PROVE k + 1 \in S
  <2>1. SUFFICES ASSUME k < n PROVE SumTo(f, k + 1) \in Nat
    OBVIOUS
  <2>2. SumTo(f, k + 1) = SumTo(f, k) + f[k + 1]
    BY <1>0, <2>1, SumStep
  <2>3. k + 1 \in 1..n /\ f[k + 1] \in Nat /\ SumTo(f, k) \in Nat
    BY <2>1
  <2>. QED  BY <2>2, <2>3
<1>3. \A k \in Nat : k \in S
  BY <1>1, <1>2, NatInd
<1>. QED  BY <1>3

\* Sums of naturals are naturals.
LEMMA SumIsNat ==
  ASSUME NEW n \in Nat, NEW f \in [1..n -> Nat]
  PROVE  SumTo(f, n) \in Nat
<1>1. n \in 0..n
  OBVIOUS
<1>. QED  BY <1>1, SumNat

\* Changing the value at one place changes the sum by the difference.
LEMMA SumUpdate ==
  ASSUME NEW n \in Nat, NEW f \in [1..n -> Int], NEW g \in [1..n -> Int],
         NEW j \in 1..n, \A i \in 1..n : i # j => g[i] = f[i]
  PROVE  SumTo(g, n) = SumTo(f, n) + (g[j] - f[j])
<1> DEFINE D(k) == SumTo(g, k) = SumTo(f, k) + (IF k < j THEN 0 ELSE g[j] - f[j])
           S == {k \in Nat : k <= n => D(k)}
<1>0. \A k \in 0..n : SumTo(f, k) \in Int /\ SumTo(g, k) \in Int
  BY SumInt
<1>1. 0 \in S
  BY SumZero
<1>2. ASSUME NEW k \in S PROVE k + 1 \in S
  <2>1. SUFFICES ASSUME k < n PROVE D(k + 1)
    OBVIOUS
  <2>2. D(k) /\ k + 1 \in 1..n /\ k \in 0..n
    BY <2>1
  <2>3. SumTo(f, k + 1) = SumTo(f, k) + f[k + 1] /\ SumTo(g, k + 1) = SumTo(g, k) + g[k + 1]
    BY <2>1, SumStep
  <2>4. f[k + 1] \in Int /\ g[k + 1] \in Int /\ f[j] \in Int /\ g[j] \in Int
    BY <2>2
  <2>5. SumTo(f, k) \in Int /\ SumTo(g, k) \in Int
    BY <1>0, <2>2
  <2>. HIDE DEF S
  <2>6. CASE k + 1 < j
    <3>1. g[k + 1] = f[k + 1] /\ k < j
      BY <2>2, <2>6
    <3>2. SumTo(g, k) = SumTo(f, k)
      BY <2>2, <2>5, <3>1
    <3>3. SumTo(g, k + 1) = SumTo(f, k + 1)
      BY <2>3, <3>1, <3>2
    <3>. QED  BY <2>3, <2>4, <2>5, <2>6, <3>3
  <2>7. CASE k + 1 = j
    <3>1. g[k + 1] = g[j] /\ f[k + 1] = f[j] /\ ~ k + 1 < j
      BY <2>7
    <3>2. k < j
      BY <2>2, <2>7
    <3>3. SumTo(g, k) = SumTo(f, k)
      BY <2>2, <2>5, <3>2
    <3>4. SumTo(g, k + 1) = SumTo(f, k + 1) + (g[j] - f[j])
      BY <2>3, <2>4, <2>5, <3>1, <3>3
    <3>. QED  BY <3>1, <3>4
  <2>8. CASE k + 1 > j
    <3>1. g[k + 1] = f[k + 1] /\ ~ k < j /\ ~ k + 1 < j
      BY <2>2, <2>8
    <3>2. SumTo(g, k) = SumTo(f, k) + (g[j] - f[j])
      BY <2>2, <3>1
    <3>3. SumTo(g, k + 1) = SumTo(f, k + 1) + (g[j] - f[j])
      BY <2>3, <2>4, <2>5, <3>1, <3>2
    <3>. QED  BY <3>1, <3>3
  <2>. QED  BY <2>2, <2>6, <2>7, <2>8
<1>3. \A k \in Nat : k \in S
  BY <1>1, <1>2, NatInd
<1>. QED  BY <1>3

\* Only the partial sums start at zero and grow by the summands.
LEMMA SumFollows ==
  ASSUME NEW n \in Nat, NEW f \in [1..n -> Int], NEW g, g[0] = 0,
         \A k \in 0..(n - 1) : g[k + 1] = g[k] + f[k + 1]
  PROVE  SumTo(f, n) = g[n]
<1> DEFINE S == {k \in Nat : k <= n => SumTo(f, k) = g[k]}
<1>1. 0 \in S
  BY SumZero
<1>2. ASSUME NEW k \in S PROVE k + 1 \in S
  <2>1. SUFFICES ASSUME k < n PROVE SumTo(f, k + 1) = g[k + 1]
    OBVIOUS
  <2>2. k \in 0..(n - 1) /\ SumTo(f, k) = g[k]
    BY <2>1
  <2>3. SumTo(f, k + 1) = SumTo(f, k) + f[k + 1]
    BY <2>1, SumStep
  <2>. QED  BY <2>2, <2>3
<1>3. \A k \in Nat : k \in S
  BY <1>1, <1>2, NatInd
<1>4. n \in S
  BY <1>3
<1>. QED  BY <1>4

\* The sum of a sum is the sum of the sums.
LEMMA SumAdd ==
  ASSUME NEW n \in Nat, NEW f \in [1..n -> Int], NEW g \in [1..n -> Int],
         NEW h \in [1..n -> Int], \A i \in 1..n : h[i] = f[i] + g[i]
  PROVE  SumTo(h, n) = SumTo(f, n) + SumTo(g, n)
<1> DEFINE both == [k \in 0..n |-> SumTo(f, k) + SumTo(g, k)]
<1>1. both[0] = 0
  <2>1. SumTo(f, 0) = 0 /\ SumTo(g, 0) = 0
    BY SumZero
  <2>. QED  BY <2>1
<1>2. ASSUME NEW k \in 0..(n - 1) PROVE both[k + 1] = both[k] + h[k + 1]
  <2>1. k \in Nat /\ k < n /\ k \in 0..n /\ k + 1 \in 0..n /\ k + 1 \in 1..n
    OBVIOUS
  <2>2. /\ SumTo(f, k + 1) = SumTo(f, k) + f[k + 1]
        /\ SumTo(g, k + 1) = SumTo(g, k) + g[k + 1]
    BY <2>1, SumStep
  <2>3. SumTo(f, k) \in Int /\ SumTo(g, k) \in Int
    BY <2>1, SumInt
  <2>4. h[k + 1] = f[k + 1] + g[k + 1] /\ f[k + 1] \in Int /\ g[k + 1] \in Int
    BY <2>1
  <2>. QED  BY <2>1, <2>2, <2>3, <2>4
<1>3. both[n] = SumTo(f, n) + SumTo(g, n)
  OBVIOUS
<1> HIDE DEF both
<1>4. SumTo(h, n) = both[n]
  BY <1>1, <1>2, SumFollows
<1>. QED  BY <1>3, <1>4

\* Functions that agree up to n have the same sum up to n.
LEMMA SumSame ==
  ASSUME NEW n \in Nat, NEW f \in [1..n -> Int], NEW g \in [1..n -> Int],
         \A i \in 1..n : g[i] = f[i]
  PROVE  SumTo(g, n) = SumTo(f, n)
<1>. QED  BY f = g

\* A sum of naturals is at least each of them.
LEMMA SumMember ==
  ASSUME NEW n \in Nat, NEW f \in [1..n -> Nat], NEW j \in 1..n
  PROVE  f[j] <= SumTo(f, n)
<1> DEFINE S == {k \in Nat : k <= n /\ j <= k => f[j] <= SumTo(f, k)}
<1>0. f \in [1..n -> Int] /\ \A k \in 0..n : SumTo(f, k) \in Nat
  BY SumNat
<1>1. 0 \in S
  OBVIOUS
<1>2. ASSUME NEW k \in S PROVE k + 1 \in S
  <2>1. SUFFICES ASSUME k < n, j <= k + 1 PROVE f[j] <= SumTo(f, k + 1)
    OBVIOUS
  <2>2. SumTo(f, k + 1) = SumTo(f, k) + f[k + 1]
    BY <1>0, <2>1, SumStep
  <2>3. k \in 0..n /\ k + 1 \in 1..n /\ f[k + 1] \in Nat /\ f[j] \in Nat
    BY <2>1
  <2>4. CASE j <= k
    BY <1>0, <2>1, <2>2, <2>3, <2>4
  <2>5. CASE j = k + 1
    BY <1>0, <2>2, <2>3, <2>5
  <2>. QED  BY <2>1, <2>4, <2>5
<1>3. \A k \in Nat : k \in S
  BY <1>1, <1>2, NatInd
<1>. QED  BY <1>3, <1>0

\* Partial sums of naturals never fall.
LEMMA SumMono ==
  ASSUME NEW n \in Nat, NEW f \in [1..n -> Nat], NEW j \in 0..n
  PROVE  \A k \in j..n : SumTo(f, j) <= SumTo(f, k)
<1> DEFINE S == {k \in Nat : k <= n /\ j <= k => SumTo(f, j) <= SumTo(f, k)}
<1>0. f \in [1..n -> Int] /\ \A k \in 0..n : SumTo(f, k) \in Nat
  BY SumNat
<1>1. 0 \in S
  BY <1>0
<1>2. ASSUME NEW k \in S PROVE k + 1 \in S
  <2>1. SUFFICES ASSUME k < n, j <= k + 1 PROVE SumTo(f, j) <= SumTo(f, k + 1)
    OBVIOUS
  <2>2. k \in 0..n /\ k + 1 \in 0..n /\ f[k + 1] \in Nat
    BY <2>1
  <2>3. SumTo(f, k + 1) = SumTo(f, k) + f[k + 1]
    BY <1>0, <2>1, SumStep
  <2>4. CASE j <= k
    BY <1>0, <2>1, <2>2, <2>3, <2>4
  <2>5. CASE j = k + 1
    BY <1>0, <2>2, <2>5
  <2>. QED  BY <2>1, <2>4, <2>5
<1>3. \A k \in Nat : k \in S
  BY <1>1, <1>2, NatInd
<1>. QED  BY <1>3

\* A sum of zeros is zero.
LEMMA SumOfZeros ==
  ASSUME NEW n \in Nat, NEW f \in [1..n -> Int], \A i \in 1..n : f[i] = 0
  PROVE  SumTo(f, n) = 0
<1> DEFINE S == {k \in Nat : k <= n => SumTo(f, k) = 0}
<1>1. 0 \in S
  BY SumZero
<1>2. ASSUME NEW k \in S PROVE k + 1 \in S
  BY SumStep
<1>3. \A k \in Nat : k \in S
  BY <1>1, <1>2, NatInd
<1>. QED  BY <1>3

-----------------------------------------------------------------------------
(* Filling demands in order, the way _allocate_fifo does. *)

\* What demand i takes of the amount once the demands before it are covered.
IsFill(take, need, amount, n) ==
  \A i \in 1..n : take[i] = Least(need[i], Positive(amount - SumTo(need, i - 1)))

\* Filling demands in order: what one demand takes.
LEMMA FillOne ==
  ASSUME NEW a \in Nat, NEW m \in Nat, NEW x \in Nat
  PROVE  Least(a, m) + Least(x, Positive(a - m)) = Least(a, m + x)
  BY DEF Least, Positive

\* The first k demands together take the amount or all they need, whichever is less.
LEMMA FillTotal ==
  ASSUME NEW n \in Nat, NEW need \in [1..n -> Nat], NEW take \in [1..n -> Nat],
         NEW amount \in Nat, IsFill(take, need, amount, n)
  PROVE  \A k \in 0..n : SumTo(take, k) = Least(amount, SumTo(need, k))
<1> DEFINE S == {k \in Nat : k <= n => SumTo(take, k) = Least(amount, SumTo(need, k))}
<1>0. need \in [1..n -> Int] /\ take \in [1..n -> Int]
  OBVIOUS
<1>5. \A k \in 0..n : SumTo(need, k) \in Nat
  BY SumNat
<1>1. 0 \in S
  BY <1>0, SumZero DEF Least
<1>2. ASSUME NEW k \in S PROVE k + 1 \in S
  <2>1. SUFFICES ASSUME k < n
                 PROVE  SumTo(take, k + 1) = Least(amount, SumTo(need, k + 1))
    OBVIOUS
  <2>2. k + 1 \in 1..n /\ k \in 0..n /\ (k + 1) - 1 = k
    BY <2>1
  <2>3. /\ SumTo(take, k + 1) = SumTo(take, k) + take[k + 1]
        /\ SumTo(need, k + 1) = SumTo(need, k) + need[k + 1]
    BY <1>0, <2>1, SumStep
  <2>4. SumTo(take, k) = Least(amount, SumTo(need, k))
    BY <2>1
  <2>5. take[k + 1] = Least(need[k + 1], Positive(amount - SumTo(need, k)))
    BY <2>2 DEF IsFill
  <2>6. need[k + 1] \in Nat /\ SumTo(need, k) \in Nat
    BY <1>5, <2>2
  <2>7. Least(amount, SumTo(need, k)) + Least(need[k + 1], Positive(amount - SumTo(need, k)))
          = Least(amount, SumTo(need, k) + need[k + 1])
    BY <2>6, FillOne
  <2>. QED  BY <2>3, <2>4, <2>5, <2>7
<1>3. \A k \in Nat : k \in S
  BY <1>1, <1>2, NatInd
<1>. QED  BY <1>3

\* A demand is met in full when the amount reaches to its end.
LEMMA FillMeets ==
  ASSUME NEW n \in Nat, NEW need \in [1..n -> Nat], NEW take,
         NEW amount \in Nat, IsFill(take, need, amount, n),
         NEW j \in 1..n, SumTo(need, j) <= amount
  PROVE  take[j] = need[j]
<1>1. need \in [1..n -> Int] /\ j - 1 \in 0..n /\ (j - 1) + 1 = j /\ j - 1 < n
  OBVIOUS
<1>2. SumTo(need, j) = SumTo(need, j - 1) + need[j]
  BY <1>1, SumStep
<1>3. SumTo(need, j - 1) \in Nat /\ need[j] \in Nat
  BY <1>1, SumNat
<1>4. take[j] = Least(need[j], Positive(amount - SumTo(need, j - 1)))
  BY DEF IsFill
<1>. QED  BY <1>2, <1>3, <1>4 DEF Least, Positive

\* A demand is met in part only when the amount reaches past the demands before it,
\* which are then all met in full.
LEMMA FillInOrder ==
  ASSUME NEW n \in Nat, NEW need \in [1..n -> Nat], NEW take,
         NEW amount \in Nat, IsFill(take, need, amount, n),
         NEW i \in 1..n, NEW j \in 1..n, i < j, take[j] > 0
  PROVE  take[i] = need[i]
<1>1. j - 1 \in i..n /\ j - 1 \in 0..n /\ i \in 0..n
  OBVIOUS
<1>2. SumTo(need, i) <= SumTo(need, j - 1)
  BY <1>1, SumMono
<1>3. SumTo(need, i) \in Nat /\ SumTo(need, j - 1) \in Nat /\ need[j] \in Nat
  BY <1>1, SumNat
<1>4. take[j] = Least(need[j], Positive(amount - SumTo(need, j - 1)))
  BY DEF IsFill
<1>5. SumTo(need, j - 1) < amount
  BY <1>3, <1>4 DEF Least, Positive
<1>6. SumTo(need, i) <= amount
  BY <1>2, <1>3, <1>5
<1>. QED  BY <1>6, FillMeets

-----------------------------------------------------------------------------
(* The pieces of the handlers return values of the right type. *)

\* recompute_bill: the total and the arrears of good lines are naturals.
LEMMA SumOfLines ==
  ASSUME NEW ls \in [Slot -> LineRow]
  PROVE  LinesTotal(ls) \in Nat /\ LinesArrears(ls) \in Nat
<1>1. MaxLines \in Nat
  BY LedgerConstants
<1>2. [s \in Slot |-> LineAmount(ls[s])] \in [1..MaxLines -> Nat]
  BY DEF LineRow, LineAmount, Slot
<1>3. [s \in Slot |-> ls[s].arrears] \in [1..MaxLines -> Nat]
  BY DEF LineRow, Slot
<1>4. MaxLines \in 0..MaxLines
  BY <1>1
<1>5. LinesTotal(ls) \in Nat
  BY <1>1, <1>2, <1>4, SumNat DEF LinesTotal
<1>6. LinesArrears(ls) \in Nat
  BY <1>1, <1>3, <1>4, SumNat DEF LinesArrears
<1>. QED  BY <1>5, <1>6

\* What a payment applied to the lines is a natural.
LEMMA SumOfAllocation ==
  ASSUME NEW alloc \in [Slot -> Nat]
  PROVE  Applied(alloc) \in Nat
  BY LedgerConstants, SumNat DEF Applied, Slot

\* q is row r after its lines or payments changed: only the amounts and the status
\* differ; a status that is terminal, or says the row is no bill, stays, and then
\* nothing more is paid.
Settled(r, q) ==
  /\ q \in BillRow
  /\ q.payer = r.payer /\ q.due = r.due /\ q.year = r.year /\ q.via = r.via
  /\ q.supersededBy = r.supersededBy
  /\ IF r.status \in OpenStatus \cup {"PAID"} THEN q.status \in OpenStatus \cup {"PAID"}
     ELSE q.status = r.status /\ q.paid <= r.paid

\* A bill a handler leaves alone is settled in the sense of the action properties.
LEMMA SettledSelf ==
  ASSUME NEW r \in BillRow
  PROVE  Settled(r, r)
<1>1. r.paid \in Nat
  BY DEF BillRow
<1>2. r.paid <= r.paid
  BY <1>1
<1>. QED  BY <1>2 DEF Settled

\* recompute_bill leaves a terminal bill terminal and makes no other bill terminal.
LEMMA RecomputeSettles ==
  ASSUME NEW r \in BillRow, r.status \notin {"NONE", "DELETED"}, NEW ls \in [Slot -> LineRow]
  PROVE  Settled(r, Recompute(r, ls)) /\ Recompute(r, ls).paid = r.paid
<1>1. LinesTotal(ls) \in Nat /\ LinesArrears(ls) \in Nat
  BY SumOfLines
<1> DEFINE st == SettledStatus(r, LinesTotal(ls))
<1>2. /\ st \in BillStatus
      /\ r.status \in TerminalStatus => st = r.status
      /\ r.status \notin TerminalStatus => st \in OpenStatus \cup {"PAID"}
  BY DEF SettledStatus, BillRow, BillStatus, OpenStatus, TerminalStatus
<1> HIDE DEF st
<1>3. Recompute(r, ls) = [r EXCEPT !.total = LinesTotal(ls), !.arrears = LinesArrears(ls), !.status = st]
  BY DEF Recompute, st
<1>4. /\ Recompute(r, ls) \in BillRow /\ Recompute(r, ls).paid = r.paid
      /\ Recompute(r, ls).payer = r.payer /\ Recompute(r, ls).due = r.due
      /\ Recompute(r, ls).year = r.year /\ Recompute(r, ls).via = r.via
      /\ Recompute(r, ls).supersededBy = r.supersededBy /\ Recompute(r, ls).status = st
  BY <1>1, <1>2, <1>3 DEF BillRow
<1>5. r.paid \in Nat /\ r.status \in BillStatus
  BY DEF BillRow
<1>6. r.paid <= r.paid
  BY <1>5
<1>. QED
  BY <1>2, <1>4, <1>5, <1>6 DEF Settled, BillStatus, OpenStatus, TerminalStatus

\* What confirmed payments put on a line is a natural.
LEMMA PaidOnIsNat ==
  ASSUME TypeOK, NEW b \in BillId, NEW s \in Slot
  PROVE  PaidOn(b, s) \in Nat
<1> DEFINE f == [p \in PaymentId |-> IF CountsOn(p, b) THEN payment[p].alloc[s] ELSE 0]
<1>1. f \in [1..MaxPayments -> Nat]
  BY DEF TypeOK, PaymentRow, PaymentId
<1>2. SumTo(f, MaxPayments) \in Nat
  BY <1>1, LedgerConstants, SumIsNat
<1>. QED  BY <1>2 DEF PaidOn

\* What a line is billed for is a natural.
LEMMA LineAmountIsNat ==
  ASSUME TypeOK, NEW b \in BillId, NEW s \in Slot
  PROVE  LineAmount(line[b][s]) \in Nat
  BY DEF TypeOK, LineRow, LineAmount

\* What a line still owes is a natural, an overpaid line owing nothing.
LEMMA OwingIsNat ==
  ASSUME TypeOK, NEW b \in BillId, NEW s \in Slot
  PROVE  Owing(b, s) \in Nat
<1>1. PaidOn(b, s) \in Nat
  BY PaidOnIsNat
<1>2. LineAmount(line[b][s]) \in Nat
  BY LineAmountIsNat
<1>. QED  BY <1>1, <1>2 DEF Owing, Positive

\* _allocate_fifo is the filling, in line order, of what the lines still owe.
LEMMA AllocationIsFill ==
  ASSUME TypeOK, NEW b \in BillId, NEW amount \in Nat
  PROVE  /\ [t \in Slot |-> Owing(b, t)] \in [1..MaxLines -> Nat]
         /\ IsFill(Allocation(b, amount), [t \in Slot |-> Owing(b, t)], amount, MaxLines)
<1>1. MaxLines \in Nat /\ Slot = 1..MaxLines
  BY LedgerConstants DEF Slot
<1>2. [t \in Slot |-> Owing(b, t)] \in [1..MaxLines -> Nat]
  BY <1>1, OwingIsNat
<1>. QED  BY <1>1, <1>2 DEF Allocation, IsFill

\* _allocate_fifo never gives out more than the payment.
LEMMA AllocationFits ==
  ASSUME TypeOK, NEW b \in BillId, NEW amount \in Nat
  PROVE  /\ Allocation(b, amount) \in [Slot -> Nat]
         /\ Applied(Allocation(b, amount)) \in Nat
         /\ Applied(Allocation(b, amount)) <= amount
         /\ Applied(Allocation(b, amount))
              = Least(amount, SumTo([t \in Slot |-> Owing(b, t)], MaxLines))
         /\ \A s \in Slot : Allocation(b, amount)[s] <= Owing(b, s)
<1> DEFINE need == [t \in Slot |-> Owing(b, t)]
           take == Allocation(b, amount)
<1>0. MaxLines \in Nat /\ Slot = 1..MaxLines
  BY LedgerConstants DEF Slot
<1>1. need \in [1..MaxLines -> Nat] /\ IsFill(take, need, amount, MaxLines)
  BY AllocationIsFill
<1>2. \A k \in 0..MaxLines : SumTo(need, k) \in Nat
  BY <1>0, <1>1, SumNat
<1>3. \A s \in Slot : take[s] = Least(need[s], Positive(amount - SumTo(need, s - 1)))
  BY DEF Allocation
<1>4. ASSUME NEW s \in Slot PROVE take[s] \in Nat /\ take[s] <= need[s]
  <2>1. SumTo(need, s - 1) \in Nat /\ need[s] \in Nat
    BY <1>0, <1>1, <1>2
  <2>. QED  BY <1>3, <2>1 DEF Least, Positive
<1>5. take \in [1..MaxLines -> Nat]
  BY <1>0, <1>4 DEF Allocation
<1>6. SumTo(take, MaxLines) = Least(amount, SumTo(need, MaxLines))
  <2> HIDE DEF take, need
  <2>1. \A k \in 0..MaxLines : SumTo(take, k) = Least(amount, SumTo(need, k))
    BY <1>0, <1>1, <1>5, FillTotal, Zenon
  <2>. QED  BY <1>0, <2>1
<1>7. SumTo(need, MaxLines) \in Nat
  BY <1>0, <1>2
<1>8. Applied(take) \in Nat /\ Applied(take) <= amount
  BY <1>6, <1>7 DEF Applied, Least
<1>9. (\A s \in Slot : need[s] = Owing(b, s)) /\ need = [t \in Slot |-> Owing(b, t)]
  OBVIOUS
<1> HIDE DEF need, take
<1>. QED  BY <1>0, <1>4, <1>5, <1>6, <1>8, <1>9 DEF take, Applied

-----------------------------------------------------------------------------
(* Issuing: the lines of a new bill. *)

\* issue_bill: the arrears collected for an item are a natural.
LEMMA OwedOnIsNat ==
  ASSUME TypeOK, NEW lines, NEW i
  PROVE  OwedOn(lines, i) \in Nat
<1> DEFINE inner(b) == [s \in Slot |->
             IF <<b, s>> \in lines /\ LineItem(<<b, s>>) = i THEN Owing(b, s) ELSE 0]
           outer == [b \in BillId |-> SumTo(inner(b), MaxLines)]
<1>0. MaxLines \in Nat /\ MaxBills \in Nat
  BY LedgerConstants
<1>1. ASSUME NEW b \in BillId PROVE SumTo(inner(b), MaxLines) \in Nat
  <2>1. inner(b) \in [1..MaxLines -> Nat]
    BY OwingIsNat DEF Slot
  <2> HIDE DEF inner
  <2>. QED  BY <1>0, <2>1, SumIsNat
<1> HIDE DEF inner
<1>2. outer \in [1..MaxBills -> Nat]
  BY <1>1 DEF BillId
<1>3. SumTo(outer, MaxBills) \in Nat
  BY <1>0, <1>2, SumIsNat
<1>. QED  BY <1>3 DEF OwedOn, inner

\* A listing of a set has values in that set, and its length is the size of the set.
LEMMA OrderIsSeq ==
  ASSUME NEW S, IsFiniteSet(S), NEW o \in Orders(S)
  PROVE  /\ Len(o) = Cardinality(S) /\ Len(o) \in Nat
         /\ o \in [1..Len(o) -> S] /\ DOMAIN o = 1..Len(o)
         /\ \A x \in S : \E i \in 1..Len(o) : o[i] = x
<1>1. Cardinality(S) \in Nat
  BY FS_CardinalityType
<1>2. o \in [1..Cardinality(S) -> S] /\ \A x \in S : \E i \in DOMAIN o : o[i] = x
  BY DEF Orders
<1>3. Len(o) = Cardinality(S)
  BY <1>1, <1>2
<1>. QED  BY <1>1, <1>2, <1>3

\* Some line of the item comes last on the way through the open bills.
LEMMA LastOfIsALine ==
  ASSUME NEW R \in SUBSET BillId, NEW route \in Orders(R),
         NEW lines \in SUBSET (R \X Slot), NEW i, \E l \in lines : LineItem(l) = i
  PROVE  LastOf(lines, route, i) \in lines /\ LineItem(LastOf(lines, route, i)) = i
<1>0. MaxBills \in Nat /\ MaxLines \in Nat /\ Slot = 1..MaxLines
  BY LedgerConstants DEF Slot
<1>1. IsFiniteSet(BillId)
  BY <1>0, FS_Interval DEF BillId
<1>2. IsFiniteSet(R)
  BY <1>1, FS_Subset
<1> DEFINE n == Len(route)
<1>3. n \in Nat /\ DOMAIN route = 1..n /\ \A x \in R : \E j \in 1..n : route[j] = x
  BY <1>2, OrderIsSeq
<1> HIDE DEF n
<1> DEFINE J == {j \in 1..n : \E l \in lines : LineItem(l) = i /\ route[j] = l[1]}
<1>4. \A l \in lines : LineItem(l) = i => \E j \in J : route[j] = l[1]
  BY <1>3
<1>5. PICK j \in J : \A k \in J : k <= j
  <2>1. J # {} /\ J \in SUBSET (1..n)
    BY <1>4
  <2>. QED  BY <1>3, <2>1, GreatestNat
<1> DEFINE T == {s \in Slot : <<route[j], s>> \in lines /\ LineItem(<<route[j], s>>) = i}
<1>6. PICK s \in T : \A k \in T : k <= s
  <2>1. PICK l \in lines : LineItem(l) = i /\ route[j] = l[1]
    BY <1>5
  <2>2. l = <<l[1], l[2]>> /\ l[2] \in Slot
    BY <2>1
  <2>3. l[2] \in T
    BY <2>1, <2>2
  <2>4. T \in SUBSET (1..MaxLines)
    BY <1>0
  <2>. QED  BY <1>0, <2>3, <2>4, GreatestNat
<1> DEFINE w == <<route[j], s>>
<1>7. w \in lines /\ LineItem(w) = i
  BY <1>6
<1>8. ASSUME NEW m \in lines, LineItem(m) = i PROVE m = w \/ Meets(route, m, w)
  <2>1. PICK k \in J : route[k] = m[1]
    BY <1>4, <1>8
  <2>2. k <= j /\ k \in DOMAIN route /\ j \in DOMAIN route
    BY <1>3, <1>5, <2>1
  <2>3. m = <<m[1], m[2]>> /\ m[2] \in Slot
    OBVIOUS
  <2>4. w[1] = route[j] /\ w[2] = s
    OBVIOUS
  <2>5. CASE k < j
    BY <2>1, <2>2, <2>4, <2>5 DEF Meets
  <2>6. CASE k = j
    <3>1. m[2] \in T
      BY <1>8, <2>1, <2>3, <2>6
    <3>2. m[2] <= s /\ m[2] \in Int /\ s \in Int
      BY <1>0, <1>6, <3>1
    <3>3. CASE m[2] = s
      BY <2>1, <2>3, <2>6, <3>3
    <3>4. CASE m[2] < s
      BY <2>1, <2>2, <2>4, <2>6, <3>4 DEF Meets
    <3>. QED  BY <3>2, <3>3, <3>4
  <2>. QED  BY <1>3, <2>2, <2>5, <2>6
<1>9. \E l \in lines : LineItem(l) = i /\
        \A m \in lines : LineItem(m) = i => m = l \/ Meets(route, m, l)
  BY <1>7, <1>8
<1>. QED  BY <1>9 DEF LastOf

\* A line row in use is of a kind, under an assessment that exists; a slot not in
\* use holds nothing.
GoodLine(l) ==
  /\ l \in LineRow
  /\ l.kind # NoKind => l.home \in BillId \X Slot
  /\ l.kind = NoKind => l = NoLine

LinesOfBills ==
  \A b \in BillId, s \in Slot : GoodLine(line[b][s]) /\ (Used(b, s) => Exists(b))

\* issue_bill: the lines rolled up are real lines, with a kind and an assessment.
LEMMA OutstandingIsUsed ==
  ASSUME TypeOK, LinesOfBills, NEW R \in SUBSET BillId, NEW l \in Outstanding(R)
  PROVE  /\ l[1] \in R /\ l[2] \in Slot /\ l = <<l[1], l[2]>>
         /\ Used(l[1], l[2]) /\ LineItem(l) \in Item
<1>1. l \in R \X Slot /\ Owing(l[1], l[2]) > 0
  BY DEF Outstanding
<1>2. l[1] \in BillId /\ l[2] \in Slot /\ l = <<l[1], l[2]>>
  BY <1>1
<1>3. PaidOn(l[1], l[2]) \in Nat
  BY <1>2, PaidOnIsNat
<1>4. Used(l[1], l[2])
  <2>1. SUFFICES ASSUME line[l[1]][l[2]] = NoLine PROVE FALSE
    BY <1>2 DEF LinesOfBills, GoodLine, Used
  <2>2. LineAmount(line[l[1]][l[2]]) = 0
    BY <2>1 DEF NoLine, LineAmount
  <2>. QED  BY <1>1, <1>3, <2>2 DEF Owing, Positive
<1>5. line[l[1]][l[2]].kind \in Kind
  BY <1>2, <1>4 DEF LinesOfBills, GoodLine, LineRow, Used
<1>. QED  BY <1>1, <1>2, <1>4, <1>5, LedgerConstants DEF LineItem

\* issue_bill: the lines of the new bill are well formed.
LEMMA NewLinesAreGood ==
  ASSUME TypeOK, LinesOfBills, NEW b \in BillId, NEW charge \in [Kind -> Nat],
         NEW charged \in SUBSET Kind, NEW R \in SUBSET BillId,
         NEW carried \in SUBSET {LineItem(l) : l \in Outstanding(R)},
         NEW order \in Orders(charged), NEW route \in Orders(R), NEW tail \in Orders(carried)
  PROVE  \A s \in Slot : GoodLine(NewLines(b, order, charge, Outstanding(R), route, tail)[s])
<1> DEFINE lines == Outstanding(R)
           ls == NewLines(b, order, charge, lines, route, tail)
<1>0. IsFiniteSet(charged) /\ IsFiniteSet(carried)
  <2>1. carried \in SUBSET Item
    BY OutstandingIsUsed
  <2>. QED  BY <2>1, LedgerConstants, FS_Subset
<1>1. Len(order) \in Nat /\ order \in [1..Len(order) -> charged]
  BY <1>0, OrderIsSeq
<1>2. Len(tail) \in Nat /\ tail \in [1..Len(tail) -> carried]
  BY <1>0, OrderIsSeq
<1>3. lines \in SUBSET (R \X Slot)
  BY DEF Outstanding
<1>4. SUFFICES ASSUME NEW s \in Slot PROVE GoodLine(ls[s])
  OBVIOUS
<1>5. s \in Nat /\ s >= 1 /\ 0 \in 0..MaxBills /\ 0 \in 0..MaxLines
  BY LedgerConstants DEF Slot
<1>6. CASE s <= Len(order)
  <2>1. order[s] \in Kind /\ charge[order[s]] \in Nat
    BY <1>1, <1>5, <1>6
  <2>2. PICK a \in Nat : ls[s] = [kind |-> order[s], home |-> <<b, s>>,
                                 current |-> charge[order[s]], arrears |-> a]
    <3>1. OwedOn(lines, ItemOf[order[s]]) \in Nat
      BY OwedOnIsNat
    <3>. QED  BY <1>6, <3>1 DEF NewLines
  <2>3. <<b, s>> \in BillId \X Slot /\ <<b, s>> \in (0..MaxBills) \X (0..MaxLines)
    BY LedgerConstants DEF BillId, Slot
  <2>4. order[s] # NoKind
    BY <2>1, LedgerConstants
  <2>. QED  BY <2>1, <2>2, <2>3, <2>4 DEF GoodLine, LineRow
<1>7. CASE s > Len(order) /\ s <= Len(order) + Len(tail)
  <2> DEFINE i == tail[s - Len(order)]
             l == LastOf(lines, route, i)
  <2>1. i \in carried
    BY <1>1, <1>2, <1>5, <1>7
  <2>2. l \in lines
    <3>1. \E m \in lines : LineItem(m) = i
      BY <2>1
    <3>. QED  BY <1>3, <3>1, LastOfIsALine
  <2> HIDE DEF l
  <2>3. /\ l[1] \in BillId /\ l[2] \in Slot /\ Used(l[1], l[2])
    BY <2>2, OutstandingIsUsed
  <2>4. GoodLine(line[l[1]][l[2]]) /\ line[l[1]][l[2]].kind # NoKind
    BY <2>3 DEF LinesOfBills, Used
  <2>5. OwedOn(lines, i) \in Nat
    BY OwedOnIsNat
  <2>6. ls[s] = [kind |-> line[l[1]][l[2]].kind, home |-> line[l[1]][l[2]].home,
                 current |-> 0, arrears |-> OwedOn(lines, i)]
    BY <1>1, <1>5, <1>7 DEF NewLines, l
  <2>. QED  BY <2>4, <2>5, <2>6 DEF GoodLine, LineRow
<1>8. CASE s > Len(order) + Len(tail)
  <2>1. ls[s] = NoLine
    BY <1>1, <1>2, <1>5, <1>8 DEF NewLines
  <2>. QED  BY <1>5, <2>1 DEF GoodLine, LineRow, NoLine
<1>. QED  BY <1>1, <1>2, <1>5, <1>6, <1>7, <1>8

-----------------------------------------------------------------------------
(* The inductive invariant behind the money theorems.  credit_balance stays a *)
(* natural number only because a reversal claws back what its payment left,   *)
(* so the type of credit rests on CreditIsLeftover and on the allocation      *)
(* never exceeding the payment.                                               *)

PaymentsOfBills ==
  \A p \in PaymentId :
    IF payment[p].status = "NONE" THEN payment[p] = NoPayment
    ELSE /\ payment[p].bill \in BillId /\ Exists(payment[p].bill)
         /\ Applied(payment[p].alloc) <= payment[p].amount

PayersOfBills == \A b \in BillId : Exists(b) => bill[b].payer \in Payer

LedgerInv ==
  /\ TypeOK /\ LinesOfBills /\ PaymentsOfBills /\ PayersOfBills
  /\ PaidIsAllocated /\ CreditIsLeftover

\* What each payment put on a bill is a natural.
LEMMA PutOnIsNat ==
  ASSUME TypeOK, NEW b
  PROVE  PutOn(b) \in [1..MaxPayments -> Nat]
<1>1. ASSUME NEW p \in PaymentId PROVE PutOn(b)[p] \in Nat
  <2>1. Applied(payment[p].alloc) \in Nat
    BY SumOfAllocation DEF TypeOK, PaymentRow
  <2>. QED  BY <2>1 DEF PutOn
<1>. QED  BY <1>1 DEF PutOn, PaymentId

\* What each payment left as credit is a natural.
LEMMA LeftToIsNat ==
  ASSUME TypeOK, PaymentsOfBills, NEW c
  PROVE  LeftTo(c) \in [1..MaxPayments -> Nat]
<1>1. ASSUME NEW p \in PaymentId PROVE LeftTo(c)[p] \in Nat
  <2>1. Applied(payment[p].alloc) \in Nat /\ payment[p].amount \in Nat
    BY SumOfAllocation DEF TypeOK, PaymentRow
  <2>2. payment[p].status = "CONFIRMED" => Applied(payment[p].alloc) <= payment[p].amount
    BY DEF PaymentsOfBills
  <2>. QED  BY <2>1, <2>2 DEF LeftTo
<1>. QED  BY <1>1 DEF LeftTo, PaymentId

\* A bill no payment names has amount_paid zero.
LEMMA UnpaidBill ==
  ASSUME TypeOK, PaidIsAllocated, NEW b \in BillId,
         \A p \in PaymentId : payment[p].bill # b
  PROVE  bill[b].paid = 0
<1>1. PutOn(b) \in [1..MaxPayments -> Int]
  BY PutOnIsNat
<1>2. \A p \in 1..MaxPayments : PutOn(b)[p] = 0
  BY DEF PutOn, CountsOn, PaymentId
<1>3. SumTo(PutOn(b), MaxPayments) = 0
  BY <1>1, <1>2, LedgerConstants, SumOfZeros
<1>. QED  BY <1>3 DEF PaidIsAllocated

\* amount_paid is a natural.
LEMMA PaidInNat ==
  ASSUME TypeOK, NEW b \in BillId
  PROVE  bill[b] \in BillRow /\ bill[b].paid \in Nat /\ bill[b].payer \in Payer \cup {NoPayer}
  BY DEF TypeOK, BillRow

\* Steps that leave payments and credit alone keep the money invariants.
LEMMA MoneyKept ==
  ASSUME LedgerInv, UNCHANGED <<payment, credit>>,
         \A x \in BillId : bill'[x].paid = bill[x].paid,
         \A x \in BillId, p \in PaymentId :
           payment[p].status # "NONE" /\ payment[p].bill = x =>
             Exists(x)' /\ bill'[x].payer = bill[x].payer
  PROVE  PaymentsOfBills' /\ PaidIsAllocated' /\ CreditIsLeftover'
<1>1. PaymentsOfBills'
  BY DEF LedgerInv, PaymentsOfBills
<1>2. PaidIsAllocated'
  <2>1. \A b \in BillId : PutOn(b)' = PutOn(b)
    BY DEF PutOn, CountsOn
  <2>. QED  BY <2>1 DEF LedgerInv, PaidIsAllocated
<1>3. CreditIsLeftover'
  <2>1. ASSUME NEW c \in Payer PROVE LeftTo(c)' = LeftTo(c)
    <3>1. ASSUME NEW p \in PaymentId, payment[p].status = "CONFIRMED"
          PROVE  bill'[payment[p].bill].payer = bill[payment[p].bill].payer
      <4>1. payment[p].bill \in BillId
        BY <3>1 DEF LedgerInv, PaymentsOfBills
      <4>. QED  BY <3>1, <4>1
    <3>. QED  BY <3>1 DEF LeftTo
  <2>. QED  BY <2>1 DEF LedgerInv, CreditIsLeftover
<1>. QED  BY <1>1, <1>2, <1>3

-----------------------------------------------------------------------------
(* Editing the lines of a bill. *)

\* The line edits keep the invariant: they touch one bill, its lines and its assessments.
LEMMA EditKeeps ==
  ASSUME LedgerInv, NEW b \in BillId, Exists(b),
         line' \in [BillId -> [Slot -> LineRow]],
         \A x \in BillId \ {b} : line'[x] = line[x],
         \A s \in Slot : GoodLine(line'[b][s]),
         asmt' \in [BillId -> [Slot -> Nat]],
         bill' = [bill EXCEPT ![b] = Recompute(bill[b], line'[b])],
         UNCHANGED <<draft, payment, credit, debtCase, today>>
  PROVE  LedgerInv' /\ \A x \in BillId : Settled(bill[x], bill'[x])
<1>1. bill[b] \in BillRow /\ bill[b].status \notin {"NONE", "DELETED"}
  BY PaidInNat DEF LedgerInv, Exists
<1>2. /\ Settled(bill[b], Recompute(bill[b], line'[b]))
      /\ Recompute(bill[b], line'[b]).paid = bill[b].paid
  BY <1>1, RecomputeSettles
<1>3. bill' \in [BillId -> BillRow]
  BY <1>2 DEF LedgerInv, TypeOK, Settled
<1>4. \A x \in BillId : Settled(bill[x], bill'[x]) /\ bill'[x].paid = bill[x].paid
  <2>1. ASSUME NEW x \in BillId, x # b PROVE Settled(bill[x], bill'[x]) /\ bill'[x].paid = bill[x].paid
    <3>1. bill'[x] = bill[x] /\ bill[x] \in BillRow
      BY <2>1 DEF LedgerInv, TypeOK
    <3>. QED  BY <3>1, SettledSelf
  <2>2. bill'[b] = Recompute(bill[b], line'[b])
    BY DEF LedgerInv, TypeOK
  <2>. QED  BY <1>2, <2>1, <2>2
<1>5. \A x \in BillId : (Exists(x)' <=> Exists(x)) /\ bill'[x].payer = bill[x].payer
  BY <1>4 DEF Settled, Exists, OpenStatus, TerminalStatus
<1>6. TypeOK'
  BY <1>3 DEF LedgerInv, TypeOK
<1>7. LinesOfBills'
  BY <1>5 DEF LedgerInv, LinesOfBills, Used, Exists
<1>8. PayersOfBills'
  BY <1>5 DEF LedgerInv, PayersOfBills
<1>9. PaymentsOfBills' /\ PaidIsAllocated' /\ CreditIsLeftover'
  <2>1. \A x \in BillId, p \in PaymentId :
           payment[p].status # "NONE" /\ payment[p].bill = x =>
             Exists(x)' /\ bill'[x].payer = bill[x].payer
    BY <1>5 DEF LedgerInv, PaymentsOfBills
  <2>. QED  BY <1>4, <2>1, MoneyKept
<1>. QED  BY <1>4, <1>6, <1>7, <1>8, <1>9 DEF LedgerInv

\* The assessment a line hangs on has a natural amount.
LEMMA HomeIsNat ==
  ASSUME LedgerInv, NEW b \in BillId, NEW s \in Slot, Used(b, s)
  PROVE  LET h == line[b][s].home
         IN h[1] \in BillId /\ h[2] \in Slot /\ asmt[h[1]][h[2]] \in Nat
<1>1. GoodLine(line[b][s]) /\ line[b][s].kind # NoKind
  BY DEF LedgerInv, LinesOfBills, Used
<1>2. line[b][s].home \in BillId \X Slot
  BY <1>1 DEF GoodLine
<1>. QED  BY <1>2 DEF LedgerInv, TypeOK

\* add_bill_line keeps the invariant.
LEMMA AddBillLineKeeps ==
  ASSUME LedgerInv, NEW b \in BillId, NEW k \in Kind, NEW amount \in Nat,
         AddBillLine(b, k, amount)
  PROVE  LedgerInv' /\ \A x \in BillId : Settled(bill[x], bill'[x])
<1>1. line \in [BillId -> [Slot -> LineRow]] /\ asmt \in [BillId -> [Slot -> Nat]]
  BY DEF LedgerInv, TypeOK
<1>2. k # NoKind /\ 0 \in 0..MaxBills /\ MaxBills \in Nat /\ MaxLines \in Nat
  BY LedgerConstants
<1>3. /\ Exists(b) /\ bill' = [bill EXCEPT ![b] = Recompute(bill[b], line'[b])]
      /\ UNCHANGED <<draft, payment, credit, debtCase, today>>
  BY DEF AddBillLine
<1>4. PICK s \in Slot :
        \/ line[b][s].kind = k /\ MergeLine(b, s, amount)
        \/ AppendLine(b, s, k, amount)
  BY DEF AddBillLine
<1>5. \A t \in Slot : GoodLine(line[b][t])
  BY DEF LedgerInv, LinesOfBills
<1>6. CASE line[b][s].kind = k /\ MergeLine(b, s, amount)
  <2> DEFINE h == line[b][s].home
             total == asmt[h[1]][h[2]] + amount
  <2>1. h[1] \in BillId /\ h[2] \in Slot /\ total \in Nat
    BY <1>2, <1>6, HomeIsNat DEF Used
  <2>2. asmt' = [asmt EXCEPT ![h[1]][h[2]] = total] /\ line' = [line EXCEPT ![b][s].current = total]
    BY <1>6 DEF MergeLine
  <2> HIDE DEF h, total
  <2>3. asmt' \in [BillId -> [Slot -> Nat]]
    BY <1>1, <2>1, <2>2
  <2>4. /\ line'[b][s] = [line[b][s] EXCEPT !.current = total]
        /\ \A t \in Slot \ {s} : line'[b][t] = line[b][t]
        /\ \A x \in BillId \ {b} : line'[x] = line[x]
    BY <1>1, <2>2
  <2>5. GoodLine(line'[b][s]) /\ line'[b][s] \in LineRow
    BY <1>2, <1>5, <1>6, <2>1, <2>4 DEF GoodLine, LineRow
  <2>6. line' \in [BillId -> [Slot -> LineRow]]
    BY <1>1, <2>1, <2>2, <2>5 DEF LineRow
  <2>. QED  BY <1>3, <1>5, <2>3, <2>4, <2>5, <2>6, EditKeeps
<1>7. CASE AppendLine(b, s, k, amount)
  <2> DEFINE new == [kind |-> k, home |-> <<b, s>>, current |-> amount, arrears |-> 0]
  <2>1. asmt' = [asmt EXCEPT ![b][s] = amount] /\ line' = [line EXCEPT ![b][s] = new]
    BY <1>7 DEF AppendLine
  <2>2. <<b, s>> \in BillId \X Slot /\ <<b, s>> \in (0..MaxBills) \X (0..MaxLines)
    BY <1>2 DEF BillId, Slot
  <2>3. GoodLine(new) /\ new \in LineRow
    BY <1>2, <2>2 DEF GoodLine, LineRow
  <2> HIDE DEF new
  <2>4. asmt' \in [BillId -> [Slot -> Nat]] /\ line' \in [BillId -> [Slot -> LineRow]]
    BY <1>1, <2>1, <2>3
  <2>5. /\ line'[b][s] = new
        /\ \A t \in Slot \ {s} : line'[b][t] = line[b][t]
        /\ \A x \in BillId \ {b} : line'[x] = line[x]
    BY <1>1, <2>1
  <2>. QED  BY <1>3, <1>5, <2>3, <2>4, <2>5, EditKeeps
<1>. QED  BY <1>4, <1>6, <1>7

\* update_bill_line keeps the invariant; its second guard keeps current_amount at or above zero.
LEMMA UpdateBillLineKeeps ==
  ASSUME LedgerInv, NEW b \in BillId, NEW s \in Slot, NEW amount \in Nat,
         UpdateBillLine(b, s, amount)
  PROVE  LedgerInv' /\ \A x \in BillId : Settled(bill[x], bill'[x])
<1> DEFINE h == line[b][s].home
           current == amount - line[b][s].arrears
<1>1. line \in [BillId -> [Slot -> LineRow]] /\ asmt \in [BillId -> [Slot -> Nat]]
  BY DEF LedgerInv, TypeOK
<1>2. /\ Used(b, s) /\ bill' = [bill EXCEPT ![b] = Recompute(bill[b], line'[b])]
      /\ line' = [line EXCEPT ![b][s].current = current]
      /\ asmt' = [asmt EXCEPT ![h[1]][h[2]] = current]
      /\ UNCHANGED <<draft, payment, credit, debtCase, today>>
      /\ amount >= line[b][s].arrears
  BY DEF UpdateBillLine, AllowedAmount
<1>3. \A t \in Slot : GoodLine(line[b][t])
  BY DEF LedgerInv, LinesOfBills
<1>4. current \in Nat
  BY <1>1, <1>2 DEF LineRow
<1>5. h[1] \in BillId /\ h[2] \in Slot
  BY <1>2, HomeIsNat
<1> HIDE DEF h, current
<1>6. asmt' \in [BillId -> [Slot -> Nat]]
  BY <1>1, <1>2, <1>4, <1>5
<1>7. /\ line'[b][s] = [line[b][s] EXCEPT !.current = current]
      /\ \A t \in Slot \ {s} : line'[b][t] = line[b][t]
      /\ \A x \in BillId \ {b} : line'[x] = line[x]
  BY <1>1, <1>2
<1>8. GoodLine(line'[b][s]) /\ line'[b][s] \in LineRow
  BY <1>2, <1>3, <1>4, <1>7 DEF GoodLine, LineRow, Used
<1>9. line' \in [BillId -> [Slot -> LineRow]]
  BY <1>1, <1>2, <1>4, <1>8 DEF LineRow
<1>10. Exists(b)
  BY <1>2 DEF LedgerInv, LinesOfBills
<1>. QED  BY <1>2, <1>3, <1>6, <1>7, <1>8, <1>9, <1>10, EditKeeps

\* delete_bill_line keeps the invariant.
LEMMA DeleteBillLineKeeps ==
  ASSUME LedgerInv, NEW b \in BillId, NEW s \in Slot, DeleteBillLine(b, s)
  PROVE  LedgerInv' /\ \A x \in BillId : Settled(bill[x], bill'[x])
<1>1. line \in [BillId -> [Slot -> LineRow]] /\ asmt \in [BillId -> [Slot -> Nat]]
  BY DEF LedgerInv, TypeOK
<1>2. /\ Used(b, s) /\ bill' = [bill EXCEPT ![b] = Recompute(bill[b], line'[b])]
      /\ line' = [line EXCEPT ![b][s] = NoLine]
      /\ UNCHANGED <<asmt, draft, payment, credit, debtCase, today>>
  BY DEF DeleteBillLine
<1>3. \A t \in Slot : GoodLine(line[b][t])
  BY DEF LedgerInv, LinesOfBills
<1>4. GoodLine(NoLine) /\ NoLine \in LineRow
  BY LedgerConstants DEF GoodLine, LineRow, NoLine
<1>5. line' \in [BillId -> [Slot -> LineRow]]
  BY <1>1, <1>2, <1>4
<1>6. /\ line'[b][s] = NoLine
      /\ \A t \in Slot \ {s} : line'[b][t] = line[b][t]
      /\ \A x \in BillId \ {b} : line'[x] = line[x]
  BY <1>1, <1>2
<1>7. Exists(b)
  BY <1>2 DEF LedgerInv, LinesOfBills
<1>. QED  BY <1>1, <1>2, <1>3, <1>4, <1>5, <1>6, <1>7, EditKeeps

-----------------------------------------------------------------------------
(* Money in and out. *)

\* close_debt_case_for_bill yields case stages.
LEMMA ClosedIsCases ==
  ASSUME debtCase \in [BillId -> CaseStage], NEW bills
  PROVE  Closed(bills) \in [BillId -> CaseStage]
  BY DEF Closed, CaseStage

\* post_payment keeps the invariant: the applied part goes to amount_paid, the rest to
\* credit_balance, and the payment row records both.
LEMMA PostPaymentKeeps ==
  ASSUME LedgerInv, NEW p \in PaymentId, NEW b \in BillId, NEW amount \in Nat,
         PostPayment(p, b, amount)
  PROVE  LedgerInv' /\ \A x \in BillId : Settled(bill[x], bill'[x])
<1> DEFINE alloc == Allocation(b, amount)
           r == [bill[b] EXCEPT !.paid = @ + Applied(alloc)]
           q == Recompute(r, line[b])
           new == [bill |-> b, amount |-> amount, status |-> "CONFIRMED", alloc |-> alloc]
           c == bill[b].payer
<1>0. TypeOK /\ MaxPayments \in Nat
  BY LedgerConstants DEF LedgerInv
<1>1. /\ payment[p].status = "NONE" /\ Live(b)
      /\ payment' = [payment EXCEPT ![p] = new]
      /\ bill' = [bill EXCEPT ![b] = q]
      /\ credit' = [credit EXCEPT ![c] = @ + (amount - Applied(alloc))]
      /\ debtCase' \in {Closed({b}), debtCase}
      /\ UNCHANGED <<line, asmt, draft, today>>
  <2>1. payment[p].status = "NONE"
    BY <1>0 DEF PostPayment, NextPayment, PaymentId
  <2>2. debtCase' = CaseAfterSettling(b, q)
    BY DEF PostPayment, Paid
  <2>3. debtCase' \in {Closed({b}), debtCase}
    BY <2>2 DEF CaseAfterSettling
  <2>. QED  BY <2>1, <2>3 DEF PostPayment, Paid
<1>2. alloc \in [Slot -> Nat] /\ Applied(alloc) \in Nat /\ Applied(alloc) <= amount
  BY <1>0, AllocationFits
<1> HIDE DEF alloc
<1>3. bill[b] \in BillRow /\ bill[b].paid \in Nat /\ bill[b].status \notin {"NONE", "DELETED"}
  BY <1>0, <1>1, PaidInNat DEF Live, Exists
<1>4. c \in Payer
  BY <1>1 DEF LedgerInv, PayersOfBills, Live
<1> HIDE DEF c
<1>5. /\ r \in BillRow /\ r.paid = bill[b].paid + Applied(alloc)
      /\ r.payer = bill[b].payer /\ r.due = bill[b].due /\ r.year = bill[b].year
      /\ r.via = bill[b].via /\ r.supersededBy = bill[b].supersededBy
      /\ r.status = bill[b].status
  BY <1>2, <1>3 DEF BillRow
<1> HIDE DEF r
<1>6. Settled(r, q) /\ q.paid = r.paid
  BY <1>0, <1>3, <1>5, RecomputeSettles DEF TypeOK
<1> HIDE DEF q
<1>7. Settled(bill[b], q)
  BY <1>1, <1>3, <1>5, <1>6 DEF Settled, Live, OpenStatus, TerminalStatus, BillRow, BillStatus
<1>8. \A x \in BillId \ {b} : bill'[x] = bill[x]
  BY <1>0, <1>1 DEF TypeOK
<1>9. bill'[b] = q
  BY <1>0, <1>1 DEF TypeOK
<1>10. \A x \in BillId : Settled(bill[x], bill'[x])
  <2>1. ASSUME NEW x \in BillId, x # b PROVE Settled(bill[x], bill'[x])
    <3>1. bill'[x] = bill[x] /\ bill[x] \in BillRow
      BY <1>0, <1>8, <2>1 DEF TypeOK
    <3>. QED  BY <3>1, SettledSelf
  <2>. QED  BY <1>7, <1>9, <2>1
<1>11. \A x \in BillId : (Exists(x)' <=> Exists(x)) /\ bill'[x].payer = bill[x].payer
  BY <1>10 DEF Settled, Exists, OpenStatus, TerminalStatus
<1>12. /\ payment'[p] = new /\ new \in PaymentRow
       /\ \A t \in PaymentId \ {p} : payment'[t] = payment[t]
  <2>1. payment \in [PaymentId -> PaymentRow] /\ b \in 0..MaxBills
    BY <1>0 DEF TypeOK, BillId
  <2>2. new \in PaymentRow
    BY <1>2, <2>1 DEF PaymentRow
  <2> HIDE DEF new
  <2>. QED  BY <1>1, <2>1, <2>2
<1>13. new.bill = b /\ new.amount = amount /\ new.status = "CONFIRMED" /\ new.alloc = alloc
  OBVIOUS
<1> HIDE DEF new
<1>14. /\ credit'[c] = credit[c] + (amount - Applied(alloc))
       /\ \A x \in Payer \ {c} : credit'[x] = credit[x]
       /\ credit' \in [Payer -> Nat]
  BY <1>0, <1>1, <1>2, <1>4 DEF TypeOK
<1>15. TypeOK'
  <2>1. bill' \in [BillId -> BillRow]
    BY <1>0, <1>1, <1>7 DEF TypeOK, Settled
  <2>2. payment' \in [PaymentId -> PaymentRow]
    BY <1>0, <1>1, <1>12 DEF TypeOK
  <2>3. debtCase' \in [BillId -> CaseStage]
    BY <1>0, <1>1, ClosedIsCases DEF TypeOK
  <2>. QED  BY <1>0, <1>1, <1>14, <2>1, <2>2, <2>3 DEF TypeOK
<1>16. LinesOfBills'
  BY <1>1, <1>11 DEF LedgerInv, LinesOfBills, Used, Exists
<1>17. PayersOfBills'
  BY <1>11 DEF LedgerInv, PayersOfBills
<1>18. PaymentsOfBills'
  <2>1. ASSUME NEW t \in PaymentId \ {p}, payment'[t].status # "NONE"
        PROVE /\ payment'[t].bill \in BillId
              /\ bill'[payment'[t].bill].status \notin {"NONE", "DELETED"}
              /\ Applied(payment'[t].alloc) <= payment'[t].amount
    BY <1>11, <1>12, <2>1 DEF LedgerInv, PaymentsOfBills, Exists
  <2>2. ASSUME NEW t \in PaymentId \ {p}, payment'[t].status = "NONE"
        PROVE payment'[t] = NoPayment
    BY <1>12, <2>2 DEF LedgerInv, PaymentsOfBills
  <2>3. bill'[b].status \notin {"NONE", "DELETED"}
    BY <1>1, <1>11 DEF Live, Exists
  <2>. QED  BY <1>2, <1>12, <1>13, <2>1, <2>2, <2>3 DEF PaymentsOfBills, Exists
<1>19. PaidIsAllocated'
  <2>1. ASSUME NEW x \in BillId PROVE bill'[x].paid = SumTo(PutOn(x)', MaxPayments)
    <3> DEFINE f == PutOn(x)
               g == PutOn(x)'
    <3>1. f \in [1..MaxPayments -> Int]
      BY <1>0, PutOnIsNat
    <3>3. \A t \in 1..MaxPayments : t # p => g[t] = f[t]
      BY <1>12 DEF PutOn, CountsOn, PaymentId
    <3>4. f[p] = 0
      BY <1>1 DEF PutOn, CountsOn
    <3>5. g[p] = IF x = b THEN Applied(alloc) ELSE 0
      BY <1>12, <1>13 DEF PutOn, CountsOn
    <3>2. g \in [1..MaxPayments -> Int]
      <4>1. \A t \in 1..MaxPayments : g[t] \in Int
        BY <1>2, <3>1, <3>3, <3>5
      <4>. QED  BY <4>1 DEF PutOn, PaymentId
    <3>6. bill[x].paid = SumTo(f, MaxPayments)
      BY DEF LedgerInv, PaidIsAllocated
    <3>7. p \in 1..MaxPayments
      BY DEF PaymentId
    <3> HIDE DEF f, g
    <3>8. SumTo(g, MaxPayments) = SumTo(f, MaxPayments) + (g[p] - f[p])
      BY <1>0, <3>1, <3>2, <3>3, <3>7, SumUpdate
    <3>9. bill'[x].paid = SumTo(g, MaxPayments)
      BY <1>2, <1>3, <1>5, <1>6, <1>8, <1>9, <3>4, <3>5, <3>6, <3>8, <1>0, PaidInNat
    <3>. QED  BY <3>9 DEF g
  <2>. QED  BY <2>1 DEF PaidIsAllocated
<1>20. CreditIsLeftover'
  <2>1. ASSUME NEW x \in Payer PROVE credit'[x] = SumTo(LeftTo(x)', MaxPayments)
    <3> DEFINE f == LeftTo(x)
               g == LeftTo(x)'
    <3>1. f \in [1..MaxPayments -> Int]
      BY <1>0, LeftToIsNat DEF LedgerInv
    <3>3. \A t \in 1..MaxPayments : t # p => g[t] = f[t]
      <4>1. ASSUME NEW t \in PaymentId, t # p PROVE g[t] = f[t]
        <5>1. payment'[t] = payment[t]
          BY <1>12, <4>1
        <5>2. payment[t].status = "CONFIRMED" => bill'[payment[t].bill].payer = bill[payment[t].bill].payer
          BY <1>11 DEF LedgerInv, PaymentsOfBills
        <5>. QED  BY <5>1, <5>2 DEF LeftTo
      <4>. QED  BY <4>1 DEF PaymentId
    <3>4. f[p] = 0
      BY <1>1 DEF LeftTo
    <3>5. g[p] = IF x = c THEN amount - Applied(alloc) ELSE 0
      BY <1>11, <1>12, <1>13 DEF LeftTo, c
    <3>2. g \in [1..MaxPayments -> Int]
      <4>1. \A t \in 1..MaxPayments : g[t] \in Int
        BY <1>2, <3>1, <3>3, <3>5
      <4>. QED  BY <4>1 DEF LeftTo, PaymentId
    <3>6. credit[x] = SumTo(f, MaxPayments) /\ credit[x] \in Nat
      BY <1>0 DEF LedgerInv, CreditIsLeftover, TypeOK
    <3>7. p \in 1..MaxPayments
      BY DEF PaymentId
    <3> HIDE DEF f, g
    <3>8. SumTo(g, MaxPayments) = SumTo(f, MaxPayments) + (g[p] - f[p])
      BY <1>0, <3>1, <3>2, <3>3, <3>7, SumUpdate
    <3>9. credit'[x] = SumTo(g, MaxPayments)
      BY <1>2, <1>14, <3>4, <3>5, <3>6, <3>8
    <3>. QED  BY <3>9 DEF g
  <2>. QED  BY <2>1 DEF CreditIsLeftover
<1>. QED  BY <1>10, <1>15, <1>16, <1>17, <1>18, <1>19, <1>20 DEF LedgerInv

\* reverse_payment keeps the invariant: it takes back exactly what post_payment gave, so
\* neither subtraction goes below zero.
LEMMA ReversePaymentKeeps ==
  ASSUME LedgerInv, NEW p \in PaymentId, ReversePayment(p)
  PROVE  /\ LedgerInv' /\ \A x \in BillId : Settled(bill[x], bill'[x])
         /\ \A x \in BillId : bill'[x].paid <= bill[x].paid
<1> DEFINE b == payment[p].bill
           applied == AppliedBy(p)
           amount == payment[p].amount
           r == [bill[b] EXCEPT !.paid = Positive(@ - applied)]
           q == Recompute(r, line[b])
           c == bill[b].payer
<1>0. TypeOK /\ MaxPayments \in Nat
  BY LedgerConstants DEF LedgerInv
<1>1. /\ payment[p].status = "CONFIRMED"
      /\ payment' = [payment EXCEPT ![p].status = "REVERSED"]
      /\ bill' = [bill EXCEPT ![b] = q]
      /\ credit' = [credit EXCEPT ![c] = @ - (amount - applied)]
      /\ UNCHANGED <<line, asmt, draft, debtCase, today>>
  BY DEF ReversePayment
<1>2. /\ applied \in Nat /\ amount \in Nat /\ applied <= amount
      /\ b \in BillId /\ Exists(b)
  <2>1. payment[p].alloc \in [Slot -> Nat] /\ amount \in Nat
    BY <1>0 DEF TypeOK, PaymentRow
  <2>. QED  BY <1>1, <2>1, SumOfAllocation DEF LedgerInv, PaymentsOfBills, AppliedBy
<1>3. bill[b] \in BillRow /\ bill[b].paid \in Nat /\ bill[b].status \notin {"NONE", "DELETED"}
  BY <1>0, <1>2, PaidInNat DEF Exists
<1>4. c \in Payer
  BY <1>2 DEF LedgerInv, PayersOfBills
\* The applied part is part of amount_paid, the rest part of the credit.
<1>5. applied <= bill[b].paid
  <2>1. PutOn(b) \in [1..MaxPayments -> Nat] /\ p \in 1..MaxPayments
    BY <1>0, PutOnIsNat DEF PaymentId
  <2>2. PutOn(b)[p] = applied
    BY <1>1 DEF PutOn, CountsOn, AppliedBy
  <2>3. PutOn(b)[p] <= SumTo(PutOn(b), MaxPayments)
    BY <1>0, <2>1, SumMember
  <2>. QED  BY <1>2, <2>2, <2>3 DEF LedgerInv, PaidIsAllocated
<1>6. amount - applied <= credit[c] /\ credit[c] \in Nat
  <2>1. LeftTo(c) \in [1..MaxPayments -> Nat] /\ p \in 1..MaxPayments
    BY <1>0, LeftToIsNat DEF PaymentId, LedgerInv
  <2>2. LeftTo(c)[p] = amount - applied
    BY <1>1 DEF LeftTo, AppliedBy
  <2>3. LeftTo(c)[p] <= SumTo(LeftTo(c), MaxPayments)
    BY <1>0, <2>1, SumMember
  <2>. QED  BY <1>0, <1>4, <2>2, <2>3 DEF LedgerInv, CreditIsLeftover, TypeOK
<1>7. /\ r \in BillRow /\ r.paid = bill[b].paid - applied
      /\ r.payer = bill[b].payer /\ r.due = bill[b].due /\ r.year = bill[b].year
      /\ r.via = bill[b].via /\ r.supersededBy = bill[b].supersededBy
      /\ r.status = bill[b].status
  <2>1. Positive(bill[b].paid - applied) = bill[b].paid - applied
    BY <1>2, <1>3, <1>5 DEF Positive
  <2>2. bill[b].paid - applied \in Nat
    BY <1>2, <1>3, <1>5
  <2>. QED  BY <1>3, <2>1, <2>2 DEF BillRow
<1> HIDE DEF r, c, applied, amount
<1>8. Settled(r, q) /\ q.paid = r.paid
  BY <1>0, <1>2, <1>3, <1>7, RecomputeSettles DEF TypeOK
<1> HIDE DEF q, b
<1>9. Settled(bill[b], q)
  <2>1. r.paid <= bill[b].paid
    BY <1>2, <1>3, <1>7
  <2>. QED  BY <1>7, <1>8, <2>1 DEF Settled
<1>10. bill'[b] = q /\ \A x \in BillId \ {b} : bill'[x] = bill[x]
  BY <1>0, <1>1, <1>2 DEF TypeOK
<1>11. \A x \in BillId : Settled(bill[x], bill'[x])
  <2>1. ASSUME NEW x \in BillId, x # b PROVE Settled(bill[x], bill'[x])
    <3>1. bill'[x] = bill[x] /\ bill[x] \in BillRow
      BY <1>0, <1>10, <2>1 DEF TypeOK
    <3>. QED  BY <3>1, SettledSelf
  <2>. QED  BY <1>9, <1>10, <2>1
<1>12. \A x \in BillId : (Exists(x)' <=> Exists(x)) /\ bill'[x].payer = bill[x].payer
  BY <1>11 DEF Settled, Exists, OpenStatus, TerminalStatus
<1>13. \A x \in BillId : bill'[x].paid = bill[x].paid - (IF x = b THEN applied ELSE 0)
  BY <1>0, <1>2, <1>3, <1>7, <1>8, <1>10, PaidInNat
<1>14. /\ payment'[p] = [payment[p] EXCEPT !.status = "REVERSED"]
       /\ \A t \in PaymentId \ {p} : payment'[t] = payment[t]
       /\ payment' \in [PaymentId -> PaymentRow]
  <2>1. payment \in [PaymentId -> PaymentRow] /\ payment[p] \in PaymentRow
    BY <1>0 DEF TypeOK
  <2>2. [payment[p] EXCEPT !.status = "REVERSED"] \in PaymentRow
    BY <2>1 DEF PaymentRow
  <2>3. payment' = [payment EXCEPT ![p] = [payment[p] EXCEPT !.status = "REVERSED"]]
    BY <1>1, <2>1
  <2>. QED  BY <2>1, <2>2, <2>3
<1>15. /\ payment'[p].status = "REVERSED" /\ payment'[p].bill = b
       /\ payment'[p].amount = payment[p].amount /\ payment'[p].alloc = payment[p].alloc
  BY <1>0, <1>14 DEF TypeOK, PaymentRow, b
<1>16. /\ credit'[c] = credit[c] - (amount - applied)
       /\ \A x \in Payer \ {c} : credit'[x] = credit[x]
       /\ credit' \in [Payer -> Nat]
  BY <1>0, <1>1, <1>2, <1>4, <1>6 DEF TypeOK
<1>17. TypeOK'
  <2>1. bill' \in [BillId -> BillRow]
    BY <1>0, <1>1, <1>9 DEF TypeOK, Settled
  <2>. QED  BY <1>0, <1>1, <1>14, <1>16, <2>1 DEF TypeOK
<1>18. LinesOfBills'
  BY <1>1, <1>12 DEF LedgerInv, LinesOfBills, Used, Exists
<1>19. PayersOfBills'
  BY <1>12 DEF LedgerInv, PayersOfBills
<1>20. PaymentsOfBills'
  <2>1. ASSUME NEW t \in PaymentId \ {p}, payment'[t].status # "NONE"
        PROVE /\ payment'[t].bill \in BillId
              /\ bill'[payment'[t].bill].status \notin {"NONE", "DELETED"}
              /\ Applied(payment'[t].alloc) <= payment'[t].amount
    BY <1>12, <1>14, <2>1 DEF LedgerInv, PaymentsOfBills, Exists
  <2>2. ASSUME NEW t \in PaymentId \ {p}, payment'[t].status = "NONE"
        PROVE payment'[t] = NoPayment
    BY <1>14, <2>2 DEF LedgerInv, PaymentsOfBills
  <2>3. bill'[b].status \notin {"NONE", "DELETED"}
    BY <1>2, <1>12 DEF Exists
  <2>. QED
    BY <1>2, <1>15, <2>1, <2>2, <2>3 DEF PaymentsOfBills, Exists, applied, amount, AppliedBy
<1>21. PaidIsAllocated'
  <2>1. ASSUME NEW x \in BillId PROVE bill'[x].paid = SumTo(PutOn(x)', MaxPayments)
    <3> DEFINE f == PutOn(x)
               g == PutOn(x)'
    <3>1. f \in [1..MaxPayments -> Int]
      BY <1>0, PutOnIsNat
    <3>2. \A t \in 1..MaxPayments : t # p => g[t] = f[t]
      BY <1>14 DEF PutOn, CountsOn, PaymentId
    <3>3. f[p] = IF x = b THEN applied ELSE 0
      BY <1>1 DEF PutOn, CountsOn, applied, AppliedBy, b
    <3>4. g[p] = 0
      BY <1>15 DEF PutOn, CountsOn
    <3>5. g \in [1..MaxPayments -> Int]
      <4>1. \A t \in 1..MaxPayments : g[t] \in Int
        BY <3>1, <3>2, <3>4
      <4>. QED  BY <4>1 DEF PutOn, PaymentId
    <3>6. bill[x].paid = SumTo(f, MaxPayments) /\ bill[x].paid \in Nat
      BY <1>0, PaidInNat DEF LedgerInv, PaidIsAllocated
    <3>7. p \in 1..MaxPayments
      BY DEF PaymentId
    <3> HIDE DEF f, g
    <3>8. SumTo(g, MaxPayments) = SumTo(f, MaxPayments) + (g[p] - f[p])
      BY <1>0, <3>1, <3>5, <3>2, <3>7, SumUpdate
    <3>9. bill'[x].paid = SumTo(g, MaxPayments)
      BY <1>2, <1>13, <3>3, <3>4, <3>6, <3>8
    <3>. QED  BY <3>9 DEF g
  <2>. QED  BY <2>1 DEF PaidIsAllocated
<1>22. CreditIsLeftover'
  <2>1. ASSUME NEW x \in Payer PROVE credit'[x] = SumTo(LeftTo(x)', MaxPayments)
    <3> DEFINE f == LeftTo(x)
               g == LeftTo(x)'
    <3>1. f \in [1..MaxPayments -> Int]
      BY <1>0, LeftToIsNat DEF LedgerInv
    <3>2. \A t \in 1..MaxPayments : t # p => g[t] = f[t]
      <4>1. ASSUME NEW t \in PaymentId, t # p PROVE g[t] = f[t]
        <5>1. payment'[t] = payment[t]
          BY <1>14, <4>1
        <5>2. payment[t].status = "CONFIRMED" => bill'[payment[t].bill].payer = bill[payment[t].bill].payer
          BY <1>12 DEF LedgerInv, PaymentsOfBills
        <5>. QED  BY <5>1, <5>2 DEF LeftTo
      <4>. QED  BY <4>1 DEF PaymentId
    <3>3. f[p] = IF x = c THEN amount - applied ELSE 0
      BY <1>1 DEF LeftTo, applied, amount, AppliedBy, b, c
    <3>4. g[p] = 0
      BY <1>15 DEF LeftTo
    <3>5. g \in [1..MaxPayments -> Int]
      <4>1. \A t \in 1..MaxPayments : g[t] \in Int
        BY <3>1, <3>2, <3>4
      <4>. QED  BY <4>1 DEF LeftTo, PaymentId
    <3>6. credit[x] = SumTo(f, MaxPayments) /\ credit[x] \in Nat
      BY <1>0 DEF LedgerInv, CreditIsLeftover, TypeOK
    <3>7. p \in 1..MaxPayments
      BY DEF PaymentId
    <3> HIDE DEF f, g
    <3>8. SumTo(g, MaxPayments) = SumTo(f, MaxPayments) + (g[p] - f[p])
      BY <1>0, <3>1, <3>5, <3>2, <3>7, SumUpdate
    <3>9. credit'[x] = SumTo(g, MaxPayments)
      BY <1>2, <1>16, <3>3, <3>4, <3>6, <3>8
    <3>. QED  BY <3>9 DEF g
  <2>. QED  BY <2>1 DEF CreditIsLeftover
<1>23. \A x \in BillId : bill'[x].paid <= bill[x].paid
  BY <1>0, <1>2, <1>13, PaidInNat
<1>. QED  BY <1>11, <1>17, <1>18, <1>19, <1>20, <1>21, <1>22, <1>23 DEF LedgerInv

-----------------------------------------------------------------------------
(* Issuing and destroying bills. *)

\* What issue_bill does to the rows: one new bill, and R superseded by it.
Issues(b, c, R) ==
  /\ NextBill(b) /\ R \subseteq OpenOf(c)
  /\ bill'[b] \in BillRow /\ bill'[b].paid = 0 /\ bill'[b].supersededBy = 0
  /\ bill'[b].payer = c /\ bill'[b].year = Year(today)
  /\ bill'[b].status \in OpenStatus \cup {"PAID"}
  /\ bill'[b].via = "PLAIN" => ~HasBillThisYear(c)
  /\ \A x \in R : bill'[x] = [bill[x] EXCEPT !.status = "SUPERSEDED", !.supersededBy = b]
  /\ \A x \in BillId \ (R \cup {b}) : bill'[x] = bill[x]
  /\ debtCase' = Closed(R)

\* The calendar year of a day is a natural.
LEMMA YearIsNat ==
  ASSUME NEW day \in Nat
  PROVE  Year(day) \in Nat
  BY LedgerConstants DEF Year

\* issue_bill keeps the invariant.
LEMMA IssueBillKeeps ==
  ASSUME LedgerInv, NEW b \in BillId, NEW c \in Payer, NEW ask \in [Kind -> Nat],
         NEW sweep \in BOOLEAN, NEW roll \in BOOLEAN, NEW force \in BOOLEAN,
         NEW due \in Nat, IssueBill(b, c, ask, sweep, roll, force, due)
  PROVE  LedgerInv' /\ \E R \in SUBSET BillId : Issues(b, c, R)
<1> DEFINE charge == Charge(c, ask, sweep)
           charged == {k \in Kind : charge[k] > 0}
           rolled == IF roll THEN OpenOf(c) ELSE {}
           lines == Outstanding(rolled)
           carried == {LineItem(l) : l \in lines} \ {ItemOf[k] : k \in charged}
<1>0. TypeOK /\ LinesOfBills /\ MaxBills \in Nat /\ MaxLines \in Nat
  BY LedgerConstants DEF LedgerInv
<1>1. charge \in [Kind -> Nat]
  BY <1>0 DEF Charge, TypeOK
<1>2. rolled \in SUBSET BillId /\ rolled \subseteq OpenOf(c)
  BY DEF OpenOf
<1>3. /\ NextBill(b)
      /\ draft' = (IF sweep THEN [draft EXCEPT ![c] = [k \in Kind |-> 0]] ELSE draft)
      /\ debtCase' = Closed(rolled)
      /\ UNCHANGED <<payment, credit, today>>
      /\ (~roll /\ HasBillThisYear(c)) => force
  BY DEF IssueBill
<1>4. PICK order \in Orders(charged), route \in Orders(rolled), tail \in Orders(carried) :
        LET ls == NewLines(b, order, charge, lines, route, tail)
        IN /\ \A i, j \in DOMAIN order : i < j /\ ask[order[j]] > 0 => ask[order[i]] > 0
           /\ \A i, j \in DOMAIN tail : i < j =>
                Meets(route, FirstOf(lines, route, tail[i]), FirstOf(lines, route, tail[j]))
           /\ bill' = [x \in BillId |->
                 IF x = b THEN Recompute(NewRow(c, due, roll), ls)
                 ELSE IF x \in rolled
                   THEN [bill[x] EXCEPT !.status = "SUPERSEDED", !.supersededBy = b]
                 ELSE bill[x]]
           /\ line' = [line EXCEPT ![b] = ls]
           /\ asmt' = [asmt EXCEPT ![b] =
                 [s \in Slot |-> IF s <= Len(order) THEN charge[order[s]] ELSE 0]]
  BY DEF IssueBill
<1> DEFINE ls == NewLines(b, order, charge, lines, route, tail)
           r == NewRow(c, due, roll)
           q == Recompute(r, ls)
<1>5. \A s \in Slot : GoodLine(ls[s])
  BY <1>0, <1>1, <1>2, NewLinesAreGood
<1>6. ls \in [Slot -> LineRow]
  <2>1. ls = [s \in Slot |-> ls[s]]
    BY Zenon DEF NewLines
  <2>2. \A s \in Slot : ls[s] \in LineRow
    BY <1>5 DEF GoodLine
  <2> HIDE DEF ls
  <2>. QED  BY <2>1, <2>2
<1>7. [s \in Slot |-> IF s <= Len(order) THEN charge[order[s]] ELSE 0] \in [Slot -> Nat]
  <2>1. IsFiniteSet(charged)
    BY LedgerConstants, FS_Subset
  <2>2. Len(order) \in Nat /\ order \in [1..Len(order) -> charged]
    BY <2>1, OrderIsSeq
  <2>3. ASSUME NEW s \in Slot, s <= Len(order) PROVE charge[order[s]] \in Nat
    <3>1. s \in 1..Len(order)
      BY <1>0, <2>2, <2>3 DEF Slot
    <3>2. order[s] \in Kind
      BY <2>2, <3>1
    <3>. QED  BY <1>1, <3>2
  <2>. QED  BY <2>3
<1> HIDE DEF ls, charge, rolled
<1>8. /\ r \in BillRow /\ r.status = "ISSUED" /\ r.paid = 0 /\ r.supersededBy = 0
      /\ r.payer = c /\ r.year = Year(today)
      /\ r.via = (IF roll THEN "ROLL" ELSE IF HasBillThisYear(c) THEN "FORCED" ELSE "PLAIN")
  <2>1. today \in Nat
    BY <1>0, LedgerConstants DEF TypeOK
  <2>2. Year(today) \in Nat /\ 0 \in 0..MaxBills
    BY <1>0, <2>1, YearIsNat
  <2>. QED  BY <2>2 DEF NewRow, NoBill, BillRow, BillStatus, OpenStatus
<1> HIDE DEF r
<1>9. Settled(r, q) /\ q.paid = 0
  BY <1>6, <1>8, RecomputeSettles
<1>10. /\ bill'[b] = q
       /\ \A x \in rolled : bill'[x] = [bill[x] EXCEPT !.status = "SUPERSEDED", !.supersededBy = b]
       /\ \A x \in BillId \ (rolled \cup {b}) : bill'[x] = bill[x]
       /\ DOMAIN bill' = BillId
  <2>1. bill[b].status = "NONE"
    BY <1>0, <1>3 DEF NextBill, BillId
  <2>2. b \notin rolled
    BY <1>2, <2>1 DEF OpenOf, OpenStatus
  <2>. QED  BY <1>2, <1>4, <2>2 DEF q, r, ls
<1> HIDE DEF q
<1>11. Issues(b, c, rolled)
  BY <1>2, <1>3, <1>8, <1>9, <1>10 DEF Issues, Settled, OpenStatus
<1>12. ASSUME NEW x \in rolled PROVE bill[x] \in BillRow /\ bill'[x] \in BillRow
  <2>1. bill[x] \in BillRow /\ b \in 0..MaxBills /\ "SUPERSEDED" \in BillStatus
    BY <1>0, <1>2 DEF TypeOK, BillStatus, TerminalStatus, BillId
  <2>2. bill'[x] = [bill[x] EXCEPT !.status = "SUPERSEDED", !.supersededBy = b]
    BY <1>10
  <2>. QED  BY <2>1, <2>2 DEF BillRow
<1>13. TypeOK'
  <2>1. bill' \in [BillId -> BillRow]
    <3>1. \A x \in BillId : bill'[x] \in BillRow
      BY <1>0, <1>9, <1>10, <1>12 DEF TypeOK, Settled
    <3>. QED  BY <1>4, <3>1
  <2>2. line' \in [BillId -> [Slot -> LineRow]]
    <3>1. line' = [line EXCEPT ![b] = ls]
      BY <1>4 DEF ls
    <3>. QED  BY <1>0, <1>6, <3>1 DEF TypeOK
  <2>3. asmt' \in [BillId -> [Slot -> Nat]]
    BY <1>0, <1>4, <1>7 DEF TypeOK
  <2>4. draft' \in [Payer -> [Kind -> Nat]]
    BY <1>0, <1>3 DEF TypeOK
  <2>5. debtCase' \in [BillId -> CaseStage]
    BY <1>0, <1>3, ClosedIsCases DEF TypeOK
  <2>. QED  BY <1>0, <1>3, <2>1, <2>2, <2>3, <2>4, <2>5 DEF TypeOK
<1>14. /\ ~Exists(b) /\ Exists(b)' /\ bill'[b].payer = c
       /\ \A x \in BillId \ {b} : (Exists(x) => Exists(x)') /\ bill'[x].payer = bill[x].payer
       /\ \A x \in BillId \ {b} : Exists(x)' => Exists(x)
       /\ \A x \in BillId \ {b} : bill'[x].paid = bill[x].paid
  <2>1. ~Exists(b)
    BY <1>0, <1>3 DEF NextBill, BillId, Exists
  <2>2. Exists(b)' /\ bill'[b].payer = c
    BY <1>11 DEF Issues, Exists, OpenStatus
  <2>3. ASSUME NEW x \in rolled
        PROVE  /\ Exists(x) /\ Exists(x)' /\ bill'[x].payer = bill[x].payer
               /\ bill'[x].paid = bill[x].paid
    <3>1. bill[x].status \in OpenStatus /\ bill[x] \in BillRow
      BY <1>2, <1>12 DEF OpenOf
    <3>2. bill'[x] = [bill[x] EXCEPT !.status = "SUPERSEDED", !.supersededBy = b]
      BY <1>10
    <3>3. /\ bill'[x].status = "SUPERSEDED" /\ bill'[x].payer = bill[x].payer
          /\ bill'[x].paid = bill[x].paid
      BY <3>1, <3>2 DEF BillRow
    <3>. QED  BY <3>1, <3>3 DEF OpenStatus, Exists
  <2>4. ASSUME NEW x \in BillId \ {b}, x \notin rolled PROVE bill'[x] = bill[x]
    BY <1>10, <2>4
  <2>. QED  BY <2>1, <2>2, <2>3, <2>4 DEF Exists
<1>15. LinesOfBills'
  <2>1. line'[b] = ls /\ \A x \in BillId \ {b} : line'[x] = line[x]
    BY <1>0, <1>4 DEF TypeOK, ls
  <2>2. \A s \in Slot : GoodLine(line'[b][s])
    BY <1>5, <2>1
  <2>. QED  BY <1>0, <1>14, <2>1, <2>2 DEF LinesOfBills, Used, Exists
<1>16. PayersOfBills'
  BY <1>14 DEF LedgerInv, PayersOfBills, Exists
<1>17. PaymentsOfBills' /\ PaidIsAllocated' /\ CreditIsLeftover'
  <2>1. \A p \in PaymentId : payment[p].bill # b
    <3>1. ASSUME NEW p \in PaymentId, payment[p].status = "NONE" PROVE payment[p].bill # b
      BY <1>0, <3>1 DEF LedgerInv, PaymentsOfBills, NoPayment, BillId
    <3>2. ASSUME NEW p \in PaymentId, payment[p].status # "NONE" PROVE payment[p].bill # b
      BY <1>14, <3>2 DEF LedgerInv, PaymentsOfBills
    <3>. QED  BY <3>1, <3>2
  <2>2. bill[b].paid = 0
    BY <2>1, UnpaidBill DEF LedgerInv
  <2>3. \A x \in BillId : bill'[x].paid = bill[x].paid
    BY <1>9, <1>10, <1>14, <2>2
  <2>4. \A x \in BillId, p \in PaymentId :
           payment[p].status # "NONE" /\ payment[p].bill = x =>
             Exists(x)' /\ bill'[x].payer = bill[x].payer
    BY <1>14, <2>1 DEF LedgerInv, PaymentsOfBills
  <2>. QED  BY <1>3, <2>3, <2>4, MoneyKept
<1>. QED  BY <1>2, <1>11, <1>13, <1>15, <1>16, <1>17 DEF LedgerInv

\* Destroying a bill keeps the invariant, because a bill with payments is never destroyed.
LEMMA DestroyBillKeeps ==
  ASSUME LedgerInv, NEW b \in BillId, DestroyBill(b)
  PROVE  LedgerInv'
<1>0. TypeOK /\ MaxBills \in Nat /\ MaxLines \in Nat
  BY LedgerConstants DEF LedgerInv
<1>1. /\ Exists(b) /\ \A p \in PaymentId : payment[p].bill # b
      /\ bill' = [x \in BillId |->
           IF x = b THEN [NoBill EXCEPT !.status = "DELETED"] ELSE DroppedLink(bill[x], b)]
      /\ line' = [line EXCEPT ![b] = [s \in Slot |-> NoLine]]
      /\ asmt' = [x \in BillId |-> [t \in Slot |->
           IF \E s \in Slot : Used(b, s) /\ line[b][s].home = <<x, t>> THEN 0 ELSE asmt[x][t]]]
      /\ debtCase' = [debtCase EXCEPT ![b] = "ABSENT"]
      /\ UNCHANGED <<draft, payment, credit, today>>
  BY DEF DestroyBill
<1>2. bill'[b] \in BillRow /\ bill'[b].paid = 0 /\ ~Exists(b)'
  BY <1>0, <1>1 DEF NoBill, BillRow, BillStatus, Exists
<1>3. ASSUME NEW x \in BillId \ {b}
      PROVE  /\ bill'[x] \in BillRow /\ bill'[x].status = bill[x].status
             /\ bill'[x].payer = bill[x].payer /\ bill'[x].paid = bill[x].paid
  <2>1. bill'[x] = DroppedLink(bill[x], b) /\ bill[x] \in BillRow
    BY <1>0, <1>1 DEF TypeOK
  <2>. QED  BY <1>0, <2>1 DEF DroppedLink, BillRow
<1>4. TypeOK'
  <2>1. bill' \in [BillId -> BillRow]
    BY <1>1, <1>2, <1>3
  <2>2. NoLine \in LineRow
    BY <1>0 DEF NoLine, LineRow
  <2>3. line' \in [BillId -> [Slot -> LineRow]]
    BY <1>0, <1>1, <2>2 DEF TypeOK
  <2>4. asmt' \in [BillId -> [Slot -> Nat]]
    BY <1>0, <1>1 DEF TypeOK
  <2>. QED  BY <1>0, <1>1, <2>1, <2>3, <2>4 DEF TypeOK, CaseStage
<1>5. LinesOfBills'
  <2>1. GoodLine(NoLine)
    BY <1>0 DEF GoodLine, NoLine, LineRow
  <2>2. line'[b] = [s \in Slot |-> NoLine] /\ \A x \in BillId \ {b} : line'[x] = line[x]
    BY <1>0, <1>1 DEF TypeOK
  <2>3. NoLine.kind = NoKind
    BY DEF NoLine
  <2>. QED  BY <1>3, <2>1, <2>2, <2>3 DEF LedgerInv, LinesOfBills, Used, Exists
<1>6. PayersOfBills'
  BY <1>2, <1>3 DEF LedgerInv, PayersOfBills, Exists
<1>7. PaymentsOfBills' /\ PaidIsAllocated' /\ CreditIsLeftover'
  <2>1. bill[b].paid = 0
    BY <1>1, UnpaidBill DEF LedgerInv
  <2>2. \A x \in BillId : bill'[x].paid = bill[x].paid
    BY <1>2, <1>3, <2>1
  <2>3. \A x \in BillId, p \in PaymentId :
           payment[p].status # "NONE" /\ payment[p].bill = x =>
             Exists(x)' /\ bill'[x].payer = bill[x].payer
    <3>1. ASSUME NEW p \in PaymentId, payment[p].status # "NONE"
          PROVE  Exists(payment[p].bill) /\ payment[p].bill \in BillId \ {b}
      BY <1>1, <3>1 DEF LedgerInv, PaymentsOfBills
    <3>2. \A x \in BillId \ {b} : Exists(x) => Exists(x)' /\ bill'[x].payer = bill[x].payer
      BY <1>3 DEF Exists
    <3>. QED  BY <3>1, <3>2
  <2>. QED  BY <1>1, <2>2, <2>3, MoneyKept
<1>. QED  BY <1>4, <1>5, <1>6, <1>7 DEF LedgerInv

-----------------------------------------------------------------------------
(* The theorems. *)

\* The invariant holds of an empty ledger with drafts.
LEMMA InitInv == Init => LedgerInv
<1> SUFFICES ASSUME Init PROVE LedgerInv
  OBVIOUS
<1>0. MaxBills \in Nat /\ MaxLines \in Nat /\ MaxPayments \in Nat /\ MaxDay \in Nat
  BY LedgerConstants
<1>1. NoBill \in BillRow /\ NoLine \in LineRow /\ NoPayment \in PaymentRow
  BY <1>0 DEF NoBill, BillRow, BillStatus, NoLine, LineRow, NoPayment, PaymentRow
<1>2. TypeOK
  <2>1. bill \in [BillId -> BillRow] /\ line \in [BillId -> [Slot -> LineRow]]
    BY <1>1 DEF Init
  <2>2. payment \in [PaymentId -> PaymentRow] /\ credit \in [Payer -> Nat]
    BY <1>1 DEF Init
  <2>3. draft \in [Payer -> [Kind -> Nat]]
    <3>1. draft \in [Payer -> [Kind -> InitialDrafts]]
      BY DEF Init
    <3>2. InitialDrafts \subseteq Nat
      BY LedgerConstants
    <3>. QED  BY <3>1, <3>2
  <2>. QED  BY <1>0, <2>1, <2>2, <2>3 DEF Init, TypeOK, CaseStage
<1>3. \A b \in BillId : ~Exists(b)
  BY DEF Init, NoBill, Exists
<1>4. LinesOfBills
  BY <1>1 DEF Init, LinesOfBills, GoodLine, NoLine, Used
<1>5. PaymentsOfBills
  BY DEF Init, PaymentsOfBills, NoPayment
<1>6. PayersOfBills
  BY <1>3 DEF PayersOfBills
<1>7. \A p \in PaymentId : payment[p].status = "NONE" /\ payment[p].bill = 0
  BY DEF Init, NoPayment
<1>8. PaidIsAllocated
  <2>1. ASSUME NEW b \in BillId PROVE bill[b].paid = SumTo(PutOn(b), MaxPayments)
    <3>1. PutOn(b) \in [1..MaxPayments -> Int]
      BY <1>2, PutOnIsNat
    <3>2. \A p \in 1..MaxPayments : PutOn(b)[p] = 0
      BY <1>7 DEF PutOn, CountsOn, PaymentId
    <3>3. SumTo(PutOn(b), MaxPayments) = 0
      BY <1>0, <3>1, <3>2, SumOfZeros
    <3>. QED  BY <3>3 DEF Init, NoBill
  <2>. QED  BY <2>1 DEF PaidIsAllocated
<1>9. CreditIsLeftover
  <2>1. ASSUME NEW c \in Payer PROVE credit[c] = SumTo(LeftTo(c), MaxPayments)
    <3>1. LeftTo(c) \in [1..MaxPayments -> Int]
      BY <1>2, <1>5, LeftToIsNat
    <3>2. \A p \in 1..MaxPayments : LeftTo(c)[p] = 0
      BY <1>7 DEF LeftTo, PaymentId
    <3>3. SumTo(LeftTo(c), MaxPayments) = 0
      BY <1>0, <3>1, <3>2, SumOfZeros
    <3>. QED  BY <3>3 DEF Init
  <2>. QED  BY <2>1 DEF CreditIsLeftover
<1>. QED  BY <1>2, <1>4, <1>5, <1>6, <1>8, <1>9 DEF LedgerInv

\* What a step can do to the rows: settle some, issue one, destroy one.
Settles == \A x \in BillId : Settled(bill[x], bill'[x])

\* refresh_debt keeps the invariant: it changes statuses and cases only.
LEMMA RefreshDebtKeeps ==
  ASSUME LedgerInv, RefreshDebt
  PROVE  /\ LedgerInv' /\ Settles /\ \A x \in BillId : bill'[x].paid = bill[x].paid
<1>0. TypeOK
  BY DEF LedgerInv
<1>1. /\ bill' = [b \in BillId |->
           IF IsOverdue(b) THEN [bill[b] EXCEPT !.status = "OVERDUE"] ELSE bill[b]]
      /\ debtCase' = [b \in BillId |->
           IF IsOverdue(b) /\ debtCase[b] = "ABSENT" THEN "OPEN" ELSE debtCase[b]]
      /\ UNCHANGED <<line, asmt, draft, payment, credit, today>>
  BY DEF RefreshDebt
<1>2. ASSUME NEW x \in BillId
      PROVE  Settled(bill[x], bill'[x]) /\ bill'[x].paid = bill[x].paid
  <2>1. bill[x] \in BillRow
    BY <1>0 DEF TypeOK
  <2>2. CASE IsOverdue(x)
    <3>1. bill'[x] = [bill[x] EXCEPT !.status = "OVERDUE"]
      BY <1>1, <2>2
    <3>2. bill[x].status \in OpenStatus
      BY <2>2 DEF IsOverdue
    <3>3. /\ bill'[x] \in BillRow /\ bill'[x].paid = bill[x].paid
          /\ bill'[x].payer = bill[x].payer /\ bill'[x].due = bill[x].due
          /\ bill'[x].year = bill[x].year /\ bill'[x].via = bill[x].via
          /\ bill'[x].supersededBy = bill[x].supersededBy
          /\ bill'[x].status = "OVERDUE"
      BY <2>1, <3>1 DEF BillRow, BillStatus, OpenStatus
    <3>. QED  BY <3>2, <3>3 DEF Settled, OpenStatus
  <2>3. CASE ~IsOverdue(x)
    <3>1. bill'[x] = bill[x]
      BY <1>1, <2>3
    <3>. QED  BY <2>1, <3>1, SettledSelf
  <2>. QED  BY <2>2, <2>3
<1>3. \A x \in BillId : (Exists(x)' <=> Exists(x)) /\ bill'[x].payer = bill[x].payer
  BY <1>2 DEF Settled, Exists, OpenStatus, TerminalStatus
<1>4. TypeOK'
  <2>1. bill' \in [BillId -> BillRow]
    BY <1>1, <1>2 DEF Settled
  <2>2. debtCase' \in [BillId -> CaseStage]
    BY <1>0, <1>1 DEF TypeOK, CaseStage
  <2>. QED  BY <1>0, <1>1, <2>1, <2>2 DEF TypeOK
<1>5. LinesOfBills' /\ PayersOfBills'
  BY <1>1, <1>3 DEF LedgerInv, LinesOfBills, PayersOfBills, Used, Exists
<1>6. PaymentsOfBills' /\ PaidIsAllocated' /\ CreditIsLeftover'
  <2>1. \A x \in BillId, p \in PaymentId :
           payment[p].status # "NONE" /\ payment[p].bill = x =>
             Exists(x)' /\ bill'[x].payer = bill[x].payer
    BY <1>3 DEF LedgerInv, PaymentsOfBills
  <2>. QED  BY <1>1, <1>2, <2>1, MoneyKept
<1>. QED  BY <1>2, <1>4, <1>5, <1>6 DEF LedgerInv, Settles

\* Steps that touch no bill, line or payment.
LEMMA QuietStepKeeps ==
  ASSUME LedgerInv, UNCHANGED <<bill, line, asmt, draft, payment, credit>>,
         debtCase' \in [BillId -> CaseStage], today' \in 0..MaxDay
  PROVE  LedgerInv' /\ Settles
<1>1. TypeOK' /\ Settles
  BY SettledSelf DEF LedgerInv, TypeOK, Settles
<1>2. LinesOfBills' /\ PayersOfBills' /\ PaymentsOfBills'
  BY DEF LedgerInv, LinesOfBills, PayersOfBills, PaymentsOfBills, Used, Exists
<1>3. PaidIsAllocated'
  <2>1. \A b \in BillId : PutOn(b)' = PutOn(b)
    BY DEF PutOn, CountsOn
  <2>. QED  BY <2>1 DEF LedgerInv, PaidIsAllocated
<1>4. CreditIsLeftover'
  <2>1. \A c \in Payer : LeftTo(c)' = LeftTo(c)
    BY DEF LeftTo
  <2>. QED  BY <2>1 DEF LedgerInv, CreditIsLeftover
<1>. QED  BY <1>1, <1>2, <1>3, <1>4 DEF LedgerInv

\* Escalating a case keeps the invariant.
LEMMA EscalateKeeps ==
  ASSUME LedgerInv, NEW b \in BillId, EscalateToClosed(b)
  PROVE  LedgerInv' /\ Settles
<1>1. debtCase' \in [BillId -> CaseStage] /\ today' \in 0..MaxDay
  BY DEF EscalateToClosed, LedgerInv, TypeOK, CaseStage
<1>2. UNCHANGED <<bill, line, asmt, draft, payment, credit>>
  BY DEF EscalateToClosed
<1>. QED  BY <1>1, <1>2, QuietStepKeeps

\* The passing of a day keeps the invariant.
LEMMA NextDayKeeps ==
  ASSUME LedgerInv, NextDay
  PROVE  LedgerInv' /\ Settles
<1>1. debtCase' \in [BillId -> CaseStage] /\ today' \in 0..MaxDay
  BY LedgerConstants DEF NextDay, LedgerInv, TypeOK
<1>2. UNCHANGED <<bill, line, asmt, draft, payment, credit>>
  BY DEF NextDay
<1>. QED  BY <1>1, <1>2, QuietStepKeeps

\* Every step keeps the invariant and does one of three things to the rows.
LEMMA StepKeeps ==
  ASSUME LedgerInv, Next
  PROVE  /\ LedgerInv'
         /\ \/ Settles
            \/ \E b \in BillId, c \in Payer, R \in SUBSET BillId : Issues(b, c, R)
            \/ \E b \in BillId : DestroyBill(b)
<1>0. /\ AskAmounts \cup {0} \subseteq Nat /\ DueDates \subseteq Nat
      /\ Forcing \subseteq BOOLEAN /\ EditAmounts \subseteq Nat /\ PayAmounts \subseteq Nat
  BY LedgerConstants
<1>1. CASE Issue
  <2>1. PICK b \in BillId, c \in Payer, ask \in [Kind -> AskAmounts \cup {0}],
             sweep \in BOOLEAN, roll \in BOOLEAN, force \in Forcing, due \in DueDates :
               IssueBill(b, c, ask, sweep, roll, force, due)
    BY <1>1 DEF Issue
  <2>2. ask \in [Kind -> Nat] /\ force \in BOOLEAN /\ due \in Nat
    BY <1>0
  <2>. QED  BY <2>1, <2>2, IssueBillKeeps
<1>2. CASE EditLines
  <2>1. PICK b \in BillId :
          \/ \E k \in Kind, amount \in EditAmounts : AddBillLine(b, k, amount)
          \/ \E s \in Slot, amount \in EditAmounts : UpdateBillLine(b, s, amount)
          \/ \E s \in Slot : DeleteBillLine(b, s)
    BY <1>2 DEF EditLines
  <2>2. CASE \E k \in Kind, amount \in EditAmounts : AddBillLine(b, k, amount)
    BY <1>0, <2>2, AddBillLineKeeps DEF Settles
  <2>3. CASE \E s \in Slot, amount \in EditAmounts : UpdateBillLine(b, s, amount)
    BY <1>0, <2>3, UpdateBillLineKeeps DEF Settles
  <2>4. CASE \E s \in Slot : DeleteBillLine(b, s)
    BY <2>4, DeleteBillLineKeeps DEF Settles
  <2>. QED  BY <2>1, <2>2, <2>3, <2>4
<1>3. CASE \E b \in BillId : DestroyBill(b)
  BY <1>3, DestroyBillKeeps
<1>4. CASE \E p \in PaymentId, b \in BillId, amount \in PayAmounts : PostPayment(p, b, amount)
  BY <1>0, <1>4, PostPaymentKeeps DEF Settles
<1>5. CASE \E p \in PaymentId : ReversePayment(p)
  BY <1>5, ReversePaymentKeeps DEF Settles
<1>6. CASE RefreshDebt
  BY <1>6, RefreshDebtKeeps
<1>7. CASE \E b \in BillId : EscalateToClosed(b)
  BY <1>7, EscalateKeeps
<1>8. CASE NextDay
  BY <1>8, NextDayKeeps
<1>. QED  BY <1>1, <1>2, <1>3, <1>4, <1>5, <1>6, <1>7, <1>8 DEF Next

\* A stuttering step keeps the invariant.
LEMMA StutterKeeps ==
  ASSUME LedgerInv, UNCHANGED vars
  PROVE  LedgerInv' /\ Settles
  BY QuietStepKeeps DEF LedgerInv, TypeOK, vars

\* The inductive invariant: types, what a line, a payment and a bill may refer to, and the
\* two conservation laws of post_payment and reverse_payment.  No handler breaks it.
THEOREM Invariance == Spec => []LedgerInv
<1>1. LedgerInv /\ [Next]_vars => LedgerInv'
  BY StepKeeps, StutterKeeps
<1>. QED  BY InitInv, <1>1, PTL DEF Spec

\* Every handler leaves every row well typed; in particular credit_balance and
\* amount_paid never fall below zero, though reverse_payment subtracts from both.
THEOREM TypeCorrect == Spec => []TypeOK
<1>1. LedgerInv => TypeOK
  BY DEF LedgerInv
<1>. QED  BY Invariance, <1>1, PTL

\* amount_paid of a bill is always what confirmed payments allocated to it
\* (post_payment and reverse_payment).
THEOREM PaidConserved == Spec => []PaidIsAllocated
<1>1. LedgerInv => PaidIsAllocated
  BY DEF LedgerInv
<1>. QED  BY Invariance, <1>1, PTL

\* credit_balance is always the unallocated part of the payer's confirmed payments
\* (post_payment and reverse_payment).
THEOREM CreditConserved == Spec => []CreditIsLeftover
<1>1. LedgerInv => CreditIsLeftover
  BY DEF LedgerInv
<1>. QED  BY Invariance, <1>1, PTL

-----------------------------------------------------------------------------
(* One live bill per payer and year. *)

\* A settled row keeps its payer, year and origin, and is terminal exactly if it was.
LEMMA SettledStaysAlive ==
  ASSUME TypeOK, Settles, NEW x \in BillId
  PROVE  /\ Live(x)' <=> Live(x)
         /\ bill'[x].payer = bill[x].payer /\ bill'[x].year = bill[x].year
         /\ bill'[x].via = bill[x].via /\ bill'[x].supersededBy = bill[x].supersededBy
         /\ bill'[x].status = "SUPERSEDED" <=> bill[x].status = "SUPERSEDED"
         /\ Exists(x)' <=> Exists(x)
  BY DEF Settles, Settled, Live, Exists, OpenStatus, TerminalStatus

\* What destroying a bill does to the other bill rows.
LEMMA DestroyedRows ==
  ASSUME TypeOK, NEW b \in BillId, DestroyBill(b)
  PROVE  /\ bill'[b].status = "DELETED" /\ bill'[b].supersededBy = 0
         /\ \A x \in BillId \ {b} :
              /\ bill'[x].status = bill[x].status /\ bill'[x].payer = bill[x].payer
              /\ bill'[x].year = bill[x].year /\ bill'[x].via = bill[x].via
              /\ bill'[x].paid = bill[x].paid
              /\ bill'[x].supersededBy = IF bill[x].supersededBy = b THEN 0 ELSE bill[x].supersededBy
<1>1. bill' = [x \in BillId |->
        IF x = b THEN [NoBill EXCEPT !.status = "DELETED"] ELSE DroppedLink(bill[x], b)]
  BY DEF DestroyBill
<1>2. bill'[b].status = "DELETED" /\ bill'[b].supersededBy = 0
  BY <1>1 DEF NoBill
<1>3. ASSUME NEW x \in BillId \ {b}
      PROVE bill'[x] = DroppedLink(bill[x], b) /\ bill[x] \in BillRow
  BY <1>1 DEF TypeOK
<1>4. ASSUME NEW x \in BillId \ {b}
      PROVE  /\ bill'[x].status = bill[x].status /\ bill'[x].payer = bill[x].payer
             /\ bill'[x].year = bill[x].year /\ bill'[x].via = bill[x].via
             /\ bill'[x].paid = bill[x].paid
             /\ bill'[x].supersededBy = IF bill[x].supersededBy = b THEN 0 ELSE bill[x].supersededBy
  BY <1>3 DEF DroppedLink, BillRow
<1>. QED  BY <1>2, <1>4

\* A bill issued without force and without roll_arrears never stands beside an older
\* live bill of its payer and year (the duplicate check of issue_bill).
THEOREM OneLiveBill == Spec => []OneLiveBillPerYear
<1>1. Init => OneLiveBillPerYear
  BY DEF Init, OneLiveBillPerYear, Live, Exists, NoBill
<1>2. LedgerInv /\ OneLiveBillPerYear /\ [Next]_vars => OneLiveBillPerYear'
  <2> SUFFICES ASSUME LedgerInv, OneLiveBillPerYear, [Next]_vars PROVE OneLiveBillPerYear'
    OBVIOUS
  <2>0. TypeOK /\ MaxBills \in Nat
    BY LedgerConstants DEF LedgerInv
  <2>1. CASE Settles
    BY <2>0, <2>1, SettledStaysAlive DEF OneLiveBillPerYear
  <2>2. ASSUME NEW n \in BillId, NEW c \in Payer, NEW R \in SUBSET BillId, Issues(n, c, R)
        PROVE  OneLiveBillPerYear'
    <3>1. \A x \in BillId : x > n => bill[x].status = "NONE"
      <4>1. NextBill(n)
        BY <2>2 DEF Issues
      <4>. QED  BY <2>0, <4>1 DEF NextBill, BillId
    <3>2. \A x \in BillId \ {n} : Live(x)' => bill'[x] = bill[x] /\ Live(x)
      <4>1. ASSUME NEW x \in R PROVE ~Live(x)'
        <5>1. bill'[x] = [bill[x] EXCEPT !.status = "SUPERSEDED", !.supersededBy = n]
          BY <2>2 DEF Issues
        <5>2. bill[x] \in BillRow
          BY <2>0 DEF TypeOK
        <5>3. bill'[x].status = "SUPERSEDED"
          BY <5>1, <5>2 DEF BillRow
        <5>. QED  BY <5>3 DEF Live, TerminalStatus
      <4>2. ASSUME NEW x \in BillId \ {n}, x \notin R PROVE bill'[x] = bill[x]
        BY <2>2, <4>2 DEF Issues
      <4>. QED  BY <4>1, <4>2 DEF Live, Exists
    <3>3. SUFFICES ASSUME NEW a \in BillId, NEW b \in BillId, a < b, Live(a)', Live(b)',
                          bill'[a].payer = bill'[b].payer, bill'[a].year = bill'[b].year
                   PROVE  bill'[b].via # "PLAIN"
      BY DEF OneLiveBillPerYear
    <3>4. CASE b = n
      <4>1. Live(a) /\ bill[a].payer = c /\ bill[a].year = Year(today)
        <5>1. a # n
          BY <2>0, <3>3, <3>4 DEF BillId
        <5>2. bill'[a] = bill[a] /\ Live(a)
          BY <3>2, <3>3, <5>1
        <5>3. bill'[n].payer = c /\ bill'[n].year = Year(today)
          BY <2>2 DEF Issues
        <5>. QED  BY <3>3, <3>4, <5>2, <5>3
      <4>2. HasBillThisYear(c)
        BY <4>1 DEF HasBillThisYear
      <4>. QED  BY <2>2, <3>4, <4>2 DEF Issues
    <3>5. CASE b # n
      <4>1. bill'[b] = bill[b] /\ Live(b)
        BY <3>2, <3>3, <3>5
      <4>2. a # n
        BY <2>0, <3>1, <3>3, <4>1 DEF Live, Exists
      <4>3. bill'[a] = bill[a] /\ Live(a)
        BY <3>2, <3>3, <4>2
      <4>. QED  BY <3>3, <4>1, <4>3 DEF OneLiveBillPerYear
    <3>. QED  BY <3>4, <3>5
  <2>3. ASSUME NEW d \in BillId, DestroyBill(d) PROVE OneLiveBillPerYear'
    <3>1. \A x \in BillId : Live(x)' =>
            /\ x # d /\ Live(x) /\ bill'[x].payer = bill[x].payer
            /\ bill'[x].year = bill[x].year /\ bill'[x].via = bill[x].via
      BY <2>0, <2>3, DestroyedRows DEF Live, Exists
    <3>. QED  BY <3>1 DEF OneLiveBillPerYear
  <2>4. CASE UNCHANGED vars
    BY <2>1, <2>4, StutterKeeps
  <2>. QED  BY <2>1, <2>2, <2>3, <2>4, StepKeeps
<1>. QED  BY Invariance, <1>1, <1>2, PTL DEF Spec

-----------------------------------------------------------------------------
(* Superseded bills. *)

\* A superseded bill points at a later existing bill of the same payer, or at none
\* (issue_bill sets superseded_by, destroying that bill clears it).
THEOREM SupersededChain == Spec => []SupersededPointsAhead
<1>1. Init => SupersededPointsAhead
  BY DEF Init, SupersededPointsAhead, NoBill
<1>2. LedgerInv /\ SupersededPointsAhead /\ [Next]_vars => SupersededPointsAhead'
  <2> SUFFICES ASSUME LedgerInv, SupersededPointsAhead, [Next]_vars
               PROVE  SupersededPointsAhead'
    OBVIOUS
  <2>0. TypeOK /\ MaxBills \in Nat
    BY LedgerConstants DEF LedgerInv
  <2>00. \A x \in BillId : bill[x].supersededBy # 0 => bill[x].supersededBy \in BillId
    <3>1. ASSUME NEW x \in BillId PROVE bill[x].supersededBy \in 0..MaxBills
      <4>1. bill[x] \in BillRow
        BY <2>0 DEF TypeOK
      <4>. QED  BY <4>1 DEF BillRow
    <3>. QED  BY <2>0, <3>1 DEF BillId
  <2>1. CASE Settles
    BY <2>0, <2>00, <2>1, SettledStaysAlive DEF SupersededPointsAhead
  <2>2. ASSUME NEW n \in BillId, NEW c \in Payer, NEW R \in SUBSET BillId, Issues(n, c, R)
        PROVE  SupersededPointsAhead'
    <3>1. NextBill(n) /\ bill'[n].supersededBy = 0 /\ Exists(n)' /\ bill'[n].payer = c
      BY <2>2 DEF Issues, Exists, OpenStatus
    <3>2. bill[n].status = "NONE" /\ \A x \in BillId : bill[x].status # "NONE" => x < n
      BY <2>0, <3>1 DEF NextBill, BillId
    <3>3. ASSUME NEW x \in R
          PROVE  /\ bill'[x].status = "SUPERSEDED" /\ bill'[x].supersededBy = n
                 /\ bill'[x].payer = bill[x].payer /\ bill[x].payer = c /\ x < n
                 /\ Exists(x)' /\ bill[x].status \in OpenStatus
      <4>1. bill[x] \in BillRow /\ x \in OpenOf(c)
        BY <2>0, <2>2 DEF TypeOK, Issues
      <4>2. bill'[x] = [bill[x] EXCEPT !.status = "SUPERSEDED", !.supersededBy = n]
        BY <2>2 DEF Issues
      <4>3. bill[x].status # "NONE"
        BY <4>1 DEF OpenOf, OpenStatus
      <4>. QED  BY <3>2, <4>1, <4>2, <4>3 DEF BillRow, OpenOf, Exists
    <3>4. ASSUME NEW x \in BillId \ {n}, x \notin R PROVE bill'[x] = bill[x]
      BY <2>2, <3>4 DEF Issues
    <3>5. \A x \in BillId \ {n} : (Exists(x) => Exists(x)') /\ bill'[x].payer = bill[x].payer
      BY <3>3, <3>4 DEF Exists
    <3>6. SUFFICES ASSUME NEW b \in BillId, bill'[b].supersededBy # 0
                   PROVE  LET t == bill'[b].supersededBy
                          IN /\ bill'[b].status = "SUPERSEDED" /\ t > b
                             /\ bill'[t].status \notin {"NONE", "DELETED"}
                             /\ bill'[t].payer = bill'[b].payer
      BY DEF SupersededPointsAhead, Exists
    <3>7. CASE b \in R
      BY <2>0, <3>1, <3>3, <3>7 DEF Exists, BillId
    <3>8. CASE b \notin R
      <4>1. b # n /\ bill'[b] = bill[b]
        BY <3>1, <3>4, <3>6, <3>8
      <4> DEFINE t == bill[b].supersededBy
      <4>2. bill[b].status = "SUPERSEDED" /\ t > b /\ Exists(t) /\ bill[t].payer = bill[b].payer
        BY <3>6, <4>1 DEF SupersededPointsAhead
      <4>3. t \in BillId /\ t # n
        BY <2>00, <3>2, <3>6, <4>1, <4>2 DEF Exists
      <4>. QED  BY <3>5, <4>1, <4>2, <4>3 DEF Exists
    <3>. QED  BY <3>7, <3>8
  <2>3. ASSUME NEW d \in BillId, DestroyBill(d) PROVE SupersededPointsAhead'
    <3>1. SUFFICES ASSUME NEW b \in BillId, bill'[b].supersededBy # 0
                   PROVE  LET t == bill'[b].supersededBy
                          IN /\ bill'[b].status = "SUPERSEDED" /\ t > b
                             /\ bill'[t].status \notin {"NONE", "DELETED"}
                             /\ bill'[t].payer = bill'[b].payer
      BY DEF SupersededPointsAhead, Exists
    <3>2. b # d
      BY <2>0, <2>3, <3>1, DestroyedRows
    <3>3. bill'[b].supersededBy = bill[b].supersededBy /\ bill[b].supersededBy # d
      BY <2>0, <2>3, <3>1, <3>2, DestroyedRows
    <3>4. /\ bill[b].status = "SUPERSEDED" /\ bill[b].supersededBy > b
          /\ Exists(bill[b].supersededBy) /\ bill[bill[b].supersededBy].payer = bill[b].payer
          /\ bill[b].supersededBy \in BillId
      BY <2>00, <3>1, <3>3 DEF SupersededPointsAhead
    <3>. QED  BY <2>0, <2>3, <3>2, <3>3, <3>4, DestroyedRows DEF Exists
  <2>4. CASE UNCHANGED vars
    BY <2>1, <2>4, StutterKeeps
  <2>. QED  BY <2>1, <2>2, <2>3, <2>4, StepKeeps
<1>. QED  BY Invariance, <1>1, <1>2, PTL DEF Spec

\* Once SUPERSEDED, a bill stays so until it is destroyed, and no handler books
\* another payment on it (the terminal check of post_payment, the status guard of
\* recompute_bill).
THEOREM TerminalBillsStay == Spec => TerminalIsFinal
<1>1. LedgerInv /\ [Next]_vars =>
        \A b \in BillId : bill[b].status = "SUPERSEDED" =>
          /\ bill'[b].status \in {"SUPERSEDED", "DELETED"}
          /\ bill'[b].paid <= bill[b].paid
  <2> SUFFICES ASSUME LedgerInv, [Next]_vars, NEW b \in BillId, bill[b].status = "SUPERSEDED"
               PROVE  /\ bill'[b].status \in {"SUPERSEDED", "DELETED"}
                      /\ bill'[b].paid <= bill[b].paid
    OBVIOUS
  <2>0. TypeOK /\ MaxBills \in Nat /\ bill[b].paid \in Nat
    BY LedgerConstants, PaidInNat DEF LedgerInv
  <2>1. CASE Settles
    BY <2>1 DEF Settles, Settled, OpenStatus
  <2>2. ASSUME NEW n \in BillId, NEW c \in Payer, NEW R \in SUBSET BillId, Issues(n, c, R)
        PROVE  bill'[b] = bill[b]
    <3>1. NextBill(n) /\ R \subseteq OpenOf(c)
      BY <2>2 DEF Issues
    <3>2. b # n
      BY <2>0, <3>1 DEF NextBill, BillId
    <3>3. b \notin R
      BY <3>1 DEF OpenOf, OpenStatus
    <3>. QED  BY <2>2, <3>2, <3>3 DEF Issues
  <2>3. ASSUME NEW d \in BillId, DestroyBill(d)
        PROVE  /\ bill'[b].status \in {"SUPERSEDED", "DELETED"}
               /\ bill'[b].paid <= bill[b].paid
    <3>1. CASE b = d
      <4>1. bill'[b] = [NoBill EXCEPT !.status = "DELETED"]
        BY <2>3, <3>1 DEF DestroyBill
      <4>. QED  BY <2>0, <4>1 DEF NoBill
    <3>2. CASE b # d
      BY <2>0, <2>3, <3>2, DestroyedRows
    <3>. QED  BY <3>1, <3>2
  <2>4. CASE UNCHANGED vars
    BY <2>1, <2>4, StutterKeeps
  <2>. QED  BY <2>0, <2>1, <2>2, <2>3, <2>4, StepKeeps
<1>. QED  BY Invariance, <1>1, PTL DEF Spec, TerminalIsFinal

\* No step but the nightly refresh opens a debt case.
LEMMA CasesAreKept ==
  ASSUME LedgerInv, [Next]_vars
  PROVE  \A x \in BillId : debtCase'[x] = "OPEN" =>
           debtCase[x] = "OPEN" \/ bill[x].status \in OpenStatus
<1>0. debtCase \in [BillId -> CaseStage]
  BY DEF LedgerInv, TypeOK
<1>1. \A S : \A x \in BillId : Closed(S)[x] = "OPEN" => debtCase[x] = "OPEN"
  BY DEF Closed
<1>2. CASE Issue
  <2>1. PICK b \in BillId, c \in Payer, ask \in [Kind -> AskAmounts \cup {0}],
             sweep \in BOOLEAN, roll \in BOOLEAN, force \in Forcing, due \in DueDates :
               IssueBill(b, c, ask, sweep, roll, force, due)
    BY <1>2 DEF Issue
  <2> DEFINE S == IF roll THEN OpenOf(c) ELSE {}
  <2>2. debtCase' = Closed(S)
    BY <2>1 DEF IssueBill
  <2>. QED  BY <1>1, <2>2
<1>3. CASE EditLines
  <2>1. debtCase' = debtCase
    BY <1>3 DEF EditLines, AddBillLine, UpdateBillLine, DeleteBillLine
  <2>. QED  BY <2>1
<1>4. CASE \E b \in BillId : DestroyBill(b)
  BY <1>0, <1>4 DEF DestroyBill
<1>5. CASE \E p \in PaymentId, b \in BillId, amount \in PayAmounts : PostPayment(p, b, amount)
  <2>1. PICK p \in PaymentId, b \in BillId, amount \in PayAmounts : PostPayment(p, b, amount)
    BY <1>5
  <2>2. debtCase' = Closed({b}) \/ debtCase' = debtCase
    BY <2>1 DEF PostPayment, CaseAfterSettling
  <2>. QED  BY <1>1, <2>2
<1>6. CASE \E p \in PaymentId : ReversePayment(p)
  BY <1>6 DEF ReversePayment
<1>7. CASE RefreshDebt
  BY <1>7 DEF RefreshDebt, IsOverdue
<1>8. CASE \E b \in BillId : EscalateToClosed(b)
  BY <1>0, <1>8 DEF EscalateToClosed
<1>9. CASE NextDay
  BY <1>9 DEF NextDay
<1>10. CASE UNCHANGED vars
  BY <1>10 DEF vars
<1>. QED
  BY <1>2, <1>3, <1>4, <1>5, <1>6, <1>7, <1>8, <1>9, <1>10 DEF Next

\* Consolidation closes the debt case of every bill it supersedes, and neither the
\* nightly refresh nor an escalation opens one for it again.
THEOREM SupersededCaseClosed == Spec => []SupersededHasNoOpenCase
<1>1. Init => SupersededHasNoOpenCase
  BY DEF Init, SupersededHasNoOpenCase
<1>2. LedgerInv /\ SupersededHasNoOpenCase /\ [Next]_vars => SupersededHasNoOpenCase'
  <2> SUFFICES ASSUME LedgerInv, SupersededHasNoOpenCase, [Next]_vars,
                      NEW b \in BillId, bill'[b].status = "SUPERSEDED", debtCase'[b] = "OPEN"
               PROVE  FALSE
    BY DEF SupersededHasNoOpenCase
  <2>0. TypeOK
    BY DEF LedgerInv
  <2>1. ~ bill[b].status = "SUPERSEDED"
    BY CasesAreKept DEF SupersededHasNoOpenCase, OpenStatus
  <2>2. CASE Settles
    BY <2>0, <2>1, <2>2, SettledStaysAlive
  <2>3. ASSUME NEW n \in BillId, NEW c \in Payer, NEW R \in SUBSET BillId, Issues(n, c, R)
        PROVE  FALSE
    <3>1. CASE b \in R
      <4>1. debtCase'[b] = Closed(R)[b]
        BY <2>3 DEF Issues
      <4>. QED  BY <3>1, <4>1 DEF Closed
    <3>2. CASE b = n
      BY <2>3, <3>2 DEF Issues, OpenStatus
    <3>3. CASE b \notin R /\ b # n
      BY <2>1, <2>3, <3>3 DEF Issues
    <3>. QED  BY <3>1, <3>2, <3>3
  <2>4. ASSUME NEW d \in BillId, DestroyBill(d) PROVE FALSE
    BY <2>0, <2>1, <2>4, DestroyedRows
  <2>5. CASE UNCHANGED vars
    BY <2>2, <2>5, StutterKeeps
  <2>. QED  BY <2>2, <2>3, <2>4, <2>5, StepKeeps
<1>. QED  BY Invariance, <1>1, <1>2, PTL DEF Spec

-----------------------------------------------------------------------------
(* Allocations and their lines. *)

\* A step that moves no allocation keeps the property if no line with one goes away.
LEMMA LinesKept ==
  ASSUME AllocationsKeepTheirLine, payment' = payment \/
           (\A p \in PaymentId : payment'[p].bill = payment[p].bill
                                /\ payment'[p].alloc = payment[p].alloc),
         \A p \in PaymentId, s \in Slot :
           payment[p].alloc[s] > 0 /\ line[payment[p].bill][s].kind # NoKind
             => line'[payment[p].bill][s].kind # NoKind
  PROVE  AllocationsKeepTheirLine'
  BY DEF AllocationsKeepTheirLine, Used

\* No allocation row ever points at a line that is gone: delete_bill_line refuses a
\* line with allocations, of reversed payments too, and destroy a bill with payments.
THEOREM AllocationsAnchored == Spec => []AllocationsKeepTheirLine
<1>1. Init => AllocationsKeepTheirLine
  BY DEF Init, AllocationsKeepTheirLine, NoPayment
<1>2. LedgerInv /\ AllocationsKeepTheirLine /\ [Next]_vars => AllocationsKeepTheirLine'
  <2> SUFFICES ASSUME LedgerInv, AllocationsKeepTheirLine, [Next]_vars
               PROVE  AllocationsKeepTheirLine'
    OBVIOUS
  <2>0. TypeOK /\ MaxBills \in Nat /\ MaxPayments \in Nat
    BY LedgerConstants DEF LedgerInv
  <2>00. ASSUME NEW p \in PaymentId, NEW s \in Slot, payment[p].alloc[s] > 0
         PROVE  payment[p].bill \in BillId /\ Exists(payment[p].bill)
    <3>1. payment[p].status # "NONE"
      BY <2>00 DEF LedgerInv, PaymentsOfBills, NoPayment
    <3>. QED  BY <3>1 DEF LedgerInv, PaymentsOfBills
  <2>1. CASE Issue
    <3>1. PICK b \in BillId, c \in Payer, ask \in [Kind -> AskAmounts \cup {0}],
               sweep \in BOOLEAN, roll \in BOOLEAN, force \in Forcing, due \in DueDates :
                 IssueBill(b, c, ask, sweep, roll, force, due)
      BY <2>1 DEF Issue
    <3>2. UNCHANGED payment /\ NextBill(b) /\ \E ls : line' = [line EXCEPT ![b] = ls]
      BY <3>1 DEF IssueBill
    <3>3. ~Exists(b)
      BY <2>0, <3>2 DEF NextBill, Exists, BillId
    <3>4. \A x \in BillId \ {b} : line'[x] = line[x]
      BY <2>0, <3>2 DEF TypeOK
    <3>. QED  BY <2>00, <3>2, <3>3, <3>4, LinesKept
  <2>2. CASE EditLines
    <3>1. PICK b \in BillId :
            \/ \E k \in Kind, amount \in EditAmounts : AddBillLine(b, k, amount)
            \/ \E s \in Slot, amount \in EditAmounts : UpdateBillLine(b, s, amount)
            \/ \E s \in Slot : DeleteBillLine(b, s)
      BY <2>2 DEF EditLines
    <3>2. CASE \E k \in Kind, amount \in EditAmounts : AddBillLine(b, k, amount)
      <4>1. PICK k \in Kind, amount \in EditAmounts : AddBillLine(b, k, amount)
        BY <3>2
      <4>2. UNCHANGED payment /\ \E s \in Slot : MergeLine(b, s, amount) \/ AppendLine(b, s, k, amount)
        BY <4>1 DEF AddBillLine
      <4>3. PICK s \in Slot : MergeLine(b, s, amount) \/ AppendLine(b, s, k, amount)
        BY <4>2
      <4>4. k # NoKind
        BY LedgerConstants
      <4>5. \A x \in BillId, t \in Slot : Used(x, t) => line'[x][t].kind # NoKind
        <5>1. CASE MergeLine(b, s, amount)
          BY <2>0, <5>1 DEF TypeOK, LineRow, MergeLine, Used
        <5>2. CASE AppendLine(b, s, k, amount)
          BY <2>0, <4>4, <5>2 DEF TypeOK, AppendLine, Used
        <5>. QED  BY <4>3, <5>1, <5>2
      <4>. QED  BY <2>00, <4>2, <4>5, LinesKept DEF Used
    <3>3. CASE \E s \in Slot, amount \in EditAmounts : UpdateBillLine(b, s, amount)
      <4>1. PICK s \in Slot, amount \in EditAmounts : UpdateBillLine(b, s, amount)
        BY <3>3
      <4>2. /\ UNCHANGED payment
            /\ line' = [line EXCEPT ![b][s].current = amount - line[b][s].arrears]
        BY <4>1 DEF UpdateBillLine
      <4>3. \A x \in BillId, t \in Slot : Used(x, t) => line'[x][t].kind # NoKind
        BY <2>0, <4>2 DEF TypeOK, LineRow, Used
      <4>. QED  BY <2>00, <4>2, <4>3, LinesKept DEF Used
    <3>4. CASE \E s \in Slot : DeleteBillLine(b, s)
      <4>1. PICK s \in Slot : DeleteBillLine(b, s)
        BY <3>4
      <4>2. /\ UNCHANGED payment /\ line' = [line EXCEPT ![b][s] = NoLine]
            /\ \A p \in PaymentId : payment[p].bill = b => ~(payment[p].alloc[s] > 0)
        BY <4>1 DEF DeleteBillLine, HasAllocations
      <4>3. \A x \in BillId, t \in Slot : x # b \/ t # s => line'[x][t] = line[x][t]
        BY <2>0, <4>2 DEF TypeOK
      <4>. QED  BY <2>00, <4>2, <4>3, LinesKept
    <3>. QED  BY <3>1, <3>2, <3>3, <3>4
  <2>3. CASE \E b \in BillId : DestroyBill(b)
    <3>1. PICK b \in BillId : DestroyBill(b)
      BY <2>3
    <3>2. /\ UNCHANGED payment /\ \A p \in PaymentId : payment[p].bill # b
          /\ line' = [line EXCEPT ![b] = [s \in Slot |-> NoLine]]
      BY <3>1 DEF DestroyBill
    <3>3. \A x \in BillId \ {b} : line'[x] = line[x]
      BY <2>0, <3>2 DEF TypeOK
    <3>. QED  BY <2>00, <3>2, <3>3, LinesKept
  <2>4. CASE \E p \in PaymentId, b \in BillId, amount \in PayAmounts : PostPayment(p, b, amount)
    <3>1. PICK p \in PaymentId, b \in BillId, amount \in PayAmounts : PostPayment(p, b, amount)
      BY <2>4
    <3> DEFINE new == [bill |-> b, amount |-> amount, status |-> "CONFIRMED",
                       alloc |-> Allocation(b, amount)]
    <3>2. line' = line /\ payment' = [payment EXCEPT ![p] = new]
      BY <3>1 DEF PostPayment
    <3>3. amount \in Nat
      BY LedgerConstants
    <3>4. \A s \in Slot : Allocation(b, amount)[s] <= Owing(b, s) /\ Allocation(b, amount)[s] \in Nat
      BY <2>0, <3>3, AllocationFits
    <3>5. ASSUME NEW s \in Slot, Allocation(b, amount)[s] > 0 PROVE Used(b, s)
      <4>1. Owing(b, s) \in Nat
        BY <2>0, OwingIsNat
      <4>2. Owing(b, s) > 0
        BY <3>4, <3>5, <4>1
      <4>3. <<b, s>> \in Outstanding({b})
        BY <4>2 DEF Outstanding
      <4>. QED  BY <2>0, <4>3, OutstandingIsUsed DEF LedgerInv
    <3>6. /\ payment'[p].bill = b /\ payment'[p].alloc = Allocation(b, amount)
          /\ \A t \in PaymentId \ {p} : payment'[t] = payment[t]
      BY <2>0, <3>2 DEF TypeOK
    <3>. QED  BY <3>2, <3>5, <3>6 DEF AllocationsKeepTheirLine, Used
  <2>5. CASE \E p \in PaymentId : ReversePayment(p)
    <3>1. PICK p \in PaymentId : ReversePayment(p)
      BY <2>5
    <3>2. line' = line /\ payment' = [payment EXCEPT ![p].status = "REVERSED"]
      BY <3>1 DEF ReversePayment
    <3>3. \A t \in PaymentId : payment'[t].bill = payment[t].bill /\ payment'[t].alloc = payment[t].alloc
      BY <2>0, <3>2 DEF TypeOK, PaymentRow
    <3>. QED  BY <3>2, <3>3, LinesKept
  <2>6. CASE RefreshDebt
    BY <2>6, LinesKept DEF RefreshDebt
  <2>7. CASE \E b \in BillId : EscalateToClosed(b)
    BY <2>7, LinesKept DEF EscalateToClosed
  <2>8. CASE NextDay
    BY <2>8, LinesKept DEF NextDay
  <2>9. CASE UNCHANGED vars
    BY <2>9, LinesKept DEF vars
  <2>. QED
    BY <2>1, <2>2, <2>3, <2>4, <2>5, <2>6, <2>7, <2>8, <2>9 DEF Next
<1>. QED  BY Invariance, <1>1, <1>2, PTL DEF Spec

-----------------------------------------------------------------------------
(* Rollups and status of a bill. *)

\* What BillAgreesWithLines says of one bill row and its lines.
Agrees(r, ls) ==
  /\ r.total = LinesTotal(ls) /\ r.arrears = LinesArrears(ls)
  /\ r.status \notin TerminalStatus =>
       /\ r.status = "PAID" <=> (r.paid >= r.total /\ r.total > 0)
       /\ r.status = "ISSUED" => r.paid = 0
       /\ r.status = "PART_PAID" => r.paid > 0

\* BillAgreesWithLines, row by row.
LEMMA AgreesRowByRow ==
  BillAgreesWithLines <=> \A b \in BillId : Exists(b) => Agrees(bill[b], line[b])
  BY DEF BillAgreesWithLines, Agrees, Live

\* recompute_bill makes a row agree with the lines, whatever it was before.
LEMMA RecomputeAgrees ==
  ASSUME NEW r \in BillRow, r.status \notin {"NONE", "DELETED"}, NEW ls \in [Slot -> LineRow]
  PROVE  Agrees(Recompute(r, ls), ls)
<1>1. LinesTotal(ls) \in Nat /\ r.paid \in Nat
  BY SumOfLines DEF BillRow
<1> DEFINE st == SettledStatus(r, LinesTotal(ls))
           q == Recompute(r, ls)
<1>2. q.total = LinesTotal(ls) /\ q.arrears = LinesArrears(ls) /\ q.status = st /\ q.paid = r.paid
  BY DEF Recompute, BillRow
<1>3. st \notin TerminalStatus =>
        /\ st = "PAID" <=> (r.paid >= LinesTotal(ls) /\ LinesTotal(ls) > 0)
        /\ st = "ISSUED" => r.paid = 0
        /\ st = "PART_PAID" => r.paid > 0
  BY <1>1 DEF SettledStatus, TerminalStatus
<1> HIDE DEF st, q
<1>. QED  BY <1>2, <1>3 DEF Agrees, q

\* A handler that writes one bill through recompute_bill keeps all bills in agreement.
LEMMA OneBillAgrees ==
  ASSUME LedgerInv, BillAgreesWithLines, NEW b \in BillId,
         NEW r \in BillRow, r.status \notin {"NONE", "DELETED"},
         line' \in [BillId -> [Slot -> LineRow]],
         \A x \in BillId \ {b} : line'[x] = line[x],
         bill' = [bill EXCEPT ![b] = Recompute(r, line'[b])]
  PROVE  BillAgreesWithLines'
<1>1. bill'[b] = Recompute(r, line'[b]) /\ \A x \in BillId \ {b} : bill'[x] = bill[x]
  BY DEF LedgerInv, TypeOK
<1>2. Agrees(bill'[b], line'[b])
  BY <1>1, RecomputeAgrees
<1>3. \A x \in BillId : bill'[x].status \notin {"NONE", "DELETED"} => Agrees(bill'[x], line'[x])
  BY <1>1, <1>2, AgreesRowByRow DEF Exists
<1>. QED  BY <1>3 DEF BillAgreesWithLines, Agrees, Live, Exists

\* update, merge, append and delete_bill_line recompute the bill they edit.
LEMMA EditsAgree ==
  ASSUME LedgerInv, LedgerInv', BillAgreesWithLines, EditLines
  PROVE  BillAgreesWithLines'
<1>0. /\ line \in [BillId -> [Slot -> LineRow]] /\ line' \in [BillId -> [Slot -> LineRow]]
      /\ bill \in [BillId -> BillRow]
  BY DEF LedgerInv, TypeOK
<1>1. PICK b \in BillId :
        \/ \E k \in Kind, amount \in EditAmounts : AddBillLine(b, k, amount)
        \/ \E s \in Slot, amount \in EditAmounts : UpdateBillLine(b, s, amount)
        \/ \E s \in Slot : DeleteBillLine(b, s)
  BY DEF EditLines
<1>2. Exists(b) /\ bill' = [bill EXCEPT ![b] = Recompute(bill[b], line'[b])]
  BY <1>1 DEF AddBillLine, UpdateBillLine, DeleteBillLine, LedgerInv, LinesOfBills
<1>3. \A x \in BillId \ {b} : line'[x] = line[x]
  <2>1. CASE \E k \in Kind, amount \in EditAmounts : AddBillLine(b, k, amount)
    <3>1. PICK k \in Kind, amount \in EditAmounts, s \in Slot :
            MergeLine(b, s, amount) \/ AppendLine(b, s, k, amount)
      BY <2>1 DEF AddBillLine
    <3>2. CASE MergeLine(b, s, amount)
      BY <1>0, <3>2 DEF MergeLine
    <3>3. CASE AppendLine(b, s, k, amount)
      BY <1>0, <3>3 DEF AppendLine
    <3>. QED  BY <3>1, <3>2, <3>3
  <2>2. CASE \E s \in Slot, amount \in EditAmounts : UpdateBillLine(b, s, amount)
    BY <1>0, <2>2 DEF UpdateBillLine
  <2>3. CASE \E s \in Slot : DeleteBillLine(b, s)
    BY <1>0, <2>3 DEF DeleteBillLine
  <2>. QED  BY <1>1, <2>1, <2>2, <2>3
<1>4. bill[b] \in BillRow /\ bill[b].status \notin {"NONE", "DELETED"}
  BY <1>0, <1>2 DEF Exists
<1>. QED  BY <1>0, <1>2, <1>3, <1>4, OneBillAgrees

\* post_payment and reverse_payment recompute the bill with its new amount_paid.
LEMMA MoneyAgrees ==
  ASSUME LedgerInv, LedgerInv', BillAgreesWithLines,
         \/ \E p \in PaymentId, b \in BillId, amount \in PayAmounts : PostPayment(p, b, amount)
         \/ \E p \in PaymentId : ReversePayment(p)
  PROVE  BillAgreesWithLines'
<1>0. TypeOK /\ line' \in [BillId -> [Slot -> LineRow]] /\ bill \in [BillId -> BillRow]
  BY DEF LedgerInv, TypeOK
<1>1. ASSUME NEW b \in BillId, Exists(b), NEW paid \in Nat, UNCHANGED line,
             bill' = [bill EXCEPT ![b] = Recompute([bill[b] EXCEPT !.paid = paid], line[b])]
      PROVE  BillAgreesWithLines'
  <2> DEFINE r == [bill[b] EXCEPT !.paid = paid]
  <2>1. r \in BillRow /\ r.status \notin {"NONE", "DELETED"}
    BY <1>0, <1>1 DEF Exists, BillRow
  <2>2. bill' = [bill EXCEPT ![b] = Recompute(r, line'[b])]
    BY <1>1
  <2> HIDE DEF r
  <2>. QED  BY <1>0, <1>1, <2>1, <2>2, OneBillAgrees
<1>2. ASSUME NEW p \in PaymentId, NEW b \in BillId, NEW amount \in PayAmounts,
             PostPayment(p, b, amount)
      PROVE  BillAgreesWithLines'
  <2> DEFINE paid == bill[b].paid + Applied(Allocation(b, amount))
  <2>1. amount \in Nat
    BY LedgerConstants
  <2>2. paid \in Nat
    <3>1. Applied(Allocation(b, amount)) \in Nat /\ bill[b].paid \in Nat
      BY <1>0, <2>1, AllocationFits, PaidInNat
    <3>. QED  BY <3>1
  <2>3. /\ Exists(b) /\ UNCHANGED line
        /\ bill' = [bill EXCEPT ![b] = Recompute([bill[b] EXCEPT !.paid = paid], line[b])]
    BY <1>2 DEF PostPayment, Paid, Live
  <2> HIDE DEF paid
  <2>. QED  BY <1>1, <2>2, <2>3
<1>3. ASSUME NEW p \in PaymentId, ReversePayment(p)
      PROVE  BillAgreesWithLines'
  <2> DEFINE b == payment[p].bill
             paid == Positive(bill[b].paid - AppliedBy(p))
  <2>1. b \in BillId /\ Exists(b) /\ Applied(payment[p].alloc) \in Nat
    BY <1>0, <1>3, SumOfAllocation DEF ReversePayment, LedgerInv, PaymentsOfBills, TypeOK, PaymentRow
  <2>2. paid \in Nat
    BY <1>0, <2>1, PaidInNat DEF Positive, AppliedBy
  <2>3. /\ UNCHANGED line
        /\ bill' = [bill EXCEPT ![b] = Recompute([bill[b] EXCEPT !.paid = paid], line[b])]
    BY <1>3 DEF ReversePayment
  <2> HIDE DEF paid, b
  <2>. QED  BY <1>1, <2>1, <2>2, <2>3
<1>. QED  BY <1>2, <1>3

\* What issue_bill writes of the bills and their lines, once the new bill's lines are known.
IssuedWith(b, c, due, roll, ls) ==
  /\ bill' = [x \in BillId |->
       IF x = b THEN Recompute(NewRow(c, due, roll), ls)
       ELSE IF x \in (IF roll THEN OpenOf(c) ELSE {})
         THEN [bill[x] EXCEPT !.status = "SUPERSEDED", !.supersededBy = b]
       ELSE bill[x]]
  /\ line' = [line EXCEPT ![b] = ls]

\* issue_bill, as far as the bills and their lines go: the new bill is recomputed from some lines,
\* and the bills it takes in are superseded.
LEMMA IssuedBills ==
  ASSUME NEW b \in BillId, NEW c \in Payer, NEW ask, NEW sweep \in BOOLEAN, NEW roll \in BOOLEAN,
         NEW force, NEW due, IssueBill(b, c, ask, sweep, roll, force, due)
  PROVE  \E ls : IssuedWith(b, c, due, roll, ls)
<1> DEFINE charge == Charge(c, ask, sweep)
           charged == {k \in Kind : charge[k] > 0}
           rolled == IF roll THEN OpenOf(c) ELSE {}
           lines == Outstanding(rolled)
           carried == {LineItem(l) : l \in lines} \ {ItemOf[k] : k \in charged}
<1>1. PICK order \in Orders(charged), route \in Orders(rolled), tail \in Orders(carried) :
        LET ls == NewLines(b, order, charge, lines, route, tail)
        IN /\ bill' = [x \in BillId |->
                 IF x = b THEN Recompute(NewRow(c, due, roll), ls)
                 ELSE IF x \in rolled
                   THEN [bill[x] EXCEPT !.status = "SUPERSEDED", !.supersededBy = b]
                 ELSE bill[x]]
           /\ line' = [line EXCEPT ![b] = ls]
  BY DEF IssueBill
<1> DEFINE ls == NewLines(b, order, charge, lines, route, tail)
<1>2. IssuedWith(b, c, due, roll, ls)
  BY <1>1 DEF IssuedWith
<1> HIDE DEF ls
<1>. QED  BY <1>2

\* issue_bill: the new bill is recomputed, and a superseded one keeps its rollups.
LEMMA IssueAgrees ==
  ASSUME LedgerInv, LedgerInv', BillAgreesWithLines, Issue
  PROVE  BillAgreesWithLines'
<1>0. /\ TypeOK /\ line \in [BillId -> [Slot -> LineRow]] /\ bill \in [BillId -> BillRow]
      /\ line' \in [BillId -> [Slot -> LineRow]]
  BY DEF LedgerInv, TypeOK
<1>1. PICK b \in BillId, c \in Payer, ask \in [Kind -> AskAmounts \cup {0}],
           sweep \in BOOLEAN, roll \in BOOLEAN, force \in Forcing, due \in DueDates :
             IssueBill(b, c, ask, sweep, roll, force, due)
  BY DEF Issue
<1>1a. PICK ls : IssuedWith(b, c, due, roll, ls)
  BY <1>1, IssuedBills
<1> DEFINE rolled == IF roll THEN OpenOf(c) ELSE {}
           r == NewRow(c, due, roll)
<1>2. /\ bill' = [x \in BillId |->
           IF x = b THEN Recompute(r, ls)
           ELSE IF x \in rolled
             THEN [bill[x] EXCEPT !.status = "SUPERSEDED", !.supersededBy = b]
           ELSE bill[x]]
      /\ line' = [line EXCEPT ![b] = ls]
  BY <1>1a DEF IssuedWith
<1>3. r \in BillRow /\ r.status \notin {"NONE", "DELETED"}
  <2>1. today \in Nat /\ due \in Nat /\ 0 \in 0..MaxBills
    BY <1>0, LedgerConstants DEF TypeOK
  <2>2. Year(today) \in Nat
    BY <2>1, YearIsNat
  <2>. QED  BY <2>1, <2>2 DEF NewRow, NoBill, BillRow, BillStatus, OpenStatus
<1> HIDE DEF r
<1>4. line'[b] = ls /\ \A x \in BillId \ {b} : line'[x] = line[x]
  BY <1>0, <1>2
<1>5. Agrees(bill'[b], line'[b])
  BY <1>0, <1>2, <1>3, <1>4, RecomputeAgrees
<1>6. ASSUME NEW x \in BillId \ {b}, bill'[x].status \notin {"NONE", "DELETED"}
      PROVE  Agrees(bill'[x], line'[x])
  <2>1. CASE x \in rolled
    <3>1. bill'[x] = [bill[x] EXCEPT !.status = "SUPERSEDED", !.supersededBy = b]
      BY <1>2, <2>1
    <3>2. Exists(x)
      BY <2>1 DEF OpenOf, OpenStatus, Exists
    <3>3. Agrees(bill[x], line[x]) /\ bill[x] \in BillRow
      BY <1>0, <3>2, AgreesRowByRow
    <3>4. bill'[x].total = bill[x].total /\ bill'[x].arrears = bill[x].arrears /\ bill'[x].status = "SUPERSEDED"
      BY <3>1, <3>3 DEF BillRow
    <3>. QED  BY <1>4, <3>3, <3>4 DEF Agrees, TerminalStatus
  <2>2. CASE x \notin rolled
    <3>1. bill'[x] = bill[x]
      BY <1>2, <2>2
    <3>. QED  BY <1>4, <1>6, <3>1, AgreesRowByRow DEF Exists
  <2>. QED  BY <2>1, <2>2
<1>7. \A x \in BillId : bill'[x].status \notin {"NONE", "DELETED"} => Agrees(bill'[x], line'[x])
  BY <1>5, <1>6
<1>. QED  BY <1>7 DEF BillAgreesWithLines, Agrees, Live, Exists

\* Every step keeps the bills in agreement with their lines.
LEMMA AgreesKept ==
  ASSUME LedgerInv, BillAgreesWithLines, [Next]_vars
  PROVE  BillAgreesWithLines'
<1>0. LedgerInv' /\ TypeOK /\ bill \in [BillId -> BillRow]
  BY StepKeeps, StutterKeeps DEF LedgerInv, TypeOK
<1>1. CASE Issue
  BY <1>0, <1>1, IssueAgrees
<1>2. CASE EditLines
  BY <1>0, <1>2, EditsAgree
<1>3. ASSUME NEW d \in BillId, DestroyBill(d) PROVE BillAgreesWithLines'
  <2>1. /\ bill' = [x \in BillId |->
             IF x = d THEN [NoBill EXCEPT !.status = "DELETED"] ELSE DroppedLink(bill[x], d)]
        /\ line' = [line EXCEPT ![d] = [s \in Slot |-> NoLine]]
    BY <1>3 DEF DestroyBill
  <2>2. bill'[d].status = "DELETED"
    BY <1>0, <1>3, DestroyedRows
  <2>3. ASSUME NEW x \in BillId \ {d}, bill'[x].status \notin {"NONE", "DELETED"}
        PROVE  Agrees(bill'[x], line'[x])
    <3>1. line'[x] = line[x] /\ bill[x] \in BillRow /\ bill'[x] = DroppedLink(bill[x], d)
      BY <1>0, <2>1 DEF TypeOK
    <3>2. /\ bill'[x].status = bill[x].status /\ bill'[x].paid = bill[x].paid
          /\ bill'[x].total = bill[x].total /\ bill'[x].arrears = bill[x].arrears
      BY <3>1 DEF DroppedLink, BillRow
    <3>3. Agrees(bill[x], line[x])
      BY <2>3, <3>2, AgreesRowByRow DEF Exists
    <3>. QED  BY <3>1, <3>2, <3>3 DEF Agrees
  <2>4. \A x \in BillId : bill'[x].status \notin {"NONE", "DELETED"} => Agrees(bill'[x], line'[x])
    BY <2>2, <2>3
  <2>. QED  BY <2>4 DEF BillAgreesWithLines, Agrees, Live, Exists
<1>4. CASE \/ \E p \in PaymentId, b \in BillId, amount \in PayAmounts : PostPayment(p, b, amount)
           \/ \E p \in PaymentId : ReversePayment(p)
  BY <1>0, <1>4, MoneyAgrees
<1>5. CASE RefreshDebt
  <2>1. ASSUME NEW x \in BillId, bill'[x].status \notin {"NONE", "DELETED"}
        PROVE  Agrees(bill'[x], line'[x])
    <3>1. line' = line /\ bill[x] \in BillRow
      BY <1>0, <1>5 DEF RefreshDebt
    <3>2. CASE IsOverdue(x)
      <4>1. bill'[x] = [bill[x] EXCEPT !.status = "OVERDUE"] /\ bill[x].status \in OpenStatus
        BY <1>5, <3>2 DEF RefreshDebt, IsOverdue
      <4>2. /\ bill'[x].status = "OVERDUE" /\ bill'[x].paid = bill[x].paid
            /\ bill'[x].total = bill[x].total /\ bill'[x].arrears = bill[x].arrears
        BY <3>1, <4>1 DEF BillRow
      <4>3. Agrees(bill[x], line[x])
        BY <4>1, AgreesRowByRow DEF Exists, OpenStatus
      <4>. QED  BY <3>1, <4>1, <4>2, <4>3 DEF Agrees, OpenStatus, TerminalStatus
    <3>3. CASE ~IsOverdue(x)
      <4>1. bill'[x] = bill[x]
        BY <1>5, <3>3 DEF RefreshDebt
      <4>. QED  BY <2>1, <3>1, <4>1, AgreesRowByRow DEF Exists
    <3>. QED  BY <3>2, <3>3
  <2>. QED  BY <2>1 DEF BillAgreesWithLines, Agrees, Live, Exists
<1>6. CASE UNCHANGED <<bill, line>>
  BY <1>6 DEF BillAgreesWithLines, Live, Exists
<1>7. (\E b \in BillId : EscalateToClosed(b)) \/ NextDay \/ UNCHANGED vars => UNCHANGED <<bill, line>>
  BY DEF EscalateToClosed, NextDay, vars
<1>. QED  BY <1>1, <1>2, <1>3, <1>4, <1>5, <1>6, <1>7 DEF Next

\* After every handler the rollups of a bill equal its lines, and a live bill is PAID
\* exactly when they are covered: every handler that touches lines or amount_paid ends
\* in recompute_bill, refresh_debt marks only bills that are not PAID, and a
\* consolidation touches no amount.
THEOREM BillsAgree == Spec => []BillAgreesWithLines
<1>1. Init => BillAgreesWithLines
  BY DEF Init, BillAgreesWithLines, Exists, NoBill
<1>2. LedgerInv /\ BillAgreesWithLines /\ [Next]_vars => BillAgreesWithLines'
  BY AgreesKept
<1>. QED  BY Invariance, <1>1, <1>2, PTL DEF Spec

-----------------------------------------------------------------------------
(* The order in which a payment covers the lines. *)

\* post_payment is the only handler that makes a payment count on a bill.
LEMMA OnlyPostingCounts ==
  ASSUME LedgerInv, [Next]_vars, NEW p \in PaymentId, NEW b \in BillId,
         payment[p].status = "NONE", payment'[p].bill = b, payment'[p].status = "CONFIRMED"
  PROVE  \E amount \in PayAmounts : PostPayment(p, b, amount)
<1>0. payment \in [PaymentId -> PaymentRow] /\ payment' # payment
  BY DEF LedgerInv, TypeOK
<1>1. CASE \E q \in PaymentId, x \in BillId, amount \in PayAmounts : PostPayment(q, x, amount)
  <2>1. PICK q \in PaymentId, x \in BillId, amount \in PayAmounts : PostPayment(q, x, amount)
    BY <1>1
  <2>2. payment' = [payment EXCEPT ![q] = [bill |-> x, amount |-> amount, status |-> "CONFIRMED",
                                           alloc |-> Allocation(x, amount)]]
    BY <2>1 DEF PostPayment
  <2>3. q = p /\ x = b
    BY <1>0, <2>2
  <2>. QED  BY <2>1, <2>3
<1>2. CASE \E q \in PaymentId : ReversePayment(q)
  <2>1. PICK q \in PaymentId : ReversePayment(q)
    BY <1>2
  <2>2. payment' = [payment EXCEPT ![q].status = "REVERSED"]
    BY <2>1 DEF ReversePayment
  <2>. QED  BY <1>0, <2>2
<1>3. CASE Issue
  <2>1. PICK x \in BillId, c \in Payer, ask \in [Kind -> AskAmounts \cup {0}], sweep \in BOOLEAN,
             roll \in BOOLEAN, force \in Forcing, due \in DueDates :
               IssueBill(x, c, ask, sweep, roll, force, due)
    BY <1>3 DEF Issue
  <2>2. UNCHANGED payment
    BY <2>1 DEF IssueBill
  <2>. QED  BY <1>0, <2>2
<1>4. CASE EditLines
  BY <1>0, <1>4 DEF EditLines, AddBillLine, UpdateBillLine, DeleteBillLine
<1>5. CASE \/ \E x \in BillId : DestroyBill(x) \/ EscalateToClosed(x)
           \/ RefreshDebt \/ NextDay \/ UNCHANGED vars
  BY <1>0, <1>5 DEF DestroyBill, EscalateToClosed, RefreshDebt, NextDay, vars
<1>. QED  BY <1>1, <1>2, <1>3, <1>4, <1>5 DEF Next

\* post_payment adds to each line exactly what the new payment allocates there.
LEMMA PostingAdds ==
  ASSUME TypeOK, NEW p \in PaymentId, NEW b \in BillId, NEW amount \in Nat,
         payment[p].status = "NONE", PostPayment(p, b, amount), NEW s \in Slot
  PROVE  PaidOn(b, s)' = PaidOn(b, s) + Allocation(b, amount)[s]
<1> DEFINE f == [q \in PaymentId |-> IF CountsOn(q, b) THEN payment[q].alloc[s] ELSE 0]
           g == [q \in PaymentId |-> IF CountsOn(q, b)' THEN payment'[q].alloc[s] ELSE 0]
<1>0. MaxPayments \in Nat /\ PaymentId = 1..MaxPayments
  BY LedgerConstants DEF PaymentId
<1>1. Allocation(b, amount)[s] \in Nat
  BY AllocationFits
<1>2. f \in [1..MaxPayments -> Nat]
  BY DEF TypeOK, PaymentRow, PaymentId
<1>3. /\ payment'[p].bill = b /\ payment'[p].status = "CONFIRMED"
      /\ payment'[p].alloc = Allocation(b, amount)
      /\ \A q \in PaymentId \ {p} : payment'[q] = payment[q]
  BY DEF PostPayment, TypeOK
<1>4. f[p] = 0 /\ g[p] = Allocation(b, amount)[s]
  BY <1>3 DEF CountsOn
<1>5. \A q \in PaymentId \ {p} : g[q] = f[q]
  BY <1>3 DEF CountsOn
<1>6. g \in [1..MaxPayments -> Nat]
  BY <1>0, <1>1, <1>2, <1>4, <1>5
<1>7. PaidOn(b, s) = SumTo(f, MaxPayments) /\ PaidOn(b, s)' = SumTo(g, MaxPayments)
  BY DEF PaidOn
<1> HIDE DEF f, g
<1>8. f \in [1..MaxPayments -> Int] /\ g \in [1..MaxPayments -> Int] /\ p \in 1..MaxPayments
      /\ \A q \in 1..MaxPayments : q # p => g[q] = f[q]
  BY <1>0, <1>2, <1>5, <1>6
<1>9. SumTo(g, MaxPayments) = SumTo(f, MaxPayments) + (g[p] - f[p])
  BY <1>0, <1>8, SumUpdate
<1>. QED  BY <1>1, <1>4, <1>7, <1>9, <1>0, <1>2, SumIsNat

\* Oldest line first, and credit only when nothing is left to cover: _allocate_fifo
\* walks the lines in (position, id) order, takes at most what each still owes after
\* its confirmed payments, and post_payment credits only what is left.
THEOREM OldestLineFirst == Spec => PaymentFillsOldestFirst
<1>1. LedgerInv /\ [Next]_vars =>
        \A p \in PaymentId, b \in BillId :
          payment[p].status = "NONE" /\ CountsOn(p, b)' =>
          LET got == payment'[p].alloc
              covered(s) == PaidOn(b, s)' >= LineAmount(line[b][s])
          IN /\ \A s \in Slot : got[s] <= Owing(b, s)
             /\ \A s, t \in Slot : t < s /\ got[s] > 0 => covered(t)
             /\ Applied(got) < payment'[p].amount => \A s \in Slot : covered(s)
  <2> SUFFICES ASSUME LedgerInv, [Next]_vars, NEW p \in PaymentId, NEW b \in BillId,
                      payment[p].status = "NONE", CountsOn(p, b)'
               PROVE  LET got == payment'[p].alloc
                          covered(s) == PaidOn(b, s)' >= LineAmount(line[b][s])
                      IN /\ \A s \in Slot : got[s] <= Owing(b, s)
                         /\ \A s, t \in Slot : t < s /\ got[s] > 0 => covered(t)
                         /\ Applied(got) < payment'[p].amount => \A s \in Slot : covered(s)
    OBVIOUS
  <2>0. TypeOK /\ MaxLines \in Nat /\ Slot = 1..MaxLines
    BY LedgerConstants DEF LedgerInv, Slot
  <2>1. PICK amount \in PayAmounts : PostPayment(p, b, amount)
    BY OnlyPostingCounts DEF CountsOn
  <2>2. amount \in Nat
    BY LedgerConstants
  <2> DEFINE got == Allocation(b, amount)
             need == [t \in Slot |-> Owing(b, t)]
             covered(s) == PaidOn(b, s)' >= LineAmount(line[b][s])
  <2>3. payment'[p].alloc = got /\ payment'[p].amount = amount
    BY <2>0, <2>1 DEF PostPayment, TypeOK
  <2>4. /\ Applied(got) = Least(amount, SumTo(need, MaxLines))
        /\ \A s \in Slot : got[s] <= Owing(b, s)
    BY <2>0, <2>2, AllocationFits
  <2>5. need \in [1..MaxLines -> Nat] /\ IsFill(got, need, amount, MaxLines)
    BY <2>0, <2>2, AllocationIsFill
  <2>6. \A s \in Slot : need[s] = Owing(b, s)
    OBVIOUS
  <2>7. ASSUME NEW s \in Slot, got[s] = need[s] PROVE covered(s)
    <3>1. PaidOn(b, s)' = PaidOn(b, s) + Owing(b, s)
      BY <2>0, <2>1, <2>2, <2>6, <2>7, PostingAdds
    <3>2. PaidOn(b, s) \in Nat
      BY <2>0, PaidOnIsNat
    <3>3. LineAmount(line[b][s]) \in Nat
      BY <2>0, LineAmountIsNat
    <3>. QED  BY <3>1, <3>2, <3>3 DEF Owing, Positive
  <2> HIDE DEF got, need, covered
  <2>8. ASSUME NEW s \in Slot, NEW t \in Slot, t < s, got[s] > 0 PROVE covered(t)
    BY <2>0, <2>2, <2>5, <2>7, <2>8, FillInOrder
  <2>9. ASSUME Applied(got) < amount, NEW s \in Slot PROVE covered(s)
    <3>1. s \in 0..MaxLines /\ MaxLines \in s..MaxLines /\ MaxLines \in 0..MaxLines
      BY <2>0
    <3>2. SumTo(need, s) <= SumTo(need, MaxLines)
      BY <2>0, <2>5, <3>1, SumMono
    <3>3. SumTo(need, s) \in Nat /\ SumTo(need, MaxLines) \in Nat
      BY <2>0, <2>5, <3>1, SumNat
    <3>4. SumTo(need, s) <= amount
      BY <2>2, <2>4, <2>9, <3>2, <3>3 DEF Least
    <3>5. got[s] = need[s]
      BY <2>0, <2>2, <2>5, <3>4, FillMeets
    <3>. QED  BY <2>7, <3>5
  <2>. QED  BY <2>3, <2>4, <2>8, <2>9 DEF covered
<1>. QED  BY Invariance, <1>1, PTL DEF Spec, PaymentFillsOldestFirst

-----------------------------------------------------------------------------
(* Debt cases of paid bills. *)

\* reverse_payment never raises amount_paid.
LEMMA ReversalLowers ==
  ASSUME TypeOK, NEW p \in PaymentId, ReversePayment(p), NEW x \in BillId
  PROVE  bill'[x].paid <= bill[x].paid
<1> DEFINE b == payment[p].bill
           paid == Positive(bill[b].paid - AppliedBy(p))
<1>1. bill' = [bill EXCEPT ![b] = Recompute([bill[b] EXCEPT !.paid = paid], line[b])]
  BY DEF ReversePayment
<1>2. AppliedBy(p) \in Nat
  BY SumOfAllocation DEF TypeOK, PaymentRow, AppliedBy
<1>3. bill \in [BillId -> BillRow] /\ bill[x].paid \in Nat
  BY DEF TypeOK, BillRow
<1>4. CASE x = b
  <2>1. paid <= bill[x].paid
    BY <1>2, <1>3, <1>4 DEF Positive
  <2> HIDE DEF paid
  <2> DEFINE r == [bill[b] EXCEPT !.paid = paid]
  <2>2. r.paid = paid /\ DOMAIN r = DOMAIN bill[b] /\ bill[b] \in BillRow
    BY <1>3, <1>4 DEF BillRow
  <2> HIDE DEF r
  <2>3. Recompute(r, line[b]).paid = r.paid
    BY <2>2 DEF Recompute, BillRow
  <2>4. bill'[x] = Recompute(r, line[b])
    BY <1>1, <1>3, <1>4 DEF r
  <2>. QED  BY <2>1, <2>2, <2>3, <2>4
<1>5. CASE x # b
  BY <1>1, <1>3, <1>5
<1>. QED  BY <1>4, <1>5

\* What a step other than a line edit does to a bill that is paid afterwards and
\* whose case is open afterwards: nothing.
LEMMA OpenCaseOfPaidBill ==
  ASSUME LedgerInv, BillAgreesWithLines, [Next]_vars, ~EditLines,
         NEW b \in BillId, bill'[b].status = "PAID", debtCase'[b] = "OPEN"
  PROVE  bill[b].status = "PAID" /\ debtCase[b] = "OPEN"
<1>0. /\ TypeOK /\ bill \in [BillId -> BillRow] /\ debtCase \in [BillId -> CaseStage]
      /\ BillAgreesWithLines' /\ LedgerInv'
  BY AgreesKept, StepKeeps, StutterKeeps DEF LedgerInv, TypeOK
<1>1. Exists(b)' /\ Live(b)'
  BY DEF Exists, Live, TerminalStatus
<1>2. /\ bill'[b].paid >= bill'[b].total /\ bill'[b].total > 0
      /\ bill'[b].total = LinesTotal(line'[b])
  BY <1>0, <1>1 DEF BillAgreesWithLines
<1>3. \A S : Closed(S)[b] = "OPEN" => debtCase[b] = "OPEN" /\ b \notin S
  BY DEF Closed
<1>4. CASE Issue
  <2>1. PICK n \in BillId, c \in Payer, ask \in [Kind -> AskAmounts \cup {0}],
             sweep \in BOOLEAN, roll \in BOOLEAN, force \in Forcing, due \in DueDates :
               IssueBill(n, c, ask, sweep, roll, force, due)
    BY <1>4 DEF Issue
  <2>2. ask \in [Kind -> Nat] /\ force \in BOOLEAN /\ due \in Nat
    <3>1. AskAmounts \cup {0} \subseteq Nat /\ DueDates \subseteq Nat /\ Forcing \subseteq BOOLEAN
      BY LedgerConstants
    <3>. QED  BY <3>1
  <2>3. PICK R \in SUBSET BillId : Issues(n, c, R)
    BY <2>1, <2>2, IssueBillKeeps
  <2>4. debtCase[b] = "OPEN" /\ b \notin R
    <3>1. debtCase'[b] = Closed(R)[b]
      BY <2>3 DEF Issues
    <3>. QED  BY <1>3, <3>1
  <2>5. b # n
    <3>1. bill'[n].paid = 0
      BY <2>3 DEF Issues
    <3>2. bill'[n] \in BillRow
      BY <1>0 DEF LedgerInv, TypeOK
    <3>. QED  BY <1>2, <3>1, <3>2 DEF BillRow
  <2>. QED  BY <2>3, <2>4, <2>5 DEF Issues
<1>5. ASSUME NEW d \in BillId, DestroyBill(d)
      PROVE  bill[b].status = "PAID" /\ debtCase[b] = "OPEN"
  <2>1. b # d
    BY <1>0, <1>5, DestroyedRows
  <2>2. debtCase'[b] = debtCase[b]
    BY <1>0, <1>5, <2>1 DEF DestroyBill
  <2>. QED  BY <1>0, <1>5, <2>1, <2>2, DestroyedRows
<1>6. ASSUME NEW p \in PaymentId, NEW x \in BillId, NEW amount \in PayAmounts,
             PostPayment(p, x, amount)
      PROVE  bill[b].status = "PAID" /\ debtCase[b] = "OPEN"
  <2> DEFINE settled == Paid(x, Allocation(x, amount), amount)
  <2>1. /\ bill' = [bill EXCEPT ![x] = settled]
        /\ debtCase' = IF settled.status = "PAID" THEN Closed({x}) ELSE debtCase
    BY <1>6 DEF PostPayment, CaseAfterSettling
  <2> HIDE DEF settled
  <2>2. b # x /\ debtCase[b] = "OPEN"
    BY <1>0, <1>3, <2>1
  <2>. QED  BY <1>0, <2>1, <2>2
<1>7. ASSUME NEW p \in PaymentId, ReversePayment(p)
      PROVE  bill[b].status = "PAID" /\ debtCase[b] = "OPEN"
  <2>1. /\ debtCase' = debtCase /\ line' = line
        /\ \A x \in BillId : Settled(bill[x], bill'[x])
    BY <1>7, ReversePaymentKeeps DEF ReversePayment
  <2>2. bill'[b].paid <= bill[b].paid
    BY <1>0, <1>7, ReversalLowers
  <2>3. Live(b) /\ Exists(b)
    BY <1>1, <2>1 DEF Settled, Live, Exists, OpenStatus, TerminalStatus
  <2>4. bill[b].total = bill'[b].total
    BY <1>2, <2>1, <2>3 DEF BillAgreesWithLines
  <2>5. /\ bill[b].paid \in Nat /\ bill'[b].paid \in Nat /\ bill[b].total \in Nat
    BY <1>0 DEF LedgerInv, TypeOK, BillRow
  <2>6. bill[b].paid >= bill[b].total /\ bill[b].total > 0
    BY <1>2, <2>2, <2>4, <2>5
  <2>. QED  BY <2>1, <2>3, <2>6 DEF BillAgreesWithLines
<1>8. CASE RefreshDebt
  <2>1. ~IsOverdue(b)
    <3>1. SUFFICES ASSUME IsOverdue(b) PROVE FALSE
      OBVIOUS
    <3>2. bill'[b] = [bill[b] EXCEPT !.status = "OVERDUE"] /\ bill[b] \in BillRow
      BY <1>0, <1>8, <3>1 DEF RefreshDebt
    <3>. QED  BY <3>2 DEF BillRow
  <2>. QED  BY <1>8, <2>1 DEF RefreshDebt
<1>9. CASE \E x \in BillId : EscalateToClosed(x)
  BY <1>0, <1>9 DEF EscalateToClosed
<1>10. CASE NextDay \/ UNCHANGED vars
  BY <1>10 DEF NextDay, vars
<1>. QED  BY <1>4, <1>5, <1>6, <1>7, <1>8, <1>9, <1>10 DEF Next

\* A case closes the moment its bill is fully paid, whatever pays it or reverses it,
\* and no refresh, consolidation or escalation leaves a case open on a paid bill;
\* only the line services can, because they recompute the bill without looking at
\* its case.
THEOREM OnlyEditsLeaveCasesOpen ==
  Spec => [][\A b \in BillId :
               bill'[b].status = "PAID" /\ debtCase'[b] = "OPEN" =>
                 (bill[b].status = "PAID" /\ debtCase[b] = "OPEN") \/ EditLines]_vars
<1>1. LedgerInv /\ BillAgreesWithLines /\ [Next]_vars =>
        \A b \in BillId :
          bill'[b].status = "PAID" /\ debtCase'[b] = "OPEN" =>
            (bill[b].status = "PAID" /\ debtCase[b] = "OPEN") \/ EditLines
  BY OpenCaseOfPaidBill
<1>. QED  BY Invariance, BillsAgree, <1>1, PTL DEF Spec

\* So while no line is edited (the services post, reverse, consolidate, refresh and
\* escalate as they like), no paid bill has an open case.
THEOREM PaidCaseClosed ==
  Spec /\ [][~EditLines]_vars => []PaidBillHasNoOpenCase
<1>1. Init => PaidBillHasNoOpenCase
  BY DEF Init, PaidBillHasNoOpenCase
<1>2. LedgerInv /\ BillAgreesWithLines /\ PaidBillHasNoOpenCase /\ [Next]_vars /\ [~EditLines]_vars
        => PaidBillHasNoOpenCase'
  <2> SUFFICES ASSUME LedgerInv, BillAgreesWithLines, PaidBillHasNoOpenCase,
                      [Next]_vars, [~EditLines]_vars
               PROVE  PaidBillHasNoOpenCase'
    OBVIOUS
  <2>1. CASE ~EditLines
    BY <2>1, OpenCaseOfPaidBill DEF PaidBillHasNoOpenCase
  <2>2. CASE UNCHANGED vars
    BY <2>2 DEF PaidBillHasNoOpenCase, vars
  <2>. QED  BY <2>1, <2>2
<1>. QED  BY Invariance, BillsAgree, <1>1, <1>2, PTL DEF Spec

-----------------------------------------------------------------------------
(***************************************************************************)
(* Consolidation neither double-counts nor forgives.  The argument walks   *)
(* the new bill's slots.  Each slot belongs to one revenue item; the first *)
(* slot of an item carries all that was owed on the item, a later one      *)
(* nothing.  So after k slots the arrears carried are what was owed on the *)
(* items of those slots, and after the last one every item of an           *)
(* outstanding line has had its slot, however many lines, items and open   *)
(* bills there are and in whatever order the code meets them.              *)
(***************************************************************************)

-----------------------------------------------------------------------------
(* What is owed on a set of items. *)

\* What the given lines owe on the items of a set.
OwedOnItems(lines, items) ==
  SumTo([b \in BillId |->
           SumTo([s \in Slot |->
                    IF <<b, s>> \in lines /\ LineItem(<<b, s>>) \in items THEN Owing(b, s) ELSE 0],
                 MaxLines)],
        MaxBills)

\* The bounds are naturals, and the ids are those up to the bounds.
LEMMA Bounds ==
  /\ MaxBills \in Nat /\ MaxLines \in Nat /\ BillId = 1..MaxBills /\ Slot = 1..MaxLines
  BY LedgerConstants DEF BillId, Slot

\* It is a natural.
LEMMA OwedOnItemsIsNat ==
  ASSUME TypeOK, NEW lines, NEW items
  PROVE  OwedOnItems(lines, items) \in Nat
<1> DEFINE row(b) == [s \in Slot |->
             IF <<b, s>> \in lines /\ LineItem(<<b, s>>) \in items THEN Owing(b, s) ELSE 0]
           F == [b \in BillId |-> SumTo(row(b), MaxLines)]
<1>1. ASSUME NEW b \in BillId PROVE SumTo(row(b), MaxLines) \in Nat
  <2>1. row(b) \in [1..MaxLines -> Nat]
    BY OwingIsNat, Bounds
  <2> HIDE DEF row
  <2>. QED  BY <2>1, Bounds, SumIsNat
<1> HIDE DEF row
<1>2. F \in [1..MaxBills -> Nat]
  BY <1>1, Bounds
<1> HIDE DEF F
<1>3. SumTo(F, MaxBills) \in Nat
  BY <1>2, Bounds, SumIsNat
<1>. QED  BY <1>3 DEF OwedOnItems, F, row

\* Nothing is owed on no items.
LEMMA OwedOnNone ==
  ASSUME TypeOK, NEW lines
  PROVE  OwedOnItems(lines, {}) = 0
<1> DEFINE row(b) == [s \in Slot |->
             IF <<b, s>> \in lines /\ LineItem(<<b, s>>) \in {} THEN Owing(b, s) ELSE 0]
           F == [b \in BillId |-> SumTo(row(b), MaxLines)]
<1>1. ASSUME NEW b \in BillId PROVE SumTo(row(b), MaxLines) = 0
  <2>1. row(b) \in [1..MaxLines -> Int] /\ \A s \in 1..MaxLines : row(b)[s] = 0
    BY Bounds
  <2> HIDE DEF row
  <2>. QED  BY <2>1, Bounds, SumOfZeros
<1> HIDE DEF row
<1>2. F \in [1..MaxBills -> Int] /\ \A b \in 1..MaxBills : F[b] = 0
  BY <1>1, Bounds
<1> HIDE DEF F
<1>3. SumTo(F, MaxBills) = 0
  BY <1>2, Bounds, SumOfZeros
<1>. QED  BY <1>3 DEF OwedOnItems, F, row

\* One more item adds what is owed on it.
LEMMA OwedOnOneMore ==
  ASSUME TypeOK, NEW lines, NEW items, NEW i, i \notin items
  PROVE  OwedOnItems(lines, items \cup {i}) = OwedOnItems(lines, items) + OwedOn(lines, i)
<1> DEFINE new(b) == [s \in Slot |->
             IF <<b, s>> \in lines /\ LineItem(<<b, s>>) = i THEN Owing(b, s) ELSE 0]
           old(b) == [s \in Slot |->
             IF <<b, s>> \in lines /\ LineItem(<<b, s>>) \in items THEN Owing(b, s) ELSE 0]
           all(b) == [s \in Slot |->
             IF <<b, s>> \in lines /\ LineItem(<<b, s>>) \in items \cup {i} THEN Owing(b, s) ELSE 0]
           F == [b \in BillId |-> SumTo(old(b), MaxLines)]
           G == [b \in BillId |-> SumTo(new(b), MaxLines)]
           H == [b \in BillId |-> SumTo(all(b), MaxLines)]
<1>1. ASSUME NEW b \in BillId
      PROVE  /\ SumTo(all(b), MaxLines) = SumTo(old(b), MaxLines) + SumTo(new(b), MaxLines)
             /\ SumTo(all(b), MaxLines) \in Nat /\ SumTo(old(b), MaxLines) \in Nat
             /\ SumTo(new(b), MaxLines) \in Nat
  <2>1. \A s \in Slot : Owing(b, s) \in Nat
    BY OwingIsNat
  <2>2. /\ all(b) \in [1..MaxLines -> Nat] /\ old(b) \in [1..MaxLines -> Nat]
        /\ new(b) \in [1..MaxLines -> Nat]
    BY <2>1, Bounds
  <2>3. \A s \in 1..MaxLines : all(b)[s] = old(b)[s] + new(b)[s]
    BY <2>1, Bounds
  <2> HIDE DEF all, old, new
  <2>4. /\ all(b) \in [1..MaxLines -> Int] /\ old(b) \in [1..MaxLines -> Int]
        /\ new(b) \in [1..MaxLines -> Int]
    BY <2>2
  <2>. QED  BY <2>2, <2>3, <2>4, Bounds, SumAdd, SumIsNat
<1> HIDE DEF all, old, new
<1>2. /\ F \in [1..MaxBills -> Int] /\ G \in [1..MaxBills -> Int] /\ H \in [1..MaxBills -> Int]
      /\ \A b \in 1..MaxBills : H[b] = F[b] + G[b]
  BY <1>1, Bounds
<1> HIDE DEF F, G, H
<1>3. SumTo(H, MaxBills) = SumTo(F, MaxBills) + SumTo(G, MaxBills)
  BY <1>2, Bounds, SumAdd
<1>. QED  BY <1>3 DEF OwedOnItems, OwedOn, F, G, H, all, old, new

\* On all items together, what is owed is what the bills rolled up owe.
LEMMA OwedOnAll ==
  ASSUME TypeOK, LinesOfBills, NEW R \in SUBSET BillId
  PROVE  OwedOnItems(Outstanding(R), Item)
           = SumTo([b \in BillId |-> IF b \in R
                         THEN SumTo([s \in Slot |-> Owing(b, s)], MaxLines) ELSE 0], MaxBills)
<1> DEFINE lines == Outstanding(R)
           part(b) == [s \in Slot |->
             IF <<b, s>> \in lines /\ LineItem(<<b, s>>) \in Item THEN Owing(b, s) ELSE 0]
           whole(b) == [s \in Slot |-> Owing(b, s)]
           F == [b \in BillId |-> SumTo(part(b), MaxLines)]
           G == [b \in BillId |-> IF b \in R THEN SumTo(whole(b), MaxLines) ELSE 0]
<1>1. ASSUME NEW b \in BillId, NEW s \in Slot
      PROVE  part(b)[s] = IF b \in R THEN Owing(b, s) ELSE 0
  <2>1. Owing(b, s) \in Nat
    BY OwingIsNat
  <2>2. CASE <<b, s>> \in lines
    <3>1. LineItem(<<b, s>>) \in Item /\ b \in R
      BY <2>2, OutstandingIsUsed
    <3>. QED  BY <2>2, <3>1
  <2>3. CASE <<b, s>> \notin lines
    <3>1. b \in R => ~(Owing(b, s) > 0)
      BY <2>3 DEF Outstanding
    <3>2. b \in R => Owing(b, s) = 0
      BY <2>1, <3>1
    <3>. QED  BY <2>3, <3>2
  <2>. QED  BY <2>2, <2>3
<1>2. ASSUME NEW b \in BillId PROVE F[b] = G[b]
  <2>1. CASE b \in R
    <3>1. part(b) = whole(b)
      BY <1>1, <2>1
    <3>. QED  BY <2>1, <3>1
  <2>2. CASE b \notin R
    <3>1. part(b) \in [1..MaxLines -> Int] /\ \A s \in 1..MaxLines : part(b)[s] = 0
      BY <1>1, <2>2, Bounds
    <3> HIDE DEF part
    <3>2. SumTo(part(b), MaxLines) = 0
      BY <3>1, Bounds, SumOfZeros
    <3>. QED  BY <2>2, <3>2
  <2>. QED  BY <2>1, <2>2
<1>3. F = G
  BY <1>2, Zenon
<1>. QED  BY <1>3 DEF OwedOnItems

-----------------------------------------------------------------------------
(* What the slots of the new bill carry forward. *)

\* A listing of a set names each member once.
LEMMA OrderOnce ==
  ASSUME NEW S, IsFiniteSet(S), NEW o \in Orders(S),
         NEW i \in 1..Len(o), NEW j \in 1..Len(o), o[i] = o[j]
  PROVE  i = j
<1>1. /\ Len(o) = Cardinality(S) /\ Len(o) \in Nat /\ o \in [1..Len(o) -> S]
      /\ \A x \in S : \E k \in 1..Len(o) : o[k] = x
  BY OrderIsSeq
<1>2. IsFiniteSet(1..Len(o)) /\ Cardinality(1..Len(o)) = Len(o)
  BY <1>1, FS_Interval
<1>3. o \in Surjection(1..Len(o), S)
  BY <1>1 DEF Surjection
<1>4. o \in Injection(1..Len(o), S)
  BY <1>1, <1>2, <1>3, FS_SurjSameCardinalityImpliesInj
<1>. QED  BY <1>1, <1>4 DEF Injection, IsInjective

\* carries(s) is what slot s carries forward: all that is owed on its item if no slot
\* before it is of the same item, else nothing.
CarriesOnce(carries, item, m, lines) ==
  /\ \A s \in 1..m : carries[s] =
       IF \E t \in 1..(s - 1) : item[t] = item[s] THEN 0 ELSE OwedOn(lines, item[s])
  /\ \A s \in Slot : s > m => carries[s] = 0

\* After k slots, what is carried is what is owed on the items of those slots.
LEMMA CarriedSoFar ==
  ASSUME TypeOK, NEW lines, NEW m \in 0..MaxLines, NEW item,
         NEW carries \in [Slot -> Nat], CarriesOnce(carries, item, m, lines)
  PROVE  SumTo(carries, MaxLines) = OwedOnItems(lines, {item[t] : t \in 1..m})
<1> DEFINE seen(k) == {item[t] : t \in {u \in 1..m : u <= k}}
           owed == [k \in 0..MaxLines |-> OwedOnItems(lines, seen(k))]
<1>0. carries \in [1..MaxLines -> Int] /\ m \in Nat /\ MaxLines \in Nat /\ Slot = 1..MaxLines
  BY Bounds
<1>1. owed[0] = 0
  <2>1. seen(0) = {}
    BY <1>0
  <2>2. OwedOnItems(lines, seen(0)) = 0
    BY <2>1, OwedOnNone
  <2>. QED  BY <1>0, <2>2
<1>2. ASSUME NEW k \in 0..(MaxLines - 1) PROVE owed[k + 1] = owed[k] + carries[k + 1]
  <2>1. /\ k \in Nat /\ k \in 0..MaxLines /\ k + 1 \in 0..MaxLines /\ k + 1 \in Slot
        /\ (k + 1) - 1 = k
    BY <1>0
  <2>2. owed[k] = OwedOnItems(lines, seen(k)) /\ owed[k + 1] = OwedOnItems(lines, seen(k + 1))
    BY <2>1
  <2>3. OwedOnItems(lines, seen(k)) \in Int
    BY OwedOnItemsIsNat
  <2>4. CASE k + 1 > m
    <3>1. carries[k + 1] = 0
      BY <2>1, <2>4 DEF CarriesOnce
    <3>2. seen(k + 1) = seen(k)
      BY <1>0, <2>1, <2>4
    <3> HIDE DEF owed, seen
    <3>. QED  BY <2>2, <2>3, <3>1, <3>2
  <2>5. CASE k + 1 <= m
    <3>0. k + 1 \in 1..m
      BY <1>0, <2>1, <2>5
    <3>1. seen(k + 1) = seen(k) \cup {item[k + 1]}
      BY <1>0, <2>1, <3>0
    <3>2. item[k + 1] \in seen(k) <=> \E t \in 1..k : item[t] = item[k + 1]
      BY <1>0, <2>1, <3>0
    <3> HIDE DEF seen, owed
    <3>3. carries[k + 1] = IF item[k + 1] \in seen(k) THEN 0 ELSE OwedOn(lines, item[k + 1])
      BY <2>1, <3>0, <3>2 DEF CarriesOnce
    <3>4. CASE item[k + 1] \in seen(k)
      <4>1. seen(k + 1) = seen(k) /\ carries[k + 1] = 0
        BY <3>1, <3>3, <3>4
      <4>. QED  BY <2>2, <2>3, <4>1
    <3>5. CASE item[k + 1] \notin seen(k)
      <4>1. OwedOnItems(lines, seen(k + 1)) = OwedOnItems(lines, seen(k)) + OwedOn(lines, item[k + 1])
        BY <3>1, <3>5, OwedOnOneMore
      <4>. QED  BY <2>2, <3>3, <3>5, <4>1
    <3>. QED  BY <3>4, <3>5
  <2>6. k + 1 > m \/ k + 1 <= m
    BY <1>0, <2>1
  <2> HIDE DEF owed, seen
  <2>. QED  BY <2>4, <2>5, <2>6
<1>3. owed[MaxLines] = OwedOnItems(lines, {item[t] : t \in 1..m})
  <2>1. {u \in 1..m : u <= MaxLines} = 1..m
    BY <1>0
  <2>2. seen(MaxLines) = {item[t] : t \in 1..m}
    BY <2>1
  <2>3. owed[MaxLines] = OwedOnItems(lines, seen(MaxLines))
    BY <1>0
  <2> HIDE DEF owed, seen
  <2>. QED  BY <2>2, <2>3
<1> HIDE DEF owed
<1>4. SumTo(carries, MaxLines) = owed[MaxLines]
  BY <1>0, <1>1, <1>2, SumFollows
<1>. QED  BY <1>3, <1>4

\* The items that get a line of their own for arrears only.
CarriedAlone(charged, R) ==
  {LineItem(l) : l \in Outstanding(R)} \ {ItemOf[k] : k \in charged}

\* issue_bill: the arrears on the new bill add up to what the lines rolled up owe.
LEMMA ArrearsAreOwed ==
  ASSUME TypeOK, LinesOfBills, NEW b \in BillId, NEW charge \in [Kind -> Nat],
         NEW charged \in SUBSET Kind, NEW R \in SUBSET BillId,
         NEW carried \in SUBSET Item, carried = CarriedAlone(charged, R),
         NEW order \in Orders(charged), NEW route \in Orders(R), NEW tail \in Orders(carried),
         Cardinality(charged) + Cardinality(carried) <= MaxLines
  PROVE  LET ls == NewLines(b, order, charge, Outstanding(R), route, tail)
         IN SumTo([s \in Slot |-> ls[s].arrears], MaxLines) = OwedOnItems(Outstanding(R), Item)
<1> DEFINE lines == Outstanding(R)
           ls == NewLines(b, order, charge, lines, route, tail)
           carries == [s \in Slot |-> ls[s].arrears]
           m == Len(order) + Len(tail)
           item == [s \in 1..m |-> IF s <= Len(order) THEN ItemOf[order[s]] ELSE tail[s - Len(order)]]
<1>0. IsFiniteSet(charged) /\ IsFiniteSet(carried)
  BY LedgerConstants, FS_Subset
<1>1. /\ Len(order) \in Nat /\ order \in [1..Len(order) -> charged]
      /\ Len(order) = Cardinality(charged) /\ \A k \in charged : \E s \in 1..Len(order) : order[s] = k
  BY <1>0, OrderIsSeq
<1>2. /\ Len(tail) \in Nat /\ tail \in [1..Len(tail) -> carried]
      /\ Len(tail) = Cardinality(carried) /\ \A i \in carried : \E s \in 1..Len(tail) : tail[s] = i
  BY <1>0, OrderIsSeq
<1>3. m \in 0..MaxLines
  BY <1>1, <1>2, Bounds
<1>4. carries \in [Slot -> Nat]
  <2>0. carried \in SUBSET {LineItem(l) : l \in Outstanding(R)}
    BY DEF CarriedAlone
  <2>1. \A s \in Slot : GoodLine(ls[s])
    BY <2>0, NewLinesAreGood
  <2>. QED  BY <2>1 DEF GoodLine, LineRow
<1>5. ASSUME NEW s \in 1..m
      PROVE  carries[s] = IF \E t \in 1..(s - 1) : item[t] = item[s] THEN 0 ELSE OwedOn(lines, item[s])
  <2>1. s \in Slot /\ s \in Nat /\ m \in Nat
    BY <1>3, Bounds
  <2>2. CASE s <= Len(order)
    <3>1. item[s] = ItemOf[order[s]] /\ \A t \in 1..(s - 1) : item[t] = ItemOf[order[t]]
      <4>1. \A t \in 1..s : t \in 1..m /\ t <= Len(order)
        BY <1>1, <1>2, <2>1, <2>2
      <4>2. s \in 1..s /\ \A t \in 1..(s - 1) : t \in 1..s
        BY <2>1
      <4>. QED  BY <4>1, <4>2
    <3>2. ls[s].arrears = IF \E t \in 1..(s - 1) : ItemOf[order[t]] = ItemOf[order[s]] THEN 0
                          ELSE OwedOn(lines, ItemOf[order[s]])
      BY <2>1, <2>2 DEF NewLines
    <3>3. carries[s] = ls[s].arrears
      BY <2>1
    <3> HIDE DEF carries, ls, item, lines
    <3>. QED  BY <3>1, <3>2, <3>3
  <2>3. CASE s > Len(order)
    <3> DEFINE j == s - Len(order)
    <3>0. j \in 1..Len(tail)
      BY <1>1, <1>2, <2>1, <2>3
    <3>1. item[s] = tail[j] /\ tail[j] \in carried
      <4>1. ~(s <= Len(order))
        BY <1>1, <2>1, <2>3
      <4>2. item[s] = tail[j]
        BY <4>1
      <4>3. tail[j] \in carried
        BY <1>2, <3>0
      <4>. QED  BY <4>2, <4>3
    <3>2. ls[s].arrears = OwedOn(lines, tail[j])
      BY <1>1, <1>2, <2>1, <2>3 DEF NewLines
    <3>3. ASSUME NEW t \in 1..(s - 1) PROVE item[t] # item[s]
      <4>1. t \in 1..m /\ t < s
        BY <2>1
      <4>2. CASE t <= Len(order)
        <5>1. item[t] = ItemOf[order[t]] /\ order[t] \in charged
          BY <1>1, <4>1, <4>2
        <5>. QED  BY <3>1, <5>1 DEF CarriedAlone
      <4>3. CASE t > Len(order)
        <5>1. item[t] = tail[t - Len(order)] /\ t - Len(order) \in 1..Len(tail)
          BY <1>1, <1>2, <4>1, <4>3
        <5>2. tail[t - Len(order)] = tail[j] => t - Len(order) = j
          BY <1>0, <3>0, <5>1, OrderOnce
        <5>. QED  BY <1>1, <2>1, <3>1, <4>1, <5>1, <5>2
      <4>. QED  BY <1>1, <4>1, <4>2, <4>3
    <3>4. carries[s] = ls[s].arrears
      BY <2>1
    <3> HIDE DEF carries, ls, item, lines, j
    <3>. QED  BY <3>1, <3>2, <3>3, <3>4
  <2>4. s <= Len(order) \/ s > Len(order)
    BY <1>1, <2>1
  <2> HIDE DEF carries, item, lines
  <2>. QED  BY <2>2, <2>3, <2>4
<1>6. ASSUME NEW s \in Slot, s > m PROVE carries[s] = 0
  <2>1. ls[s] = NoLine
    BY <1>1, <1>2, <1>6, Bounds DEF NewLines
  <2>. QED  BY <2>1 DEF NoLine
<1>7. {item[t] : t \in 1..m} = {LineItem(l) : l \in lines} \cup {ItemOf[k] : k \in charged}
  <2>1. ASSUME NEW t \in 1..m
        PROVE  item[t] \in {LineItem(l) : l \in lines} \cup {ItemOf[k] : k \in charged}
    <3>1. CASE t <= Len(order)
      BY <1>1, <3>1
    <3>2. CASE t > Len(order)
      <4>1. item[t] = tail[t - Len(order)] /\ t - Len(order) \in 1..Len(tail)
        BY <1>1, <1>2, <3>2
      <4>. QED  BY <1>2, <4>1 DEF CarriedAlone
    <3>3. t <= Len(order) \/ t > Len(order)
      BY <1>1, <1>2
    <3>. QED  BY <3>1, <3>2, <3>3
  <2>2. ASSUME NEW k \in charged PROVE \E t \in 1..m : item[t] = ItemOf[k]
    <3>1. PICK t \in 1..Len(order) : order[t] = k
      BY <1>1
    <3>2. t \in 1..m /\ item[t] = ItemOf[k]
      BY <1>1, <1>2, <3>1
    <3>. QED  BY <3>2
  <2>3. ASSUME NEW i \in carried PROVE \E t \in 1..m : item[t] = i
    <3>1. PICK u \in 1..Len(tail) : tail[u] = i
      BY <1>2
    <3>2. /\ u + Len(order) \in 1..m /\ ~(u + Len(order) <= Len(order))
          /\ (u + Len(order)) - Len(order) = u
      BY <1>1, <1>2
    <3>3. item[u + Len(order)] = i
      BY <3>1, <3>2
    <3>. QED  BY <3>2, <3>3
  <2> HIDE DEF item, m, lines
  <2>4. {LineItem(l) : l \in lines} \subseteq carried \cup {ItemOf[k] : k \in charged}
    BY DEF lines, CarriedAlone
  <2>. QED  BY <2>1, <2>2, <2>3, <2>4
<1>8. CarriesOnce(carries, item, m, lines)
  <2> HIDE DEF carries, item, m, lines
  <2>. QED  BY <1>5, <1>6 DEF CarriesOnce
<1> HIDE DEF carries, item, m, lines
<1>9. SumTo(carries, MaxLines) = OwedOnItems(lines, {item[t] : t \in 1..m})
  BY <1>3, <1>4, <1>8, CarriedSoFar
<1>10. OwedOnItems(lines, {item[t] : t \in 1..m}) = OwedOnItems(lines, Item)
  <2>1. \A x \in BillId, s \in Slot : <<x, s>> \in lines =>
          LineItem(<<x, s>>) \in Item /\ LineItem(<<x, s>>) \in {item[t] : t \in 1..m}
    BY <1>7, OutstandingIsUsed DEF lines
  <2>. QED  BY <2>1 DEF OwedOnItems
<1>. QED  BY <1>9, <1>10 DEF carries, lines

-----------------------------------------------------------------------------
(* What the payer owes, before and after. *)

\* A bill id not used yet has no payments, so its new lines owe all they are billed for.
LEMMA NewBillOwesAll ==
  ASSUME LedgerInv, NEW n \in BillId, bill[n].status = "NONE", payment' = payment,
         line' \in [BillId -> [Slot -> LineRow]], NEW s \in Slot
  PROVE  Owing(n, s)' = LineAmount(line'[n][s])
<1> DEFINE f == [p \in PaymentId |-> IF CountsOn(p, n)' THEN payment'[p].alloc[s] ELSE 0]
<1>1. \A p \in PaymentId : ~CountsOn(p, n)'
  BY DEF LedgerInv, PaymentsOfBills, CountsOn, Exists
<1>2. PaidOn(n, s)' = SumTo(f, MaxPayments)
  BY DEF PaidOn
<1>3. f \in [1..MaxPayments -> Int] /\ \A p \in 1..MaxPayments : f[p] = 0
  BY <1>1 DEF PaymentId
<1> HIDE DEF f
<1>4. SumTo(f, MaxPayments) = 0
  BY <1>3, LedgerConstants, SumOfZeros
<1>5. LineAmount(line'[n][s]) \in Nat
  BY DEF LineRow, LineAmount
<1>. QED  BY <1>2, <1>4, <1>5 DEF Owing, Positive

\* Issuing to payer c, rolled or not, raises what c owes by the fresh charges.
LEMMA IssueOwed ==
  ASSUME LedgerInv, BillAgreesWithLines, NEW n \in BillId, NEW c \in Payer,
         NEW ask \in [Kind -> AskAmounts \cup {0}], NEW sweep \in BOOLEAN, NEW roll \in BOOLEAN,
         NEW force \in Forcing, NEW due \in DueDates,
         Next, IssueBill(n, c, ask, sweep, roll, force, due)
  PROVE  OwedBy(c)' = OwedBy(c) + SumTo([s \in Slot |-> line'[n][s].current], MaxLines)
<1> DEFINE charge == Charge(c, ask, sweep)
           charged == {k \in Kind : charge[k] > 0}
           rolled == IF roll THEN OpenOf(c) ELSE {}
           lines == Outstanding(rolled)
           carried == {LineItem(l) : l \in lines} \ {ItemOf[k] : k \in charged}
<1>0. /\ TypeOK /\ LinesOfBills /\ bill \in [BillId -> BillRow] /\ line \in [BillId -> [Slot -> LineRow]]
      /\ LedgerInv' /\ TypeOK' /\ line' \in [BillId -> [Slot -> LineRow]] /\ BillAgreesWithLines'
  <2>1. LedgerInv' /\ BillAgreesWithLines'
    BY StepKeeps, AgreesKept
  <2>. QED  BY <2>1 DEF LedgerInv, TypeOK
<1>1. ask \in [Kind -> Nat] /\ force \in BOOLEAN /\ due \in Nat /\ charge \in [Kind -> Nat]
  <2>1. AskAmounts \cup {0} \subseteq Nat /\ DueDates \subseteq Nat /\ Forcing \subseteq BOOLEAN
    BY LedgerConstants
  <2>2. ask \in [Kind -> Nat]
    BY <2>1
  <2>. QED  BY <1>0, <2>1, <2>2 DEF Charge, TypeOK
<1>2. rolled \in SUBSET BillId /\ rolled \subseteq OpenOf(c)
  BY DEF OpenOf
<1>3. /\ NextBill(n) /\ payment' = payment
      /\ Cardinality(charged) + Cardinality(carried) <= MaxLines
  BY DEF IssueBill
<1>4. PICK order \in Orders(charged), route \in Orders(rolled), tail \in Orders(carried) :
        LET ls == NewLines(n, order, charge, lines, route, tail)
        IN /\ bill' = [x \in BillId |->
                 IF x = n THEN Recompute(NewRow(c, due, roll), ls)
                 ELSE IF x \in rolled
                   THEN [bill[x] EXCEPT !.status = "SUPERSEDED", !.supersededBy = n]
                 ELSE bill[x]]
           /\ line' = [line EXCEPT ![n] = ls]
  BY DEF IssueBill
<1> DEFINE ls == NewLines(n, order, charge, lines, route, tail)
<1>5. SumTo([s \in Slot |-> ls[s].arrears], MaxLines) = OwedOnItems(lines, Item)
  <2>1. carried = CarriedAlone(charged, rolled)
    BY DEF CarriedAlone
  <2>2. carried \in SUBSET Item
    BY <1>0, <1>2, OutstandingIsUsed
  <2>3. charged \in SUBSET Kind
    OBVIOUS
  <2>4. TypeOK /\ LinesOfBills /\ charge \in [Kind -> Nat] /\ rolled \in SUBSET BillId
    BY <1>0, <1>1, <1>2
  <2>5. Cardinality(charged) + Cardinality(carried) <= MaxLines
    BY <1>3
  <2> HIDE DEF carried, charged, charge, rolled
  <2>. QED  BY <2>1, <2>2, <2>3, <2>4, <2>5, ArrearsAreOwed
<1> HIDE DEF ls, carried, charged, charge
<1>6. line'[n] = ls /\ \A x \in BillId \ {n} : line'[x] = line[x]
  BY <1>0, <1>4 DEF ls
<1>7. bill[n].status = "NONE" /\ n \notin OpenOf(c)
  BY <1>3, LedgerConstants DEF NextBill, BillId, OpenOf, OpenStatus
<1>8. bill'[n].payer = c /\ bill'[n].status \in OpenStatus
  <2>1. PICK R \in SUBSET BillId : Issues(n, c, R)
    BY <1>1, IssueBillKeeps
  <2>2. /\ bill'[n].payer = c /\ bill'[n].paid = 0 /\ bill'[n].status \in OpenStatus \cup {"PAID"}
    BY <2>1 DEF Issues
  <2>3. Live(n)' /\ Exists(n)'
    BY <2>2 DEF Live, Exists, OpenStatus, TerminalStatus
  <2>4. bill'[n].status = "PAID" => bill'[n].paid >= bill'[n].total /\ bill'[n].total > 0
    BY <1>0, <2>3 DEF BillAgreesWithLines
  <2>5. bill'[n].total \in Nat
    BY <1>0 DEF TypeOK, BillRow
  <2>. QED  BY <2>2, <2>4, <2>5
<1>9. ASSUME NEW x \in BillId
      PROVE  x \in OpenOf(c)' <=> x = n \/ (x \in OpenOf(c) /\ x \notin rolled)
  <2>1. CASE x = n
    BY <1>8, <2>1 DEF OpenOf
  <2>2. CASE x # n /\ x \in rolled
    <3>1. bill'[x] = [bill[x] EXCEPT !.status = "SUPERSEDED", !.supersededBy = n] /\ bill[x] \in BillRow
      BY <1>0, <1>4, <2>2
    <3>2. bill'[x].status = "SUPERSEDED"
      BY <3>1 DEF BillRow
    <3>. QED  BY <2>2, <3>2 DEF OpenOf, OpenStatus
  <2>3. CASE x # n /\ x \notin rolled
    <3>1. bill'[x] = bill[x]
      BY <1>4, <2>3
    <3>. QED  BY <2>3, <3>1 DEF OpenOf
  <2>. QED  BY <2>1, <2>2, <2>3
<1>10. ASSUME NEW x \in BillId \ {n}, NEW s \in Slot PROVE Owing(x, s)' = Owing(x, s)
  BY <1>3, <1>6 DEF Owing, PaidOn, CountsOn
<1>11. \A s \in Slot : Owing(n, s)' = ls[s].current + ls[s].arrears
  BY <1>0, <1>3, <1>6, <1>7, NewBillOwesAll DEF LineAmount
<1> DEFINE owes(x) == SumTo([s \in Slot |-> Owing(x, s)], MaxLines)
           before == [x \in BillId |-> IF x \in OpenOf(c) THEN owes(x) ELSE 0]
           moved == [x \in BillId |-> IF x \in rolled THEN owes(x) ELSE 0]
           stays == [x \in BillId |-> IF x \in OpenOf(c) /\ x \notin rolled THEN owes(x) ELSE 0]
           after == [x \in BillId |-> IF x \in OpenOf(c)'
                                      THEN SumTo([s \in Slot |-> Owing(x, s)'], MaxLines) ELSE 0]
           fresh == SumTo([s \in Slot |-> ls[s].current], MaxLines)
           arrears == SumTo([s \in Slot |-> ls[s].arrears], MaxLines)
<1>12. \A x \in BillId : owes(x) \in Nat
  <2>1. ASSUME NEW x \in BillId PROVE [s \in Slot |-> Owing(x, s)] \in [1..MaxLines -> Nat]
    BY <1>0, OwingIsNat, Bounds
  <2>. QED  BY <2>1, Bounds, SumIsNat
<1>13. fresh \in Nat /\ arrears \in Nat /\ after[n] = fresh + arrears
  <2> DEFINE F == [s \in Slot |-> ls[s].current]
             G == [s \in Slot |-> ls[s].arrears]
             H == [s \in Slot |-> Owing(n, s)']
  <2>1. \A s \in Slot : ls[s].current \in Nat /\ ls[s].arrears \in Nat
    BY <1>0, <1>6 DEF LineRow
  <2>2. F \in [1..MaxLines -> Nat] /\ G \in [1..MaxLines -> Nat]
    BY <2>1, Bounds
  <2>3. H \in [1..MaxLines -> Int] /\ \A s \in 1..MaxLines : H[s] = F[s] + G[s]
    BY <1>11, <2>1, Bounds
  <2>4. after[n] = SumTo(H, MaxLines)
    BY <1>9
  <2> HIDE DEF F, G, H
  <2>5. F \in [1..MaxLines -> Int] /\ G \in [1..MaxLines -> Int]
    BY <2>2
  <2>6. SumTo(H, MaxLines) = SumTo(F, MaxLines) + SumTo(G, MaxLines)
    BY <2>3, <2>5, Bounds, SumAdd
  <2>7. SumTo(F, MaxLines) \in Nat /\ SumTo(G, MaxLines) \in Nat
    BY <2>2, Bounds, SumIsNat
  <2> HIDE DEF after
  <2>. QED  BY <2>4, <2>6, <2>7 DEF F, G
<1>14. \A x \in BillId \ {n} : after[x] = stays[x]
  <2>1. ASSUME NEW x \in BillId \ {n}
        PROVE  [s \in Slot |-> Owing(x, s)'] = [s \in Slot |-> Owing(x, s)]
    BY <1>10
  <2>. QED  BY <1>9, <2>1
<1>15. stays[n] = 0
  BY <1>7
<1>16. /\ before \in [1..MaxBills -> Int] /\ moved \in [1..MaxBills -> Int]
       /\ stays \in [1..MaxBills -> Int] /\ n \in 1..MaxBills
       /\ \A x \in 1..MaxBills : before[x] = stays[x] + moved[x]
  <2> HIDE DEF owes, rolled
  <2>. QED  BY <1>2, <1>12, Bounds
<1>17. after \in [1..MaxBills -> Int]
  <2>1. DOMAIN after = 1..MaxBills /\ after = [x \in 1..MaxBills |-> after[x]]
    BY Bounds
  <2> HIDE DEF after, stays, fresh, arrears
  <2>2. \A x \in 1..MaxBills : after[x] \in Int
    BY <1>13, <1>14, <1>16, Bounds
  <2>. QED  BY <2>1, <2>2
<1>18. SumTo(moved, MaxBills) = arrears
  BY <1>0, <1>2, <1>5, OwedOnAll
<1>19. OwedBy(c) = SumTo(before, MaxBills)
  BY DEF OwedBy
<1>20. OwedBy(c)' = SumTo(after, MaxBills)
  BY DEF OwedBy
<1>21. fresh = SumTo([s \in Slot |-> line'[n][s].current], MaxLines)
  BY <1>6
<1> HIDE DEF before, moved, stays, after, fresh, arrears, owes
<1>22. SumTo(before, MaxBills) = SumTo(stays, MaxBills) + SumTo(moved, MaxBills)
  BY <1>16, Bounds, SumAdd
<1>23. SumTo(after, MaxBills) = SumTo(stays, MaxBills) + (after[n] - stays[n])
  <2>1. \A x \in 1..MaxBills : x # n => after[x] = stays[x]
    BY <1>14, Bounds
  <2>. QED  BY <1>16, <1>17, <2>1, Bounds, SumUpdate
<1>24. SumTo(stays, MaxBills) \in Int
  <2>1. MaxBills \in 0..MaxBills
    BY Bounds
  <2>. QED  BY <1>16, <2>1, Bounds, SumInt
<1>. QED  BY <1>13, <1>15, <1>18, <1>19, <1>20, <1>21, <1>22, <1>23, <1>24

\* Every step but issuing and destroying leaves each row what it is but for amounts and
\* status.
LEMMA OtherStepsSettle ==
  ASSUME LedgerInv, Next, ~Issue, \A d \in BillId : ~DestroyBill(d)
  PROVE  Settles
<1>0. EditAmounts \subseteq Nat /\ PayAmounts \subseteq Nat
  BY LedgerConstants
<1>1. CASE EditLines
  BY <1>0, <1>1, AddBillLineKeeps, UpdateBillLineKeeps, DeleteBillLineKeeps DEF EditLines, Settles
<1>2. CASE \E p \in PaymentId, b \in BillId, amount \in PayAmounts : PostPayment(p, b, amount)
  BY <1>0, <1>2, PostPaymentKeeps DEF Settles
<1>3. CASE \E p \in PaymentId : ReversePayment(p)
  BY <1>3, ReversePaymentKeeps DEF Settles
<1>. QED
  BY <1>1, <1>2, <1>3, RefreshDebtKeeps, EscalateKeeps, NextDayKeeps DEF Next

\* Consolidation never double-counts and never forgives: whatever issue_bill rolls up,
\* sweeps or merges, the payer owes afterwards what was owed before plus the fresh
\* charges on the new bill.
THEOREM FreshChargesOnly == Spec => IssueAddsFreshChargesOnly
<1>1. LedgerInv /\ BillAgreesWithLines /\ [Next]_vars =>
        \A b \in BillId, c \in Payer :
          bill[b].status = "NONE" /\ bill'[b].status # "NONE" /\ bill'[b].payer = c =>
            OwedBy(c)' = OwedBy(c) + SumTo([s \in Slot |-> line'[b][s].current], MaxLines)
  <2> SUFFICES ASSUME LedgerInv, BillAgreesWithLines, [Next]_vars, NEW b \in BillId, NEW c \in Payer,
                      bill[b].status = "NONE", bill'[b].status # "NONE", bill'[b].payer = c
               PROVE  OwedBy(c)' = OwedBy(c) + SumTo([s \in Slot |-> line'[b][s].current], MaxLines)
    OBVIOUS
  <2>0. TypeOK
    BY DEF LedgerInv
  <2>1. ~Settles
    BY DEF Settles, Settled, OpenStatus
  <2>2. ASSUME NEW d \in BillId PROVE ~DestroyBill(d)
    <3>1. SUFFICES ASSUME DestroyBill(d) PROVE FALSE
      OBVIOUS
    <3>2. b = d
      BY <2>0, <3>1, DestroyedRows
    <3>. QED  BY <3>1, <3>2 DEF DestroyBill, Exists
  <2>3. Next
    BY <2>1, StutterKeeps
  <2>4. CASE Issue
    <3>1. PICK n \in BillId, d \in Payer, ask \in [Kind -> AskAmounts \cup {0}],
               sweep \in BOOLEAN, roll \in BOOLEAN, force \in Forcing, due \in DueDates :
                 IssueBill(n, d, ask, sweep, roll, force, due)
      BY <2>4 DEF Issue
    <3>2. ask \in [Kind -> Nat] /\ force \in BOOLEAN /\ due \in Nat
      <4>1. AskAmounts \cup {0} \subseteq Nat /\ DueDates \subseteq Nat /\ Forcing \subseteq BOOLEAN
        BY LedgerConstants
      <4>. QED  BY <4>1
    <3>3. PICK R \in SUBSET BillId : Issues(n, d, R)
      BY <3>1, <3>2, IssueBillKeeps
    <3>4. b = n
      <4>1. b \notin R
        BY <3>3 DEF Issues, OpenOf, OpenStatus
      <4>. QED  BY <3>3, <4>1 DEF Issues
    <3>5. c = d
      BY <3>3, <3>4 DEF Issues
    <3>. QED  BY <2>3, <3>1, <3>4, <3>5, IssueOwed
  <2>5. CASE ~Issue
    <3>1. Settles
      BY <2>2, <2>3, <2>5, OtherStepsSettle
    <3>. QED  BY <2>1, <3>1
  <2>. QED  BY <2>4, <2>5
<1>. QED  BY Invariance, BillsAgree, <1>1, PTL DEF Spec, IssueAddsFreshChargesOnly

-----------------------------------------------------------------------------
(* The bill ledger implements Collections, as long as no administrator     *)
(* edits the lines of a bill: the handlers of apps/payments/services.py    *)
(* and apps/billing/services.py move money exactly as an account in double *)
(* entry does.  The strengthening says, line by line, that nothing is      *)
(* overpaid and that a bill's amount_paid is what its lines were paid; so  *)
(* what a live bill still owes is its total less its amount_paid, a paid   *)
(* bill owes nothing, and a payment moves both sides by the same amount.   *)

\* What the lines of a bill were paid, and what they still owe.
PaidLines(b) == SumTo([s \in Slot |-> PaidOn(b, s)], MaxLines)
OwingLines(b) == SumTo([s \in Slot |-> Owing(b, s)], MaxLines)

NoLineOverpaid == \A b \in BillId, s \in Slot : PaidOn(b, s) <= LineAmount(line[b][s])
PaidLineByLine == \A b \in BillId : bill[b].paid = PaidLines(b)
NoneCancelled == \A b \in BillId : bill[b].status # "CANCELLED"

AccountInv ==
  /\ LedgerInv /\ BillAgreesWithLines
  /\ NoLineOverpaid /\ PaidLineByLine /\ NoneCancelled

-----------------------------------------------------------------------------
(* What a payment and its reversal do to the rows. *)

\* post_payment leaves the other bills' lines as they were paid.
LEMMA PostingElsewhere ==
  ASSUME TypeOK, NEW p \in PaymentId, NEW b \in BillId, NEW amount \in Nat,
         payment[p].status = "NONE", PostPayment(p, b, amount),
         NEW x \in BillId \ {b}, NEW s \in Slot
  PROVE  PaidOn(x, s)' = PaidOn(x, s)
<1>1. /\ payment'[p].bill = b /\ \A q \in PaymentId \ {p} : payment'[q] = payment[q]
  BY DEF PostPayment, TypeOK
<1>2. [q \in PaymentId |-> IF CountsOn(q, x)' THEN payment'[q].alloc[s] ELSE 0]
      = [q \in PaymentId |-> IF CountsOn(q, x) THEN payment[q].alloc[s] ELSE 0]
  BY <1>1 DEF CountsOn
<1>. QED  BY <1>2 DEF PaidOn

\* reverse_payment takes from each line what the payment had put there: its
\* allocations stop counting, and all the others go on doing so.
LEMMA ReversingSubtracts ==
  ASSUME TypeOK, NEW p \in PaymentId, payment[p].bill \in BillId, ReversePayment(p),
         NEW x \in BillId, NEW s \in Slot
  PROVE  /\ PaidOn(x, s)' = PaidOn(x, s)
                            - (IF x = payment[p].bill THEN payment[p].alloc[s] ELSE 0)
         /\ x = payment[p].bill => payment[p].alloc[s] <= PaidOn(x, s)
<1> DEFINE f == [q \in PaymentId |-> IF CountsOn(q, x) THEN payment[q].alloc[s] ELSE 0]
           g == [q \in PaymentId |-> IF CountsOn(q, x)' THEN payment'[q].alloc[s] ELSE 0]
           part == IF x = payment[p].bill THEN payment[p].alloc[s] ELSE 0
<1>0. MaxPayments \in Nat /\ PaymentId = 1..MaxPayments
  BY LedgerConstants DEF PaymentId
<1>1. f \in [1..MaxPayments -> Nat] /\ part \in Nat
  <2>1. \A q \in PaymentId : payment[q].alloc[s] \in Nat
    BY DEF TypeOK, PaymentRow
  <2>. QED  BY <1>0, <2>1
<1>2. /\ payment[p].status = "CONFIRMED" /\ payment'[p].status = "REVERSED"
      /\ \A q \in PaymentId \ {p} : payment'[q] = payment[q]
  <2>1. payment \in [PaymentId -> PaymentRow] /\ payment[p] \in PaymentRow
    BY DEF TypeOK
  <2>2. /\ payment[p].status = "CONFIRMED"
        /\ payment' = [payment EXCEPT ![p] = [payment[p] EXCEPT !.status = "REVERSED"]]
    BY <2>1 DEF ReversePayment
  <2>3. [payment[p] EXCEPT !.status = "REVERSED"].status = "REVERSED"
    BY <2>1 DEF PaymentRow
  <2>. QED  BY <2>1, <2>2, <2>3
<1>3. f[p] = part /\ g[p] = 0
  BY <1>2 DEF CountsOn
<1>4. \A q \in PaymentId \ {p} : g[q] = f[q]
  BY <1>2 DEF CountsOn
<1>5. g \in [1..MaxPayments -> Nat]
  BY <1>0, <1>1, <1>3, <1>4
<1>6. PaidOn(x, s) = SumTo(f, MaxPayments) /\ PaidOn(x, s)' = SumTo(g, MaxPayments)
  BY DEF PaidOn
<1> HIDE DEF f, g, part
<1>7. f \in [1..MaxPayments -> Int] /\ g \in [1..MaxPayments -> Int] /\ p \in 1..MaxPayments
      /\ \A q \in 1..MaxPayments : q # p => g[q] = f[q]
  BY <1>0, <1>1, <1>4, <1>5
<1>8. SumTo(g, MaxPayments) = SumTo(f, MaxPayments) + (g[p] - f[p])
  BY <1>0, <1>7, SumUpdate
<1>9. SumTo(f, MaxPayments) \in Nat /\ SumTo(g, MaxPayments) \in Nat
  BY <1>0, <1>1, <1>5, SumIsNat
<1>10. PaidOn(x, s)' = PaidOn(x, s) - part /\ part <= PaidOn(x, s)
  BY <1>1, <1>3, <1>6, <1>8, <1>9
<1>. QED  BY <1>10 DEF part

\* A list of rows that changes by the same parts as another one, in sum too.
LEMMA SumMoves ==
  ASSUME NEW f \in [Slot -> Nat], NEW part \in [Slot -> Nat], NEW g \in [Slot -> Nat],
         \A s \in Slot : g[s] = f[s] + part[s]
  PROVE  SumTo(g, MaxLines) = SumTo(f, MaxLines) + SumTo(part, MaxLines)
<1>1. f \in [1..MaxLines -> Int] /\ g \in [1..MaxLines -> Int] /\ part \in [1..MaxLines -> Int]
      /\ \A s \in 1..MaxLines : g[s] = f[s] + part[s]
  BY Bounds
<1>. QED  BY <1>1, Bounds, SumAdd

\* What post_payment writes: the bill's amount_paid grows by what was applied, and
\* nothing else of any row changes but the status of that bill.
LEMMA PostedRows ==
  ASSUME LedgerInv, NEW p \in PaymentId, NEW b \in BillId, NEW amount \in Nat,
         PostPayment(p, b, amount)
  PROVE  /\ payment[p].status = "NONE" /\ Live(b)
         /\ payment' = [payment EXCEPT ![p] =
              [bill |-> b, amount |-> amount, status |-> "CONFIRMED", alloc |-> Allocation(b, amount)]]
         /\ bill'[b].paid = bill[b].paid + Applied(Allocation(b, amount))
         /\ \A x \in BillId \ {b} : bill'[x] = bill[x]
         /\ line' = line
<1> DEFINE r == [bill[b] EXCEPT !.paid = @ + Applied(Allocation(b, amount))]
<1>0. TypeOK /\ Applied(Allocation(b, amount)) \in Nat
  BY AllocationFits DEF LedgerInv
<1>1. payment[p].status = "NONE"
  BY <1>0, LedgerConstants DEF PostPayment, NextPayment, PaymentId
<1>2. bill[b] \in BillRow /\ bill[b].paid \in Nat /\ bill \in [BillId -> BillRow]
  BY <1>0, PaidInNat DEF TypeOK
<1>3. bill' = [bill EXCEPT ![b] = Recompute(r, line[b])] /\ Live(b)
  BY DEF PostPayment, Paid
<1>4. r \in BillRow /\ r.paid = bill[b].paid + Applied(Allocation(b, amount))
      /\ r.status = bill[b].status
  BY <1>0, <1>2 DEF BillRow
<1> HIDE DEF r
<1>5. Recompute(r, line[b]).paid = r.paid
  BY <1>0, <1>3, <1>4, RecomputeSettles DEF TypeOK, Live, Exists
<1>. QED  BY <1>1, <1>2, <1>3, <1>4, <1>5 DEF PostPayment

\* What reverse_payment writes: the bill's amount_paid falls by what had been applied.
LEMMA ReversedRows ==
  ASSUME LedgerInv, NEW p \in PaymentId, ReversePayment(p)
  PROVE  /\ payment[p].status = "CONFIRMED" /\ payment[p].bill \in BillId /\ Exists(payment[p].bill)
         /\ AppliedBy(p) \in Nat /\ AppliedBy(p) <= bill[payment[p].bill].paid
         /\ bill'[payment[p].bill].paid = bill[payment[p].bill].paid - AppliedBy(p)
         /\ \A x \in BillId \ {payment[p].bill} : bill'[x] = bill[x]
         /\ payment' = [payment EXCEPT ![p].status = "REVERSED"] /\ line' = line
<1> DEFINE b == payment[p].bill
           r == [bill[b] EXCEPT !.paid = Positive(@ - AppliedBy(p))]
<1>0. TypeOK /\ MaxPayments \in Nat /\ payment[p].status = "CONFIRMED"
  BY LedgerConstants DEF LedgerInv, ReversePayment
<1>1. b \in BillId /\ Exists(b)
  BY <1>0 DEF LedgerInv, PaymentsOfBills
<1>2. AppliedBy(p) \in Nat
  BY <1>0, SumOfAllocation DEF TypeOK, PaymentRow, AppliedBy
<1>3. bill[b] \in BillRow /\ bill[b].paid \in Nat /\ bill \in [BillId -> BillRow]
  BY <1>0, <1>1, PaidInNat DEF TypeOK
<1>4. AppliedBy(p) <= bill[b].paid
  <2>1. PutOn(b) \in [1..MaxPayments -> Nat] /\ p \in 1..MaxPayments
    BY <1>0, PutOnIsNat DEF PaymentId
  <2>2. PutOn(b)[p] = AppliedBy(p)
    BY <1>0 DEF PutOn, CountsOn, AppliedBy
  <2>3. PutOn(b)[p] <= SumTo(PutOn(b), MaxPayments)
    BY <1>0, <2>1, SumMember
  <2>. QED  BY <1>1, <2>2, <2>3 DEF LedgerInv, PaidIsAllocated
<1>5. bill' = [bill EXCEPT ![b] = Recompute(r, line[b])]
  BY DEF ReversePayment
<1>6. r \in BillRow /\ r.paid = bill[b].paid - AppliedBy(p) /\ r.status = bill[b].status
  <2>1. Positive(bill[b].paid - AppliedBy(p)) = bill[b].paid - AppliedBy(p)
        /\ bill[b].paid - AppliedBy(p) \in Nat
    BY <1>2, <1>3, <1>4 DEF Positive
  <2>. QED  BY <1>3, <2>1 DEF BillRow
<1> HIDE DEF r
<1>7. Recompute(r, line[b]).paid = r.paid
  BY <1>0, <1>1, <1>6, RecomputeSettles DEF TypeOK, Exists
<1> HIDE DEF b
<1>8. bill'[b] = Recompute(r, line[b]) /\ \A x \in BillId \ {b} : bill'[x] = bill[x]
  BY <1>1, <1>3, <1>5
<1>. QED  BY <1>0, <1>1, <1>2, <1>4, <1>6, <1>7, <1>8 DEF b, ReversePayment

-----------------------------------------------------------------------------
(* The strengthened invariant. *)

\* A line of a bill that no payment names was paid nothing.
LEMMA NothingPaid ==
  ASSUME TypeOK, NEW b \in BillId, \A p \in PaymentId : payment[p].bill # b, NEW s \in Slot
  PROVE  PaidOn(b, s) = 0
<1> DEFINE f == [p \in PaymentId |-> IF CountsOn(p, b) THEN payment[p].alloc[s] ELSE 0]
<1>1. MaxPayments \in Nat /\ f \in [1..MaxPayments -> Int] /\ \A p \in 1..MaxPayments : f[p] = 0
  BY LedgerConstants DEF CountsOn, PaymentId
<1>2. PaidOn(b, s) = SumTo(f, MaxPayments)
  BY DEF PaidOn
<1> HIDE DEF f
<1>. QED  BY <1>1, <1>2, SumOfZeros

\* A bill that is no row, or not yet one, has no payments (payment.bill is a foreign key).
LEMMA NoRowNoPayments ==
  ASSUME LedgerInv, NEW b \in BillId, ~Exists(b)
  PROVE  \A p \in PaymentId : payment[p].bill # b
<1>1. ASSUME NEW p \in PaymentId, payment[p].bill = b PROVE FALSE
  <2>1. b # 0
    BY DEF BillId
  <2>. QED  BY <1>1, <2>1 DEF LedgerInv, PaymentsOfBills, NoPayment
<1>. QED  BY <1>1

\* A handler that neither takes nor returns money, and rewrites only the lines of bills
\* nothing was paid on, leaves every line paid as it was.
LEMMA LinesStayPaid ==
  ASSUME AccountInv, TypeOK', UNCHANGED payment,
         \A x \in BillId : bill'[x].paid = bill[x].paid,
         \A x \in BillId : line'[x] = line[x] \/ \A p \in PaymentId : payment[p].bill # x
  PROVE  NoLineOverpaid' /\ PaidLineByLine'
<1>0. TypeOK
  BY DEF AccountInv, LedgerInv
<1>1. \A x \in BillId, s \in Slot : PaidOn(x, s)' = PaidOn(x, s)
  BY DEF PaidOn, CountsOn
<1>2. ASSUME NEW x \in BillId, NEW s \in Slot
      PROVE  PaidOn(x, s)' <= LineAmount(line'[x][s])
  <2>1. CASE line'[x] = line[x]
    BY <1>1, <2>1 DEF AccountInv, NoLineOverpaid
  <2>2. CASE \A p \in PaymentId : payment[p].bill # x
    <3>1. PaidOn(x, s) = 0
      BY <1>0, <2>2, NothingPaid
    <3>2. line'[x][s] \in LineRow
      BY DEF TypeOK
    <3>3. LineAmount(line'[x][s]) \in Nat
      BY <3>2 DEF LineRow, LineAmount
    <3>. QED  BY <1>1, <3>1, <3>3
  <2>. QED  BY <2>1, <2>2
<1>3. ASSUME NEW x \in BillId PROVE bill'[x].paid = PaidLines(x)'
  <2>1. [s \in Slot |-> PaidOn(x, s)'] = [s \in Slot |-> PaidOn(x, s)]
    BY <1>1
  <2>. QED  BY <2>1 DEF PaidLines, AccountInv, PaidLineByLine
<1>. QED  BY <1>2, <1>3 DEF NoLineOverpaid, PaidLineByLine

\* post_payment pays no line beyond its amount, and books on the bill what it puts on
\* its lines.
LEMMA PostingKeepsLines ==
  ASSUME AccountInv, NEW p \in PaymentId, NEW b \in BillId, NEW amount \in Nat,
         PostPayment(p, b, amount)
  PROVE  NoLineOverpaid' /\ PaidLineByLine'
<1> DEFINE alloc == Allocation(b, amount)
<1>0. TypeOK /\ LedgerInv
  BY DEF AccountInv, LedgerInv
<1>1. /\ payment[p].status = "NONE" /\ line' = line
      /\ bill'[b].paid = bill[b].paid + Applied(alloc)
      /\ \A x \in BillId \ {b} : bill'[x] = bill[x]
  BY <1>0, PostedRows
<1>2. alloc \in [Slot -> Nat] /\ \A s \in Slot : alloc[s] <= Owing(b, s)
  BY <1>0, AllocationFits
<1> HIDE DEF alloc
<1>3. \A s \in Slot : PaidOn(b, s)' = PaidOn(b, s) + alloc[s]
  BY <1>0, <1>1, PostingAdds DEF alloc
<1>4. \A x \in BillId \ {b}, s \in Slot : PaidOn(x, s)' = PaidOn(x, s)
  BY <1>0, <1>1, PostingElsewhere
<1>5. \A s \in Slot : PaidOn(b, s) \in Nat /\ LineAmount(line[b][s]) \in Nat
  BY <1>0, PaidOnIsNat, LineAmountIsNat
<1>6. ASSUME NEW s \in Slot PROVE PaidOn(b, s)' <= LineAmount(line[b][s])
  <2>1. PaidOn(b, s) <= LineAmount(line[b][s])
    BY DEF AccountInv, NoLineOverpaid
  <2>2. Owing(b, s) = LineAmount(line[b][s]) - PaidOn(b, s)
    BY <1>5, <2>1 DEF Owing, Positive
  <2>3. alloc[s] \in Nat /\ alloc[s] <= Owing(b, s)
    BY <1>2
  <2>. QED  BY <1>3, <1>5, <2>2, <2>3
<1>7. NoLineOverpaid'
  <2>1. \A x \in BillId \ {b}, s \in Slot : PaidOn(x, s)' <= LineAmount(line[x][s])
    BY <1>4 DEF AccountInv, NoLineOverpaid
  <2>. QED  BY <1>1, <1>6, <2>1 DEF NoLineOverpaid
<1>8. PaidLines(b)' = PaidLines(b) + Applied(alloc)
  <2> DEFINE f == [s \in Slot |-> PaidOn(b, s)]
             g == [s \in Slot |-> PaidOn(b, s)']
  <2>1. f \in [Slot -> Nat] /\ g \in [Slot -> Nat] /\ \A s \in Slot : g[s] = f[s] + alloc[s]
    BY <1>2, <1>3, <1>5
  <2>2. PaidLines(b) = SumTo(f, MaxLines) /\ PaidLines(b)' = SumTo(g, MaxLines)
    BY DEF PaidLines
  <2> HIDE DEF f, g
  <2>. QED  BY <1>2, <2>1, <2>2, SumMoves DEF Applied
<1>9. \A x \in BillId \ {b} : PaidLines(x)' = PaidLines(x)
  <2>1. ASSUME NEW x \in BillId \ {b}
        PROVE  [s \in Slot |-> PaidOn(x, s)'] = [s \in Slot |-> PaidOn(x, s)]
    BY <1>4
  <2>. QED  BY <2>1 DEF PaidLines
<1>10. \A x \in BillId : bill'[x].paid = PaidLines(x)'
  BY <1>1, <1>8, <1>9 DEF AccountInv, PaidLineByLine
<1>. QED  BY <1>7, <1>10 DEF PaidLineByLine

\* reverse_payment takes from the bill what it takes from its lines.
LEMMA ReversingKeepsLines ==
  ASSUME AccountInv, NEW p \in PaymentId, ReversePayment(p)
  PROVE  NoLineOverpaid' /\ PaidLineByLine'
<1>0. TypeOK /\ LedgerInv
  BY DEF AccountInv, LedgerInv
<1>1. PICK b \in BillId : b = payment[p].bill
  BY <1>0, ReversedRows
<1>2. PICK alloc \in [Slot -> Nat] : alloc = payment[p].alloc
  BY <1>0 DEF TypeOK, PaymentRow
<1>3. /\ line' = line /\ Applied(alloc) \in Nat /\ Applied(alloc) <= bill[b].paid
      /\ bill'[b].paid = bill[b].paid - Applied(alloc)
      /\ \A x \in BillId \ {b} : bill'[x] = bill[x]
  BY <1>0, <1>1, <1>2, ReversedRows DEF AppliedBy
<1>4. \A x \in BillId, s \in Slot :
        /\ PaidOn(x, s)' = PaidOn(x, s) - (IF x = b THEN alloc[s] ELSE 0)
        /\ x = b => alloc[s] <= PaidOn(x, s)
  BY <1>0, <1>1, <1>2, ReversingSubtracts
<1>5. \A x \in BillId, s \in Slot :
        alloc[s] \in Nat /\ PaidOn(x, s) \in Nat /\ LineAmount(line[x][s]) \in Nat
  BY <1>0, <1>2, PaidOnIsNat, LineAmountIsNat
<1>6. NoLineOverpaid'
  <2>1. ASSUME NEW x \in BillId, NEW s \in Slot
        PROVE  PaidOn(x, s)' <= LineAmount(line[x][s])
    <3>1. PaidOn(x, s) <= LineAmount(line[x][s])
      BY DEF AccountInv, NoLineOverpaid
    <3>2. PaidOn(x, s)' <= PaidOn(x, s)
      BY <1>4, <1>5
    <3>3. PaidOn(x, s)' \in Int
      BY <1>4, <1>5
    <3>. QED  BY <1>5, <3>1, <3>2, <3>3
  <2>. QED  BY <1>3, <2>1 DEF NoLineOverpaid
<1>7. PaidLines(b) = PaidLines(b)' + Applied(alloc) /\ PaidLines(b)' \in Nat
  <2> DEFINE f == [s \in Slot |-> PaidOn(b, s)]
             g == [s \in Slot |-> PaidOn(b, s)']
  <2>1. \A s \in Slot : PaidOn(b, s)' \in Nat /\ PaidOn(b, s) = PaidOn(b, s)' + alloc[s]
    BY <1>4, <1>5
  <2>2. f \in [Slot -> Nat] /\ g \in [Slot -> Nat] /\ \A s \in Slot : f[s] = g[s] + alloc[s]
    BY <1>5, <2>1
  <2>3. PaidLines(b) = SumTo(f, MaxLines) /\ PaidLines(b)' = SumTo(g, MaxLines)
    BY DEF PaidLines
  <2> HIDE DEF f, g
  <2>4. SumTo(g, MaxLines) \in Nat
    BY <2>2, Bounds, SumIsNat
  <2>. QED  BY <2>2, <2>3, <2>4, SumMoves DEF Applied
<1>8. \A x \in BillId \ {b} : PaidLines(x)' = PaidLines(x)
  <2>1. ASSUME NEW x \in BillId \ {b}
        PROVE  [s \in Slot |-> PaidOn(x, s)'] = [s \in Slot |-> PaidOn(x, s)]
    BY <1>4, <1>5
  <2>. QED  BY <2>1 DEF PaidLines
<1>9. bill'[b].paid = PaidLines(b)'
  <2>1. bill[b].paid = PaidLines(b)
    BY DEF AccountInv, PaidLineByLine
  <2>. QED  BY <1>3, <1>7, <2>1
<1>10. \A x \in BillId : bill'[x].paid = PaidLines(x)'
  BY <1>3, <1>8, <1>9 DEF AccountInv, PaidLineByLine
<1>. QED  BY <1>6, <1>10 DEF PaidLineByLine

\* No handler of this code sets CANCELLED.
LEMMA StillNoneCancelled ==
  ASSUME LedgerInv, NoneCancelled, Next
  PROVE  NoneCancelled'
<1>0. TypeOK
  BY DEF LedgerInv
<1>1. CASE Settles
  BY <1>1 DEF Settles, Settled, NoneCancelled, OpenStatus
<1>2. CASE \E b \in BillId, c \in Payer, R \in SUBSET BillId : Issues(b, c, R)
  <2>1. PICK b \in BillId, c \in Payer, R \in SUBSET BillId : Issues(b, c, R)
    BY <1>2
  <2>2. ASSUME NEW x \in BillId PROVE bill'[x].status # "CANCELLED"
    <3>1. CASE x \in R
      <4>1. bill[x] \in BillRow /\ bill'[x] = [bill[x] EXCEPT !.status = "SUPERSEDED", !.supersededBy = b]
        BY <1>0, <2>1, <3>1 DEF Issues, TypeOK
      <4>2. bill'[x].status = "SUPERSEDED"
        BY <4>1 DEF BillRow
      <4>. QED  BY <4>2
    <3>2. CASE x = b /\ x \notin R
      BY <2>1, <3>2 DEF Issues, OpenStatus
    <3>3. CASE x # b /\ x \notin R
      BY <2>1, <3>3 DEF Issues, NoneCancelled
    <3>. QED  BY <3>1, <3>2, <3>3
  <2>. QED  BY <2>2 DEF NoneCancelled
<1>3. CASE \E b \in BillId : DestroyBill(b)
  <2>1. PICK b \in BillId : DestroyBill(b)
    BY <1>3
  <2>2. bill'[b].status = "DELETED" /\ \A x \in BillId \ {b} : bill'[x].status = bill[x].status
    BY <1>0, <2>1, DestroyedRows
  <2>. QED  BY <2>2 DEF NoneCancelled
<1>. QED  BY <1>1, <1>2, <1>3, StepKeeps

\* What issuing a bill leaves of the rows, for the sums below: the new bill is unpaid,
\* and only its own lines are written.
LEMMA IssuedRows ==
  ASSUME LedgerInv, NEW n \in BillId, NEW c \in Payer, NEW ask \in [Kind -> AskAmounts \cup {0}],
         NEW sweep \in BOOLEAN, NEW roll \in BOOLEAN, NEW force \in Forcing, NEW due \in DueDates,
         IssueBill(n, c, ask, sweep, roll, force, due)
  PROVE  /\ \E R \in SUBSET BillId : Issues(n, c, R)
         /\ bill[n].status = "NONE" /\ UNCHANGED <<payment, credit>>
         /\ \A x \in BillId \ {n} : line'[x] = line[x]
<1>1. ask \in [Kind -> Nat] /\ force \in BOOLEAN /\ due \in Nat
  <2>1. AskAmounts \cup {0} \subseteq Nat /\ DueDates \subseteq Nat /\ Forcing \subseteq BOOLEAN
    BY LedgerConstants
  <2>. QED  BY <2>1
<1>2. \E R \in SUBSET BillId : Issues(n, c, R)
  BY <1>1, IssueBillKeeps
<1>3. NextBill(n) /\ UNCHANGED <<payment, credit>>
  BY DEF IssueBill
<1>4. bill[n].status = "NONE"
  BY <1>3, LedgerConstants DEF NextBill, BillId
<1>5. PICK ls : line' = [line EXCEPT ![n] = ls]
  BY DEF IssueBill
<1>6. \A x \in BillId \ {n} : line'[x] = line[x]
  BY <1>5 DEF LedgerInv, TypeOK
<1>. QED  BY <1>2, <1>3, <1>4, <1>6

\* Issuing and consolidating leave every bill's amount_paid alone.
LEMMA IssuingKeepsPaid ==
  ASSUME LedgerInv, NEW n \in BillId, NEW c \in Payer, NEW R \in SUBSET BillId, Issues(n, c, R),
         bill[n].status = "NONE"
  PROVE  \A x \in BillId : bill'[x].paid = bill[x].paid
<1>0. TypeOK /\ PaidIsAllocated
  BY DEF LedgerInv
<1>1. bill'[n].paid = 0 /\ bill[n].paid = 0
  <2>1. ~Exists(n)
    BY DEF Exists
  <2>2. bill[n].paid = 0
    BY <1>0, <2>1, NoRowNoPayments, UnpaidBill
  <2>. QED  BY <2>2 DEF Issues
<1>2. ASSUME NEW x \in R PROVE bill'[x].paid = bill[x].paid
  <2>1. bill[x] \in BillRow /\ bill'[x] = [bill[x] EXCEPT !.status = "SUPERSEDED", !.supersededBy = n]
    BY <1>0 DEF Issues, TypeOK
  <2>. QED  BY <2>1 DEF BillRow
<1>3. \A x \in BillId \ (R \cup {n}) : bill'[x] = bill[x]
  BY DEF Issues
<1>. QED  BY <1>1, <1>2, <1>3

\* Destroying a bill, which needs that nothing was ever paid on it, leaves every
\* amount_paid alone.
LEMMA DestroyingKeepsPaid ==
  ASSUME LedgerInv, NEW b \in BillId, DestroyBill(b)
  PROVE  \A x \in BillId : bill'[x].paid = bill[x].paid
<1>0. TypeOK /\ PaidIsAllocated
  BY DEF LedgerInv
<1>1. \A x \in BillId \ {b} : bill'[x].paid = bill[x].paid
  BY <1>0, DestroyedRows
<1>2. bill[b].paid = 0
  BY <1>0, UnpaidBill DEF DestroyBill
<1>3. bill'[b] = [NoBill EXCEPT !.status = "DELETED"]
  BY DEF DestroyBill
<1>4. bill'[b].paid = 0
  BY <1>3 DEF NoBill
<1>. QED  BY <1>1, <1>2, <1>4

\* Every handler but the line edits keeps the strengthened invariant.
LEMMA AccountKept ==
  ASSUME AccountInv, (Next /\ ~EditLines) \/ UNCHANGED vars
  PROVE  AccountInv'
<1>0. TypeOK /\ LedgerInv /\ BillAgreesWithLines /\ NoneCancelled
  BY DEF AccountInv, LedgerInv
<1>1. LedgerInv' /\ TypeOK' /\ BillAgreesWithLines'
  BY <1>0, StepKeeps, StutterKeeps, AgreesKept DEF LedgerInv
<1>2. NoneCancelled'
  <2>1. CASE Next
    BY <1>0, <2>1, StillNoneCancelled
  <2>2. CASE UNCHANGED vars
    BY <1>0, <2>2 DEF NoneCancelled, vars
  <2>. QED  BY <2>1, <2>2
<1>3. NoLineOverpaid' /\ PaidLineByLine'
  <2>1. CASE Issue
    <3>1. PICK n \in BillId, c \in Payer, ask \in [Kind -> AskAmounts \cup {0}],
               sweep \in BOOLEAN, roll \in BOOLEAN, force \in Forcing, due \in DueDates :
                 IssueBill(n, c, ask, sweep, roll, force, due)
      BY <2>1 DEF Issue
    <3>2. /\ \E R \in SUBSET BillId : Issues(n, c, R)
          /\ bill[n].status = "NONE" /\ UNCHANGED <<payment, credit>>
          /\ \A x \in BillId \ {n} : line'[x] = line[x]
      BY <1>0, <3>1, IssuedRows
    <3>3. \A x \in BillId : bill'[x].paid = bill[x].paid
      BY <1>0, <3>2, IssuingKeepsPaid
    <3>4. \A p \in PaymentId : payment[p].bill # n
      BY <1>0, <3>2, NoRowNoPayments DEF Exists
    <3>. QED  BY <1>1, <3>2, <3>3, <3>4, LinesStayPaid
  <2>2. CASE \E b \in BillId : DestroyBill(b)
    <3>1. PICK b \in BillId : DestroyBill(b)
      BY <2>2
    <3>2. \A x \in BillId : bill'[x].paid = bill[x].paid
      BY <1>0, <3>1, DestroyingKeepsPaid
    <3>3. /\ UNCHANGED payment /\ \A p \in PaymentId : payment[p].bill # b
          /\ \A x \in BillId \ {b} : line'[x] = line[x]
      BY <1>0, <3>1 DEF DestroyBill, TypeOK
    <3>. QED  BY <1>1, <3>2, <3>3, LinesStayPaid
  <2>3. CASE \E p \in PaymentId, b \in BillId, amount \in PayAmounts : PostPayment(p, b, amount)
    BY <2>3, PostingKeepsLines, LedgerConstants
  <2>4. CASE \E p \in PaymentId : ReversePayment(p)
    BY <2>4, ReversingKeepsLines
  <2>5. CASE RefreshDebt
    <3>1. \A x \in BillId : bill'[x].paid = bill[x].paid
      BY <1>0, <2>5, RefreshDebtKeeps
    <3>. QED  BY <1>1, <2>5, <3>1, LinesStayPaid DEF RefreshDebt
  <2>6. CASE UNCHANGED <<bill, line, payment>>
    BY <1>1, <2>6, LinesStayPaid
  <2>7. (\E b \in BillId : EscalateToClosed(b)) \/ NextDay \/ UNCHANGED vars
          => UNCHANGED <<bill, line, payment>>
    BY DEF EscalateToClosed, NextDay, vars
  <2>. QED  BY <2>1, <2>2, <2>3, <2>4, <2>5, <2>6, <2>7 DEF Next
<1>. QED  BY <1>1, <1>2, <1>3 DEF AccountInv

\* A council starts with no bills, so nothing is overpaid.
LEMMA AccountInit ==
  ASSUME Init
  PROVE  AccountInv
<1>1. LedgerInv /\ TypeOK
  BY InitInv DEF LedgerInv
<1>2. \A b \in BillId : bill[b].status = "NONE" /\ bill[b].paid = 0
  BY DEF Init, NoBill
<1>3. \A b \in BillId, s \in Slot : PaidOn(b, s) = 0
  <2>1. \A b \in BillId : ~Exists(b)
    BY <1>2 DEF Exists
  <2>. QED  BY <1>1, <2>1, NoRowNoPayments, NothingPaid
<1>4. \A b \in BillId, s \in Slot : LineAmount(line[b][s]) \in Nat
  BY <1>1, LineAmountIsNat
<1>5. ASSUME NEW b \in BillId PROVE PaidLines(b) = 0
  <2> DEFINE f == [s \in Slot |-> PaidOn(b, s)]
  <2>1. f \in [1..MaxLines -> Int] /\ \A s \in 1..MaxLines : f[s] = 0
    BY <1>3, Bounds
  <2>2. PaidLines(b) = SumTo(f, MaxLines)
    BY DEF PaidLines
  <2> HIDE DEF f
  <2>. QED  BY <2>1, <2>2, Bounds, SumOfZeros
<1>6. BillAgreesWithLines
  BY <1>2 DEF BillAgreesWithLines, Exists
<1>. QED
  BY <1>1, <1>2, <1>3, <1>4, <1>5, <1>6
     DEF AccountInv, NoLineOverpaid, PaidLineByLine, NoneCancelled

-----------------------------------------------------------------------------
(* What is owed and held, bill by bill. *)

\* What bill b adds to what c owes, and to what is held for c.
DueOn(b, c) == IF Live(b) /\ bill[b].payer = c THEN bill[b].total - bill[b].paid ELSE 0
HeldOn(b, c) == IF bill[b].payer = c THEN bill[b].paid ELSE 0

\* A bill whose lines are not overpaid owes its total less its amount_paid; a paid bill,
\* which no outstanding query lists, owes nothing.
LEMMA OwingIsDue ==
  AccountInv => \A b \in BillId : Exists(b) =>
    /\ OwingLines(b) = bill[b].total - bill[b].paid
    /\ bill[b].total - bill[b].paid \in Nat
    /\ bill[b].status = "PAID" => bill[b].total - bill[b].paid = 0
<1> SUFFICES ASSUME AccountInv, NEW b \in BillId, Exists(b)
             PROVE  /\ OwingLines(b) = bill[b].total - bill[b].paid
                    /\ bill[b].total - bill[b].paid \in Nat
                    /\ bill[b].status = "PAID" => bill[b].total - bill[b].paid = 0
  OBVIOUS
<1>0. TypeOK
  BY DEF AccountInv, LedgerInv
<1> DEFINE owes == [s \in Slot |-> Owing(b, s)]
           paid == [s \in Slot |-> PaidOn(b, s)]
           amount == [s \in Slot |-> LineAmount(line[b][s])]
<1>1. \A s \in Slot : /\ PaidOn(b, s) \in Nat /\ LineAmount(line[b][s]) \in Nat
                      /\ PaidOn(b, s) <= LineAmount(line[b][s])
  BY <1>0, PaidOnIsNat, LineAmountIsNat DEF AccountInv, NoLineOverpaid
<1>2. \A s \in Slot : Owing(b, s) \in Nat /\ LineAmount(line[b][s]) = Owing(b, s) + PaidOn(b, s)
  BY <1>1 DEF Owing, Positive
<1>3. /\ owes \in [Slot -> Nat] /\ paid \in [Slot -> Nat] /\ amount \in [Slot -> Nat]
      /\ \A s \in Slot : amount[s] = owes[s] + paid[s]
  BY <1>1, <1>2
<1>4. /\ OwingLines(b) = SumTo(owes, MaxLines) /\ PaidLines(b) = SumTo(paid, MaxLines)
      /\ LinesTotal(line[b]) = SumTo(amount, MaxLines)
  BY DEF OwingLines, PaidLines, LinesTotal
<1> HIDE DEF owes, paid, amount
<1>5. SumTo(amount, MaxLines) = SumTo(owes, MaxLines) + SumTo(paid, MaxLines)
  BY <1>3, SumMoves
<1>6. SumTo(owes, MaxLines) \in Nat /\ SumTo(paid, MaxLines) \in Nat
  BY <1>3, Bounds, SumIsNat
<1>7. bill[b].paid = PaidLines(b) /\ bill[b].total = LinesTotal(line[b])
  BY DEF AccountInv, PaidLineByLine, BillAgreesWithLines
<1>8. bill[b].status = "PAID" => bill[b].paid >= bill[b].total
  BY DEF AccountInv, BillAgreesWithLines, Live, TerminalStatus
<1>. QED  BY <1>4, <1>5, <1>6, <1>7, <1>8

\* The sums over all bills, for every payer: of naturals, and what OwedBy and HeldOf say.
AmountsByBill ==
  \A c \in Payer :
    /\ [b \in BillId |-> DueOn(b, c)] \in [1..MaxBills -> Nat]
    /\ OwedBy(c) = SumTo([b \in BillId |-> DueOn(b, c)], MaxBills)
    /\ [b \in BillId |-> HeldOn(b, c)] \in [1..MaxBills -> Nat]

\* What a payer owes is what that payer's live bills come to, less what was paid on them,
\* and what is held for a payer is a sum of naturals.
LEMMA AmountsAreByBill == AccountInv => AmountsByBill
<1> SUFFICES ASSUME AccountInv, NEW c \in Payer
             PROVE  /\ [b \in BillId |-> DueOn(b, c)] \in [1..MaxBills -> Nat]
                    /\ OwedBy(c) = SumTo([b \in BillId |-> DueOn(b, c)], MaxBills)
                    /\ [b \in BillId |-> HeldOn(b, c)] \in [1..MaxBills -> Nat]
  BY DEF AmountsByBill
<1>0. TypeOK
  BY DEF AccountInv, LedgerInv
<1>1. ASSUME NEW b \in BillId
      PROVE  /\ DueOn(b, c) \in Nat
             /\ DueOn(b, c) = IF b \in OpenOf(c) THEN SumTo([s \in Slot |-> Owing(b, s)], MaxLines)
                              ELSE 0
  <2>1. Live(b) => /\ OwingLines(b) = bill[b].total - bill[b].paid
                   /\ bill[b].total - bill[b].paid \in Nat
                   /\ bill[b].status = "PAID" => bill[b].total - bill[b].paid = 0
    BY OwingIsDue DEF Live
  <2>2. bill[b].status \in BillStatus
    BY <1>0 DEF TypeOK, BillRow
  <2>3. Live(b) <=> bill[b].status \in OpenStatus \cup {"PAID"}
    BY <2>2 DEF Live, Exists, BillStatus, OpenStatus, TerminalStatus
  <2>. QED  BY <2>1, <2>3 DEF DueOn, OwingLines, OpenOf, OpenStatus
<1>2. [b \in BillId |-> DueOn(b, c)]
      = [b \in BillId |-> IF b \in OpenOf(c) THEN SumTo([s \in Slot |-> Owing(b, s)], MaxLines)
                          ELSE 0]
  BY <1>1
<1>3. [b \in BillId |-> DueOn(b, c)] \in [1..MaxBills -> Nat]
  BY <1>1, Bounds
<1>4. \A b \in BillId : HeldOn(b, c) \in Nat
  BY <1>0, PaidInNat DEF HeldOn
<1>5. [b \in BillId |-> HeldOn(b, c)] \in [1..MaxBills -> Nat]
  BY <1>4, Bounds
<1>. QED  BY <1>2, <1>3, <1>5 DEF OwedBy

\* A total over all bills moves as one bill of them does.
LEMMA OneBillMoves ==
  ASSUME NEW f \in [1..MaxBills -> Nat], NEW g \in [1..MaxBills -> Nat], NEW b \in BillId,
         \A x \in BillId \ {b} : g[x] = f[x]
  PROVE  SumTo(g, MaxBills) = SumTo(f, MaxBills) + (g[b] - f[b])
<1>1. /\ f \in [1..MaxBills -> Int] /\ g \in [1..MaxBills -> Int] /\ b \in 1..MaxBills
      /\ \A x \in 1..MaxBills : x # b => g[x] = f[x]
  BY Bounds
<1>. QED  BY <1>1, Bounds, SumUpdate

\* What every payer owes and has booked, when a step changes the amounts of one bill only.
LEMMA AmountsMove ==
  ASSUME AccountInv, AccountInv', NEW b \in BillId, NEW c \in Payer,
         \A x \in BillId \ {b} : DueOn(x, c)' = DueOn(x, c) /\ HeldOn(x, c)' = HeldOn(x, c)
  PROVE  /\ OwedBy(c)' = OwedBy(c) + (DueOn(b, c)' - DueOn(b, c))
         /\ HeldOf(c)' = HeldOf(c) + (HeldOn(b, c)' - HeldOn(b, c))
         /\ OwedBy(c)' \in Nat /\ OwedBy(c) \in Nat /\ HeldOf(c) \in Nat
<1> DEFINE due == [x \in BillId |-> DueOn(x, c)]
           dueNext == [x \in BillId |-> DueOn(x, c)']
           held == [x \in BillId |-> HeldOn(x, c)]
           heldNext == [x \in BillId |-> HeldOn(x, c)']
<1>0. AmountsByBill /\ AmountsByBill'
  <2>1. (AccountInv => AmountsByBill)'
    BY AmountsAreByBill, PTL
  <2>. QED  BY <2>1, AmountsAreByBill
<1>1. due \in [1..MaxBills -> Nat] /\ OwedBy(c) = SumTo(due, MaxBills)
  BY <1>0 DEF AmountsByBill
<1>2. dueNext \in [1..MaxBills -> Nat] /\ OwedBy(c)' = SumTo(dueNext, MaxBills)
  BY <1>0 DEF AmountsByBill
<1>3. held \in [1..MaxBills -> Nat] /\ HeldOf(c) = SumTo(held, MaxBills)
  BY <1>0 DEF AmountsByBill, HeldOf, HeldOn
<1>4. heldNext \in [1..MaxBills -> Nat] /\ HeldOf(c)' = SumTo(heldNext, MaxBills)
  BY <1>0 DEF AmountsByBill, HeldOf, HeldOn
<1>5. /\ \A x \in BillId \ {b} : dueNext[x] = due[x] /\ heldNext[x] = held[x]
      /\ due[b] = DueOn(b, c) /\ dueNext[b] = DueOn(b, c)'
      /\ held[b] = HeldOn(b, c) /\ heldNext[b] = HeldOn(b, c)'
  OBVIOUS
<1> HIDE DEF due, dueNext, held, heldNext
<1>6. SumTo(dueNext, MaxBills) = SumTo(due, MaxBills) + (dueNext[b] - due[b])
  BY <1>1, <1>2, <1>5, OneBillMoves
<1>7. SumTo(heldNext, MaxBills) = SumTo(held, MaxBills) + (heldNext[b] - held[b])
  BY <1>3, <1>4, <1>5, OneBillMoves
<1>8. SumTo(due, MaxBills) \in Nat /\ SumTo(dueNext, MaxBills) \in Nat /\ SumTo(held, MaxBills) \in Nat
  BY <1>1, <1>2, <1>3, Bounds, SumIsNat
<1>. QED  BY <1>1, <1>2, <1>3, <1>4, <1>5, <1>6, <1>7, <1>8

-----------------------------------------------------------------------------
(* Step by step. *)

\* While its lines stay, a bill comes to the same.
LEMMA TotalKept ==
  ASSUME AccountInv, AccountInv', line' = line, NEW x \in BillId, Exists(x), Exists(x)'
  PROVE  bill'[x].total = bill[x].total
  BY DEF AccountInv, BillAgreesWithLines

\* How a payment stands after a step that does not touch it: with its bill's row kept
\* as what it is, as it stood before.
LEMMA PaymentStands ==
  ASSUME LedgerInv, NEW q \in PaymentId, payment'[q] = payment[q],
         payment[q].status # "NONE" =>
           LET b == payment[q].bill
           IN /\ bill'[b].payer = bill[b].payer
              /\ bill'[b].status = "SUPERSEDED" <=> bill[b].status = "SUPERSEDED"
  PROVE  StateOf(q)' = StateOf(q) /\ PartsOf(q)' = PartsOf(q)
<1>1. StateOf(q)' = StateOf(q)
  BY DEF StateOf
<1>2. PartsOf(q)' = PartsOf(q)
  BY DEF PartsOf, Applied
<1>. QED  BY <1>1, <1>2

\* post_payment is the account's Take: what the allocations come to leaves what the
\* bill's payer owes and is held, the rest of the money becomes credit.
LEMMA PostingTakes ==
  ASSUME AccountInv, AccountInv', NEW p \in PaymentId, NEW b \in BillId, NEW amount \in Nat,
         PostPayment(p, b, amount)
  PROVE  bill[b].payer \in Payer /\ Account!Take(p, bill[b].payer)
<1>0. TypeOK /\ LedgerInv
  BY DEF AccountInv, LedgerInv
<1>1. PICK alloc \in [Slot -> Nat] : alloc = Allocation(b, amount)
  BY <1>0, AllocationFits
<1>2. Applied(alloc) \in Nat /\ Applied(alloc) <= amount
  BY <1>0, <1>1, AllocationFits
<1>3. /\ payment[p].status = "NONE" /\ Live(b)
      /\ payment' = [payment EXCEPT ![p] =
           [bill |-> b, amount |-> amount, status |-> "CONFIRMED", alloc |-> alloc]]
      /\ bill'[b].paid = bill[b].paid + Applied(alloc)
      /\ \A x \in BillId \ {b} : bill'[x] = bill[x]
      /\ line' = line
  BY <1>0, <1>1, PostedRows
<1>4. PICK c \in Payer : c = bill[b].payer
  BY <1>0, <1>3 DEF LedgerInv, PayersOfBills, Live
<1>5. /\ payment'[p].status = "CONFIRMED" /\ payment'[p].bill = b
      /\ payment'[p].amount = amount /\ payment'[p].alloc = alloc
      /\ \A q \in PaymentId \ {p} : payment'[q] = payment[q]
  BY <1>0, <1>3 DEF TypeOK
<1>6. Settles
  BY <1>0, PostPaymentKeeps DEF Settles
<1>7. \A x \in BillId : /\ Live(x)' <=> Live(x)
                        /\ bill'[x].payer = bill[x].payer
                        /\ bill'[x].status = "SUPERSEDED" <=> bill[x].status = "SUPERSEDED"
                        /\ Exists(x)' <=> Exists(x)
  BY <1>0, <1>6, SettledStaysAlive
<1>8. StateOf(p) = "NONE" /\ StateOf(p)' = "DUE"
  <2>1. bill'[b].status # "SUPERSEDED"
    BY <1>3, <1>7 DEF Live, TerminalStatus
  <2>. QED  BY <1>3, <1>5, <2>1 DEF StateOf
<1>9. PartsOf(p)' = [payer |-> c, applied |-> Applied(alloc), extra |-> amount - Applied(alloc)]
  <2>1. bill'[b].payer = c
    BY <1>4, <1>7
  <2>. QED  BY <1>5, <2>1 DEF PartsOf, Applied
<1>10. ASSUME NEW q \in PaymentId \ {p}
       PROVE  StateOf(q)' = StateOf(q) /\ PartsOf(q)' = PartsOf(q)
  <2>1. payment[q].status # "NONE" => payment[q].bill \in BillId
    BY <1>0 DEF LedgerInv, PaymentsOfBills
  <2>. QED  BY <1>0, <1>5, <1>7, <2>1, PaymentStands
<1>11. credit' = [credit EXCEPT ![c] = credit[c] + (amount - Applied(alloc))]
  BY <1>0, <1>1, <1>4 DEF PostPayment, TypeOK
<1>12. \A d \in Payer, x \in BillId \ {b} :
         DueOn(x, d)' = DueOn(x, d) /\ HeldOn(x, d)' = HeldOn(x, d)
  BY <1>3, <1>7 DEF DueOn, HeldOn
<1>13. \A d \in Payer :
         /\ DueOn(b, d)' - DueOn(b, d) = IF d = c THEN - Applied(alloc) ELSE 0
         /\ HeldOn(b, d)' - HeldOn(b, d) = IF d = c THEN Applied(alloc) ELSE 0
  <2>1. bill'[b].total = bill[b].total
    BY <1>3, <1>7, TotalKept DEF Live
  <2>2. bill[b].total \in Nat /\ bill[b].paid \in Nat
    BY <1>0 DEF TypeOK, BillRow
  <2>3. Live(b) /\ Live(b)' /\ bill'[b].payer = c
    BY <1>3, <1>4, <1>7
  <2>. QED  BY <1>2, <1>3, <1>4, <2>1, <2>2, <2>3 DEF DueOn, HeldOn
<1>14. \A d \in Payer :
         /\ OwedBy(d)' = OwedBy(d) + (DueOn(b, d)' - DueOn(b, d))
         /\ HeldOf(d)' = HeldOf(d) + (HeldOn(b, d)' - HeldOn(b, d))
         /\ OwedBy(d) \in Nat /\ HeldOf(d) \in Nat
  BY <1>12, AmountsMove
<1>15. \A d \in Payer :
         /\ OwedBy(d)' = IF d = c THEN OwedBy(d) - Applied(alloc) ELSE OwedBy(d)
         /\ HeldOf(d)' = IF d = c THEN HeldOf(d) + Applied(alloc) ELSE HeldOf(d)
  BY <1>2, <1>13, <1>14
<1>16. amount - Applied(alloc) \in Nat
  BY <1>2
<1>17. Account!Take(p, c)
  <2>1. [q \in PaymentId |-> StateOf(q)'] = [[q \in PaymentId |-> StateOf(q)] EXCEPT ![p] = "DUE"]
    BY <1>8, <1>10
  <2>2. [q \in PaymentId |-> PartsOf(q)']
        = [[q \in PaymentId |-> PartsOf(q)] EXCEPT ![p] = PartsOf(p)']
    BY <1>10
  <2>3. [d \in Payer |-> OwedBy(d)']
        = [[d \in Payer |-> OwedBy(d)] EXCEPT ![c] = @ - Applied(alloc)]
    BY <1>15
  <2>4. [d \in Payer |-> HeldOf(d)']
        = [[d \in Payer |-> HeldOf(d)] EXCEPT ![c] = @ + Applied(alloc)]
    BY <1>15
  <2>5. /\ PartsOf(p)'.payer = c /\ PartsOf(p)'.applied = Applied(alloc)
        /\ PartsOf(p)'.extra = amount - Applied(alloc)
    BY <1>9
  <2>6. credit' = [credit EXCEPT ![c] = @ + PartsOf(p)'.extra]
    BY <1>11, <2>5
  <2>. QED  BY <1>2, <1>8, <1>16, <2>1, <2>2, <2>3, <2>4, <2>5, <2>6 DEF Account!Take
<1>. QED  BY <1>4, <1>17

\* reverse_payment is the account's GiveBack: the credited part is clawed back, and the
\* applied part leaves what is held; it is owed again unless its bill was consolidated.
LEMMA ReversingGivesBack ==
  ASSUME AccountInv, AccountInv', NEW p \in PaymentId, ReversePayment(p)
  PROVE  Account!GiveBack(p)
<1>0. TypeOK /\ LedgerInv
  BY DEF AccountInv, LedgerInv
<1>1. PICK b \in BillId : b = payment[p].bill /\ Exists(b)
  BY <1>0, ReversedRows
<1>2. PICK applied \in Nat : applied = AppliedBy(p)
  BY <1>0, ReversedRows
<1>3. /\ payment[p].status = "CONFIRMED" /\ applied <= bill[b].paid
      /\ bill'[b].paid = bill[b].paid - applied
      /\ \A x \in BillId \ {b} : bill'[x] = bill[x]
      /\ payment' = [payment EXCEPT ![p].status = "REVERSED"] /\ line' = line
  BY <1>0, <1>1, <1>2, ReversedRows
<1>4. PICK c \in Payer : c = bill[b].payer
  BY <1>0, <1>1 DEF LedgerInv, PayersOfBills
<1>5. /\ payment'[p].status = "REVERSED" /\ payment'[p].bill = b
      /\ payment'[p].amount = payment[p].amount /\ payment'[p].alloc = payment[p].alloc
      /\ \A q \in PaymentId \ {p} : payment'[q] = payment[q]
  <2>1. payment \in [PaymentId -> PaymentRow] /\ payment[p] \in PaymentRow
    BY <1>0 DEF TypeOK
  <2>2. payment' = [payment EXCEPT ![p] = [payment[p] EXCEPT !.status = "REVERSED"]]
    BY <1>3, <2>1
  <2>3. payment'[p] = [payment[p] EXCEPT !.status = "REVERSED"]
    BY <2>1, <2>2
  <2>4. \A q \in PaymentId \ {p} : payment'[q] = payment[q]
    BY <2>1, <2>2
  <2>. QED  BY <1>1, <2>1, <2>3, <2>4 DEF PaymentRow
<1>6. Settles
  BY <1>0, ReversePaymentKeeps DEF Settles
<1>7. \A x \in BillId : /\ Live(x)' <=> Live(x)
                        /\ bill'[x].payer = bill[x].payer
                        /\ bill'[x].status = "SUPERSEDED" <=> bill[x].status = "SUPERSEDED"
                        /\ Exists(x)' <=> Exists(x)
  BY <1>0, <1>6, SettledStaysAlive
<1>8. StateOf(p) = (IF Live(b) THEN "DUE" ELSE "ROLLED") /\ StateOf(p)' = "RETURNED"
  <2>1. Live(b) <=> bill[b].status # "SUPERSEDED"
    BY <1>1 DEF Live, TerminalStatus, AccountInv, NoneCancelled
  <2>. QED  BY <1>1, <1>3, <1>5, <2>1 DEF StateOf
<1>9. PartsOf(p) = [payer |-> c, applied |-> applied, extra |-> payment[p].amount - applied]
  BY <1>1, <1>2, <1>3, <1>4 DEF PartsOf, AppliedBy
<1>10. PartsOf(p)' = PartsOf(p)
  <2>1. bill'[b].payer = c
    BY <1>4, <1>7
  <2>2. PartsOf(p)' = [payer |-> c, applied |-> Applied(payment[p].alloc),
                       extra |-> payment[p].amount - Applied(payment[p].alloc)]
    BY <1>5, <2>1 DEF PartsOf, Applied
  <2>. QED  BY <1>2, <1>9, <2>2 DEF AppliedBy
<1>11. ASSUME NEW q \in PaymentId \ {p}
       PROVE  StateOf(q)' = StateOf(q) /\ PartsOf(q)' = PartsOf(q)
  <2>1. payment[q].status # "NONE" => payment[q].bill \in BillId
    BY <1>0 DEF LedgerInv, PaymentsOfBills
  <2>. QED  BY <1>0, <1>5, <1>7, <2>1, PaymentStands
<1>12. credit' = [credit EXCEPT ![c] = credit[c] - (payment[p].amount - applied)]
  BY <1>0, <1>1, <1>2, <1>4 DEF ReversePayment, TypeOK
<1>13. \A d \in Payer, x \in BillId \ {b} :
         DueOn(x, d)' = DueOn(x, d) /\ HeldOn(x, d)' = HeldOn(x, d)
  BY <1>3, <1>7 DEF DueOn, HeldOn
<1>14. \A d \in Payer :
         /\ DueOn(b, d)' - DueOn(b, d) = IF d = c /\ Live(b) THEN applied ELSE 0
         /\ HeldOn(b, d)' - HeldOn(b, d) = IF d = c THEN - applied ELSE 0
  <2>1. bill'[b].total = bill[b].total
    BY <1>1, <1>3, <1>7, TotalKept
  <2>2. bill[b].total \in Nat /\ bill[b].paid \in Nat
    BY <1>0 DEF TypeOK, BillRow
  <2>3. (Live(b)' <=> Live(b)) /\ bill'[b].payer = c
    BY <1>4, <1>7
  <2>. QED  BY <1>3, <1>4, <2>1, <2>2, <2>3 DEF DueOn, HeldOn
<1>15. \A d \in Payer :
         /\ OwedBy(d)' = OwedBy(d) + (DueOn(b, d)' - DueOn(b, d))
         /\ HeldOf(d)' = HeldOf(d) + (HeldOn(b, d)' - HeldOn(b, d))
         /\ OwedBy(d) \in Nat /\ HeldOf(d) \in Nat
  BY <1>13, AmountsMove
<1>16. \A d \in Payer :
         /\ OwedBy(d)' = IF d = c /\ Live(b) THEN OwedBy(d) + applied ELSE OwedBy(d)
         /\ HeldOf(d)' = IF d = c THEN HeldOf(d) - applied ELSE HeldOf(d)
  BY <1>14, <1>15
<1>17. [q \in PaymentId |-> StateOf(q)']
       = [[q \in PaymentId |-> StateOf(q)] EXCEPT ![p] = "RETURNED"]
  BY <1>8, <1>11
<1>18. [q \in PaymentId |-> PartsOf(q)'] = [q \in PaymentId |-> PartsOf(q)]
  BY <1>10, <1>11
<1>19. [d \in Payer |-> OwedBy(d)']
       = IF StateOf(p) = "DUE" THEN [[d \in Payer |-> OwedBy(d)] EXCEPT ![c] = @ + applied]
         ELSE [d \in Payer |-> OwedBy(d)]
  BY <1>8, <1>16
<1>20. [d \in Payer |-> HeldOf(d)']
       = [[d \in Payer |-> HeldOf(d)] EXCEPT ![c] = @ - applied]
  BY <1>16
<1>21. /\ PartsOf(p).payer = c /\ PartsOf(p).applied = applied
       /\ credit' = [credit EXCEPT ![c] = @ - PartsOf(p).extra]
  BY <1>9, <1>12
<1>22. StateOf(p) \in {"DUE", "ROLLED"}
  BY <1>8
<1>. QED  BY <1>17, <1>18, <1>19, <1>20, <1>21, <1>22 DEF Account!GiveBack

\* What a payer owes is a natural, and what each bill leaves alone the sums leave alone.
LEMMA AmountsStay ==
  ASSUME AccountInv, AccountInv', NEW d \in Payer
  PROVE  /\ OwedBy(d)' \in Nat
         /\ (\A x \in BillId : DueOn(x, d)' = DueOn(x, d)) => OwedBy(d)' = OwedBy(d)
         /\ (\A x \in BillId : HeldOn(x, d)' = HeldOn(x, d)) => HeldOf(d)' = HeldOf(d)
<1>1. AmountsByBill /\ AmountsByBill'
  <2>1. (AccountInv => AmountsByBill)'
    BY AmountsAreByBill, PTL
  <2>. QED  BY <2>1, AmountsAreByBill
<1>2. OwedBy(d)' \in Nat
  <2>1. PICK due \in [1..MaxBills -> Nat] : OwedBy(d)' = SumTo(due, MaxBills)
    BY <1>1 DEF AmountsByBill
  <2>. QED  BY <2>1, Bounds, SumIsNat
<1>3. (\A x \in BillId : DueOn(x, d)' = DueOn(x, d)) =>
        [x \in BillId |-> DueOn(x, d)'] = [x \in BillId |-> DueOn(x, d)]
  OBVIOUS
<1>4. (\A x \in BillId : DueOn(x, d)' = DueOn(x, d)) => OwedBy(d)' = OwedBy(d)
  BY <1>1, <1>3 DEF AmountsByBill
<1>5. (\A x \in BillId : HeldOn(x, d)' = HeldOn(x, d)) =>
        [x \in BillId |-> HeldOn(x, d)'] = [x \in BillId |-> HeldOn(x, d)]
  OBVIOUS
<1>6. (\A x \in BillId : HeldOn(x, d)' = HeldOn(x, d)) => HeldOf(d)' = HeldOf(d)
  BY <1>5 DEF HeldOf, HeldOn
<1>. QED  BY <1>2, <1>4, <1>6

\* issue_bill, with or without roll_arrears, is an Assess: the payments of the bills it
\* supersedes are rolled up, nothing held changes, and only that payer's debt does.
LEMMA IssuingAssesses ==
  ASSUME AccountInv, AccountInv', NEW n \in BillId, NEW c \in Payer, NEW R \in SUBSET BillId,
         Issues(n, c, R), bill[n].status = "NONE", UNCHANGED <<payment, credit>>
  PROVE  Account!Assess(c)
<1>0. TypeOK /\ LedgerInv
  BY DEF AccountInv, LedgerInv
<1>1. \A x \in BillId : bill'[x].paid = bill[x].paid
  BY <1>0, IssuingKeepsPaid
<1>2. bill'[n].payer = c /\ n \notin R /\ \A x \in BillId \ (R \cup {n}) : bill'[x] = bill[x]
  BY DEF Issues, OpenOf, OpenStatus
<1>3. ASSUME NEW x \in R
      PROVE  /\ bill[x].payer = c /\ bill'[x].payer = c
             /\ bill[x].status \in OpenStatus /\ bill'[x].status = "SUPERSEDED"
  <2>1. bill[x] \in BillRow /\ x \in OpenOf(c)
        /\ bill'[x] = [bill[x] EXCEPT !.status = "SUPERSEDED", !.supersededBy = n]
    BY <1>0 DEF Issues, TypeOK
  <2>2. bill'[x].payer = bill[x].payer /\ bill'[x].status = "SUPERSEDED"
    BY <2>1 DEF BillRow
  <2>. QED  BY <2>1, <2>2 DEF OpenOf
<1>4. bill[n].paid = 0 /\ bill'[n].paid = 0 /\ ~Live(n)
  <2>1. ~Exists(n)
    BY DEF Exists
  <2>2. bill'[n].paid = 0
    BY DEF Issues
  <2>. QED  BY <1>1, <2>1, <2>2 DEF Live
<1>5. \A d \in Payer, x \in BillId : HeldOn(x, d)' = HeldOn(x, d)
  <2>1. ASSUME NEW d \in Payer, NEW x \in BillId PROVE HeldOn(x, d)' = HeldOn(x, d)
    <3>1. CASE x = n
      BY <1>4, <3>1 DEF HeldOn
    <3>2. CASE x \in R
      BY <1>1, <1>3, <3>2 DEF HeldOn
    <3>3. CASE x \notin R /\ x # n
      BY <1>2, <3>3 DEF HeldOn
    <3>. QED  BY <3>1, <3>2, <3>3
  <2>. QED  BY <2>1
<1>6. \A d \in Payer \ {c}, x \in BillId : DueOn(x, d)' = DueOn(x, d)
  <2>1. ASSUME NEW d \in Payer \ {c}, NEW x \in BillId PROVE DueOn(x, d)' = DueOn(x, d)
    <3>1. CASE x = n
      BY <1>2, <1>4, <3>1 DEF DueOn
    <3>2. CASE x \in R
      BY <1>3, <3>2 DEF DueOn
    <3>3. CASE x \notin R /\ x # n
      BY <1>2, <3>3 DEF DueOn, Live, Exists
    <3>. QED  BY <3>1, <3>2, <3>3
  <2>. QED  BY <2>1
<1>7. [d \in Payer |-> HeldOf(d)'] = [d \in Payer |-> HeldOf(d)]
  BY <1>5, AmountsStay
<1>8. OwedBy(c)' \in Nat /\ \A d \in Payer \ {c} : OwedBy(d)' = OwedBy(d)
  BY <1>6, AmountsStay
<1>9. ASSUME NEW q \in PaymentId
      PROVE  /\ PartsOf(q)' = PartsOf(q)
             /\ StateOf(q)' # StateOf(q) =>
                  StateOf(q) = "DUE" /\ StateOf(q)' = "ROLLED" /\ PartsOf(q).payer = c
  <2>1. CASE payment[q].status = "NONE"
    BY <2>1 DEF StateOf, PartsOf
  <2>2. CASE payment[q].status # "NONE"
    <3>1. PICK b \in BillId : b = payment[q].bill /\ b # n
      <4>1. payment[q].bill \in BillId /\ Exists(payment[q].bill)
        BY <1>0, <2>2 DEF LedgerInv, PaymentsOfBills
      <4>. QED  BY <4>1 DEF Exists
    <3>2. bill'[b].payer = bill[b].payer
      BY <1>2, <1>3, <3>1
    <3>3. PartsOf(q)' = PartsOf(q) /\ PartsOf(q).payer = bill[b].payer
      BY <2>2, <3>1, <3>2 DEF PartsOf, Applied
    <3>4. CASE b \in R
      BY <1>3, <2>2, <3>1, <3>3, <3>4 DEF StateOf, OpenStatus
    <3>5. CASE b \notin R
      BY <1>2, <2>2, <3>1, <3>3, <3>5 DEF StateOf
    <3>. QED  BY <3>4, <3>5
  <2>. QED  BY <2>1, <2>2
<1>10. [q \in PaymentId |-> PartsOf(q)'] = [q \in PaymentId |-> PartsOf(q)]
  BY <1>9
<1>. QED  BY <1>7, <1>8, <1>9, <1>10 DEF Account!Assess

\* Destroying a bill is an Assess of its payer: no payment names it, so nothing held or
\* split changes, and what it still came to is owed no longer.
LEMMA DestroyingAssesses ==
  ASSUME AccountInv, AccountInv', NEW b \in BillId, DestroyBill(b)
  PROVE  bill[b].payer \in Payer /\ Account!Assess(bill[b].payer)
<1>0. TypeOK /\ LedgerInv
  BY DEF AccountInv, LedgerInv
<1>1. PICK c \in Payer : c = bill[b].payer
  BY <1>0 DEF LedgerInv, PayersOfBills, DestroyBill
<1>2. \A x \in BillId : bill'[x].paid = bill[x].paid
  BY <1>0, DestroyingKeepsPaid
<1>3. /\ bill'[b].status = "DELETED"
      /\ \A x \in BillId \ {b} : bill'[x].status = bill[x].status /\ bill'[x].payer = bill[x].payer
  BY <1>0, DestroyedRows
<1>4. /\ UNCHANGED <<payment, credit>> /\ \A p \in PaymentId : payment[p].bill # b
      /\ \A x \in BillId \ {b} : bill'[x] = DroppedLink(bill[x], b)
      /\ bill'[b] = [NoBill EXCEPT !.status = "DELETED"]
  BY DEF DestroyBill
<1>5. \A x \in BillId \ {b} : bill'[x].total = bill[x].total
  <2>1. ASSUME NEW x \in BillId \ {b} PROVE bill'[x].total = bill[x].total
    <3>1. bill[x] \in BillRow
      BY <1>0 DEF TypeOK
    <3>. QED  BY <1>4, <3>1 DEF DroppedLink, BillRow
  <2>. QED  BY <2>1
<1>6. bill[b].paid = 0
  BY <1>0, <1>4, UnpaidBill DEF LedgerInv
<1>7. \A d \in Payer, x \in BillId : HeldOn(x, d)' = HeldOn(x, d)
  BY <1>2, <1>3, <1>6 DEF HeldOn
<1>8. \A d \in Payer \ {c}, x \in BillId : DueOn(x, d)' = DueOn(x, d)
  <2>1. ASSUME NEW d \in Payer \ {c}, NEW x \in BillId PROVE DueOn(x, d)' = DueOn(x, d)
    <3>1. CASE x = b
      BY <1>1, <1>3, <3>1 DEF DueOn, Live, Exists
    <3>2. CASE x # b
      BY <1>2, <1>3, <1>5, <3>2 DEF DueOn, Live, Exists
    <3>. QED  BY <3>1, <3>2
  <2>. QED  BY <2>1
<1>9. [d \in Payer |-> HeldOf(d)'] = [d \in Payer |-> HeldOf(d)]
  BY <1>7, AmountsStay
<1>10. OwedBy(c)' \in Nat /\ \A d \in Payer \ {c} : OwedBy(d)' = OwedBy(d)
  BY <1>8, AmountsStay
<1>11. ASSUME NEW q \in PaymentId
       PROVE  StateOf(q)' = StateOf(q) /\ PartsOf(q)' = PartsOf(q)
  <2>1. payment[q].status # "NONE" => payment[q].bill \in BillId \ {b}
    BY <1>0, <1>4 DEF LedgerInv, PaymentsOfBills
  <2>. QED  BY <1>0, <1>3, <1>4, <2>1, PaymentStands
<1>12. [q \in PaymentId |-> PartsOf(q)'] = [q \in PaymentId |-> PartsOf(q)]
  BY <1>11
<1>13. Account!Assess(c)
  BY <1>4, <1>9, <1>10, <1>11, <1>12 DEF Account!Assess
<1>. QED  BY <1>1, <1>13

\* Ageing, escalating, and doing nothing move no money.
LEMMA QuietStepStutters ==
  ASSUME AccountInv, AccountInv', Settles, UNCHANGED <<line, payment, credit>>,
         \A x \in BillId : bill'[x].paid = bill[x].paid
  PROVE  UNCHANGED Account!account
<1>0. TypeOK /\ LedgerInv
  BY DEF AccountInv, LedgerInv
<1>1. \A x \in BillId : /\ Live(x)' <=> Live(x)
                        /\ bill'[x].payer = bill[x].payer
                        /\ bill'[x].status = "SUPERSEDED" <=> bill[x].status = "SUPERSEDED"
                        /\ Exists(x)' <=> Exists(x)
  BY <1>0, SettledStaysAlive
<1>2. \A d \in Payer, x \in BillId : DueOn(x, d)' = DueOn(x, d) /\ HeldOn(x, d)' = HeldOn(x, d)
  <2>1. \A x \in BillId : Live(x) => bill'[x].total = bill[x].total
    BY <1>1, TotalKept DEF Live
  <2>. QED  BY <1>1, <2>1 DEF DueOn, HeldOn
<1>3. \A d \in Payer : OwedBy(d)' = OwedBy(d) /\ HeldOf(d)' = HeldOf(d)
  BY <1>2, AmountsStay
<1>4. ASSUME NEW q \in PaymentId
      PROVE  StateOf(q)' = StateOf(q) /\ PartsOf(q)' = PartsOf(q)
  <2>1. payment[q].status # "NONE" => payment[q].bill \in BillId
    BY <1>0 DEF LedgerInv, PaymentsOfBills
  <2>. QED  BY <1>0, <1>1, <2>1, PaymentStands
<1>5. /\ [q \in PaymentId |-> StateOf(q)'] = [q \in PaymentId |-> StateOf(q)]
      /\ [q \in PaymentId |-> PartsOf(q)'] = [q \in PaymentId |-> PartsOf(q)]
      /\ [d \in Payer |-> OwedBy(d)'] = [d \in Payer |-> OwedBy(d)]
      /\ [d \in Payer |-> HeldOf(d)'] = [d \in Payer |-> HeldOf(d)]
  BY <1>3, <1>4
<1>. QED  BY <1>5 DEF Account!account

\* Every step but a line edit is a step of the account or none.
LEMMA StepIsAccounted ==
  ASSUME AccountInv, (Next /\ ~EditLines) \/ UNCHANGED vars
  PROVE  [Account!Next]_(Account!account)
<1>0. TypeOK /\ LedgerInv /\ AccountInv'
  BY AccountKept DEF AccountInv, LedgerInv
<1>1. CASE Issue
  <2>1. PICK n \in BillId, c \in Payer, ask \in [Kind -> AskAmounts \cup {0}],
             sweep \in BOOLEAN, roll \in BOOLEAN, force \in Forcing, due \in DueDates :
               IssueBill(n, c, ask, sweep, roll, force, due)
    BY <1>1 DEF Issue
  <2>2. Account!Assess(c)
    BY <1>0, <2>1, IssuedRows, IssuingAssesses
  <2>. QED  BY <2>2 DEF Account!Next
<1>2. CASE \E b \in BillId : DestroyBill(b)
  BY <1>0, <1>2, DestroyingAssesses DEF Account!Next
<1>3. CASE \E p \in PaymentId, b \in BillId, amount \in PayAmounts : PostPayment(p, b, amount)
  BY <1>0, <1>3, PostingTakes, LedgerConstants DEF Account!Next
<1>4. CASE \E p \in PaymentId : ReversePayment(p)
  BY <1>0, <1>4, ReversingGivesBack DEF Account!Next
<1>5. CASE RefreshDebt
  <2>1. Settles /\ (\A x \in BillId : bill'[x].paid = bill[x].paid)
    BY <1>0, <1>5, RefreshDebtKeeps
  <2>2. UNCHANGED <<line, payment, credit>>
    BY <1>5 DEF RefreshDebt
  <2>. QED  BY <1>0, <2>1, <2>2, QuietStepStutters
<1>6. CASE (\E b \in BillId : EscalateToClosed(b)) \/ NextDay \/ UNCHANGED vars
  <2>1. Settles
    BY <1>0, <1>6, EscalateKeeps, NextDayKeeps, StutterKeeps
  <2>2. UNCHANGED <<bill, line, payment, credit>>
    BY <1>6 DEF EscalateToClosed, NextDay, vars
  <2>. QED  BY <1>0, <2>1, <2>2, QuietStepStutters
<1>. QED  BY <1>1, <1>2, <1>3, <1>4, <1>5, <1>6 DEF Next

\* With no bills there is nothing owed, held or taken.
LEMMA AccountStarts ==
  ASSUME Init
  PROVE  Account!Init
<1>0. AccountInv
  BY AccountInit
<1>1. /\ \A b \in BillId : bill[b] = NoBill
      /\ \A p \in PaymentId : payment[p].status = "NONE"
      /\ credit = [c \in Payer |-> 0]
  BY DEF Init, NoPayment
<1>2. ASSUME NEW c \in Payer PROVE OwedBy(c) = 0 /\ HeldOf(c) = 0
  <2> DEFINE due == [b \in BillId |-> DueOn(b, c)]
             held == [b \in BillId |-> HeldOn(b, c)]
  <2>1. \A b \in BillId : DueOn(b, c) = 0 /\ HeldOn(b, c) = 0
    BY <1>1 DEF DueOn, HeldOn, Live, Exists, NoBill
  <2>2. due \in [1..MaxBills -> Int] /\ held \in [1..MaxBills -> Int]
        /\ \A b \in 1..MaxBills : due[b] = 0 /\ held[b] = 0
    BY <2>1, Bounds
  <2>3. OwedBy(c) = SumTo(due, MaxBills) /\ HeldOf(c) = SumTo(held, MaxBills)
    BY <1>0, AmountsAreByBill DEF AmountsByBill, HeldOf, HeldOn
  <2> HIDE DEF due, held
  <2>. QED  BY <2>2, <2>3, Bounds, SumOfZeros
<1>3. [c \in Payer |-> OwedBy(c)] = [c \in Payer |-> 0]
      /\ [c \in Payer |-> HeldOf(c)] = [c \in Payer |-> 0]
  BY <1>2
<1>4. [p \in PaymentId |-> StateOf(p)] = [p \in PaymentId |-> "NONE"]
  BY <1>1 DEF StateOf
<1>5. [p \in PaymentId |-> PartsOf(p)]
      = [p \in PaymentId |-> [payer |-> NoPayer, applied |-> 0, extra |-> 0]]
  BY <1>1 DEF PartsOf
<1>. QED  BY <1>1, <1>3, <1>4, <1>5 DEF Account!Init, Account!NoParts

\* The ledger is an account, for every number of payers, bills, lines and payments: over
\* any history in which no line is edited, each handler of billing, payments and
\* enforcement moves the columns the account is read from (amount_paid, credit_balance,
\* statuses, lines) as one step of Collections does, or moves no money at all.
THEOREM LedgerImplementsAccount == Spec /\ [][~EditLines]_vars => LedgerIsAnAccount
<1>1. Init => AccountInv
  BY AccountInit
<1>2. AccountInv /\ [Next]_vars /\ [~EditLines]_vars =>
        AccountInv' /\ [Account!Next]_(Account!account)
  <2> SUFFICES ASSUME AccountInv, [Next]_vars, [~EditLines]_vars
               PROVE  AccountInv' /\ [Account!Next]_(Account!account)
    OBVIOUS
  <2>1. (Next /\ ~EditLines) \/ UNCHANGED vars
    OBVIOUS
  <2>. QED  BY <2>1, AccountKept, StepIsAccounted
<1>3. Init => Account!Init
  BY AccountStarts
<1>. QED  BY <1>1, <1>2, <1>3, PTL DEF Spec, LedgerIsAnAccount, Account!Spec
=============================================================================
