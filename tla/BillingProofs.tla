--------------------------- MODULE BillingProofs ----------------------------
(***************************************************************************)
(* What Billing guarantees for any categories, prices, carts, amounts and  *)
(* requests: the shares of a payment add up to it and exceed what their    *)
(* invoices owe by no more than what was paid on them between two of the   *)
(* checkout's queries; on the invoices on which no two requests overlapped *)
(* totals and lines agree and no category is billed twice.  The locks      *)
(* close no circle.                                                        *)
(***************************************************************************)
EXTENDS Billing, FiniteSetTheorems, TLAPS

-----------------------------------------------------------------------------
(* The split of a payment *)

\* Rounding never leaves the integers that bracket the quotient n / d.
LEMMA HalfUpBounds ==
  ASSUME NEW n \in Nat, NEW d \in Nat \ {0}, NEW lo \in Nat, NEW hi \in Nat,
         lo * d <= n, n <= hi * d
  PROVE  HalfUp(n, d) \in lo .. hi
<1> DEFINE m == 2 * n + d
           k == 2 * d
<1>1. m \in Nat /\ k \in Nat \ {0}
  OBVIOUS
<1>2. m \div k \in Int /\ k * (m \div k) <= m /\ m < k * (m \div k) + k
  BY <1>1
<1>3. HalfUp(n, d) = m \div k
  BY DEF HalfUp
<1> DEFINE h == m \div k
<1>4. h >= lo
  <2>1. SUFFICES ASSUME h + 1 <= lo PROVE FALSE
    BY <1>2
  <2>2. k * (h + 1) <= k * lo
    BY <2>1, <1>1, <1>2
  <2>3. k * (h + 1) = k * h + k
    BY <1>1, <1>2
  <2>4. k * lo = 2 * (lo * d)
    OBVIOUS
  <2> QED
    BY <2>2, <2>3, <2>4, <1>1, <1>2
<1>5. h <= hi
  <2>1. SUFFICES ASSUME hi + 1 <= h PROVE FALSE
    BY <1>2
  <2>2. k * (hi + 1) <= k * h
    BY <2>1, <1>1, <1>2
  <2>3. k * (hi + 1) = 2 * (hi * d) + 2 * d
    OBVIOUS
  <2> QED
    BY <2>2, <2>3, <1>1, <1>2
<1> QED
  BY <1>2, <1>3, <1>4, <1>5

\* The proportional share of this term's invoice is within what that invoice owes,
\* and what remains within what the next one owes, whatever the rounding does: the
\* two comparisons that follow it in reconcile_checkout act only when a balance has
\* moved since the cap.
THEOREM SplitSound ==
  ASSUME NEW amount \in Nat \ {0}, NEW current \in Nat, NEW next \in Nat,
         amount <= current + next
  PROVE  LET share == HalfUp(amount * current, current + next)
         IN  share \in 0 .. current /\ amount - share \in 0 .. next
<1> DEFINE d == current + next
           n == amount * current
           lo == IF amount <= next THEN 0 ELSE amount - next
<1>1. d \in Nat \ {0} /\ n \in Nat /\ lo \in Nat
  OBVIOUS
<1>2. n <= current * d
  BY amount <= d
<1>3. lo * d <= n
  <2>1. CASE amount <= next
    BY <1>1, <2>1
  <2>2. CASE ~ (amount <= next)
    <3>1. PICK k \in Nat : d = amount + k
      BY d - amount \in Nat
    <3>2. (amount - next) * d = amount * d - next * d
      OBVIOUS
    <3>3. amount * d = amount * current + amount * next
      OBVIOUS
    <3>4. next * d = next * amount + next * k /\ next * k \in Nat
      BY <3>1
    <3>5. (amount - next) * d <= n
      <4>1. amount * next = next * amount /\ amount * next \in Nat
        OBVIOUS
      <4> QED BY <3>2, <3>3, <3>4, <4>1
    <3> QED BY <2>2, <3>5
  <2> QED BY <2>1, <2>2
<1>4. HalfUp(n, d) \in lo .. current
  BY <1>1, <1>2, <1>3, HalfUpBounds
<1>5. n <= amount * d
  BY <1>1
<1>6. HalfUp(n, d) \in lo .. amount
  BY <1>1, <1>3, <1>5, HalfUpBounds
<1> QED
  BY <1>1, <1>4, <1>6

-----------------------------------------------------------------------------
(* Sums *)

\* A sum of integers, as sets with one cell for each unit of each summand: those of
\* the positive ones, and those of the negative ones.
Cells(f, S) == {c \in S \X Nat : c[2] < f[c[1]]}
Debts(f, S) == {c \in S \X Nat : c[2] < - f[c[1]]}
Worth(f, S) == Cardinality(Cells(f, S)) - Cardinality(Debts(f, S))

\* A set of subsets that holds the empty one, and with all but one element of a
\* subset the subset itself, holds every finite set.
LEMMA FiniteClosure ==
  ASSUME NEW S, IsFiniteSet(S), NEW Good, {} \in Good,
         \A U \in SUBSET S : U # {} =>
           \E x \in U : U \ {x} \in Good => U \in Good
  PROVE  S \in Good
<1> SUFFICES ASSUME S \notin Good PROVE FALSE
  OBVIOUS
<1> DEFINE Bad == {U \in SUBSET S : U \notin Good}
           Size == {Cardinality(U) : U \in Bad}
           R == OpToRel(<, Nat)
<1>1. \A U \in SUBSET S : IsFiniteSet(U) /\ Cardinality(U) \in Nat
  BY FS_Subset, FS_CardinalityType
<1>2. Size \subseteq Nat /\ Size # {}
  BY <1>1
<1>3. IsWellFoundedOn(R, Nat)
  BY NatLessThanWellFounded
<1> HIDE DEF R
<1>4. PICK n \in Size : \A m \in Size : ~ (<<m, n>> \in R)
  BY ONLY <1>2, <1>3, WFMin
<1>5. PICK U \in Bad : Cardinality(U) = n
  BY <1>4
<1>6. PICK x \in U : U \ {x} \in Good => U \in Good
  <2>1. U \in SUBSET S /\ U # {}
    OBVIOUS
  <2> QED BY <2>1
<1>7. Cardinality(U \ {x}) = n - 1 /\ n \in Nat /\ n - 1 \in Nat
  <2>1. IsFiniteSet(U) /\ Cardinality(U) = n /\ n \in Nat
    BY <1>1, <1>5
  <2>2. Cardinality(U \ {x}) = Cardinality(U) - 1
    BY <2>1, FS_RemoveElement
  <2>3. Cardinality(U \ {x}) \in Nat
    BY <1>1, U \ {x} \in SUBSET S
  <2> QED BY <2>1, <2>2, <2>3
<1>8. U \ {x} \in Bad
  BY <1>6
<1>9. n - 1 \in Size
  BY <1>7, <1>8
<1>10. <<n - 1, n>> \in R
  BY <1>7 DEF R, OpToRel
<1> QED
  BY <1>4, <1>9, <1>10

\* The cells of one element.
LEMMA Column ==
  ASSUME NEW x, NEW n \in Int
  PROVE  /\ IsFiniteSet({x} \X (0 .. n - 1))
         /\ Cardinality({x} \X (0 .. n - 1)) = IF n > 0 THEN n ELSE 0
<1> DEFINE I == 0 .. n - 1
           m == IF n > 0 THEN n ELSE 0
<1>1. IsFiniteSet({x}) /\ Cardinality({x}) = 1
  BY FS_Singleton
<1>2. IsFiniteSet(I) /\ Cardinality(I) = m /\ m \in Nat
  <2>1. IsFiniteSet(I) /\ Cardinality(I) = IF 0 > n - 1 THEN 0 ELSE (n - 1) - 0 + 1
    BY FS_Interval, n - 1 \in Int
  <2> HIDE DEF I
  <2> QED BY <2>1
<1> HIDE DEF I, m
<1>3. IsFiniteSet({x} \X I) /\ Cardinality({x} \X I) = 1 * m
  BY <1>1, <1>2, FS_Product
<1> QED BY <1>2, <1>3 DEF I, m

\* A finite sum has finitely many cells; one summand is its column of them.
LEMMA CellsStep ==
  ASSUME NEW S, IsFiniteSet(S), NEW f, \A y \in S : f[y] \in Int
  PROVE  /\ IsFiniteSet(Cells(f, S)) /\ Cardinality(Cells(f, S)) \in Nat
         /\ \A x \in S : Cardinality(Cells(f, S))
                           = (IF f[x] > 0 THEN f[x] ELSE 0) + Cardinality(Cells(f, S \ {x}))
<1> DEFINE Good == {U \in SUBSET S : IsFiniteSet(Cells(f, U))}
<1>1. {} \in Good
  <2>1. Cells(f, {}) = {}
    BY DEF Cells
  <2> QED
    BY <2>1, FS_EmptySet
<1>2. ASSUME NEW U \in SUBSET S, NEW x \in U
      PROVE  Cells(f, U) = ({x} \X (0 .. f[x] - 1)) \cup Cells(f, U \ {x})
  BY f[x] \in Int DEF Cells
<1>3. \A A, B : IsFiniteSet(A) /\ IsFiniteSet(B) => IsFiniteSet(A \cup B)
  BY FS_Union
<1>4. ASSUME NEW U \in SUBSET S, U # {}
      PROVE  \E x \in U : U \ {x} \in Good => U \in Good
  <2>1. PICK x \in U : TRUE
    BY <1>4
  <2>2. IsFiniteSet({x} \X (0 .. f[x] - 1))
    BY Column, f[x] \in Int
  <2>3. IsFiniteSet(Cells(f, U \ {x})) => IsFiniteSet(Cells(f, U))
    BY <1>2, <1>3, <2>2
  <2> QED BY <2>3
<1> HIDE DEF Good
<1>5. S \in Good
  BY <1>1, <1>4, FiniteClosure
<1>6. IsFiniteSet(Cells(f, S)) /\ Cardinality(Cells(f, S)) \in Nat
  BY <1>5, FS_CardinalityType DEF Good
<1>7. ASSUME NEW x \in S
      PROVE  Cardinality(Cells(f, S))
               = (IF f[x] > 0 THEN f[x] ELSE 0) + Cardinality(Cells(f, S \ {x}))
  <2> DEFINE X == {x} \X (0 .. f[x] - 1)
             Y == Cells(f, S \ {x})
             n == IF f[x] > 0 THEN f[x] ELSE 0
  <2>1. Cells(f, S) = X \cup Y
    BY <1>2
  <2>2. IsFiniteSet(X) /\ Cardinality(X) = n /\ n \in Nat
    <3>1. f[x] \in Int
      OBVIOUS
    <3>2. IsFiniteSet(X) /\ Cardinality(X) = n
      BY ONLY <3>1, Column
    <3> QED BY <3>1, <3>2
  <2>3. X \cap Y = {} /\ Y \subseteq Cells(f, S)
    BY DEF Cells
  <2>4. IsFiniteSet(Y) /\ Cardinality(Y) \in Nat
    BY <1>6, <2>3, FS_Subset, FS_CardinalityType
  <2> HIDE DEF X, Y, n
  <2>5. Cardinality(X \cup Y) = Cardinality(X) + Cardinality(Y) - Cardinality(X \cap Y)
    BY <2>2, <2>4, FS_Union
  <2>6. Cardinality(X \cap Y) = 0
    BY <2>3, FS_EmptySet
  <2>7. Cardinality(X \cup Y) = n + Cardinality(Y)
    BY <2>2, <2>4, <2>5, <2>6
  <2> QED BY <2>1, <2>7 DEF Y, n
<1> QED BY <1>6, <1>7

LEMMA WorthStep ==
  ASSUME NEW S, IsFiniteSet(S), NEW f, \A y \in S : f[y] \in Int
  PROVE  /\ Worth(f, S) \in Int
         /\ \A x \in S : Worth(f, S) = f[x] + Worth(f, S \ {x})
<1> DEFINE g == [y \in S |-> - f[y]]
<1>1. \A U \in SUBSET S : Debts(f, U) = Cells(g, U)
  BY DEF Debts, Cells
<1>2. \A y \in S : g[y] = - f[y] /\ g[y] \in Int
  OBVIOUS
<1> HIDE DEF g
<1>3. /\ Cardinality(Cells(f, S)) \in Nat /\ Cardinality(Cells(g, S)) \in Nat
      /\ \A x \in S :
           /\ Cardinality(Cells(f, S))
                = (IF f[x] > 0 THEN f[x] ELSE 0) + Cardinality(Cells(f, S \ {x}))
           /\ Cardinality(Cells(g, S))
                = (IF g[x] > 0 THEN g[x] ELSE 0) + Cardinality(Cells(g, S \ {x}))
  BY <1>2, CellsStep
<1>4. ASSUME NEW x \in S PROVE Worth(f, S) = f[x] + Worth(f, S \ {x})
  <2>1. IsFiniteSet(S \ {x})
    BY FS_Subset, S \ {x} \subseteq S
  <2>2. Cardinality(Cells(f, S \ {x})) \in Nat /\ Cardinality(Cells(g, S \ {x})) \in Nat
    BY <1>2, <2>1, CellsStep
  <2>3. S \ {x} \in SUBSET S /\ S \in SUBSET S /\ f[x] \in Int
    OBVIOUS
  <2> QED BY <1>1, <1>2, <1>3, <2>2, <2>3 DEF Worth
<1> QED BY <1>1, <1>3, <1>4 DEF Worth

\* A sum counts its cells, in whatever order it is taken.
LEMMA SumCounts ==
  ASSUME NEW S, IsFiniteSet(S), NEW f, \A y \in S : f[y] \in Int
  PROVE  SumFunctionOnSet(f, S) = Worth(f, S)
<1> DEFINE iterOf(g) == [s \in SUBSET S |->
              IF s = {} THEN 0
              ELSE f[CHOOSE x \in s : TRUE] + g[s \ {CHOOSE x \in s : TRUE}]]
           h == [s \in SUBSET S |-> Worth(f, s)]
           iter == CHOOSE g : g = iterOf(g)
<1>1. h = iterOf(h)
  <2>1. ASSUME NEW s \in SUBSET S PROVE h[s] = iterOf(h)[s]
    <3>1. CASE s = {}
      <4>1. Cells(f, {}) = {} /\ Debts(f, {}) = {}
        BY DEF Cells, Debts
      <4> QED BY <3>1, <4>1, FS_EmptySet DEF Worth
    <3>2. CASE s # {}
      <4> DEFINE x == CHOOSE x \in s : TRUE
      <4>1. x \in s
        BY <3>2
      <4>2. IsFiniteSet(s) /\ \A y \in s : f[y] \in Int
        BY FS_Subset
      <4> HIDE DEF x
      <4>3. Worth(f, s) = f[x] + Worth(f, s \ {x})
        BY <4>1, <4>2, WorthStep
      <4> QED BY <3>2, <4>3, s \ {x} \in SUBSET S DEF x
    <3> QED BY <3>1, <3>2
  <2> QED BY <2>1
<1>2. iter = iterOf(iter)
  BY <1>1
<1>3. iter[S] = SumFunctionOnSet(f, S)
  BY DEF SumFunctionOnSet, FoldFunctionOnSet, MapThenFoldSet
<1> HIDE DEF iter
<1> DEFINE Good == {s \in SUBSET S : iter[s] = h[s]}
<1>4. {} \in Good
  BY <1>1, <1>2
<1>5. ASSUME NEW s \in SUBSET S, s # {}
      PROVE  \E x \in s : s \ {x} \in Good => s \in Good
  <2> DEFINE x == CHOOSE x \in s : TRUE
  <2>1. x \in s /\ s \ {x} \in SUBSET S
    BY <1>5
  <2>2. iter[s] = f[x] + iter[s \ {x}]
    BY <1>2, <1>5
  <2>3. h[s] = f[x] + h[s \ {x}]
    BY <1>1, <1>5
  <2> HIDE DEF x, h
  <2>4. s \ {x} \in Good => s \in Good
    BY <2>1, <2>2, <2>3
  <2> QED BY <2>1, <2>4
<1> HIDE DEF Good
<1>6. S \in Good
  BY <1>4, <1>5, FiniteClosure
<1> QED
  BY <1>3, <1>6 DEF h, Good

\* A sum is one summand more than the sum of the others.
LEMMA SumStep ==
  ASSUME NEW S, IsFiniteSet(S), NEW f, \A y \in S : f[y] \in Int
  PROVE  /\ SumFunctionOnSet(f, S) \in Int
         /\ SumFunctionOnSet(f, {}) = 0
         /\ \A x \in S :
              SumFunctionOnSet(f, S) = f[x] + SumFunctionOnSet(f, S \ {x})
<1>1. SumFunctionOnSet(f, S) = Worth(f, S)
  BY SumCounts
<1>2. SumFunctionOnSet(f, {}) = Worth(f, {})
  BY SumCounts, FS_EmptySet
<1>3. Cells(f, {}) = {} /\ Debts(f, {}) = {}
  BY DEF Cells, Debts
<1>4. \A x \in S : SumFunctionOnSet(f, S \ {x}) = Worth(f, S \ {x})
  <2> TAKE x \in S
  <2>1. IsFiniteSet(S \ {x})
    BY FS_Subset, S \ {x} \subseteq S
  <2> QED BY <2>1, SumCounts
<1>5. SumFunctionOnSet(f, {}) = 0
  BY <1>2, <1>3, FS_EmptySet DEF Worth
<1>6. Worth(f, S) \in Int /\ \A x \in S : Worth(f, S) = f[x] + Worth(f, S \ {x})
  BY WorthStep
<1> QED BY <1>1, <1>4, <1>5, <1>6

\* The sum of sums, summand by summand.
LEMMA SumAdds ==
  ASSUME NEW S, IsFiniteSet(S), NEW f, NEW g, NEW h,
         \A x \in S : f[x] \in Int /\ g[x] \in Int /\ h[x] = f[x] + g[x]
  PROVE  SumFunctionOnSet(h, S) = SumFunctionOnSet(f, S) + SumFunctionOnSet(g, S)
<1> DEFINE Good == {U \in SUBSET S : SumFunctionOnSet(h, U)
                      = SumFunctionOnSet(f, U) + SumFunctionOnSet(g, U)}
<1>0. \A U \in SUBSET S :
        /\ IsFiniteSet(U)
        /\ \A x \in U : f[x] \in Int /\ g[x] \in Int /\ h[x] \in Int
  BY FS_Subset
<1>1. {} \in Good
  BY <1>0, SumStep, FS_EmptySet
<1>2. ASSUME NEW U \in SUBSET S, U # {}
      PROVE  \E x \in U : U \ {x} \in Good => U \in Good
  <2>1. PICK x \in U : TRUE
    BY <1>2
  <2>2. /\ SumFunctionOnSet(f, U) = f[x] + SumFunctionOnSet(f, U \ {x})
        /\ SumFunctionOnSet(g, U) = g[x] + SumFunctionOnSet(g, U \ {x})
        /\ SumFunctionOnSet(h, U) = h[x] + SumFunctionOnSet(h, U \ {x})
    BY <1>0, SumStep
  <2>3. /\ SumFunctionOnSet(f, U \ {x}) \in Int /\ SumFunctionOnSet(g, U \ {x}) \in Int
    BY <1>0, SumStep, U \ {x} \in SUBSET S
  <2>4. f[x] \in Int /\ g[x] \in Int /\ h[x] = f[x] + g[x] /\ U \ {x} \in SUBSET S
    OBVIOUS
  <2> HIDE DEF Good
  <2>5. U \ {x} \in Good => U \in Good
    BY <2>2, <2>3, <2>4 DEF Good
  <2> QED BY <2>5
<1> HIDE DEF Good
<1>3. S \in Good
  BY <1>1, <1>2, FiniteClosure
<1> QED BY <1>3 DEF Good

\* A sum depends on its summands only, and one of naturals is a natural.
LEMMA SumSame ==
  ASSUME NEW S, IsFiniteSet(S), NEW f, NEW g, \A x \in S : f[x] \in Int /\ g[x] = f[x]
  PROVE  SumFunctionOnSet(g, S) = SumFunctionOnSet(f, S)
<1>1. Cells(f, S) = Cells(g, S) /\ Debts(f, S) = Debts(g, S)
  BY DEF Cells, Debts
<1> QED BY <1>1, SumCounts DEF Worth

LEMMA SumNat ==
  ASSUME NEW S, IsFiniteSet(S), NEW f, \A x \in S : f[x] \in Nat
  PROVE  SumFunctionOnSet(f, S) \in Nat
<1>1. Debts(f, S) = {} /\ SumFunctionOnSet(f, S) = Worth(f, S)
  BY SumCounts DEF Debts
<1>2. Cardinality(Cells(f, S)) \in Nat
  BY CellsStep
<1> QED BY <1>1, <1>2, FS_EmptySet DEF Worth

LEMMA SumZero ==
  ASSUME NEW S, IsFiniteSet(S), NEW f, \A x \in S : f[x] = 0
  PROVE  SumFunctionOnSet(f, S) = 0
<1>1. Debts(f, S) = {} /\ Cells(f, S) = {} /\ SumFunctionOnSet(f, S) = Worth(f, S)
  BY SumCounts DEF Debts, Cells
<1> QED BY <1>1, FS_EmptySet DEF Worth

LEMMA SumSingle ==
  ASSUME NEW S, IsFiniteSet(S), NEW c \in S, NEW n \in Int, NEW f,
         \A x \in S : f[x] = IF x = c THEN n ELSE 0
  PROVE  SumFunctionOnSet(f, S) = n
<1>1. IsFiniteSet(S \ {c})
  BY FS_Subset, S \ {c} \subseteq S
<1>2. SumFunctionOnSet(f, S \ {c}) = 0
  BY <1>1, SumZero
<1>3. f[c] = n /\ \A x \in S : f[x] \in Int
  OBVIOUS
<1>4. SumFunctionOnSet(f, S) = f[c] + SumFunctionOnSet(f, S \ {c})
  BY <1>3, SumStep
<1> QED BY <1>2, <1>3, <1>4

-----------------------------------------------------------------------------
(* The invariant *)

\* The page a payer fills in names no extra twice and offers nothing beside the
\* bundle (make_payment.html, syncBundleUI).
PageCarts ==
  \A cart \in Cart : \A c \in Category :
    cart.extras[c] <= 1 /\ (cart.bundle => cart.extras[c] = 0)

Collecting == {"open", "check", "write"}
Sharing == {"sum", "cap", "trim", "cut", "commit"}
Checkout == Collecting \cup Sharing \cup {"pay"}

\* The terms whose invoice a checkout has opened.
Opened(j) ==
  IF j.phase \in Sharing THEN CartTerms(j.cart)
  ELSE IF j.phase \in Collecting
       THEN (IF j.term = "next" THEN CartTerms(j.cart) \ {"next"} ELSE {})
              \cup (IF j.phase \in {"check", "write"} THEN {j.term} ELSE {})
       ELSE {}

\* Where every balance was what it had been, and none was overpaid, no share is
\* less than nothing or more than its invoice owes.
Fair(j) ==
  j.steady /\ (\A t \in Term : j.due[t] >= 0) =>
    \A t \in Term : j.share[t] \in 0 .. j.due[t]

\* What was asked of the payer is what was given, and no more than the cap.
Given(j) == j.share["current"] + j.share["next"] = j.amount /\ j.amount <= j.total

\* What is known of the balances and the shares where a checkout stands.
SharesOK(j) ==
  /\ j.phase \in Collecting => j.total = 0 /\ j.steady
  /\ j.phase = "sum" =>
       /\ j.term \in CartTerms(j.cart) /\ j.steady
       /\ IF j.term = "next" /\ CartTerms(j.cart) = Term
          THEN j.total = j.due["current"] ELSE j.total = 0
  /\ j.phase = "cap" =>
       /\ j.steady
       /\ CartTerms(j.cart) = Term => j.total = j.due["current"] + j.due["next"]
       /\ \A t \in Term : CartTerms(j.cart) = {t} => j.total = j.due[t]
  /\ j.phase \in {"trim", "cut"} =>
       /\ CartTerms(j.cart) = Term /\ Given(j) /\ Fair(j)
       /\ j.phase = "cut" => j.share[j.term] > j.due[j.term]
       /\ j.term = "next" => j.share["current"] <= j.due["current"]
  /\ j.phase \in {"commit", "pay"} =>
       /\ Given(j) /\ Fair(j)
       /\ CartTerms(j.cart) = Term =>
            /\ j.share["next"] <= j.due["next"]
            /\ \/ j.share["current"] <= j.due["current"]
               \/ j.share["current"] + j.due["next"] <= j.total

\* What a request holds fits the statement it stands at.
ShapeOK(j) ==
  /\ j.phase \in Checkout =>
       j.cart \in Cart /\ j.cart # NoCart /\ CartTerms(j.cart) # {} /\ j.amount \in Entered
  /\ j.phase \notin Checkout => j.cart = NoCart
  /\ j.phase \in Collecting => j.term \in CartTerms(j.cart)
  /\ j.phase \in Checkout \ {"pay"} =>
       \A t \in Term \ Opened(j) :
         j.seen[t] = 0 /\ j.fresh[t] = NothingFresh /\ t \notin j.made \cup j.held
  /\ j.phase \in {"check", "write"} => \A c \in j.todo : j.fresh[j.term][c] = 0
  /\ j.phase \in Checkout \ {"pay"} =>
       \A t \in Opened(j) \ j.held :
         \/ j.fresh[t] = NothingFresh
         \/ t = j.term /\ j.phase = "write"
         \/ t = j.term /\ j.phase = "check" /\ t = "current"
  /\ j.phase \in {"lines", "relines"} => j.todo \subseteq Compulsory
  /\ SharesOK(j)

Once(ls) == \A c \in Category : ls[c].count <= 1

\* What a request finds on a term that it alone works on.
Fits(j, t, total, ls) ==
  /\ j.phase \in {"lines", "relines"} =>
       /\ total # NoInvoice
       /\ j.phase = "lines" => total = PriceOf(j.price[t], Compulsory)
       /\ LineSum(ls) + PriceOf(j.price[t], j.todo) = PriceOf(j.price[t], Compulsory)
       /\ \A c \in j.todo : ls[c].count = 0
  /\ j.phase = "clear" => total # NoInvoice
  /\ t \in Opened(j) => total # NoInvoice \/ t \in j.made
  /\ PageCarts /\ t \in Opened(j) => \A c \in Category : ls[c].count + j.fresh[t][c] <= 1

\* As long as no request has died, its copy of the total is right too.
FitsTotal(j, t, ls) == t \in Opened(j) => j.seen[t] = LineSum(ls) + Added(j, t)

Agree(total, ls) == IF total # NoInvoice THEN total = LineSum(ls) ELSE ls = NoLines

\* A term on which no two requests have overlapped.
TermOK(t) ==
  /\ ~ Exists(t) => lines[t] = NoLines
  /\ PageCarts => Once(lines[t])
  /\ crashes = 0 /\ ~ Building(t) => Agree(invoice[t], lines[t])
  /\ \A q \in Request :
       t \in Touched(job[q]) => /\ Fits(job[q], t, invoice[t], lines[t])
                                /\ crashes = 0 => FitsTotal(job[q], t, lines[t])

\* On such a term only one request works.
Alone ==
  \A t \in Term \ tangled : \A q, r \in Request :
    t \in Touched(job[q]) /\ t \in Touched(job[r]) => q = r

BillingInv ==
  /\ BillingTypeOK
  /\ \A q \in Request : ShapeOK(job[q])
  /\ Alone
  /\ \A t \in Term \ tangled : TermOK(t)

-----------------------------------------------------------------------------
(* The operators *)

LEMMA CartTermsType ==
  ASSUME NEW cart
  PROVE  CartTerms(cart) \in {{}, {"current"}, {"next"}, Term}
BY DEF CartTerms, Term

LEMMA FinitePrices ==
  /\ IsFiniteSet(Category) /\ Compulsory \subseteq Category
  /\ \A ps \in [Category -> Amount], c \in Category : ps[c] \in Nat /\ ps[c] \in Int
<1>1. IsFiniteSet(Category) /\ Compulsory \subseteq Category /\ Amount \subseteq Nat
  BY BillingAssumption
<1>2. ASSUME NEW ps \in [Category -> Amount], NEW c \in Category
      PROVE  ps[c] \in Nat /\ ps[c] \in Int
  <2>1. ps[c] \in Amount
    OBVIOUS
  <2>2. ps[c] \in Nat
    BY <1>1, <2>1
  <2> QED BY ONLY <2>2
<1> QED BY <1>1, <1>2

LEMMA LineSumType ==
  ASSUME NEW ls, \A c \in Category : ls[c].sum \in Nat
  PROVE  LineSum(ls) \in Nat
<1>1. \A c \in Category : [d \in Category |-> ls[d].sum][c] \in Nat
  OBVIOUS
<1> QED BY <1>1, SumNat, FinitePrices DEF LineSum, SumFunction

LEMMA PriceOfType ==
  ASSUME NEW ps \in [Category -> Amount], NEW cats \in SUBSET Category
  PROVE  PriceOf(ps, cats) \in Nat
<1>1. IsFiniteSet(cats) /\ \A c \in cats : ps[c] \in Nat
  BY FS_Subset, FinitePrices
<1> QED BY <1>1, SumNat DEF PriceOf

LEMMA AddedType ==
  ASSUME NEW j \in Job, NEW t \in Term
  PROVE  /\ Added(j, t) \in Nat
         /\ \A next : next.fresh[t] = NothingFresh /\ next.price = j.price =>
              Added(next, t) = 0
<1> DEFINE f == [c \in Category |-> j.fresh[t][c] * j.price[t][c]]
<1>1. \A c \in Category : f[c] \in Nat
  <2> TAKE c \in Category
  <2>1. j.fresh[t][c] \in Nat /\ j.price[t][c] \in Nat
    BY FinitePrices DEF Job, Prices
  <2> QED BY <2>1
<1>2. Added(j, t) = SumFunctionOnSet(f, Category)
  BY DEF Added, SumFunction
<1> HIDE DEF f
<1>3. Added(j, t) \in Nat
  BY <1>1, <1>2, SumNat, FinitePrices
<1>4. ASSUME NEW next, next.fresh[t] = NothingFresh, next.price = j.price
      PROVE  Added(next, t) = 0
  <2> DEFINE g == [c \in Category |-> next.fresh[t][c] * next.price[t][c]]
  <2>1. \A c \in Category : g[c] = 0
    <3> TAKE c \in Category
    <3>1. next.price[t][c] \in Nat /\ next.fresh[t][c] = 0
      BY <1>4, FinitePrices DEF Job, Prices, NothingFresh
    <3> QED BY <3>1 DEF g
  <2>2. Added(next, t) = SumFunctionOnSet(g, Category)
    BY DEF Added, SumFunction
  <2> HIDE DEF g
  <2> QED BY <2>1, <2>2, SumZero, FinitePrices
<1> QED BY <1>3, <1>4

\* One item more to bill.
LEMMA AddedStep ==
  ASSUME NEW j \in Job, NEW t \in Term, NEW c \in Category, NEW count \in Nat,
         NEW next, next.price = j.price, j.fresh[t][c] = 0,
         next.fresh[t] = [j.fresh[t] EXCEPT ![c] = count]
  PROVE  Added(next, t) = Added(j, t) + count * j.price[t][c]
<1> DEFINE amount == count * j.price[t][c]
           f == [d \in Category |-> j.fresh[t][d] * j.price[t][d]]
           g == [d \in Category |-> IF d = c THEN amount ELSE 0]
           h == [d \in Category |-> next.fresh[t][d] * next.price[t][d]]
<1>1. /\ j.fresh[t] \in [Category -> Nat]
      /\ \A d \in Category : j.fresh[t][d] \in Nat /\ j.price[t][d] \in Nat
  BY FinitePrices DEF Job, Prices
<1>2. amount \in Int
  BY <1>1
<1>3. ASSUME NEW d \in Category
      PROVE  f[d] \in Int /\ g[d] \in Int /\ h[d] = f[d] + g[d]
  <2>1. j.fresh[t][d] * j.price[t][d] \in Int
    BY <1>1
  <2>2. CASE d = c
    BY <1>1, <1>2, <2>1, <2>2
  <2>3. CASE d # c
    <3>1. next.fresh[t][d] = j.fresh[t][d]
      BY <1>1, <2>3
    <3> QED BY <2>1, <2>3, <3>1
  <2> QED BY <2>2, <2>3
<1>4. \A d \in Category : g[d] = IF d = c THEN amount ELSE 0
  OBVIOUS
<1>5. Added(j, t) = SumFunctionOnSet(f, Category) /\ Added(next, t) = SumFunctionOnSet(h, Category)
  BY DEF Added, SumFunction
<1> HIDE DEF f, g, h, amount
<1>6. SumFunctionOnSet(h, Category) = SumFunctionOnSet(f, Category) + SumFunctionOnSet(g, Category)
  BY <1>3, SumAdds, FinitePrices
<1>7. SumFunctionOnSet(g, Category) = amount
  BY <1>2, <1>4, SumSingle, FinitePrices
<1> QED BY <1>5, <1>6, <1>7 DEF amount

Increase(fresh, ps) == SumFunction([c \in Category |-> fresh[c] * ps[c]])

\* What was added to the lines is what was added to their sum.
LEMMA GrownSum ==
  ASSUME NEW ls, NEW fresh, NEW ps,
         \A c \in Category : /\ ls[c].sum \in Nat /\ ls[c].count \in Nat
                             /\ fresh[c] \in Nat /\ ps[c] \in Nat
  PROVE  /\ Grown(ls, fresh, ps) \in [Category -> [count : Nat, sum : Nat]]
         /\ \A c \in Category : Grown(ls, fresh, ps)[c].count = ls[c].count + fresh[c]
         /\ LineSum(Grown(ls, fresh, ps))
              = LineSum(ls) + Increase(fresh, ps)
<1> DEFINE new == Grown(ls, fresh, ps)
           f == [c \in Category |-> ls[c].sum]
           g == [c \in Category |-> fresh[c] * ps[c]]
           h == [c \in Category |-> new[c].sum]
<1>1. ASSUME NEW c \in Category
      PROVE  /\ new[c].count = ls[c].count + fresh[c] /\ new[c].count \in Nat
             /\ new[c].sum = f[c] + g[c] /\ new[c].sum \in Nat
             /\ f[c] \in Int /\ g[c] \in Int /\ h[c] = f[c] + g[c]
             /\ new[c] = [count |-> new[c].count, sum |-> new[c].sum]
  <2>1. fresh[c] * ps[c] \in Nat
    OBVIOUS
  <2> QED BY <2>1 DEF Grown
<1>2. new \in [Category -> [count : Nat, sum : Nat]]
  <2>1. new = [c \in Category |-> new[c]]
    BY DEF Grown
  <2> QED BY <1>1, <2>1
<1>3. LineSum(new) = SumFunctionOnSet(h, Category)
  BY DEF LineSum, SumFunction
<1>4. LineSum(ls) = SumFunctionOnSet(f, Category)
  BY DEF LineSum, SumFunction
<1>5. Increase(fresh, ps) = SumFunctionOnSet(g, Category)
  BY DEF SumFunction, Increase
<1> HIDE DEF f, g, h, new
<1>6. SumFunctionOnSet(h, Category)
        = SumFunctionOnSet(f, Category) + SumFunctionOnSet(g, Category)
  BY <1>1, SumAdds, FinitePrices
<1> QED BY <1>1, <1>2, <1>3, <1>4, <1>5, <1>6 DEF new

LEMMA NoLinesSum == LineSum(NoLines) = 0
<1> DEFINE f == [c \in Category |-> NoLines[c].sum]
<1>1. \A c \in Category : f[c] = 0
  BY DEF NoLines
<1>2. LineSum(NoLines) = SumFunctionOnSet(f, Category)
  BY DEF LineSum, SumFunction
<1> HIDE DEF f
<1> QED BY <1>1, <1>2, SumZero, FinitePrices

\* One line item of the category c.
LEMMA LineGrown ==
  ASSUME NEW ls \in [Category -> [count : Nat, sum : Nat]],
         NEW ps \in [Category -> Amount], NEW c \in Category
  PROVE  LET new == Grown(ls, [d \in Category |-> IF d = c THEN 1 ELSE 0], ps)
         IN  /\ new \in [Category -> [count : Nat, sum : Nat]]
             /\ \A d \in Category : new[d].count = ls[d].count + IF d = c THEN 1 ELSE 0
             /\ LineSum(new) = LineSum(ls) + ps[c]
<1> DEFINE fresh == [d \in Category |-> IF d = c THEN 1 ELSE 0]
           g == [d \in Category |-> fresh[d] * ps[d]]
<1>1. \A d \in Category : fresh[d] = IF d = c THEN 1 ELSE 0
  OBVIOUS
<1> HIDE DEF fresh
<1>2. \A d \in Category : ps[d] \in Nat
  BY FinitePrices
<1>3. \A d \in Category : g[d] = IF d = c THEN ps[c] ELSE 0
  BY <1>1, <1>2
<1>4. \A d \in Category : /\ ls[d].sum \in Nat /\ ls[d].count \in Nat
                          /\ fresh[d] \in Nat /\ ps[d] \in Nat
  BY <1>1, <1>2
<1>5. /\ Grown(ls, fresh, ps) \in [Category -> [count : Nat, sum : Nat]]
      /\ \A d \in Category : Grown(ls, fresh, ps)[d].count = ls[d].count + fresh[d]
      /\ LineSum(Grown(ls, fresh, ps)) = LineSum(ls) + Increase(fresh, ps)
  BY <1>4, GrownSum
<1>6. Increase(fresh, ps) = SumFunctionOnSet(g, Category)
  BY DEF SumFunction, Increase
<1> HIDE DEF g
<1>7. SumFunctionOnSet(g, Category) = ps[c]
  <2>1. IsFiniteSet(Category) /\ ps[c] \in Int
    BY FinitePrices
  <2> QED BY <1>3, <2>1, SumSingle
<1> QED BY <1>1, <1>5, <1>6, <1>7 DEF fresh

LEMMA PriceStep ==
  ASSUME NEW ps \in [Category -> Amount], NEW cats \in SUBSET Category, NEW c \in cats
  PROVE  /\ PriceOf(ps, cats) = ps[c] + PriceOf(ps, cats \ {c})
         /\ PriceOf(ps, {}) = 0
<1>1. IsFiniteSet(cats) /\ \A d \in cats : ps[d] \in Int
  BY FS_Subset, FinitePrices
<1> QED BY <1>1, SumStep DEF PriceOf

-----------------------------------------------------------------------------
(* What a step has to show *)

LEMMA BuildsWhatItTouches ==
  ASSUME BillingInv, NEW r \in Request, job[r].phase \in {"lines", "relines"}
  PROVE  Touched(job[r]) = {job[r].term}
BY DEF BillingInv, ShapeOK, Checkout, Collecting, Sharing, Touched

\* A request moves on, and changes nothing but the terms it works on.
LEMMA WorkFrame ==
  ASSUME BillingInv, BillingTypeOK', NEW q \in Request, NEW next, Move(q, next),
         ShapeOK(next), Touched(next) \subseteq Touched(job[q]), tangled' = tangled,
         crashes' = 0 => crashes = 0,
         \A t \in Term \ Touched(job[q]) : invoice'[t] = invoice[t] /\ lines'[t] = lines[t],
         \A t \in Touched(job[q]) \ tangled :
           /\ invoice'[t] = NoInvoice => lines'[t] = NoLines
           /\ PageCarts => Once(lines'[t])
           /\ crashes' = 0 /\ ~ (next.phase \in {"lines", "relines"} /\ next.term = t) =>
                Agree(invoice'[t], lines'[t])
           /\ t \in Touched(next) => /\ Fits(next, t, invoice'[t], lines'[t])
                                     /\ crashes' = 0 => FitsTotal(next, t, lines'[t])
  PROVE  BillingInv'
<1>1. \A r \in Request : job'[r] = IF r = q THEN next ELSE job[r]
  BY DEF Move, BillingInv, BillingTypeOK
<1>2. \A r \in Request : ShapeOK(job'[r])
  BY <1>1 DEF BillingInv
<1>3. Alone'
  BY <1>1 DEF BillingInv, Alone
<1>4. ASSUME NEW t \in Term \ tangled PROVE TermOK(t)'
  <2>0. TermOK(t)
    BY <1>4 DEF BillingInv
  <2>1. CASE t \in Touched(job[q])
    <3>1. \A r \in Request \ {q} : t \notin Touched(job[r])
      BY <1>4, <2>1 DEF BillingInv, Alone
    <3>2. ~ Building(t)' => ~ (next.phase \in {"lines", "relines"} /\ next.term = t)
      BY <1>1 DEF Building
    <3> QED BY <1>1, <1>4, <2>1, <3>1, <3>2 DEF TermOK, Exists
  <2>2. CASE t \notin Touched(job[q])
    <3>1. ~ Building(t)' => ~ Building(t)
      <4>1. SUFFICES ASSUME NEW r \in Request, job[r].term = t,
                            job[r].phase \in {"lines", "relines"}
                     PROVE  job'[r] = job[r]
        BY DEF Building
      <4>2. r # q
        BY <2>2, <4>1, BuildsWhatItTouches
      <4> QED BY <1>1, <4>2
    <3>2. invoice'[t] = invoice[t] /\ lines'[t] = lines[t] /\ t \notin Touched(next)
      BY <1>4, <2>2
    <3> QED BY <1>1, <2>0, <3>1, <3>2 DEF TermOK, Exists
  <2> QED BY <2>1, <2>2
<1> QED BY <1>2, <1>3, <1>4 DEF BillingInv

\* A request comes in, and finds nothing billed by it yet.
LEMMA BeginFrame ==
  ASSUME BillingInv, BillingTypeOK', NEW q \in Request, NEW j, Begin(q, j),
         UNCHANGED <<invoice, lines>>, ShapeOK(j),
         j.phase \in {"open", "exists"}, Opened(j) = {}
  PROVE  BillingInv'
<1>1. \A r \in Request : job'[r] = IF r = q THEN j ELSE job[r]
  BY DEF Begin, Move, BillingInv, BillingTypeOK
<1>2. \A r \in Request : ShapeOK(job'[r])
  BY <1>1 DEF BillingInv
<1>3. Touched(job[q]) = {} /\ job[q].phase = "idle" /\ crashes' = crashes
  BY DEF Begin, Touched
<1>4. \A t \in Term \ tangled' : t \notin tangled /\
        (t \in Touched(j) => \A r \in Request : t \notin Touched(job[r]))
  BY DEF Begin
<1>5. Alone'
  BY <1>1, <1>4 DEF BillingInv, Alone
<1>6. ASSUME NEW t \in Term \ tangled' PROVE TermOK(t)'
  <2>0. TermOK(t)
    BY <1>4 DEF BillingInv
  <2>1. ~ Building(t)' => ~ Building(t)
    BY <1>1, <1>3 DEF Building
  <2>2. Fits(j, t, invoice[t], lines[t]) /\ FitsTotal(j, t, lines[t])
    BY DEF Fits, FitsTotal
  <2> QED BY <1>1, <1>3, <2>0, <2>1, <2>2 DEF TermOK, Exists
<1> QED BY <1>2, <1>5, <1>6 DEF BillingInv

\* Payments change no invoice.
LEMMA PayFrame ==
  ASSUME BillingInv, payment' \in [Pay -> PaymentRow],
         UNCHANGED <<price, invoice, lines, job, history>>
  PROVE  BillingInv'
<1>1. BillingTypeOK'
  BY DEF BillingInv, BillingTypeOK, history
<1>2. \A q \in Request : ShapeOK(job'[q])
  BY DEF BillingInv
<1>3. Alone'
  BY DEF BillingInv, Alone, history
<1>4. ASSUME NEW t \in Term \ tangled' PROVE TermOK(t)'
  <2>1. TermOK(t)
    BY DEF BillingInv, history
  <2> QED BY <2>1 DEF TermOK, Exists, Building, history
<1> QED BY <1>1, <1>2, <1>3, <1>4 DEF BillingInv

\* What a request may rely on, on a term that nobody else works on.
LEMMA WorksAlone ==
  ASSUME BillingInv, NEW q \in Request, NEW t \in Touched(job[q]) \ tangled
  PROVE  /\ t \in Term /\ (~ Exists(t) => lines[t] = NoLines)
         /\ PageCarts => Once(lines[t])
         /\ Fits(job[q], t, invoice[t], lines[t])
         /\ crashes = 0 => FitsTotal(job[q], t, lines[t])
         /\ crashes = 0 /\ job[q].phase \notin {"lines", "relines"} =>
              Agree(invoice[t], lines[t])
<1>1. t \in Term
  <2>1. job[q].term \in Term
    BY DEF BillingInv, BillingTypeOK, Job
  <2> QED BY <2>1, CartTermsType DEF Touched, Term
<1>2. TermOK(t)
  BY <1>1 DEF BillingInv
<1>3. job[q].phase \notin {"lines", "relines"} => ~ Building(t)
  <2>1. SUFFICES ASSUME NEW r \in Request, job[r].term = t,
                        job[r].phase \in {"lines", "relines"}
                 PROVE  r = q
    BY DEF Building
  <2>2. t \in Touched(job[r])
    BY <2>1, BuildsWhatItTouches
  <2> QED BY <1>1, <2>2 DEF BillingInv, Alone
<1> QED BY <1>1, <1>2, <1>3 DEF TermOK

-----------------------------------------------------------------------------
(* Requests come in and go *)

LEMMA NoJobOK ==
  NoJob \in Job /\ ShapeOK(NoJob) /\ Touched(NoJob) = {} /\ NoJob.phase = "idle"
<1>1. NoJob \in Job
  <2>1. [t \in Term |-> Price0] \in Prices
    BY BillingAssumption DEF Prices
  <2>2. [t \in Term |-> [c \in Category |-> 0]] \in [Term -> [Category -> Nat]]
    OBVIOUS
  <2> QED BY <2>1, <2>2 DEF NoJob, Job, Phase, Term
<1> QED BY <1>1 DEF NoJob, ShapeOK, SharesOK, Checkout, Collecting, Sharing, Touched

LEMMA MoveType ==
  ASSUME BillingInv, NEW q \in Request, NEW next \in Job, Move(q, next)
  PROVE  job' \in [Request -> Job]
BY DEF BillingInv, BillingTypeOK, Move

\* A request ends, or dies.
LEMMA EndOK ==
  ASSUME BillingInv, NEW q \in Request, Move(q, NoJob),
         UNCHANGED <<price, invoice, lines, started, tangled>>,
         payment' \in [Pay -> PaymentRow], crashes' \in 0 .. MaxCrashes,
         \/ crashes' = crashes + 1
         \/ crashes' = crashes /\ job[q].phase \notin {"lines", "relines"}
  PROVE  BillingInv'
<1>1. BillingTypeOK'
  BY NoJobOK, MoveType DEF BillingInv, BillingTypeOK
<1>2. crashes \in Nat
  BY BillingAssumption DEF BillingInv, BillingTypeOK
<1>3. crashes' = 0 => crashes = 0 /\ job[q].phase \notin {"lines", "relines"}
  BY <1>2
<1>4. ASSUME NEW t \in Touched(job[q]) \ tangled
      PROVE  /\ invoice'[t] = NoInvoice => lines'[t] = NoLines
             /\ PageCarts => Once(lines'[t])
             /\ crashes' = 0 => Agree(invoice'[t], lines'[t])
  BY <1>3, WorksAlone DEF Exists
<1> QED BY <1>1, <1>3, <1>4, NoJobOK, WorkFrame

LEMMA CrashOK ==
  ASSUME BillingInv, NEW q \in Request, Crash(q)
  PROVE  BillingInv'
<1>1. crashes' \in 0 .. MaxCrashes
  BY BillingAssumption DEF Crash, BillingInv, BillingTypeOK
<1> QED BY <1>1, EndOK DEF Crash, records, BillingInv, BillingTypeOK

LEMMA BeginType ==
  ASSUME BillingInv, NEW q \in Request, NEW j \in Job, Begin(q, j), j.phase # "idle",
         price' \in Prices, UNCHANGED <<invoice, lines, payment>>
  PROVE  BillingTypeOK'
<1>1. job' \in [Request -> Job] /\ crashes' = crashes
  BY MoveType DEF Begin
<1>2. started' \in 0 .. MaxRequests
  BY BillingAssumption DEF Begin, BillingInv, BillingTypeOK
<1>3. tangled' \subseteq Term
  <2>1. Touched(j) \subseteq Term
    BY CartTermsType DEF Touched, Job, Term
  <2> QED BY <2>1 DEF Begin, BillingInv, BillingTypeOK
<1> QED BY <1>1, <1>2, <1>3 DEF BillingInv, BillingTypeOK

LEMMA SubmitCheckoutOK ==
  ASSUME BillingInv, NEW q \in Request, NEW cart \in Cart, NEW amount \in Entered,
         SubmitCheckout(q, cart, amount)
  PROVE  BillingInv'
<1> DEFINE term == First(cart)
           j == [NoJob EXCEPT !.phase = "open", !.cart = cart, !.amount = amount,
                              !.price = price, !.term = term]
<1>1. price \in Prices /\ term \in Term
  BY DEF BillingInv, BillingTypeOK, First, Term
<1>2. term \in CartTerms(cart) /\ (term = "next" => CartTerms(cart) = {"next"})
  BY CartTermsType DEF SubmitCheckout, First, Term
<1>3. cart # NoCart
  BY DEF SubmitCheckout, NoCart, CartTerms
<1> HIDE DEF term
<1>4. j \in Job
  BY <1>1, NoJobOK DEF Job, Phase
<1>5. /\ j.phase = "open" /\ j.cart = cart /\ j.amount = amount /\ j.term = term
      /\ j.seen = [t \in Term |-> 0] /\ j.fresh = [t \in Term |-> NothingFresh]
      /\ j.made = {} /\ j.held = {} /\ j.total = 0 /\ j.steady
  BY DEF NoJob, NothingFresh
<1>6. Begin(q, j) /\ UNCHANGED <<price, invoice, lines, payment>>
  BY DEF SubmitCheckout, records, term
<1> HIDE DEF j
<1>7. Opened(j) = {}
  BY <1>2, <1>5 DEF Opened, Collecting, Sharing
<1>8. ShapeOK(j)
  BY <1>2, <1>3, <1>5, <1>7 DEF ShapeOK, SharesOK, Checkout, Collecting, Sharing
<1>9. BillingTypeOK'
  BY <1>1, <1>4, <1>5, <1>6, BeginType
<1> QED BY <1>5, <1>6, <1>7, <1>8, <1>9, BeginFrame

LEMMA GenerateOK ==
  ASSUME BillingInv, NEW q \in Request, NEW j \in Job, Begin(q, j), j.phase = "exists",
         j.cart = NoCart, price' \in Prices, UNCHANGED <<invoice, lines, payment>>
  PROVE  BillingInv'
<1>1. Opened(j) = {} /\ ShapeOK(j)
  BY DEF Opened, ShapeOK, SharesOK, Checkout, Collecting, Sharing
<1>2. BillingTypeOK'
  BY BeginType
<1> QED BY <1>1, <1>2, BeginFrame

LEMMA RequestsOK ==
  ASSUME BillingInv, NEW q \in Request,
         \/ \E cart \in Cart, amount \in Entered : SubmitCheckout(q, cart, amount)
         \/ \E t \in Term : Generate(q, t)
         \/ \E t \in Term, c \in Category, amount \in Amount : SavePrice(q, t, c, amount)
  PROVE  BillingInv'
<1>1. ASSUME NEW t \in Term, Generate(q, t) PROVE BillingInv'
  <2> DEFINE j == [NoJob EXCEPT !.phase = "exists", !.term = t]
  <2>1. j \in Job
    BY NoJobOK DEF Job, Phase
  <2>2. j.phase = "exists" /\ j.cart = NoCart
    BY DEF NoJob
  <2>3. Begin(q, j) /\ UNCHANGED <<price, invoice, lines, payment>>
    BY <1>1 DEF Generate, records
  <2> HIDE DEF j
  <2> QED BY <2>1, <2>2, <2>3, GenerateOK DEF BillingInv, BillingTypeOK
<1>2. ASSUME NEW t \in Term, NEW c \in Category, NEW amount \in Amount,
             SavePrice(q, t, c, amount)
      PROVE  BillingInv'
  <2> DEFINE j == [NoJob EXCEPT !.phase = "exists", !.term = t, !.reprice = TRUE]
  <2>1. j \in Job
    BY NoJobOK DEF Job, Phase
  <2>2. j.phase = "exists" /\ j.cart = NoCart
    BY DEF NoJob
  <2>3. Begin(q, j) /\ UNCHANGED <<invoice, lines, payment>>
    BY <1>2 DEF SavePrice
  <2>4. price' \in Prices
    BY <1>2 DEF SavePrice, BillingInv, BillingTypeOK, Prices
  <2> HIDE DEF j
  <2> QED BY <2>1, <2>2, <2>3, <2>4, GenerateOK
<1> QED BY <1>1, <1>2, SubmitCheckoutOK

-----------------------------------------------------------------------------
(* The checkout *)

\* A request that goes on within its transaction.
LEMMA StepsOn ==
  ASSUME BillingInv, NEW q \in Request, NEW next \in Job, Move(q, next),
         UNCHANGED <<records, history>>, ShapeOK(next),
         Touched(next) \subseteq Touched(job[q]),
         job[q].phase \notin {"lines", "relines"}, next.phase \notin {"lines", "relines"},
         \A t \in Touched(job[q]) \ tangled :
           t \in Touched(next) => /\ Fits(next, t, invoice[t], lines[t])
                                  /\ crashes = 0 => FitsTotal(next, t, lines[t])
  PROVE  BillingInv'
<1>1. BillingTypeOK'
  BY MoveType DEF BillingInv, BillingTypeOK, records, history
<1>2. UNCHANGED <<invoice, lines, crashes, tangled>>
  BY DEF records, history
<1>3. ASSUME NEW t \in Touched(job[q]) \ tangled
      PROVE  /\ invoice[t] = NoInvoice => lines[t] = NoLines
             /\ PageCarts => Once(lines[t])
             /\ crashes = 0 => Agree(invoice[t], lines[t])
  BY WorksAlone DEF Exists
<1> QED BY <1>1, <1>2, <1>3, WorkFrame

LEMMA StaysInCart ==
  ASSUME BillingInv, NEW q \in Request, NEW next, next.cart = job[q].cart,
         next.phase \in Checkout, job[q].phase \in Checkout
  PROVE  /\ Touched(next) = CartTerms(job[q].cart)
         /\ Touched(job[q]) = CartTerms(job[q].cart)
         /\ CartTerms(job[q].cart) \subseteq Term
BY CartTermsType DEF BillingInv, ShapeOK, Touched, Checkout, Collecting, Sharing, Term

\* A checkout opens an invoice, or looks for an item; the other one is as it was.
LEMMA LooksAt ==
  ASSUME BillingInv, NEW q \in Request, NEW next \in Job, Move(q, next),
         UNCHANGED <<records, history>>, ShapeOK(next),
         NEW t \in Term, t = job[q].term, job[q].phase \in {"open", "check"},
         next.phase \in {"check", "write"}, next.term = t,
         next.cart = job[q].cart, next.price = job[q].price,
         \A u \in Term \ {t} : /\ next.seen[u] = job[q].seen[u]
                               /\ next.fresh[u] = job[q].fresh[u]
                               /\ u \in next.made <=> u \in job[q].made,
         t \notin tangled =>
           /\ invoice[t] # NoInvoice \/ t \in next.made
           /\ PageCarts => \A c \in Category : lines[t][c].count + next.fresh[t][c] <= 1
           /\ crashes = 0 => next.seen[t] = LineSum(lines[t]) + Added(next, t)
  PROVE  BillingInv'
<1> DEFINE j == job[q]
<1>1. /\ Touched(next) = CartTerms(j.cart) /\ Touched(j) = CartTerms(j.cart)
      /\ CartTerms(j.cart) \subseteq Term
  BY StaysInCart DEF Checkout, Collecting
<1>2. \A u \in Term \ {t} : u \in Opened(next) <=> u \in Opened(j)
  BY DEF Opened, Collecting, Sharing
<1>3. ASSUME NEW u \in Touched(j) \ tangled
      PROVE  /\ Fits(next, u, invoice[u], lines[u])
             /\ crashes = 0 => FitsTotal(next, u, lines[u])
  <2>1. /\ u \in Term /\ Fits(j, u, invoice[u], lines[u])
        /\ crashes = 0 => FitsTotal(j, u, lines[u])
    BY <1>1, WorksAlone
  <2>2. CASE u = t
    BY <1>3, <2>2 DEF Fits, FitsTotal
  <2>3. CASE u # t
    <3>1. Added(next, u) = Added(j, u)
      BY <2>1, <2>3 DEF Added
    <3>2. u \in Opened(next) <=> u \in Opened(j)
      BY <1>2, <2>1, <2>3
    <3>3. /\ next.seen[u] = j.seen[u] /\ next.fresh[u] = j.fresh[u]
          /\ u \in next.made <=> u \in j.made
      BY <2>1, <2>3
    <3>4. Fits(next, u, invoice[u], lines[u])
      BY <2>1, <3>2, <3>3 DEF Fits
    <3>5. crashes = 0 => FitsTotal(next, u, lines[u])
      BY <2>1, <3>1, <3>2, <3>3 DEF FitsTotal
    <3> QED BY <3>4, <3>5
  <2> QED BY <2>2, <2>3
<1> QED BY <1>1, <1>3, StepsOn

\* A step of a checkout that bills nothing.
LEMMA SameBooks ==
  ASSUME BillingInv, NEW q \in Request, NEW next \in Job, Move(q, next),
         UNCHANGED <<records, history>>, ShapeOK(next),
         job[q].phase \in Checkout, next.phase \in Checkout,
         next.cart = job[q].cart, next.price = job[q].price, next.seen = job[q].seen,
         next.fresh = job[q].fresh, next.made = job[q].made,
         Opened(next) \subseteq Opened(job[q])
  PROVE  BillingInv'
<1> DEFINE j == job[q]
<1>1. /\ Touched(next) = CartTerms(j.cart) /\ Touched(j) = CartTerms(j.cart)
      /\ CartTerms(j.cart) \subseteq Term
  BY StaysInCart
<1>2. next.phase \notin {"clear", "lines", "relines"} /\ j.phase \notin {"lines", "relines"}
  BY DEF Checkout, Collecting, Sharing
<1>3. ASSUME NEW u \in Touched(j) \ tangled
      PROVE  /\ Fits(next, u, invoice[u], lines[u])
             /\ crashes = 0 => FitsTotal(next, u, lines[u])
  <2>1. /\ u \in Term /\ Fits(j, u, invoice[u], lines[u])
        /\ crashes = 0 => FitsTotal(j, u, lines[u])
    BY <1>1, WorksAlone
  <2>2. Added(next, u) = Added(j, u)
    BY DEF Added
  <2>3. Fits(next, u, invoice[u], lines[u])
    BY <1>2, <2>1 DEF Fits
  <2>4. crashes = 0 => FitsTotal(next, u, lines[u])
    BY <2>1, <2>2 DEF FitsTotal
  <2> QED BY <2>3, <2>4
<1> QED BY <1>1, <1>2, <1>3, StepsOn

LEMMA OpenInvoiceOK ==
  ASSUME BillingInv, NEW q \in Request, OpenInvoice(q)
  PROVE  BillingInv'
<1> DEFINE j == job[q]
           t == j.term
           todo == {c \in Category : Wanted(j.cart, t, c) > 0}
           opened == [j EXCEPT !.phase = "check", !.todo = todo]
           found == [opened EXCEPT !.seen[t] = invoice[t]]
           made == [opened EXCEPT !.made = @ \cup {t}]
<1>1. j \in Job /\ ShapeOK(j) /\ j.phase = "open" /\ t \in Term
      /\ UNCHANGED <<records, history>> /\ invoice \in [Term -> Nat \cup {NoInvoice}]
  BY DEF BillingInv, BillingTypeOK, Job, OpenInvoice
<1>2. \/ Move(q, NoJob)
      \/ (Exists(t) /\ Move(q, found))
      \/ (~ Exists(t) /\ Move(q, made))
  BY DEF OpenInvoice
<1>3. todo \in SUBSET Category
  OBVIOUS
<1> HIDE DEF todo
<1>4. t \in CartTerms(j.cart) /\ t \notin Opened(j) /\ t \in Touched(j)
  BY <1>1, StaysInCart DEF ShapeOK, Opened, Collecting, Sharing, Checkout
<1>5. j.seen[t] = 0 /\ j.fresh[t] = NothingFresh
  BY <1>1, <1>4 DEF ShapeOK, Checkout, Collecting
<1>6. CASE Move(q, NoJob)
  BY <1>1, <1>6, EndOK DEF records, history, BillingInv, BillingTypeOK
<1>7. ASSUME NEW next \in Job, Move(q, next), next.phase = "check", next.term = t,
             next.cart = j.cart, next.amount = j.amount, next.held = j.held,
             next.fresh = j.fresh, next.price = j.price, next.total = j.total,
             next.steady = j.steady,
             \A u \in Term \ {t} : next.seen[u] = j.seen[u] /\ (u \in next.made <=> u \in j.made),
             \/ Exists(t) /\ next.seen[t] = invoice[t]
             \/ ~ Exists(t) /\ t \in next.made /\ next.seen[t] = j.seen[t]
      PROVE  BillingInv'
  <2>1. Opened(next) = Opened(j) \cup {t}
    BY <1>1, <1>7 DEF Opened, Collecting, Sharing
  <2>2. SharesOK(next)
    BY <1>1, <1>7 DEF ShapeOK, SharesOK, Collecting
  <2>3. \A c \in next.todo : next.fresh[t][c] = 0
    BY <1>5, <1>7 DEF NothingFresh, Job
  <2>4. ShapeOK(next)
    <3>1. /\ next.cart \in Cart /\ next.cart # NoCart /\ CartTerms(next.cart) # {}
          /\ next.amount \in Entered /\ next.term \in CartTerms(next.cart)
      BY <1>1, <1>7 DEF ShapeOK, Checkout, Collecting
    <3>2. ASSUME NEW u \in Term \ Opened(next)
          PROVE  /\ next.seen[u] = 0 /\ next.fresh[u] = NothingFresh
                 /\ u \notin next.made \cup next.held
      <4>1. u # t /\ u \notin Opened(j)
        BY <2>1, <3>2
      <4>2. j.seen[u] = 0 /\ j.fresh[u] = NothingFresh /\ u \notin j.made \cup j.held
        BY <1>1, <4>1 DEF ShapeOK, Checkout, Collecting
      <4> QED BY <1>7, <4>1, <4>2
    <3>3. ASSUME NEW u \in Opened(next) \ next.held
          PROVE  next.fresh[u] = NothingFresh
      <4>1. u \in Opened(j) \ j.held => j.fresh[u] = NothingFresh
        BY <1>1 DEF ShapeOK, Checkout, Collecting
      <4> QED BY <1>5, <1>7, <2>1, <3>3, <4>1
    <3>4. next.phase = "check" /\ next.term = t
      BY <1>7
    <3> HIDE DEF j, t
    <3> QED BY <2>2, <2>3, <3>1, <3>2, <3>3, <3>4 DEF ShapeOK, Checkout, Collecting, Sharing
  <2>5. Added(next, t) = 0
    BY <1>1, <1>5, <1>7, AddedType
  <2>6. ASSUME t \notin tangled
        PROVE  /\ invoice[t] # NoInvoice \/ t \in next.made
               /\ PageCarts => \A c \in Category : lines[t][c].count + next.fresh[t][c] <= 1
               /\ crashes = 0 => next.seen[t] = LineSum(lines[t]) + Added(next, t)
    <3>1. /\ (~ Exists(t) => lines[t] = NoLines) /\ (PageCarts => Once(lines[t]))
          /\ crashes = 0 => Agree(invoice[t], lines[t])
      BY <1>1, <1>4, <2>6, WorksAlone
    <3>2. \A c \in Category : lines[t][c].count \in Nat /\ next.fresh[t][c] = 0
      BY <1>1, <1>5, <1>7 DEF BillingInv, BillingTypeOK, NothingFresh
    <3>3. LineSum(lines[t]) \in Nat
      <4>1. \A c \in Category : lines[t][c].sum \in Nat
        BY <1>1 DEF BillingInv, BillingTypeOK
      <4> QED BY <4>1, LineSumType
    <3>4. crashes = 0 => next.seen[t] = LineSum(lines[t])
      BY <1>5, <1>7, <3>1, NoLinesSum DEF Agree, Exists
    <3> QED BY <1>7, <2>5, <3>1, <3>2, <3>3, <3>4 DEF Once, Exists
  <2>7. \A u \in Term \ {t} : next.fresh[u] = j.fresh[u]
    BY <1>7
  <2> HIDE DEF j, t
  <2> QED BY <1>1, <1>7, <2>4, <2>6, <2>7, LooksAt DEF j, t
<1>8. CASE Exists(t) /\ Move(q, found)
  <2>1. invoice[t] \in Nat
    BY <1>1, <1>8 DEF Exists
  <2>2. found \in Job
    BY <1>1, <1>3, <2>1 DEF Job, Phase
  <2>3. /\ found.phase = "check" /\ found.term = t /\ found.cart = j.cart
        /\ found.amount = j.amount /\ found.held = j.held /\ found.made = j.made
        /\ found.fresh = j.fresh /\ found.price = j.price /\ found.seen[t] = invoice[t]
        /\ found.total = j.total /\ found.steady = j.steady
        /\ \A u \in Term \ {t} : found.seen[u] = j.seen[u]
    BY <1>1 DEF Job
  <2> HIDE DEF found
  <2> QED BY <1>7, <1>8, <2>2, <2>3
<1>9. CASE ~ Exists(t) /\ Move(q, made)
  <2>1. made \in Job
    BY <1>1, <1>3 DEF Job, Phase
  <2>2. /\ made.phase = "check" /\ made.term = t /\ made.cart = j.cart
        /\ made.amount = j.amount /\ made.held = j.held /\ made.made = j.made \cup {t}
        /\ made.fresh = j.fresh /\ made.price = j.price /\ made.seen = j.seen
        /\ made.total = j.total /\ made.steady = j.steady
    BY <1>1 DEF Job
  <2> HIDE DEF made
  <2> QED BY <1>7, <1>9, <2>1, <2>2
<1> QED BY <1>2, <1>6, <1>8, <1>9

LEMMA CheckItemOK ==
  ASSUME BillingInv, NEW q \in Request, NEW c \in Category, CheckItem(q, c)
  PROVE  BillingInv'
<1> DEFINE j == job[q]
           t == j.term
           count == IF lines[t][c].count = 0 THEN Wanted(j.cart, t, c) ELSE 0
           next == Billed(j, c, count)
<1>1. j \in Job /\ ShapeOK(j) /\ j.phase = "check" /\ t \in Term /\ c \in j.todo
      /\ UNCHANGED <<records, history>> /\ Move(q, next) /\ j.cart \in Cart
  BY DEF BillingInv, BillingTypeOK, Job, CheckItem, ShapeOK, Checkout, Collecting
<1>2. Wanted(j.cart, t, c) \in Nat /\ (PageCarts => Wanted(j.cart, t, c) <= 1)
  <2>1. j.cart.extras[c] \in Nat /\ j.cart.bundle \in BOOLEAN
    BY <1>1, BillingAssumption
  <2>2. PageCarts => j.cart.extras[c] <= 1 /\ (j.cart.bundle => j.cart.extras[c] = 0)
    BY <1>1 DEF PageCarts
  <2> QED BY <2>1, <2>2 DEF Wanted
<1>3. count \in Nat /\ (lines[t][c].count # 0 => count = 0)
      /\ (PageCarts => count <= 1)
  BY <1>2
<1> HIDE DEF count
<1>4. j.price[t] \in [Category -> Amount] /\ j.price[t][c] \in Nat
      /\ j.fresh \in [Term -> [Category -> Nat]] /\ j.seen \in [Term -> Nat]
      /\ count * j.price[t][c] \in Nat
  <2>1. j.price[t] \in [Category -> Amount]
    BY <1>1 DEF Job, Prices
  <2>2. j.price[t][c] \in Nat
    BY <2>1, FinitePrices
  <2> QED BY <1>1, <1>3, <2>1, <2>2 DEF Job
<1> DEFINE price_ == count * j.price[t][c]
           phase == IF t = "next" /\ count > 0 THEN "write" ELSE "check"
<1>5. next = [j EXCEPT !.todo = @ \ {c}, !.fresh[t][c] = count, !.seen[t] = @ + price_,
                       !.phase = phase]
  BY DEF Billed
<1>6. phase \in {"check", "write"}
  OBVIOUS
<1> HIDE DEF next, price_, phase
<1>7. /\ next.phase = phase /\ next.term = t /\ next.cart = j.cart
      /\ next.amount = j.amount /\ next.held = j.held /\ next.made = j.made
      /\ next.price = j.price /\ next.todo = j.todo \ {c}
      /\ next.total = j.total /\ next.steady = j.steady
      /\ next.fresh = [j.fresh EXCEPT ![t][c] = count]
      /\ next.seen = [j.seen EXCEPT ![t] = @ + price_]
  BY <1>1, <1>5 DEF Job
<1>8. /\ next.fresh[t] = [j.fresh[t] EXCEPT ![c] = count]
      /\ \A d \in Category : next.fresh[t][d] = IF d = c THEN count ELSE j.fresh[t][d]
      /\ \A u \in Term \ {t} : next.fresh[u] = j.fresh[u]
      /\ next.fresh \in [Term -> [Category -> Nat]]
  BY <1>1, <1>3, <1>4, <1>7
<1>9. /\ next.seen[t] = j.seen[t] + price_
      /\ \A u \in Term \ {t} : next.seen[u] = j.seen[u]
      /\ next.seen \in [Term -> Nat]
  BY <1>1, <1>4, <1>7 DEF price_
<1>10. next \in Job
  <2>1. next = [j EXCEPT !.todo = next.todo, !.fresh = next.fresh, !.seen = next.seen,
                         !.phase = phase]
    BY <1>5, <1>7
  <2>2. next.todo \in SUBSET Category /\ phase \in Phase
    BY <1>1, <1>6, <1>7 DEF Job, Phase
  <2> QED BY <1>1, <1>8, <1>9, <2>1, <2>2 DEF Job
<1>11. Opened(next) = Opened(j)
  BY <1>1, <1>6, <1>7 DEF Opened, Collecting, Sharing
<1>12. j.fresh[t][c] = 0 /\ (count = 0 => next.fresh[t] = j.fresh[t])
  <2>1. j.fresh[t][c] = 0
    BY <1>1 DEF ShapeOK
  <2> QED BY <1>1, <1>4, <1>8, <2>1
<1>13. ShapeOK(next)
  <2>1. SharesOK(next)
    BY <1>1, <1>6, <1>7 DEF ShapeOK, SharesOK, Collecting
  <2>2. \A d \in next.todo : next.fresh[t][d] = 0
    BY <1>1, <1>4, <1>7, <1>8 DEF ShapeOK, Job
  <2>3. ASSUME NEW u \in Term \ Opened(next)
        PROVE  next.seen[u] = 0 /\ next.fresh[u] = NothingFresh /\ u \notin next.made \cup next.held
    <3>1. u # t
      BY <1>1, <1>11, <2>3 DEF Opened, Collecting, Sharing
    <3>2. j.seen[u] = 0 /\ j.fresh[u] = NothingFresh /\ u \notin j.made \cup j.held
      BY <1>1, <1>11, <2>3 DEF ShapeOK, Checkout, Collecting
    <3> QED BY <1>7, <1>8, <1>9, <3>1, <3>2
  <2>4. ASSUME NEW u \in Opened(next) \ next.held
        PROVE  \/ next.fresh[u] = NothingFresh
               \/ u = t /\ next.phase = "write"
               \/ u = t /\ next.phase = "check" /\ u = "current"
    <3>1. j.fresh[u] = NothingFresh \/ (u = t /\ u = "current")
      BY <1>1, <1>7, <1>11, <2>4 DEF ShapeOK, Checkout, Collecting
    <3>2. u \in Term
      BY <1>1, <1>11, <2>4, CartTermsType DEF Opened, Collecting, Sharing, Term
    <3>3. CASE u # t
      BY <1>8, <3>1, <3>2, <3>3
    <3>4. CASE u = t
      BY <1>1, <1>3, <1>6, <1>7, <1>12, <3>1, <3>4 DEF phase, Term
    <3> QED BY <3>3, <3>4
  <2>5. /\ next.cart \in Cart /\ next.cart # NoCart /\ CartTerms(next.cart) # {}
        /\ next.amount \in Entered /\ next.term \in CartTerms(next.cart)
    BY <1>1, <1>7 DEF ShapeOK, Checkout, Collecting
  <2>6. next.phase \in {"check", "write"} /\ next.phase \in Checkout
    BY <1>6, <1>7 DEF Checkout, Collecting
  <2>7. next.phase \notin {"open", "lines", "relines", "pay"}
    BY <1>6, <1>7
  <2>8. next.term = t
    BY <1>7
  <2> HIDE DEF j
  <2> QED BY <2>1, <2>2, <2>3, <2>4, <2>5, <2>6, <2>7, <2>8 DEF ShapeOK
<1>14. Added(next, t) = Added(j, t) + price_
  BY <1>1, <1>3, <1>7, <1>8, <1>12, AddedStep DEF price_
<1>15. ASSUME t \notin tangled
       PROVE  /\ invoice[t] # NoInvoice \/ t \in next.made
              /\ PageCarts => \A d \in Category : lines[t][d].count + next.fresh[t][d] <= 1
              /\ crashes = 0 => next.seen[t] = LineSum(lines[t]) + Added(next, t)
  <2>1. t \in Touched(j) /\ t \in Opened(j)
    BY <1>1, StaysInCart DEF ShapeOK, Checkout, Collecting, Sharing, Opened
  <2>2. /\ Fits(j, t, invoice[t], lines[t]) /\ (PageCarts => Once(lines[t]))
        /\ crashes = 0 => FitsTotal(j, t, lines[t])
    BY <1>15, <2>1, WorksAlone
  <2>3. \A d \in Category : lines[t][d].count \in Nat
    BY <1>1 DEF BillingInv, BillingTypeOK
  <2>4. PageCarts => \A d \in Category : lines[t][d].count + next.fresh[t][d] <= 1
    <3> SUFFICES ASSUME PageCarts, NEW d \in Category
                 PROVE  lines[t][d].count + next.fresh[t][d] <= 1
      OBVIOUS
    <3>1. CASE d = c
      BY <1>3, <1>4, <1>8, <2>2, <2>3, <3>1 DEF Once
    <3>2. CASE d # c
      BY <1>4, <1>8, <2>1, <2>2, <3>2 DEF Fits
    <3> QED BY <3>1, <3>2
  <2>5. crashes = 0 => next.seen[t] = LineSum(lines[t]) + Added(next, t)
    <3>1. LineSum(lines[t]) \in Nat
      <4>1. \A d \in Category : lines[t][d].sum \in Nat
        BY <1>1 DEF BillingInv, BillingTypeOK
      <4> QED BY <4>1, LineSumType
    <3>2. Added(j, t) \in Nat /\ price_ \in Nat
      BY <1>1, <1>4, AddedType DEF price_
    <3> QED BY <1>9, <1>14, <2>1, <2>2, <3>1, <3>2 DEF FitsTotal
  <2>6. invoice[t] # NoInvoice \/ t \in next.made
    BY <1>7, <2>1, <2>2 DEF Fits
  <2> QED BY <2>4, <2>5, <2>6
<1>16. next.phase \in {"check", "write"}
  BY <1>6, <1>7
<1> HIDE DEF j, t
<1> QED BY <1>1, <1>7, <1>8, <1>9, <1>10, <1>13, <1>15, <1>16, LooksAt DEF j, t

\* From this term's invoice to the next one's, and then to the balances.
LEMMA OnwardsOK ==
  ASSUME NEW j \in Job, ShapeOK(j), j.phase \in {"check", "write"},
         \A t \in Opened(j) \ j.held : j.fresh[t] = NothingFresh
  PROVE  /\ Onwards(j) \in Job /\ ShapeOK(Onwards(j)) /\ Onwards(j).phase \in {"open", "sum"}
         /\ Onwards(j).phase = "open" => j.term = "current" /\ Onwards(j).term = "next"
         /\ Onwards(j).cart = j.cart /\ Onwards(j).price = j.price
         /\ Onwards(j).seen = j.seen /\ Onwards(j).fresh = j.fresh
         /\ Onwards(j).made = j.made /\ Onwards(j).held = j.held
         /\ Opened(Onwards(j)) = Opened(j)
<1> DEFINE next == Onwards(j)
           on == j.term = "current" /\ j.cart.next # {}
<1>1. j.term \in CartTerms(j.cart) /\ CartTerms(j.cart) \subseteq Term
      /\ ("next" \in CartTerms(j.cart) <=> j.cart.next # {})
  BY CartTermsType DEF ShapeOK, Collecting, CartTerms, Term
<1>2. First(j.cart) \in CartTerms(j.cart)
      /\ (First(j.cart) = "next" => CartTerms(j.cart) = {"next"})
  BY <1>1 DEF First, Term
<1>3. next = IF on THEN [j EXCEPT !.phase = "open", !.term = "next"]
             ELSE [j EXCEPT !.phase = "sum", !.term = First(j.cart)]
  BY DEF Onwards
<1>4. next \in Job
  <2>1. First(j.cart) \in Term /\ "next" \in Term
    BY <1>1, <1>2 DEF Term
  <2>2. [j EXCEPT !.phase = "open", !.term = "next"] \in Job
    BY <2>1 DEF Job, Phase
  <2>3. [j EXCEPT !.phase = "sum", !.term = First(j.cart)] \in Job
    BY <2>1 DEF Job, Phase
  <2> HIDE DEF next
  <2> QED BY <1>3, <2>2, <2>3
<1>5. /\ next.phase = (IF on THEN "open" ELSE "sum")
      /\ next.term = (IF on THEN "next" ELSE First(j.cart))
      /\ next.cart = j.cart /\ next.price = j.price /\ next.amount = j.amount
      /\ next.seen = j.seen /\ next.fresh = j.fresh /\ next.made = j.made
      /\ next.held = j.held /\ next.total = j.total /\ next.steady = j.steady
  BY <1>3 DEF Job
<1> HIDE DEF next
<1>6. Opened(next) = Opened(j)
  BY <1>1, <1>5 DEF Opened, Collecting, Sharing, Term
<1>7. SharesOK(next)
  <2>1. j.total = 0 /\ j.steady
    BY DEF ShapeOK, SharesOK, Collecting
  <2>2. First(j.cart) = "next" => CartTerms(j.cart) # Term
    BY <1>2 DEF Term
  <2> QED BY <1>2, <1>5, <2>1, <2>2 DEF SharesOK, Collecting
<1>8. ShapeOK(next)
  BY <1>1, <1>5, <1>6, <1>7 DEF ShapeOK, Checkout, Collecting, Sharing
<1> QED BY <1>4, <1>5, <1>6, <1>8 DEF next

LEMMA ItemsCheckedOK ==
  ASSUME BillingInv, NEW q \in Request, ItemsChecked(q)
  PROVE  BillingInv'
<1> DEFINE j == job[q]
<1>1. j \in Job /\ ShapeOK(j) /\ j.phase = "check" /\ UNCHANGED <<records, history>>
      /\ j.term \in Term
  BY DEF BillingInv, BillingTypeOK, Job, ItemsChecked
<1>2. CASE j.term = "current" /\ j.fresh["current"] # NothingFresh
  <2> DEFINE next == [j EXCEPT !.phase = "write"]
  <2>1. next \in Job /\ Move(q, next)
    BY <1>1, <1>2 DEF Job, Phase, ItemsChecked
  <2>2. /\ next.phase = "write" /\ next.term = j.term /\ next.cart = j.cart
        /\ next.price = j.price /\ next.amount = j.amount /\ next.seen = j.seen
        /\ next.fresh = j.fresh /\ next.made = j.made /\ next.held = j.held
        /\ next.total = j.total /\ next.steady = j.steady /\ next.todo = j.todo
    BY <1>1 DEF Job
  <2> HIDE DEF next
  <2>3. Opened(next) = Opened(j)
    BY <1>1, <2>2 DEF Opened, Collecting, Sharing
  <2>4. SharesOK(next)
    BY <1>1, <2>2 DEF ShapeOK, SharesOK, Collecting
  <2>5. ShapeOK(next)
    BY <1>1, <2>2, <2>3, <2>4 DEF ShapeOK, Checkout, Collecting, Sharing
  <2>6. j.phase \in Checkout /\ next.phase \in Checkout
    BY <1>1, <2>2 DEF Checkout, Collecting
  <2> QED BY <1>1, <2>1, <2>2, <2>3, <2>5, <2>6, SameBooks
<1>3. CASE ~ (j.term = "current" /\ j.fresh["current"] # NothingFresh)
  <2>1. Move(q, Onwards(j))
    BY <1>3 DEF ItemsChecked
  <2>2. \A t \in Opened(j) \ j.held : j.fresh[t] = NothingFresh
    BY <1>1, <1>3 DEF ShapeOK, Checkout, Collecting
  <2>3. Onwards(j).phase \in Checkout /\ j.phase \in Checkout
    BY <1>1, <2>2, OnwardsOK DEF Checkout, Collecting, Sharing
  <2> HIDE DEF j
  <2> QED BY <1>1, <2>1, <2>2, <2>3, OnwardsOK, SameBooks DEF j
<1> QED BY <1>2, <1>3

LEMMA WriteTotalOK ==
  ASSUME BillingInv, NEW q \in Request, WriteTotal(q)
  PROVE  BillingInv'
<1> DEFINE j == job[q]
           written == [j EXCEPT !.held = @ \cup {j.term}]
<1>1. j \in Job /\ ShapeOK(j) /\ j.phase = "write" /\ UNCHANGED <<records, history>>
      /\ j.term \in Term
      /\ Move(q, IF j.term = "next" THEN [written EXCEPT !.phase = "check"]
                                    ELSE Onwards(written))
  BY DEF BillingInv, BillingTypeOK, Job, WriteTotal
<1>2. written \in Job
  BY <1>1 DEF Job
<1>3. /\ written.phase = "write" /\ written.term = j.term /\ written.cart = j.cart
      /\ written.price = j.price /\ written.amount = j.amount /\ written.seen = j.seen
      /\ written.fresh = j.fresh /\ written.made = j.made /\ written.todo = j.todo
      /\ written.held = j.held \cup {j.term}
      /\ written.total = j.total /\ written.steady = j.steady
  BY <1>1 DEF Job
<1> HIDE DEF written
<1>4. j.term \in Opened(j) /\ Opened(written) = Opened(j)
  BY <1>1, <1>3 DEF Opened, Collecting, Sharing
<1>5. SharesOK(written)
  BY <1>1, <1>3 DEF ShapeOK, SharesOK, Collecting
<1>6. \A t \in Opened(j) \ written.held : j.fresh[t] = NothingFresh
  BY <1>1, <1>3 DEF ShapeOK, Checkout, Collecting
<1>7. ShapeOK(written)
  BY <1>1, <1>3, <1>4, <1>5 DEF ShapeOK, Checkout, Collecting, Sharing
<1>8. j.phase \in Checkout
  BY <1>1 DEF Checkout, Collecting
<1>9. CASE j.term = "next"
  <2> DEFINE next == [written EXCEPT !.phase = "check"]
  <2>1. next \in Job /\ Move(q, next)
    BY <1>1, <1>2, <1>9 DEF Job, Phase
  <2>2. /\ next.phase = "check" /\ next.term = j.term /\ next.cart = j.cart
        /\ next.price = j.price /\ next.amount = j.amount /\ next.seen = j.seen
        /\ next.fresh = j.fresh /\ next.made = j.made /\ next.held = written.held
        /\ next.total = j.total /\ next.steady = j.steady /\ next.todo = j.todo
    BY <1>2, <1>3 DEF Job
  <2> HIDE DEF next
  <2>3. Opened(next) = Opened(j)
    BY <1>1, <2>2 DEF Opened, Collecting, Sharing
  <2>4. SharesOK(next)
    BY <1>1, <2>2 DEF ShapeOK, SharesOK, Collecting
  <2>5. ShapeOK(next)
    BY <1>1, <1>3, <1>4, <1>6, <2>2, <2>3, <2>4 DEF ShapeOK, Checkout, Collecting, Sharing
  <2>6. next.phase \in Checkout
    BY <2>2 DEF Checkout, Collecting
  <2> QED BY <1>1, <1>8, <2>1, <2>2, <2>3, <2>5, <2>6, SameBooks
<1>10. CASE j.term # "next"
  <2>1. Move(q, Onwards(written))
    BY <1>1, <1>10
  <2>2. \A t \in Opened(written) \ written.held : written.fresh[t] = NothingFresh
    BY <1>3, <1>4, <1>6
  <2>3. /\ Onwards(written) \in Job /\ ShapeOK(Onwards(written))
        /\ Onwards(written).phase \in {"open", "sum"}
        /\ Onwards(written).cart = j.cart /\ Onwards(written).price = j.price
        /\ Onwards(written).seen = j.seen /\ Onwards(written).fresh = j.fresh
        /\ Onwards(written).made = j.made /\ Opened(Onwards(written)) = Opened(j)
    BY <1>2, <1>3, <1>4, <1>7, <2>2, OnwardsOK
  <2>4. Onwards(written).phase \in Checkout
    BY <2>3 DEF Checkout, Collecting, Sharing
  <2> HIDE DEF j
  <2> QED BY <1>1, <1>8, <2>1, <2>3, <2>4, SameBooks DEF j
<1> QED BY <1>9, <1>10

-----------------------------------------------------------------------------
(* The cap and the shares *)

LEMMA AmountPaidType ==
  ASSUME BillingInv, NEW t \in Term
  PROVE  AmountPaid(t) \in Int
<1> DEFINE f == [p \in Pay |-> payment[p].amount]
           S == {p \in PaymentsOf(t) : payment[p].status = "CONFIRMED"}
<1>1. IsFiniteSet(S)
  BY BillingAssumption, FS_Subset, S \subseteq Pay DEF PaymentsOf
<1>2. \A p \in S : f[p] \in Int
  BY DEF BillingInv, BillingTypeOK, PaymentRow, PaymentsOf
<1> HIDE DEF f, S
<1>3. SumFunctionOnSet(f, S) \in Int
  BY <1>1, <1>2, SumStep
<1> QED BY <1>3 DEF AmountPaid, f, S

LEMMA DueType ==
  ASSUME BillingInv, NEW j \in Job, NEW t \in Term
  PROVE  Due(j, t) \in Int
<1>1. j.seen[t] \in Nat /\ AmountPaid(t) \in Int
  BY AmountPaidType DEF Job
<1> QED BY <1>1 DEF Due

\* The same, but for the balances and the shares.
SameCart(next, j) ==
  /\ next.cart = j.cart /\ next.price = j.price /\ next.amount = j.amount
  /\ next.seen = j.seen /\ next.fresh = j.fresh /\ next.made = j.made
  /\ next.held = j.held

\* A balance that is asked for again.
LEMMA AgainIs ==
  ASSUME BillingInv, NEW j \in Job, NEW t \in Term
  PROVE  /\ Again(j, t) \in Job /\ SameCart(Again(j, t), j)
         /\ Again(j, t).phase = j.phase /\ Again(j, t).term = j.term
         /\ Again(j, t).total = j.total /\ Again(j, t).share = j.share
         /\ Again(j, t).due[t] = Due(j, t)
         /\ \A u \in Term \ {t} : Again(j, t).due[u] = j.due[u]
         /\ Again(j, t).steady => j.steady /\ Again(j, t).due = j.due
<1> DEFINE due == [j.due EXCEPT ![t] = Due(j, t)]
           steady == j.steady /\ Due(j, t) = j.due[t]
<1>1. Due(j, t) \in Int /\ j.due \in [Term -> Int] /\ j.steady \in BOOLEAN
  BY DueType DEF Job
<1>2. due \in [Term -> Int] /\ steady \in BOOLEAN /\ (steady => j.steady /\ due = j.due)
      /\ due[t] = Due(j, t) /\ \A u \in Term \ {t} : due[u] = j.due[u]
  BY <1>1
<1>3. Again(j, t) = [j EXCEPT !.due = due, !.steady = steady]
  BY DEF Again, Job
<1> HIDE DEF due, steady
<1> QED BY <1>2, <1>3 DEF Job, SameCart

LEMMA SharedIs ==
  ASSUME NEW j \in Job, j.amount \in Int, NEW t \in Term, NEW share \in Int
  PROVE  /\ Shared(j, t, share) \in Job /\ SameCart(Shared(j, t, share), j)
         /\ Shared(j, t, share).total = j.total /\ Shared(j, t, share).due = j.due
         /\ Shared(j, t, share).steady = j.steady /\ Shared(j, t, share).term = j.term
         /\ Shared(j, t, share).share[t] = share
         /\ \A u \in Term \ {t} : Shared(j, t, share).share[u] = j.amount - share
<1> DEFINE shares == [u \in Term |-> IF u = t THEN share ELSE j.amount - share]
<1>1. shares \in [Term -> Int] /\ shares[t] = share
      /\ \A u \in Term \ {t} : shares[u] = j.amount - share
  OBVIOUS
<1>2. Shared(j, t, share) = [j EXCEPT !.share = shares]
  BY DEF Shared
<1> HIDE DEF shares
<1> QED BY <1>1, <1>2 DEF Job, SameCart

LEMMA SharingJob ==
  ASSUME BillingInv, NEW q \in Request, job[q].phase \in Sharing
  PROVE  /\ job[q] \in Job /\ ShapeOK(job[q]) /\ SharesOK(job[q])
         /\ job[q].amount \in Nat \ {0} /\ job[q].total \in Int /\ job[q].term \in Term
         /\ job[q].due \in [Term -> Int] /\ job[q].share \in [Term -> Int]
         /\ CartTerms(job[q].cart) \in {{"current"}, {"next"}, Term}
         /\ Term = {"current", "next"}
<1>1. job[q] \in Job /\ ShapeOK(job[q])
  BY DEF BillingInv, BillingTypeOK
<1>2. SharesOK(job[q]) /\ job[q].amount \in Entered /\ CartTerms(job[q].cart) # {}
  BY <1>1 DEF ShapeOK, Checkout
<1>3. job[q].amount \in Nat \ {0}
  BY <1>2, BillingAssumption
<1> QED BY <1>1, <1>2, <1>3, CartTermsType DEF Job, Term

\* A step from a balance to the next.
LEMMA SharingStep ==
  ASSUME BillingInv, NEW q \in Request, NEW next \in Job, Move(q, next),
         UNCHANGED <<records, history>>, job[q].phase \in Sharing,
         next.phase \in Sharing, SameCart(next, job[q]), SharesOK(next)
  PROVE  BillingInv'
<1>1. ShapeOK(job[q])
  BY SharingJob
<1>2. Opened(next) = Opened(job[q])
  BY DEF Opened, SameCart
<1>3. /\ next.phase \in Checkout \ {"pay"} /\ next.phase \notin Collecting
      /\ next.phase \notin {"check", "write", "lines", "relines"}
      /\ job[q].phase \in Checkout \ {"pay"}
      /\ job[q].phase \notin {"check", "write"}
  BY DEF Checkout, Collecting, Sharing
<1>4. ShapeOK(next)
  BY <1>1, <1>2, <1>3 DEF ShapeOK, SameCart
<1> QED BY <1>2, <1>3, <1>4, SameBooks DEF SameCart

LEMMA SumBalanceOK ==
  ASSUME BillingInv, NEW q \in Request, SumBalance(q)
  PROVE  BillingInv'
<1> DEFINE j == job[q]
           t == j.term
           due == [j.due EXCEPT ![t] = Due(j, t)]
           total == j.total + Due(j, t)
           more == t = "current" /\ "next" \in CartTerms(j.cart)
           term == IF more THEN "next" ELSE t
           phase == IF more THEN "sum" ELSE "cap"
           next == [j EXCEPT !.due = due, !.total = total, !.term = term, !.phase = phase]
<1>1. j.phase = "sum" /\ j.phase \in Sharing /\ UNCHANGED <<records, history>>
  BY DEF SumBalance, Sharing
<1>2. /\ j \in Job /\ SharesOK(j) /\ j.total \in Int /\ t \in Term
      /\ j.due \in [Term -> Int] /\ Term = {"current", "next"}
      /\ CartTerms(j.cart) \in {{"current"}, {"next"}, Term}
  BY <1>1, SharingJob
<1>3. Due(j, t) \in Int
  BY <1>2, DueType
<1>4. /\ due \in [Term -> Int] /\ total \in Int /\ term \in Term /\ phase \in {"sum", "cap"}
      /\ due[t] = Due(j, t) /\ \A u \in Term \ {t} : due[u] = j.due[u]
  BY <1>2, <1>3
<1>5. Move(q, next)
  <2>1. CASE more
    <3>1. [[j EXCEPT !.due[t] = Due(j, t), !.total = @ + Due(j, t)] EXCEPT !.term = "next"] = next
      BY <1>1, <1>2, <2>1 DEF Job
    <3> QED BY <2>1, <3>1 DEF SumBalance
  <2>2. CASE ~ more
    <3>1. [[j EXCEPT !.due[t] = Due(j, t), !.total = @ + Due(j, t)] EXCEPT !.phase = "cap"] = next
      BY <1>2, <2>2 DEF Job
    <3> QED BY <2>2, <3>1 DEF SumBalance
  <2> QED BY <2>1, <2>2
<1> HIDE DEF due, total, term, phase
<1>6. next \in Job
  <2>1. j \in Job
    BY <1>2
  <2>2. phase \in Phase
    BY <1>4 DEF Phase
  <2> QED BY <1>4, <2>1, <2>2 DEF Job
<1>7. /\ SameCart(next, j) /\ next.due = due /\ next.total = total /\ next.term = term
      /\ next.phase = phase /\ next.steady = j.steady
  BY <1>2 DEF Job, SameCart
<1> HIDE DEF next
<1>8. t \in CartTerms(j.cart) /\ j.steady
      /\ (t = "next" /\ CartTerms(j.cart) = Term => j.total = j.due["current"])
      /\ (~ (t = "next" /\ CartTerms(j.cart) = Term) => j.total = 0)
  BY <1>1, <1>2 DEF SharesOK
<1>9. SharesOK(next)
  <2>1. next.cart = j.cart
    BY <1>7 DEF SameCart
  <2>2. CASE more
    <3>1. next.phase = "sum" /\ next.term = "next" /\ t = "current"
      BY <1>7, <2>2 DEF phase, term
    <3>2. next.total = next.due["current"]
      BY <1>2, <1>3, <1>4, <1>7, <1>8, <3>1 DEF total
    <3>3. CartTerms(j.cart) = Term
      BY <1>2, <1>8, <2>2
    <3>4. "next" \in CartTerms(j.cart) /\ next.steady
      BY <1>7, <1>8, <2>2
    <3> HIDE DEF j
    <3> QED BY <2>1, <3>1, <3>2, <3>3, <3>4 DEF SharesOK, Collecting
  <2>3. CASE ~ more
    <3>1. next.phase = "cap"
      BY <1>7, <2>3 DEF phase
    <3>2. ASSUME CartTerms(j.cart) = Term
          PROVE  next.total = next.due["current"] + next.due["next"]
      <4>1. t = "next"
        BY <1>2, <2>3, <3>2
      <4> QED BY <1>2, <1>3, <1>4, <1>7, <1>8, <3>2, <4>1 DEF total
    <3>3. ASSUME NEW u \in Term, CartTerms(j.cart) = {u}
          PROVE  next.total = next.due[u]
      <4>1. u = t /\ CartTerms(j.cart) # Term
        BY <1>2, <1>8, <3>3
      <4> QED BY <1>3, <1>4, <1>7, <1>8, <4>1 DEF total
    <3> QED BY <1>7, <1>8, <2>1, <3>1, <3>2, <3>3 DEF SharesOK, Collecting
  <2> QED BY <2>2, <2>3
<1>10. next.phase \in Sharing
  BY <1>4, <1>7 DEF Sharing
<1> QED BY <1>1, <1>5, <1>6, <1>7, <1>9, <1>10, SharingStep

LEMMA PayOneInvoiceOK ==
  ASSUME BillingInv, NEW q \in Request, PayOneInvoice(q)
  PROVE  BillingInv'
<1> DEFINE j == job[q]
           share == [t \in Term |-> IF t \in CartTerms(j.cart) THEN j.amount ELSE 0]
           next == [j EXCEPT !.phase = "commit", !.share = share]
<1>1. j.phase = "cap" /\ j.phase \in Sharing /\ UNCHANGED <<records, history>>
      /\ Move(q, next) /\ j.amount <= j.total /\ CartTerms(j.cart) # Term
  BY DEF PayOneInvoice, Sharing
<1>2. /\ j \in Job /\ SharesOK(j) /\ j.amount \in Nat \ {0} /\ j.total \in Int
      /\ j.due \in [Term -> Int] /\ Term = {"current", "next"}
  BY <1>1, SharingJob
<1>3. PICK t \in Term : CartTerms(j.cart) = {t}
  BY <1>1, SharingJob
<1>4. j.total = j.due[t]
  BY <1>1, <1>2, <1>3 DEF SharesOK
<1>5. share \in [Term -> Int] /\ share[t] = j.amount /\ \A u \in Term \ {t} : share[u] = 0
  BY <1>2, <1>3
<1> HIDE DEF share
<1>6. /\ next \in Job /\ SameCart(next, j) /\ next.phase = "commit" /\ next.share = share
      /\ next.due = j.due /\ next.total = j.total
  <2>1. j \in Job
    BY <1>2
  <2>2. next \in Job
    BY <1>5, <2>1 DEF Job, Phase
  <2> QED BY <2>1, <2>2 DEF Job, SameCart
<1> HIDE DEF next
<1>7. Given(next)
  BY <1>1, <1>2, <1>5, <1>6 DEF Given, SameCart
<1>8. Fair(next)
  <2>1. SUFFICES ASSUME NEW u \in Term, j.due[u] >= 0 PROVE share[u] \in 0 .. j.due[u]
    BY <1>6 DEF Fair
  <2>2. CASE u = t
    BY <1>1, <1>2, <1>4, <1>5, <2>2
  <2>3. CASE u # t
    BY <1>2, <1>5, <2>1, <2>3
  <2> QED BY <2>2, <2>3
<1>9. SharesOK(next)
  BY <1>1, <1>6, <1>7, <1>8 DEF SharesOK, SameCart, Collecting
<1>10. next.phase \in Sharing
  BY <1>6 DEF Sharing
<1> QED BY <1>1, <1>6, <1>9, <1>10, SharingStep

LEMMA HalfUpType ==
  ASSUME NEW n \in Int, NEW d \in Nat \ {0}
  PROVE  HalfUp(n, d) \in Int
<1>1. 2 * d \in Nat \ {0} /\ 2 * n + d \in Int /\ d - 2 * n \in Int
  OBVIOUS
<1>2. (2 * n + d) \div (2 * d) \in Int /\ (d - 2 * n) \div (2 * d) \in Int
  BY <1>1
<1> QED BY <1>2 DEF HalfUp

LEMMA TakeShareOK ==
  ASSUME BillingInv, NEW q \in Request, TakeShare(q)
  PROVE  BillingInv'
<1> DEFINE j == job[q]
           due == Due(j, "current")
           n == j.amount * due
           share == HalfUp(n, j.total)
           again == Again(j, "current")
           shared == Shared(again, "current", share)
           next == [shared EXCEPT !.phase = "trim", !.term = "current"]
<1>1. j.phase = "cap" /\ j.phase \in Sharing /\ UNCHANGED <<records, history>>
      /\ Move(q, next) /\ j.amount <= j.total /\ CartTerms(j.cart) = Term
  BY DEF TakeShare, Sharing
<1>2. /\ j \in Job /\ SharesOK(j) /\ j.amount \in Nat \ {0} /\ j.total \in Int
      /\ j.due \in [Term -> Int] /\ Term = {"current", "next"}
  BY <1>1, SharingJob
<1>3. due \in Int /\ n \in Int
  BY <1>2, DueType
<1>4. j.total \in Nat \ {0} /\ j.total = j.due["current"] + j.due["next"]
  BY <1>1, <1>2 DEF SharesOK
<1>5. share \in Int
  <2> HIDE DEF n
  <2> QED BY <1>3, <1>4, HalfUpType
<1>6. /\ again \in Job /\ SameCart(again, j) /\ again.total = j.total
      /\ again.due["current"] = due
      /\ again.steady => j.steady /\ again.due = j.due
  BY <1>2, AgainIs
<1> HIDE DEF again, share
<1>7. /\ shared \in Job /\ SameCart(shared, j) /\ shared.total = j.total
      /\ shared.due = again.due /\ shared.steady = again.steady
      /\ shared.share["current"] = share /\ shared.share["next"] = j.amount - share
  <2>1. again.amount = j.amount /\ again.amount \in Int
    BY <1>2, <1>6 DEF SameCart
  <2> QED BY <1>2, <1>5, <1>6, <2>1, SharedIs DEF SameCart
<1> HIDE DEF shared
<1>8. /\ next \in Job /\ SameCart(next, j) /\ next.total = j.total
      /\ next.due = again.due /\ next.steady = again.steady
      /\ next.share["current"] = share /\ next.share["next"] = j.amount - share
      /\ next.phase = "trim" /\ next.term = "current"
  <2>1. shared \in Job
    BY <1>7
  <2>2. next \in Job
    BY <2>1 DEF Job, Phase, Term
  <2>3. /\ SameCart(next, shared) /\ next.total = shared.total /\ next.due = shared.due
        /\ next.steady = shared.steady /\ next.share = shared.share
        /\ next.phase = "trim" /\ next.term = "current"
    BY <2>1 DEF Job, SameCart
  <2> HIDE DEF next
  <2> QED BY <1>7, <2>2, <2>3 DEF SameCart
<1> HIDE DEF next
<1>9. Given(next)
  BY <1>1, <1>2, <1>5, <1>8 DEF Given, SameCart
<1>10. Fair(next)
  <2>1. SUFFICES ASSUME next.steady, \A t \in Term : next.due[t] >= 0
                 PROVE  /\ share \in 0 .. next.due["current"]
                        /\ j.amount - share \in 0 .. next.due["next"]
    BY <1>2, <1>8 DEF Fair
  <2>2. next.due = j.due /\ due = j.due["current"]
    BY <1>6, <1>8, <2>1
  <2> DEFINE cur == j.due["current"]
             nxt == j.due["next"]
  <2>3. cur \in Nat /\ nxt \in Nat /\ j.amount <= cur + nxt
        /\ share = HalfUp(j.amount * cur, cur + nxt)
    BY <1>1, <1>2, <1>4, <2>1, <2>2 DEF share
  <2>4. share \in 0 .. cur /\ j.amount - share \in 0 .. nxt
    <3> HIDE DEF cur, nxt
    <3>1. /\ HalfUp(j.amount * cur, cur + nxt) \in 0 .. cur
          /\ j.amount - HalfUp(j.amount * cur, cur + nxt) \in 0 .. nxt
      BY <1>2, <2>3, SplitSound
    <3> QED BY <2>3, <3>1
  <2> QED BY <2>2, <2>4
<1>11. SharesOK(next)
  BY <1>1, <1>8, <1>9, <1>10 DEF SharesOK, SameCart, Collecting
<1>12. next.phase \in Sharing
  BY <1>8 DEF Sharing
<1> QED BY <1>1, <1>8, <1>11, <1>12, SharingStep

\* A balance that is asked for again does not make the shares unfair.
LEMMA AgainFair ==
  ASSUME BillingInv, NEW j \in Job, NEW t \in Term, Given(j), Fair(j)
  PROVE  Given(Again(j, t)) /\ Fair(Again(j, t))
BY AgainIs DEF Given, Fair, SameCart

\* From one share to the next, and then to the commit.
LEMMA TrimmedOK ==
  ASSUME NEW j \in Job, CartTerms(j.cart) = Term, Given(j), Fair(j),
         j.share[j.term] \in Int, j.term \in Term,
         j.term = "current" => j.share["current"] <= j.due["current"],
         j.term = "next" =>
           /\ j.share["next"] <= j.due["next"]
           /\ \/ j.share["current"] <= j.due["current"]
              \/ j.share["current"] + j.due["next"] <= j.total
  PROVE  /\ Trimmed(j) \in Job /\ SameCart(Trimmed(j), j) /\ SharesOK(Trimmed(j))
         /\ Trimmed(j).phase \in Sharing
<1>1. CASE j.term = "current"
  <2> DEFINE next == [j EXCEPT !.phase = "trim", !.term = "next"]
  <2>1. /\ next \in Job /\ SameCart(next, j) /\ next.phase = "trim" /\ next.term = "next"
        /\ next.total = j.total /\ next.due = j.due /\ next.share = j.share
        /\ next.steady = j.steady
    BY DEF Job, Phase, Term, SameCart
  <2>2. Trimmed(j) = next
    BY <1>1 DEF Trimmed
  <2> HIDE DEF next
  <2>3. Given(next) /\ Fair(next)
    BY <2>1 DEF Given, Fair, SameCart
  <2> QED BY <1>1, <2>1, <2>2, <2>3 DEF SharesOK, SameCart, Collecting, Sharing
<1>2. CASE j.term = "next"
  <2> DEFINE next == [j EXCEPT !.phase = "commit"]
  <2>0. next \in Job
    BY DEF Job, Phase
  <2>1. /\ next \in Job /\ SameCart(next, j) /\ next.phase = "commit"
        /\ next.total = j.total /\ next.due = j.due /\ next.share = j.share
        /\ next.steady = j.steady
    BY <2>0 DEF Job, SameCart
  <2>2. Trimmed(j) = next
    BY <1>2 DEF Trimmed
  <2> HIDE DEF next
  <2>3. Given(next) /\ Fair(next)
    BY <2>1 DEF Given, Fair, SameCart
  <2> QED BY <1>2, <2>1, <2>2, <2>3 DEF SharesOK, SameCart, Collecting, Sharing
<1> QED BY <1>1, <1>2 DEF Term

LEMMA TrimShareOK ==
  ASSUME BillingInv, NEW q \in Request, TrimShare(q)
  PROVE  BillingInv'
<1> DEFINE j == job[q]
           t == j.term
           again == Again(j, t)
<1>1. j.phase = "trim" /\ j.phase \in Sharing /\ UNCHANGED <<records, history>>
  BY DEF TrimShare, Sharing
<1>2. /\ j \in Job /\ SharesOK(j) /\ t \in Term /\ Term = {"current", "next"}
      /\ j.share \in [Term -> Int] /\ CartTerms(j.cart) = Term
      /\ Given(j) /\ Fair(j) /\ (t = "next" => j.share["current"] <= j.due["current"])
  BY <1>1, SharingJob DEF SharesOK
<1>3. /\ again \in Job /\ SameCart(again, j) /\ again.total = j.total
      /\ again.share = j.share /\ again.term = t /\ again.due[t] = Due(j, t)
      /\ \A u \in Term \ {t} : again.due[u] = j.due[u]
      /\ again.due \in [Term -> Int]
  BY <1>2, AgainIs DEF Job
<1>4. Given(again) /\ Fair(again)
  BY <1>2, AgainFair
<1>5. Due(again, t) = again.due[t]
  BY <1>3 DEF Due, SameCart
<1>6. Move(q, IF again.share[t] > again.due[t] THEN [again EXCEPT !.phase = "cut"]
                                             ELSE Trimmed(again))
  BY <1>3, <1>5 DEF TrimShare
<1> HIDE DEF again
<1>7. CASE again.share[t] > again.due[t]
  <2> DEFINE next == [again EXCEPT !.phase = "cut"]
  <2>1. /\ next \in Job /\ SameCart(next, j) /\ next.phase = "cut" /\ next.term = t
        /\ next.total = again.total /\ next.due = again.due /\ next.share = again.share
        /\ next.steady = again.steady /\ next.amount = again.amount
    BY <1>3 DEF Job, Phase, SameCart
  <2>2. Move(q, next)
    BY <1>6, <1>7
  <2> HIDE DEF next
  <2>3. Given(next) /\ Fair(next)
    BY <1>4, <2>1 DEF Given, Fair
  <2>4. next.term = "next" => next.share["current"] <= next.due["current"]
    BY <1>2, <1>3, <2>1
  <2>5. SharesOK(next) /\ next.phase \in Sharing
    BY <1>2, <1>7, <2>1, <2>3, <2>4 DEF SharesOK, SameCart, Collecting, Sharing
  <2> QED BY <1>1, <2>1, <2>2, <2>5, SharingStep
<1>8. CASE ~ (again.share[t] > again.due[t])
  <2>1. again.share[t] <= again.due[t] /\ again.share[t] \in Int
    BY <1>2, <1>3, <1>8
  <2>2. t = "next" => again.share["current"] <= again.due["current"]
    BY <1>2, <1>3
  <2>3. CartTerms(again.cart) = Term
    BY <1>2, <1>3 DEF SameCart
  <2>4. /\ Trimmed(again) \in Job /\ SameCart(Trimmed(again), again)
        /\ SharesOK(Trimmed(again)) /\ Trimmed(again).phase \in Sharing
    BY <1>2, <1>3, <1>4, <2>1, <2>2, <2>3, TrimmedOK
  <2>5. SameCart(Trimmed(again), j) /\ Move(q, Trimmed(again))
    BY <1>3, <1>6, <1>8, <2>4 DEF SameCart
  <2> QED BY <1>1, <2>4, <2>5, SharingStep
<1> QED BY <1>7, <1>8

LEMMA CutShareOK ==
  ASSUME BillingInv, NEW q \in Request, CutShare(q)
  PROVE  BillingInv'
<1> DEFINE j == job[q]
           t == j.term
           again == Again(j, t)
           due == Due(again, t)
           shared == Shared(again, t, due)
<1>1. j.phase = "cut" /\ j.phase \in Sharing /\ UNCHANGED <<records, history>>
  BY DEF CutShare, Sharing
<1>2. /\ j \in Job /\ SharesOK(j) /\ t \in Term /\ Term = {"current", "next"}
      /\ j.share \in [Term -> Int] /\ CartTerms(j.cart) = Term /\ j.due \in [Term -> Int]
      /\ j.amount \in Nat \ {0} /\ j.total \in Int
      /\ Given(j) /\ Fair(j) /\ j.share[t] > j.due[t]
      /\ (t = "next" => j.share["current"] <= j.due["current"])
  BY <1>1, SharingJob DEF SharesOK
<1>3. /\ again \in Job /\ SameCart(again, j) /\ again.total = j.total
      /\ again.term = t /\ again.due[t] = Due(j, t)
      /\ \A u \in Term \ {t} : again.due[u] = j.due[u]
      /\ again.steady => j.steady /\ again.due = j.due
  BY <1>2, AgainIs
<1>4. due = again.due[t] /\ due \in Int
  BY <1>2, <1>3, DueType DEF Due, SameCart
<1>5. Move(q, Trimmed(shared))
  BY <1>3 DEF CutShare
<1> HIDE DEF again, due
<1>6. /\ shared \in Job /\ SameCart(shared, j) /\ shared.total = j.total
      /\ shared.due = again.due /\ shared.steady = again.steady /\ shared.term = t
      /\ shared.share[t] = due /\ \A u \in Term \ {t} : shared.share[u] = j.amount - due
  <2>1. again.amount = j.amount /\ again.amount \in Int
    BY <1>2, <1>3 DEF SameCart
  <2> QED BY <1>2, <1>3, <1>4, <2>1, SharedIs DEF SameCart
<1> HIDE DEF shared
<1>7. j.amount <= j.total
  BY <1>2 DEF Given
<1>8. Given(shared)
  <2>1. CASE t = "current"
    BY <1>2, <1>4, <1>6, <1>7, <2>1 DEF Given, SameCart
  <2>2. CASE t = "next"
    BY <1>2, <1>4, <1>6, <1>7, <2>2 DEF Given, SameCart
  <2> QED BY <1>2, <2>1, <2>2
<1>9. Fair(shared)
  <2>1. ~ (j.steady /\ \A u \in Term : j.due[u] >= 0)
    BY <1>2 DEF Fair
  <2> QED BY <1>3, <1>6, <2>1 DEF Fair
<1>10. CartTerms(shared.cart) = Term /\ shared.share[t] \in Int /\ shared.share[t] = shared.due[t]
  BY <1>2, <1>4, <1>6 DEF SameCart
<1>11. t = "next" => shared.share["current"] + shared.due["next"] <= shared.total
  BY <1>2, <1>4, <1>6, <1>7, <1>10
<1>12. /\ Trimmed(shared) \in Job /\ SameCart(Trimmed(shared), shared)
       /\ SharesOK(Trimmed(shared)) /\ Trimmed(shared).phase \in Sharing
  BY <1>2, <1>4, <1>6, <1>8, <1>9, <1>10, <1>11, TrimmedOK
<1>13. SameCart(Trimmed(shared), j)
  BY <1>6, <1>12 DEF SameCart
<1> QED BY <1>1, <1>5, <1>12, <1>13, SharingStep

LEMMA CommitCheckoutOK ==
  ASSUME BillingInv, NEW q \in Request, CommitCheckout(q)
  PROVE  BillingInv'
<1> DEFINE j == job[q]
           next == [j EXCEPT !.phase = "pay", !.made = {}, !.held = {}]
           new(t) == Grown(lines[t], j.fresh[t], j.price[t])
<1>1. j \in Job /\ ShapeOK(j) /\ j.phase = "commit"
      /\ UNCHANGED <<price, payment, history>>
      /\ CartTerms(j.cart) \subseteq Term
  BY CartTermsType DEF BillingInv, BillingTypeOK, CommitCheckout, Term
<1>2. Move(q, next)
      /\ invoice' = [t \in Term |-> IF t \in j.made \cup j.held THEN j.seen[t]
                                                                ELSE invoice[t]]
      /\ lines' = [t \in Term |-> new(t)]
  BY DEF CommitCheckout
<1>3. /\ next \in Job /\ next.phase = "pay" /\ next.cart = j.cart
      /\ next.amount = j.amount /\ next.total = j.total /\ next.due = j.due
      /\ next.steady = j.steady /\ next.share = j.share
  BY <1>1 DEF Job, Phase
<1> HIDE DEF next
<1>4. ShapeOK(next)
  <2>1. SharesOK(next)
    BY <1>1, <1>3 DEF ShapeOK, SharesOK, Given, Fair, Collecting
  <2> QED BY <1>1, <1>3, <2>1 DEF ShapeOK, Checkout, Collecting, Sharing
<1>8. ASSUME NEW t \in Term
      PROVE  /\ new(t) \in [Category -> [count : Nat, sum : Nat]]
             /\ \A c \in Category : new(t)[c].count = lines[t][c].count + j.fresh[t][c]
             /\ LineSum(new(t)) = LineSum(lines[t]) + Added(j, t)
             /\ j.fresh[t] = NothingFresh => new(t) = lines[t]
  <2> DEFINE ls == lines[t]
             fresh == j.fresh[t]
             ps == j.price[t]
  <2>1. ls \in [Category -> [count : Nat, sum : Nat]] /\ ps \in [Category -> Amount]
        /\ fresh \in [Category -> Nat]
    BY <1>1 DEF BillingInv, BillingTypeOK, Job, Prices
  <2>2. Added(j, t) = Increase(fresh, ps)
    BY DEF Added, Increase
  <2> HIDE DEF ls, fresh, ps
  <2>3. \A c \in Category : /\ ls[c].sum \in Nat /\ ls[c].count \in Nat
                            /\ fresh[c] \in Nat /\ ps[c] \in Nat
    BY <2>1, FinitePrices
  <2>4. fresh = NothingFresh => Grown(ls, fresh, ps) = ls
    <3> SUFFICES ASSUME fresh = NothingFresh PROVE Grown(ls, fresh, ps) = ls
      OBVIOUS
    <3>1. \A c \in Category :
            [count |-> ls[c].count + fresh[c], sum |-> ls[c].sum + fresh[c] * ps[c]] = ls[c]
      <4> TAKE c \in Category
      <4>1. fresh[c] = 0 /\ ls[c].count + 0 = ls[c].count /\ ls[c].sum + 0 * ps[c] = ls[c].sum
        BY <2>3 DEF NothingFresh
      <4>2. ls[c] = [count |-> ls[c].count, sum |-> ls[c].sum]
        BY <2>1
      <4> QED BY <4>1, <4>2
    <3> QED BY <2>1, <3>1 DEF Grown
  <2> QED BY <2>2, <2>3, <2>4, GrownSum DEF ls, fresh, ps
<1> HIDE DEF new
<1>9. BillingTypeOK'
  <2>1. invoice' \in [Term -> Nat \cup {NoInvoice}]
    BY <1>1, <1>2 DEF BillingInv, BillingTypeOK, Job
  <2>2. lines' \in [Term -> [Category -> [count : Nat, sum : Nat]]]
    BY <1>2, <1>8
  <2> QED BY <1>1, <1>2, <1>3, <2>1, <2>2, MoveType DEF BillingInv, BillingTypeOK, history
<1>10. Touched(next) = CartTerms(j.cart) /\ Touched(j) = CartTerms(j.cart)
       /\ Opened(j) = CartTerms(j.cart) /\ Opened(next) = {}
  BY <1>1, <1>3, StaysInCart DEF Checkout, Collecting, Sharing, Opened
<1>11. ASSUME NEW t \in Term \ Touched(j)
       PROVE  invoice'[t] = invoice[t] /\ lines'[t] = lines[t]
  <2>1. j.fresh[t] = NothingFresh /\ t \notin j.made \cup j.held
    BY <1>1, <1>10 DEF ShapeOK, Checkout, Sharing
  <2> QED BY <1>2, <1>8, <2>1
<1>12. ASSUME NEW t \in Touched(j) \ tangled
       PROVE  /\ invoice'[t] # NoInvoice
              /\ PageCarts => Once(lines'[t])
              /\ crashes = 0 => Agree(invoice'[t], lines'[t])
              /\ Fits(next, t, invoice'[t], lines'[t]) /\ FitsTotal(next, t, lines'[t])
  <2>1. t \in Term /\ t \in Opened(j) /\ Fits(j, t, invoice[t], lines[t])
        /\ (crashes = 0 => FitsTotal(j, t, lines[t]) /\ Agree(invoice[t], lines[t]))
    BY <1>1, <1>10, WorksAlone
  <2>2. j.seen[t] \in Nat /\ j.seen[t] # NoInvoice /\ LineSum(lines[t]) \in Nat
    <3>1. j.seen[t] \in Nat
      BY <1>1, <2>1 DEF Job
    <3>2. \A c \in Category : lines[t][c].sum \in Nat
      BY <2>1 DEF BillingInv, BillingTypeOK
    <3> QED BY <3>1, <3>2, LineSumType DEF NoInvoice
  <2>3. invoice[t] # NoInvoice \/ t \in j.made
    BY <2>1 DEF Fits
  <2>4. invoice'[t] # NoInvoice
    BY <1>2, <2>1, <2>2, <2>3
  <2>5. PageCarts => Once(lines'[t])
    BY <1>2, <1>8, <2>1 DEF Fits, Once
  <2>6. crashes = 0 => Agree(invoice'[t], lines'[t])
    <3>1. SUFFICES ASSUME crashes = 0 PROVE invoice'[t] = LineSum(lines'[t])
      BY <2>4 DEF Agree
    <3>2. j.seen[t] = LineSum(lines'[t])
      BY <1>2, <1>8, <2>1, <3>1 DEF FitsTotal
    <3>3. t \notin j.held \cup j.made =>
            invoice[t] = LineSum(lines[t]) /\ j.fresh[t] = NothingFresh
      BY <1>1, <2>1, <2>3, <3>1 DEF Agree, ShapeOK, Checkout, Sharing
    <3>4. t \notin j.held \cup j.made => invoice[t] = LineSum(lines'[t])
      BY <1>2, <1>8, <2>1, <3>3
    <3> QED BY <1>2, <2>1, <3>2, <3>4
  <2>7. Fits(next, t, invoice'[t], lines'[t]) /\ FitsTotal(next, t, lines'[t])
    BY <1>3, <1>10 DEF Fits, FitsTotal
  <2> QED BY <2>4, <2>5, <2>6, <2>7
<1>13. Touched(next) \subseteq Touched(j) /\ tangled' = tangled /\ crashes' = crashes
  BY <1>1, <1>10 DEF history
<1> QED BY <1>2, <1>4, <1>9, <1>11, <1>12, <1>13, WorkFrame

LEMMA PayNothingOK ==
  ASSUME BillingInv, NEW q \in Request, RefuseAmount(q) \/ PayNothing(q)
  PROVE  BillingInv'
<1>1. /\ Move(q, NoJob) /\ UNCHANGED <<records, history>>
      /\ job[q].phase \notin {"lines", "relines"}
  BY DEF RefuseAmount, PayNothing
<1> QED BY <1>1, EndOK DEF records, history, BillingInv, BillingTypeOK

LEMMA PaySharesOK ==
  ASSUME BillingInv, NEW q \in Request, NEW rowOf \in [Term -> Pay], PayShares(q, rowOf)
  PROVE  BillingInv'
<1> DEFINE terms == CartTerms(job[q].cart)
<1>1. /\ Move(q, NoJob) /\ UNCHANGED <<price, invoice, lines, history>>
      /\ job[q].phase \notin {"lines", "relines"} /\ terms \subseteq Term
      /\ job[q] \in Job
  BY CartTermsType DEF PayShares, Term, BillingInv, BillingTypeOK
<1>2. \A t \in terms : Pending(t, job[q].share[t]) \in PaymentRow
  BY <1>1 DEF Job, Pending, PaymentRow
<1>3. payment' \in [Pay -> PaymentRow]
  <2>1. \A p \in Pay : payment[p] \in PaymentRow
    BY DEF BillingInv, BillingTypeOK
  <2>2. payment' = [p \in Pay |->
          IF \E t \in terms : rowOf[t] = p
          THEN Pending(CHOOSE t \in terms : rowOf[t] = p,
                       job[q].share[CHOOSE t \in terms : rowOf[t] = p])
          ELSE payment[p]]
    BY DEF PayShares
  <2>3. \A p \in Pay : (\E t \in terms : rowOf[t] = p) =>
          (CHOOSE t \in terms : rowOf[t] = p) \in terms
    OBVIOUS
  <2> QED BY <1>2, <2>1, <2>2, <2>3
<1> QED BY <1>1, <1>3, EndOK DEF history, BillingInv, BillingTypeOK

-----------------------------------------------------------------------------
(* The generator and the re-pricing *)

Autocommit == {"exists", "create", "lines", "select", "clear", "relines"}

\* They work on their term only.
LEMMA OnOneTerm ==
  ASSUME BillingInv, NEW q \in Request, job[q].phase \in Autocommit
  PROVE  /\ job[q] \in Job /\ job[q].term \in Term /\ job[q].cart = NoCart
         /\ Touched(job[q]) = {job[q].term}
         /\ job[q].price[job[q].term] \in [Category -> Amount]
<1>1. job[q] \in Job /\ ShapeOK(job[q])
  BY DEF BillingInv, BillingTypeOK
<1>2. job[q].term \in Term /\ job[q].price \in [Term -> [Category -> Amount]]
  BY <1>1 DEF Job, Prices
<1>3. job[q].cart = NoCart
  BY <1>1 DEF ShapeOK, Autocommit, Checkout, Collecting, Sharing
<1>4. Touched(job[q]) = {job[q].term}
  BY <1>3 DEF Touched, Autocommit
<1> QED BY <1>1, <1>2, <1>3, <1>4

\* A step that only looks.
LEMMA LooksOK ==
  ASSUME BillingInv, NEW q \in Request, NEW next \in Job, Move(q, next),
         UNCHANGED <<records, history>>, job[q].phase \in {"exists", "select"},
         next.phase \in {"select", "create", "clear"}, next.cart = NoCart,
         next.term = job[q].term, next.phase = "clear" => Exists(next.term)
  PROVE  BillingInv'
<1>1. ShapeOK(next)
  BY DEF ShapeOK, SharesOK, Checkout, Collecting, Sharing
<1>2. Touched(job[q]) = {next.term} /\ Touched(next) = {next.term}
  BY OnOneTerm DEF Autocommit, Touched
<1>3. Opened(next) = {}
  BY DEF Opened, Collecting, Sharing
<1>4. /\ Fits(next, next.term, invoice[next.term], lines[next.term])
      /\ FitsTotal(next, next.term, lines[next.term])
  BY <1>3 DEF Fits, FitsTotal, Exists
<1> QED BY <1>1, <1>2, <1>4, StepsOn

LEMMA GeneratedOK ==
  ASSUME BillingInv, NEW q \in Request, job[q].phase \in Autocommit
  PROVE  \/ Generated(q) = NoJob
         \/ /\ Generated(q) \in Job /\ Generated(q).phase = "select"
            /\ Generated(q).cart = NoCart /\ Generated(q).term = job[q].term
<1> DEFINE next == [job[q] EXCEPT !.phase = "select"]
<1>1. job[q] \in Job /\ job[q].cart = NoCart
  BY OnOneTerm
<1>2. next \in Job
  BY <1>1 DEF Job, Phase
<1>3. next.phase = "select" /\ next.cart = NoCart /\ next.term = job[q].term
  BY <1>1 DEF Job
<1>4. Generated(q) \in {NoJob, next}
  BY DEF Generated
<1> HIDE DEF next
<1> QED BY <1>2, <1>3, <1>4

LEMMA CheckExistsOK ==
  ASSUME BillingInv, NEW q \in Request, CheckExists(q)
  PROVE  BillingInv'
<1> DEFINE next == [job[q] EXCEPT !.phase = "create", !.price = price]
<1>1. /\ job[q].phase = "exists" /\ UNCHANGED <<records, history>>
      /\ Move(q, Generated(q)) \/ Move(q, next)
  BY DEF CheckExists
<1>2. next \in Job /\ next.phase = "create" /\ next.cart = NoCart
      /\ next.term = job[q].term
  <2>1. price \in Prices /\ job[q] \in Job /\ job[q].cart = NoCart
    BY <1>1, OnOneTerm DEF Autocommit, BillingInv, BillingTypeOK
  <2> QED BY <2>1 DEF Job, Phase
<1> HIDE DEF next
<1>3. CASE Move(q, NoJob)
  BY <1>1, <1>3, EndOK DEF records, history, BillingInv, BillingTypeOK
<1>4. CASE Move(q, next)
  BY <1>1, <1>2, <1>4, LooksOK
<1>5. CASE Move(q, Generated(q)) /\ Generated(q) # NoJob
  BY <1>1, <1>5, GeneratedOK, LooksOK DEF Autocommit
<1> QED BY <1>1, <1>3, <1>4, <1>5

LEMMA SelectUnpaidOK ==
  ASSUME BillingInv, NEW q \in Request, SelectUnpaid(q)
  PROVE  BillingInv'
<1> DEFINE next == [job[q] EXCEPT !.phase = "clear", !.price = price]
<1>1. /\ job[q].phase = "select" /\ UNCHANGED <<records, history>>
      /\ Move(q, NoJob) \/ (Exists(job[q].term) /\ Move(q, next))
  BY DEF SelectUnpaid
<1>2. next \in Job /\ next.phase = "clear" /\ next.cart = NoCart
      /\ next.term = job[q].term
  <2>1. price \in Prices /\ job[q] \in Job /\ job[q].cart = NoCart
    BY <1>1, OnOneTerm DEF Autocommit, BillingInv, BillingTypeOK
  <2> QED BY <2>1 DEF Job, Phase
<1> HIDE DEF next
<1>3. CASE Move(q, NoJob)
  BY <1>1, <1>3, EndOK DEF records, history, BillingInv, BillingTypeOK
<1>4. CASE Exists(job[q].term) /\ Move(q, next)
  BY <1>1, <1>2, <1>4, LooksOK
<1> QED BY <1>1, <1>3, <1>4

\* A step that writes, on a term that no other request works on.
LEMMA WritesOK ==
  ASSUME BillingInv, NEW q \in Request, NEW next, Move(q, next), BillingTypeOK',
         job[q].phase \in Autocommit, next.phase \in Autocommit \cup {"idle"},
         ShapeOK(next), next.phase # "idle" => next.term = job[q].term,
         UNCHANGED history, NEW t, t = job[q].term,
         \A u \in Term \ {t} : invoice'[u] = invoice[u] /\ lines'[u] = lines[u],
         t \notin tangled =>
           /\ invoice'[t] # NoInvoice
           /\ PageCarts => Once(lines'[t])
           /\ crashes = 0 /\ next.phase \notin {"lines", "relines"} =>
                Agree(invoice'[t], lines'[t])
           /\ next.phase # "idle" => Fits(next, t, invoice'[t], lines'[t])
  PROVE  BillingInv'
<1>1. Touched(job[q]) = {t} /\ t \in Term
  BY OnOneTerm
<1>2. next.phase # "idle" => next.cart = NoCart
  BY DEF ShapeOK, Autocommit, Checkout, Collecting, Sharing
<1>3. Touched(next) \subseteq {t} /\ (next.phase = "idle" => Touched(next) = {})
  BY <1>2 DEF Touched
<1>4. \A ls : FitsTotal(next, t, ls)
  BY DEF FitsTotal, Opened, Collecting, Sharing, Autocommit
<1>5. tangled' = tangled /\ crashes' = crashes
  BY DEF history
<1>6. ASSUME NEW u \in Touched(job[q]) \ tangled
      PROVE  /\ invoice'[u] = NoInvoice => lines'[u] = NoLines
             /\ PageCarts => Once(lines'[u])
             /\ crashes = 0 /\ ~ (next.phase \in {"lines", "relines"} /\ next.term = u) =>
                  Agree(invoice'[u], lines'[u])
             /\ u \in Touched(next) => /\ Fits(next, u, invoice'[u], lines'[u])
                                       /\ FitsTotal(next, u, lines'[u])
  BY <1>1, <1>3, <1>4, <1>6
<1>7. \A u \in Term \ Touched(job[q]) : invoice'[u] = invoice[u] /\ lines'[u] = lines[u]
  BY <1>1
<1>8. Touched(next) \subseteq Touched(job[q])
  BY <1>1, <1>3
<1> QED BY <1>5, <1>6, <1>7, <1>8, WorkFrame

LEMMA LinesCreatedOK ==
  ASSUME BillingInv, NEW q \in Request, LinesCreated(q)
  PROVE  BillingInv'
<1> DEFINE t == job[q].term
           next == Generated(q)
<1>1. /\ job[q].phase = "lines" /\ job[q].todo = {} /\ UNCHANGED <<records, history>>
      /\ Move(q, next)
  BY DEF LinesCreated
<1>2. job[q].phase \in Autocommit /\ Touched(job[q]) = {t} /\ t \in Term
      /\ job[q].price[t] \in [Category -> Amount]
  BY <1>1, OnOneTerm DEF Autocommit
<1>3. next \in Job /\ ShapeOK(next) /\ next.phase \in {"select", "idle"}
      /\ (next.phase # "idle" => next.term = t)
  BY <1>2, GeneratedOK, NoJobOK DEF ShapeOK, SharesOK, Checkout, Collecting, Sharing
<1> HIDE DEF next
<1>4. BillingTypeOK'
  BY <1>1, <1>3, MoveType DEF BillingInv, BillingTypeOK, records, history
<1>5. ASSUME t \notin tangled
      PROVE  /\ invoice[t] # NoInvoice /\ (PageCarts => Once(lines[t]))
             /\ Agree(invoice[t], lines[t])
  <2>1. Fits(job[q], t, invoice[t], lines[t]) /\ (PageCarts => Once(lines[t]))
    BY <1>2, <1>5, WorksAlone
  <2>2. PriceOf(job[q].price[t], {}) = 0
    <3>1. PICK c \in Compulsory : TRUE
      BY BillingAssumption
    <3>2. Compulsory \in SUBSET Category
      BY FinitePrices
    <3> QED BY <1>2, <3>2, PriceStep
  <2>3. LineSum(lines[t]) \in Nat
    <3>1. \A c \in Category : lines[t][c].sum \in Nat
      BY <1>2 DEF BillingInv, BillingTypeOK
    <3> QED BY <3>1, LineSumType
  <2> QED BY <1>1, <2>1, <2>2, <2>3 DEF Fits, Agree
<1>6. next.phase # "idle" => Fits(next, t, invoice[t], lines[t])
  BY <1>3 DEF Fits, Opened, Collecting, Sharing
<1> HIDE DEF t
<1>7. UNCHANGED <<invoice, lines, history>>
  BY <1>1 DEF records, history
<1>8. t = job[q].term /\ next.phase \in Autocommit \cup {"idle"}
      /\ next.phase \notin {"lines", "relines"}
  BY <1>3 DEF t, Autocommit
<1> QED BY <1>1, <1>2, <1>3, <1>4, <1>5, <1>6, <1>7, <1>8, WritesOK DEF t

LEMMA CreateInvoiceOK ==
  ASSUME BillingInv, NEW q \in Request, CreateInvoice(q)
  PROVE  BillingInv'
<1> DEFINE t == job[q].term
           ps == job[q].price[t]
           next == [job[q] EXCEPT !.phase = "lines", !.todo = Compulsory]
<1>1. /\ job[q].phase = "create" /\ UNCHANGED <<price, lines, payment, history>>
      /\ \/ Exists(t) /\ Move(q, NoJob) /\ UNCHANGED invoice
         \/ /\ ~ Exists(t) /\ Move(q, next)
            /\ invoice' = [invoice EXCEPT ![t] = PriceOf(ps, Compulsory)]
  BY DEF CreateInvoice
<1>2. job[q].phase \in Autocommit /\ Touched(job[q]) = {t} /\ t \in Term
      /\ job[q] \in Job /\ job[q].cart = NoCart /\ ps \in [Category -> Amount]
  BY <1>1, OnOneTerm DEF Autocommit
<1>3. CASE Exists(t) /\ Move(q, NoJob) /\ UNCHANGED invoice
  BY <1>1, <1>3, EndOK DEF history, BillingInv, BillingTypeOK
<1>4. CASE ~ Exists(t) /\ Move(q, next)
           /\ invoice' = [invoice EXCEPT ![t] = PriceOf(ps, Compulsory)]
  <2>1. /\ next \in Job /\ next.phase = "lines" /\ next.todo = Compulsory
        /\ next.cart = NoCart /\ next.term = t /\ next.price[t] = ps
    BY <1>2, FinitePrices DEF Job, Phase
  <2> HIDE DEF next
  <2>2. ShapeOK(next)
    BY <2>1 DEF ShapeOK, SharesOK, Checkout, Collecting, Sharing
  <2>3. PriceOf(ps, Compulsory) \in Nat /\ PriceOf(ps, Compulsory) # NoInvoice
    <3>1. PriceOf(ps, Compulsory) \in Nat
      BY <1>2, FinitePrices, PriceOfType
    <3> QED BY <3>1 DEF NoInvoice
  <2>4. /\ invoice'[t] = PriceOf(ps, Compulsory) /\ invoice' \in [Term -> Nat \cup {NoInvoice}]
        /\ \A u \in Term \ {t} : invoice'[u] = invoice[u]
    BY <1>2, <1>4, <2>3 DEF BillingInv, BillingTypeOK
  <2>5. BillingTypeOK'
    BY <1>1, <1>4, <2>1, <2>4, MoveType DEF BillingInv, BillingTypeOK, history
  <2>6. ASSUME t \notin tangled
        PROVE  (PageCarts => Once(lines[t])) /\ Fits(next, t, invoice'[t], lines'[t])
    <3>1. lines[t] = NoLines /\ (PageCarts => Once(lines[t]))
      BY <1>2, <1>4, <2>6, WorksAlone
    <3>2. \A c \in Category : lines[t][c].count = 0
      BY <3>1 DEF NoLines
    <3> QED BY <1>1, <2>1, <2>3, <2>4, <3>1, <3>2, NoLinesSum, FinitePrices
            DEF Fits, Opened, Collecting, Sharing
  <2>7. UNCHANGED lines
    BY <1>1
  <2>8. t = job[q].term /\ next.phase \in Autocommit
    BY <2>1 DEF Autocommit
  <2> HIDE DEF t
  <2> QED BY <1>1, <1>2, <1>4, <2>1, <2>2, <2>3, <2>4, <2>5, <2>6, <2>7, <2>8, WritesOK
<1> QED BY <1>1, <1>3, <1>4

LEMMA CreateLineOK ==
  ASSUME BillingInv, NEW q \in Request, NEW c \in Category, CreateLine(q, c)
  PROVE  BillingInv'
<1> DEFINE t == job[q].term
           ps == job[q].price[t]
           todo == job[q].todo
           next == [job[q] EXCEPT !.todo = @ \ {c}]
           new == Grown(lines[t], [d \in Category |-> IF d = c THEN 1 ELSE 0], ps)
<1>1. /\ job[q].phase \in {"lines", "relines"} /\ c \in todo
      /\ UNCHANGED <<price, invoice, payment, history>> /\ Move(q, next)
      /\ lines' = [lines EXCEPT ![t] = new]
  BY DEF CreateLine
<1>2. job[q].phase \in Autocommit /\ Touched(job[q]) = {t} /\ t \in Term
      /\ job[q] \in Job /\ job[q].cart = NoCart /\ ps \in [Category -> Amount]
      /\ todo \in SUBSET Category /\ ShapeOK(job[q])
  BY <1>1, OnOneTerm DEF Autocommit, Job, BillingInv
<1>3. /\ next \in Job /\ next.phase = job[q].phase /\ next.todo = todo \ {c}
      /\ next.cart = NoCart /\ next.term = t /\ next.price[t] = ps
  BY <1>2 DEF Job
<1> HIDE DEF next
<1>4. ShapeOK(next)
  BY <1>1, <1>2, <1>3 DEF ShapeOK, SharesOK, Checkout, Collecting, Sharing
<1>5. lines[t] \in [Category -> [count : Nat, sum : Nat]]
  BY <1>2 DEF BillingInv, BillingTypeOK
<1>6. /\ new \in [Category -> [count : Nat, sum : Nat]]
      /\ \A d \in Category : new[d].count = lines[t][d].count + IF d = c THEN 1 ELSE 0
      /\ LineSum(new) = LineSum(lines[t]) + ps[c]
  BY <1>2, <1>5, LineGrown
<1> HIDE DEF new
<1>7. lines'[t] = new /\ \A u \in Term \ {t} : lines'[u] = lines[u]
  BY <1>1, <1>2 DEF BillingInv, BillingTypeOK
<1>8. BillingTypeOK'
  <2>1. lines' \in [Term -> [Category -> [count : Nat, sum : Nat]]]
    BY <1>1, <1>6 DEF BillingInv, BillingTypeOK
  <2> QED BY <1>1, <1>3, <2>1, MoveType DEF BillingInv, BillingTypeOK, history
<1>9. PriceOf(ps, todo) = ps[c] + PriceOf(ps, todo \ {c})
      /\ PriceOf(ps, todo) \in Nat /\ PriceOf(ps, todo \ {c}) \in Nat /\ ps[c] \in Nat
  <2>1. PriceOf(ps, todo) = ps[c] + PriceOf(ps, todo \ {c})
    BY <1>1, <1>2, PriceStep
  <2>2. PriceOf(ps, todo) \in Nat /\ PriceOf(ps, todo \ {c}) \in Nat
    BY <1>2, PriceOfType
  <2> QED BY <1>2, <2>1, <2>2, FinitePrices
<1>10. ASSUME t \notin tangled
       PROVE  /\ invoice[t] # NoInvoice /\ (PageCarts => Once(new))
              /\ Fits(next, t, invoice[t], new)
  <2>1. Fits(job[q], t, invoice[t], lines[t]) /\ (PageCarts => Once(lines[t]))
    BY <1>2, <1>10, WorksAlone
  <2>2. LineSum(lines[t]) \in Nat /\ \A d \in Category : lines[t][d].count \in Nat
    <3>1. \A d \in Category : lines[t][d].sum \in Nat /\ lines[t][d].count \in Nat
      BY <1>5
    <3> QED BY <3>1, LineSumType
  <2>3. PageCarts => Once(new)
    BY <1>1, <1>6, <2>1, <2>2 DEF Fits, Once
  <2>4. LineSum(new) + PriceOf(ps, todo \ {c}) = PriceOf(ps, Compulsory)
    <3>1. LineSum(lines[t]) + PriceOf(ps, todo) = PriceOf(ps, Compulsory)
      BY <1>1, <2>1 DEF Fits
    <3> HIDE DEF ps, todo
    <3> QED BY <1>6, <1>9, <2>2, <3>1
  <2>5. \A d \in todo \ {c} : new[d].count = 0
    BY <1>1, <1>2, <1>6, <2>1, <2>2 DEF Fits
  <2>6. invoice[t] # NoInvoice
        /\ (next.phase = "lines" => invoice[t] = PriceOf(ps, Compulsory))
    BY <1>1, <1>3, <2>1 DEF Fits
  <2>7. Opened(next) = {}
    BY <1>1, <1>3 DEF Opened, Collecting, Sharing
  <2>8. Fits(next, t, invoice[t], new)
    BY <1>1, <1>3, <2>4, <2>5, <2>6, <2>7 DEF Fits
  <2> QED BY <2>3, <2>6, <2>8
<1>11. t = job[q].term /\ next.phase \in {"lines", "relines"}
       /\ next.phase \in Autocommit \cup {"idle"} /\ invoice' = invoice /\ UNCHANGED history
  BY <1>1, <1>3 DEF Autocommit
<1> HIDE DEF t
<1> QED BY <1>1, <1>2, <1>3, <1>4, <1>7, <1>8, <1>10, <1>11, WritesOK

LEMMA ClearLinesOK ==
  ASSUME BillingInv, NEW q \in Request, ClearLines(q)
  PROVE  BillingInv'
<1> DEFINE t == job[q].term
           next == [job[q] EXCEPT !.phase = "relines", !.todo = Compulsory]
<1>1. /\ job[q].phase = "clear" /\ UNCHANGED <<price, invoice, payment, history>>
      /\ Move(q, next) /\ lines' = [lines EXCEPT ![t] = NoLines]
  BY DEF ClearLines
<1>2. job[q].phase \in Autocommit /\ Touched(job[q]) = {t} /\ t \in Term
      /\ job[q] \in Job /\ job[q].cart = NoCart
      /\ job[q].price[t] \in [Category -> Amount]
  BY <1>1, OnOneTerm DEF Autocommit
<1>3. /\ next \in Job /\ next.phase = "relines" /\ next.todo = Compulsory
      /\ next.cart = NoCart /\ next.term = t /\ next.price[t] = job[q].price[t]
  BY <1>2, FinitePrices DEF Job, Phase
<1> HIDE DEF next
<1>4. ShapeOK(next)
  BY <1>3 DEF ShapeOK, SharesOK, Checkout, Collecting, Sharing
<1>5. NoLines \in [Category -> [count : Nat, sum : Nat]]
      /\ \A c \in Category : NoLines[c].count = 0
  BY DEF NoLines
<1>6. lines'[t] = NoLines /\ \A u \in Term \ {t} : lines'[u] = lines[u]
  BY <1>1, <1>2 DEF BillingInv, BillingTypeOK
<1>7. BillingTypeOK'
  <2>1. lines' \in [Term -> [Category -> [count : Nat, sum : Nat]]]
    BY <1>1, <1>5 DEF BillingInv, BillingTypeOK
  <2> QED BY <1>1, <1>3, <2>1, MoveType DEF BillingInv, BillingTypeOK, history
<1>8. ASSUME t \notin tangled
      PROVE  invoice[t] # NoInvoice /\ Once(NoLines) /\ Fits(next, t, invoice[t], NoLines)
  <2>1. invoice[t] # NoInvoice
    BY <1>1, <1>2, <1>8, WorksAlone DEF Fits
  <2>2. PriceOf(next.price[t], Compulsory) \in Nat
    BY <1>2, <1>3, FinitePrices, PriceOfType
  <2>3. Opened(next) = {}
    BY <1>3 DEF Opened, Collecting, Sharing
  <2>4. Fits(next, t, invoice[t], NoLines)
    BY <1>3, <1>5, <2>1, <2>2, <2>3, NoLinesSum, FinitePrices DEF Fits
  <2> QED BY <1>5, <2>1, <2>4 DEF Once
<1>9. t = job[q].term /\ next.phase \in Autocommit \cup {"idle"}
      /\ invoice' = invoice /\ UNCHANGED history
  BY <1>1, <1>3 DEF Autocommit
<1> HIDE DEF t
<1> QED BY <1>1, <1>2, <1>3, <1>4, <1>6, <1>7, <1>8, <1>9, WritesOK

\* With nothing left to do, the new lines add up to the new total.
LEMMA SaveTotalSums ==
  ASSUME BillingInv, NEW q \in Request, SaveTotal(q), NEW t, t = job[q].term
  PROVE  /\ invoice'[t] \in Nat /\ \A u \in Term \ {t} : invoice'[u] = invoice[u]
         /\ invoice' \in [Term -> Nat \cup {NoInvoice}]
         /\ t \notin tangled =>
              invoice'[t] = LineSum(lines[t]) /\ (PageCarts => Once(lines[t]))
<1> DEFINE total == PriceOf(job[q].price[t], Compulsory)
<1>1. /\ job[q].phase = "relines" /\ job[q].todo = {}
      /\ invoice' = [invoice EXCEPT ![t] = total]
  BY DEF SaveTotal
<1>2. Touched(job[q]) = {t} /\ t \in Term /\ job[q].price[t] \in [Category -> Amount]
  BY <1>1, OnOneTerm DEF Autocommit
<1>3. total \in Nat
  BY <1>2, FinitePrices, PriceOfType
<1>4. PriceOf(job[q].price[t], {}) = 0
  <2>1. PICK c \in Compulsory : TRUE
    BY BillingAssumption
  <2> QED BY <1>2, FinitePrices, PriceStep
<1>5. LineSum(lines[t]) \in Nat
  <2>1. \A c \in Category : lines[t][c].sum \in Nat
    BY <1>2 DEF BillingInv, BillingTypeOK
  <2> QED BY <2>1, LineSumType
<1>6. ASSUME t \notin tangled PROVE total = LineSum(lines[t]) /\ (PageCarts => Once(lines[t]))
  <2>1. Fits(job[q], t, invoice[t], lines[t]) /\ (PageCarts => Once(lines[t]))
    BY <1>2, <1>6, WorksAlone
  <2> QED BY <1>1, <1>4, <1>5, <2>1 DEF Fits
<1> HIDE DEF total
<1> QED BY <1>1, <1>2, <1>3, <1>6 DEF BillingInv, BillingTypeOK

LEMMA SaveTotalOK ==
  ASSUME BillingInv, NEW q \in Request, SaveTotal(q)
  PROVE  BillingInv'
<1> DEFINE t == job[q].term
<1>1. /\ job[q].phase = "relines" /\ UNCHANGED <<price, lines, payment, history>>
      /\ Move(q, NoJob)
  BY DEF SaveTotal
<1>2. job[q].phase \in Autocommit
  BY <1>1 DEF Autocommit
<1>3. t = job[q].term /\ lines' = lines /\ UNCHANGED history
  BY <1>1
<1> HIDE DEF t
<1>4. /\ invoice'[t] # NoInvoice /\ \A u \in Term \ {t} : invoice'[u] = invoice[u]
      /\ invoice' \in [Term -> Nat \cup {NoInvoice}]
      /\ t \notin tangled =>
           invoice'[t] = LineSum(lines[t]) /\ (PageCarts => Once(lines[t]))
  BY <1>3, SaveTotalSums DEF NoInvoice
<1>5. BillingTypeOK'
  BY <1>1, <1>4, NoJobOK, MoveType DEF BillingInv, BillingTypeOK, history
<1> QED BY <1>1, <1>2, <1>3, <1>4, <1>5, NoJobOK, WritesOK DEF Agree

-----------------------------------------------------------------------------
(* Every step keeps the invariant *)

LEMMA InitOK == Init => BillingInv
<1> SUFFICES ASSUME Init PROVE BillingInv
  OBVIOUS
<1>1. BillingTypeOK
  <2>1. [t \in Term |-> Price0] \in Prices
    BY BillingAssumption DEF Prices
  <2>2. NoLines \in [Category -> [count : Nat, sum : Nat]]
    BY DEF NoLines
  <2>3. [status |-> "ABSENT", term |-> "current", amount |-> 0] \in PaymentRow
    BY DEF PaymentRow, Term
  <2>4. 0 \in 0 .. MaxRequests /\ 0 \in 0 .. MaxCrashes
    BY BillingAssumption
  <2> QED BY <2>1, <2>2, <2>3, <2>4, NoJobOK DEF Init, BillingTypeOK
<1>2. \A q \in Request : job[q] = NoJob
  BY DEF Init
<1>3. \A t \in Term : invoice[t] = NoInvoice /\ lines[t] = NoLines
  BY DEF Init
<1>4. ASSUME NEW t \in Term PROVE TermOK(t)
  <2>1. Once(NoLines)
    BY DEF Once, NoLines
  <2>2. ~ Exists(t) /\ \A q \in Request : t \notin Touched(job[q])
    BY <1>2, <1>3, NoJobOK DEF Exists
  <2> QED BY <1>3, <2>1, <2>2 DEF TermOK, Agree
<1> QED BY <1>1, <1>2, <1>4, NoJobOK DEF BillingInv, Alone

LEMMA PaymentsOK ==
  ASSUME BillingInv,
         \/ \E p \in Pay, t \in Term, amount \in Entered :
              InitiatePayment(p, t, amount) \/ RecordCash(p, t, amount)
         \/ \E p \in Pay, status \in {"CONFIRMED", "FAILED"} : Settle(p, status)
         \/ \E p \in Pay : DeletePayment(p)
  PROVE  BillingInv'
<1>1. payment \in [Pay -> PaymentRow]
  BY DEF BillingInv, BillingTypeOK
<1>2. ASSUME NEW p \in Pay, NEW t \in Term, NEW amount \in Entered,
             InitiatePayment(p, t, amount) \/ RecordCash(p, t, amount)
      PROVE  BillingInv'
  <2>1. amount \in Int
    BY BillingAssumption
  <2>2. payment' \in [Pay -> PaymentRow]
    BY <1>1, <1>2, <2>1 DEF InitiatePayment, RecordCash, Pending, PaymentRow
  <2> QED BY <1>2, <2>2, PayFrame DEF InitiatePayment, RecordCash
<1>3. ASSUME NEW p \in Pay, NEW status \in {"CONFIRMED", "FAILED"}, Settle(p, status)
      PROVE  BillingInv'
  <2>1. payment' \in [Pay -> PaymentRow]
    BY <1>1, <1>3 DEF Settle, PaymentRow
  <2> QED BY <1>3, <2>1, PayFrame DEF Settle
<1>4. ASSUME NEW p \in Pay, DeletePayment(p) PROVE BillingInv'
  <2>1. payment' \in [Pay -> PaymentRow]
    BY <1>1, <1>4 DEF DeletePayment, PaymentRow
  <2> QED BY <1>4, <2>1, PayFrame DEF DeletePayment
<1> QED BY <1>2, <1>3, <1>4

LEMMA WorkOK ==
  ASSUME BillingInv, NEW q \in Request, Work(q)
  PROVE  BillingInv'
BY OpenInvoiceOK, CheckItemOK, ItemsCheckedOK, WriteTotalOK, SumBalanceOK, PayOneInvoiceOK,
   TakeShareOK, TrimShareOK, CutShareOK, CommitCheckoutOK, PayNothingOK, PaySharesOK,
   CheckExistsOK, CreateInvoiceOK, LinesCreatedOK, CreateLineOK, SelectUnpaidOK,
   ClearLinesOK, SaveTotalOK
   DEF Work

LEMMA BillingStep == BillingInv /\ [Next]_vars => BillingInv'
<1> SUFFICES ASSUME BillingInv, [Next]_vars PROVE BillingInv'
  OBVIOUS
<1>1. CASE UNCHANGED vars
  BY <1>1, PayFrame DEF vars, history, BillingInv, BillingTypeOK
<1>2. CASE Next
  BY <1>2, WorkOK, CrashOK, RequestsOK, PaymentsOK DEF Next
<1> QED BY <1>1, <1>2

LEMMA BillingInvariant == Spec => []BillingInv
BY InitOK, BillingStep, PTL DEF Spec

-----------------------------------------------------------------------------
(* What is guaranteed *)

\* Every variable keeps to the values the tables can hold.
THEOREM BillingTypeCorrect == Spec => []BillingTypeOK
<1>1. BillingInv => BillingTypeOK
  BY DEF BillingInv
<1> QED BY <1>1, BillingInvariant, PTL

\* An invoice's total is the sum of its line items wherever no request is between
\* its line items, as long as no two requests overlapped on it and none died
\* (InvoiceIntegrityValidator).
THEOREM TotalsAreSums == Spec => []TotalsMatchLines
<1>1. BillingInv => TotalsMatchLines
  BY DEF BillingInv, TotalsMatchLines, TermOK, Agree, Exists
<1> QED BY <1>1, BillingInvariant, PTL

\* With the carts that the payment page can put together, no category is billed
\* twice on an invoice, by whichever requests, as long as no two overlapped on it.
THEOREM NobodyBilledTwice ==
  ASSUME PageCarts
  PROVE  Spec => []BilledOnce
<1>1. BillingInv => BilledOnce
  BY DEF BillingInv, BilledOnce, TermOK, Once
<1> QED BY <1>1, BillingInvariant, PTL

\* What a checkout asks the payer for is what it was given.  Without a payment
\* settled or deleted between its queries each share lies between nothing and what
\* its invoice owes; with one, the next term's share is still within what it owed
\* last, and this term's exceeds that by no more than what moved.
THEOREM SharesAreWithinDues == Spec => []SharesSound
<1>1. BillingInv => SharesSound
  BY DEF BillingInv, SharesSound, ShapeOK, SharesOK, Given, Fair
<1> QED BY <1>1, BillingInvariant, PTL

\* A request's work moves that request.
LEMMA WorkMoves ==
  ASSUME NEW r \in Request, Work(r)
  PROVE  \E next : Move(r, next)
BY DEF Work, OpenInvoice, CheckItem, ItemsChecked, WriteTotal, SumBalance, RefuseAmount,
       PayOneInvoice, TakeShare, TrimShare, CutShare, CommitCheckout, PayNothing, PayShares,
       CheckExists, CreateInvoice, LinesCreated, CreateLine, SelectUnpaid,
       ClearLines, SaveTotal

\* Where a re-pricing ends, total and lines agree again, even if a generator died
\* before its last line item.
THEOREM RepricingEndsRight == Spec => RepricingRepairs
<1> DEFINE Repairs == \A q \in Request :
             LET t == job[q].term IN
             /\ job[q].phase = "relines" /\ job[q].todo = {}
             /\ job'[q].phase = "idle" /\ crashes' = crashes
             /\ t \notin tangled
             => invoice'[t] = LineSum(lines'[t])
<1>1. BillingInv /\ [Next]_vars => Repairs
  <2> SUFFICES ASSUME BillingInv, [Next]_vars, NEW q \in Request,
                      job[q].phase = "relines", job[q].todo = {},
                      job'[q].phase = "idle", crashes' = crashes,
                      job[q].term \notin tangled
               PROVE  invoice'[job[q].term] = LineSum(lines'[job[q].term])
    OBVIOUS
  <2>1. \A r \in Request : \A next : Move(r, next) /\ r # q => job'[q] = job[q]
    BY DEF Move, BillingInv, BillingTypeOK
  <2>2. crashes + 1 # crashes
    BY BillingAssumption DEF BillingInv, BillingTypeOK
  <2>3. ASSUME NEW r \in Request, Work(r) \/ Crash(r) PROVE SaveTotal(q)
    <3>1. r = q
      BY <2>1, <2>3, WorkMoves DEF Crash
    <3> QED BY <2>2, <2>3, <3>1
            DEF Work, Crash, OpenInvoice, CheckItem, ItemsChecked, WriteTotal, SumBalance,
                RefuseAmount, PayOneInvoice, TakeShare, TrimShare, CutShare, CommitCheckout, PayNothing, PayShares, CheckExists, CreateInvoice,
                LinesCreated, CreateLine, SelectUnpaid, ClearLines
  <2>4. ASSUME NEW r \in Request, NEW j, Begin(r, j) PROVE FALSE
    BY <2>1, <2>4 DEF Begin
  <2>5. ASSUME NEW r \in Request, NEW cart, NEW amount, SubmitCheckout(r, cart, amount)
        PROVE  FALSE
    BY <2>4, <2>5 DEF SubmitCheckout
  <2>6. ASSUME NEW r \in Request, NEW t, Generate(r, t) PROVE FALSE
    BY <2>4, <2>6 DEF Generate
  <2>7. ASSUME NEW r \in Request, NEW t, NEW c, NEW amount, SavePrice(r, t, c, amount)
        PROVE  FALSE
    BY <2>4, <2>7 DEF SavePrice
  <2>8. job' # job
    OBVIOUS
  <2>9. ASSUME NEW p, NEW t, NEW amount, NEW status,
               \/ InitiatePayment(p, t, amount) \/ RecordCash(p, t, amount)
               \/ Settle(p, status) \/ DeletePayment(p)
        PROVE  FALSE
    BY <2>8, <2>9 DEF InitiatePayment, RecordCash, Settle, DeletePayment
  <2>10. SaveTotal(q)
    <3>1. UNCHANGED vars => job' = job
      BY DEF vars
    <3> QED BY <3>1, <2>3, <2>5, <2>6, <2>7, <2>8, <2>9, Zenon DEF Next
  <2> QED BY <2>10, SaveTotalSums DEF SaveTotal
<1> QED BY <1>1, BillingInvariant, PTL DEF Spec, RepricingRepairs

-----------------------------------------------------------------------------
(* Locks *)

\* A checkout inserts and locks only what it has opened, and its current term when
\* all its items have been looked at; nobody else keeps a lock from one statement
\* to the next.
LocksOK(j) ==
  /\ j.made \subseteq Opened(j) /\ j.held \subseteq Opened(j)
  /\ j.phase \in {"check", "write"} /\ j.term = "current" => j.held = {}

\* No row is locked by two requests.
Exclusive ==
  \A q, other \in Request : q # other => job[q].held \cap job[other].held = {}

LocksInv ==
  /\ BillingInv
  /\ \A q \in Request : LocksOK(job[q])
  /\ Exclusive

\* How far a checkout has come: the current term before the next, whose row it
\* locks with the first of its items.
Way(j) ==
  IF j.phase \in Sharing THEN 5
  ELSE IF j.phase \notin Collecting THEN 0
  ELSE IF j.term = "current" THEN IF j.phase = "open" THEN 0 ELSE 1
  ELSE IF "next" \in j.held THEN 4
  ELSE IF j.phase = "open" THEN 2 ELSE 3

LEMMA NoJobLocks == LocksOK(NoJob) /\ NoJob.held = {}
BY DEF NoJob, LocksOK

\* A checkout goes on along its cart.
LEMMA CheckoutLocks ==
  ASSUME BillingInv, NEW q \in Request, LocksOK(job[q]), Work(q),
         job[q].phase \in Collecting
  PROVE  \E next : /\ Move(q, next) /\ LocksOK(next)
                   /\ \A t \in next.held \ job[q].held :
                        \A other \in Request \ {q} : t \notin job[other].held
<1> DEFINE j == job[q]
           t == j.term
<1>0. j \in Job /\ t \in Term /\ ShapeOK(j) /\ t \in CartTerms(j.cart)
      /\ Term = {"current", "next"}
  BY DEF BillingInv, BillingTypeOK, Job, ShapeOK, Term
<1>1. \/ OpenInvoice(q) \/ (\E c \in Category : CheckItem(q, c)) \/ ItemsChecked(q)
      \/ WriteTotal(q)
  BY DEF Work, Collecting, SumBalance, RefuseAmount, PayOneInvoice, TakeShare, TrimShare,
         CutShare, CommitCheckout, PayNothing, PayShares, CheckExists, CreateInvoice,
         LinesCreated, CreateLine, SelectUnpaid, ClearLines, SaveTotal
<1>2. CASE OpenInvoice(q)
  <2> DEFINE opened == [j EXCEPT !.phase = "check",
                          !.todo = {c \in Category : Wanted(j.cart, t, c) > 0}]
  <2>1. PICK next : /\ Move(q, next)
                    /\ \/ next = NoJob
                       \/ next = [opened EXCEPT !.seen[t] = invoice[t]]
                       \/ next = [opened EXCEPT !.made = @ \cup {t}]
    BY <1>2 DEF OpenInvoice
  <2>a. /\ opened.phase = "check" /\ opened.term = t /\ opened.cart = j.cart
        /\ opened.held = j.held /\ opened.made = j.made
        /\ DOMAIN opened = DOMAIN j
    BY <1>0 DEF Job
  <2>b. {"phase", "term", "cart", "held", "made", "seen"} \subseteq DOMAIN j
    BY <1>0 DEF Job
  <2> HIDE DEF opened
  <2>2. next # NoJob => /\ next.phase = "check" /\ next.term = t /\ next.cart = j.cart
                        /\ next.held = j.held /\ next.made \subseteq j.made \cup {t}
    BY <2>1, <2>a, <2>b
  <2>3. j.phase = "open"
    BY <1>2 DEF OpenInvoice
  <2>4. next # NoJob => LocksOK(next)
    BY <2>2, <2>3 DEF LocksOK, Opened, Collecting, Sharing
  <2> QED BY <2>1, <2>2, <2>4, NoJobLocks
<1>3. ASSUME NEW next, Move(q, next), next.held = j.held, next.made = j.made,
             next.cart = j.cart, next.term = t, next.phase \in {"check", "write"},
             j.phase \in {"check", "write"}
      PROVE  Move(q, next) /\ LocksOK(next) /\ next.held \ j.held = {}
  BY <1>3 DEF LocksOK, Opened, Collecting, Sharing
<1>4. CASE \E c \in Category : CheckItem(q, c)
  <2>1. PICK c, count : Move(q, Billed(j, c, count)) /\ j.phase = "check"
    BY <1>4 DEF CheckItem
  <2>2. /\ Billed(j, c, count).held = j.held /\ Billed(j, c, count).made = j.made
        /\ Billed(j, c, count).cart = j.cart /\ Billed(j, c, count).term = t
        /\ Billed(j, c, count).phase \in {"check", "write"}
    BY <1>0 DEF Job, Billed
  <2> QED BY <1>3, <2>1, <2>2
<1>5. ASSUME NEW k \in Job, ShapeOK(k), k.phase \in {"check", "write"},
             \A u \in Opened(k) \ k.held : k.fresh[u] = NothingFresh,
             k.made \subseteq Opened(k), k.held \subseteq Opened(k)
      PROVE  LocksOK(Onwards(k)) /\ Onwards(k).held = k.held
  BY <1>5, OnwardsOK DEF LocksOK
<1>6. CASE ItemsChecked(q)
  <2>1. j.phase = "check"
    BY <1>6 DEF ItemsChecked
  <2>2. CASE t = "current" /\ j.fresh["current"] # NothingFresh
    <3> DEFINE next == [j EXCEPT !.phase = "write"]
    <3>1. Move(q, next)
      BY <1>6, <2>2 DEF ItemsChecked
    <3>2. /\ next.held = j.held /\ next.made = j.made /\ next.cart = j.cart
          /\ next.term = t /\ next.phase = "write"
      BY <1>0 DEF Job
    <3> HIDE DEF next
    <3> QED BY <1>3, <2>1, <3>1, <3>2
  <2>3. CASE ~ (t = "current" /\ j.fresh["current"] # NothingFresh)
    <3>1. Move(q, Onwards(j))
      BY <1>6, <2>3 DEF ItemsChecked
    <3>2. \A u \in Opened(j) \ j.held : j.fresh[u] = NothingFresh
      BY <1>0, <2>1, <2>3 DEF ShapeOK, Checkout, Collecting
    <3>3. j.made \subseteq Opened(j) /\ j.held \subseteq Opened(j)
      BY DEF LocksOK
    <3> HIDE DEF j
    <3> QED BY <1>0, <1>5, <2>1, <3>1, <3>2, <3>3 DEF j
  <2> QED BY <2>2, <2>3
<1>7. CASE WriteTotal(q)
  <2> DEFINE written == [j EXCEPT !.held = @ \cup {t}]
  <2>1. j.phase = "write" /\ Unhindered(q)
        /\ Move(q, IF t = "next" THEN [written EXCEPT !.phase = "check"]
                                 ELSE Onwards(written))
    BY <1>7 DEF WriteTotal
  <2>2. \A other \in Request \ {q} : t \notin job[other].held
    BY <2>1 DEF Unhindered, WaitsFor
  <2>3. /\ written \in Job /\ written.held = j.held \cup {t} /\ written.made = j.made
        /\ written.cart = j.cart /\ written.term = t /\ written.phase = "write"
        /\ written.fresh = j.fresh /\ written.todo = j.todo /\ written.seen = j.seen
        /\ written.amount = j.amount /\ written.total = j.total
        /\ written.steady = j.steady
    BY <1>0, <2>1 DEF Job
  <2> HIDE DEF written
  <2>4. t \in Opened(j) /\ Opened(written) = Opened(j)
    BY <2>1, <2>3 DEF Opened, Collecting, Sharing
  <2>5. j.made \subseteq Opened(j) /\ written.held \subseteq Opened(j)
    BY <2>3, <2>4 DEF LocksOK
  <2>6. CASE t = "next"
    <3> DEFINE next == [written EXCEPT !.phase = "check"]
    <3>1. Move(q, next)
      BY <2>1, <2>6
    <3>2. /\ next.held = written.held /\ next.made = j.made /\ next.cart = j.cart
          /\ next.term = t /\ next.phase = "check"
      BY <2>3 DEF Job
    <3> HIDE DEF next
    <3>3. Opened(next) = Opened(j)
      BY <2>1, <3>2 DEF Opened, Collecting, Sharing
    <3>4. LocksOK(next)
      BY <2>5, <2>6, <3>2, <3>3 DEF LocksOK
    <3>5. next.held \ j.held \subseteq {t}
      BY <2>3, <3>2
    <3> QED BY <2>2, <3>1, <3>4, <3>5
  <2>7. CASE t # "next"
    <3>1. \A u \in Opened(j) \ written.held : j.fresh[u] = NothingFresh
      BY <1>0, <2>1, <2>3 DEF ShapeOK, Checkout, Collecting
    <3>2. SharesOK(written)
      BY <1>0, <2>1, <2>3 DEF ShapeOK, SharesOK, Collecting
    <3>3. ShapeOK(written)
      BY <1>0, <2>1, <2>3, <2>4, <3>1, <3>2 DEF ShapeOK, Checkout, Collecting, Sharing
    <3>4. LocksOK(Onwards(written)) /\ Onwards(written).held = written.held
      BY <1>5, <2>3, <2>4, <2>5, <3>1, <3>3
    <3>5. Move(q, Onwards(written)) /\ Onwards(written).held \ j.held \subseteq {t}
      BY <2>1, <2>3, <2>7, <3>4
    <3> QED BY <2>2, <3>4, <3>5
  <2> QED BY <2>6, <2>7
<1> QED BY <1>1, <1>2, <1>4, <1>6, <1>7

\* While the shares are worked out nothing is inserted and no lock taken.
LEMMA SharingLocks ==
  ASSUME BillingInv, NEW q \in Request, LocksOK(job[q]), Work(q),
         job[q].phase \in Sharing
  PROVE  \E next : Move(q, next) /\ LocksOK(next) /\ next.held \subseteq job[q].held
<1> DEFINE j == job[q]
<1>0. j \in Job /\ j.amount \in Int /\ j.term \in Term /\ j.total \in Int
      /\ Term = {"current", "next"}
  BY SharingJob
<1>1. \/ SumBalance(q) \/ RefuseAmount(q) \/ PayOneInvoice(q) \/ TakeShare(q)
      \/ TrimShare(q) \/ CutShare(q) \/ CommitCheckout(q)
  BY DEF Work, Sharing, OpenInvoice, CheckItem, ItemsChecked, WriteTotal, PayNothing,
         PayShares, CheckExists, CreateInvoice, LinesCreated, CreateLine, SelectUnpaid,
         ClearLines, SaveTotal
<1>2. ASSUME NEW next, next.phase \in Sharing, SameCart(next, j)
      PROVE  LocksOK(next) /\ next.held \subseteq j.held
  BY <1>2 DEF LocksOK, Opened, SameCart, Sharing
<1>3. CASE SumBalance(q)
  <2> DEFINE summed == [j EXCEPT !.due[j.term] = Due(j, j.term), !.total = @ + Due(j, j.term)]
  <2>1. PICK next : /\ Move(q, next)
                    /\ \/ next = [summed EXCEPT !.term = "next"]
                       \/ next = [summed EXCEPT !.phase = "cap"]
    BY <1>3 DEF SumBalance
  <2>2. next.phase \in Sharing /\ SameCart(next, j)
    BY <1>0, <2>1 DEF Job, SameCart, Sharing
  <2> QED BY <1>2, <2>1, <2>2
<1>4. CASE RefuseAmount(q)
  BY <1>4, NoJobLocks DEF RefuseAmount
<1>5. CASE PayOneInvoice(q)
  <2>1. PICK share : Move(q, [j EXCEPT !.phase = "commit", !.share = share])
    BY <1>5 DEF PayOneInvoice
  <2> DEFINE next == [j EXCEPT !.phase = "commit", !.share = share]
  <2>2. next.phase \in Sharing /\ SameCart(next, j)
    BY <1>0 DEF Job, SameCart, Sharing
  <2>3. Move(q, next)
    BY <2>1
  <2> HIDE DEF next
  <2> QED BY <1>2, <2>2, <2>3
<1>6. CASE TakeShare(q)
  <2> DEFINE again == Again(j, "current")
             share == HalfUp(j.amount * Due(j, "current"), j.total)
             next == [Shared(again, "current", share)
                       EXCEPT !.phase = "trim", !.term = "current"]
  <2>1. Move(q, next)
    BY <1>6 DEF TakeShare
  <2>2. again \in Job /\ SameCart(again, j)
    BY <1>0, AgainIs
  <2>3. next.phase \in Sharing /\ SameCart(next, again)
    <3> HIDE DEF again, share
    <3> QED BY <2>2 DEF Job, Shared, SameCart, Sharing
  <2>4. SameCart(next, j)
    BY <2>2, <2>3 DEF SameCart
  <2> HIDE DEF next
  <2> QED BY <1>2, <2>1, <2>3, <2>4
<1>7. ASSUME NEW k \in Job, SameCart(k, j)
      PROVE  Trimmed(k).phase \in Sharing /\ SameCart(Trimmed(k), j)
  BY <1>7 DEF Trimmed, Job, SameCart, Sharing
<1>8. CASE TrimShare(q)
  <2> DEFINE again == Again(j, j.term)
             next == [again EXCEPT !.phase = "cut"]
  <2>1. Move(q, next) \/ Move(q, Trimmed(again))
    BY <1>8 DEF TrimShare
  <2>2. again \in Job /\ SameCart(again, j)
    BY <1>0, AgainIs
  <2> HIDE DEF again
  <2>3. next.phase \in Sharing /\ SameCart(next, j)
    BY <2>2 DEF Job, SameCart, Sharing
  <2> HIDE DEF next
  <2> QED BY <1>2, <1>7, <2>1, <2>2, <2>3
<1>9. CASE CutShare(q)
  <2> DEFINE again == Again(j, j.term)
             shared == Shared(again, again.term, Due(again, again.term))
  <2>1. Move(q, Trimmed(shared))
    BY <1>9 DEF CutShare
  <2>2. again \in Job /\ SameCart(again, j) /\ again.term = j.term
    BY <1>0, AgainIs
  <2>3. Due(again, again.term) \in Int
    BY <1>0, <2>2, DueType
  <2>4. again.amount \in Int /\ again.term \in Term
    BY <1>0, <2>2 DEF SameCart
  <2> HIDE DEF again
  <2>5. shared \in Job /\ SameCart(shared, again)
    BY <2>2, <2>3, <2>4, SharedIs
  <2>6. SameCart(shared, j)
    BY <2>2, <2>5 DEF SameCart
  <2> HIDE DEF shared
  <2> QED BY <1>2, <1>7, <2>1, <2>5, <2>6
<1>10. CASE CommitCheckout(q)
  <2>1. Move(q, [j EXCEPT !.phase = "pay", !.made = {}, !.held = {}])
    BY <1>10 DEF CommitCheckout
  <2>2. LocksOK([j EXCEPT !.phase = "pay", !.made = {}, !.held = {}])
        /\ [j EXCEPT !.phase = "pay", !.made = {}, !.held = {}].held = {}
    BY <1>0 DEF LocksOK, Job
  <2> QED BY <2>1, <2>2
<1> QED BY <1>1, <1>3, <1>4, <1>5, <1>6, <1>8, <1>9, <1>10

\* The generator, the re-pricing and what follows a commit take no lock.
LEMMA AutocommitLocks ==
  ASSUME BillingInv, NEW q \in Request, LocksOK(job[q]), Work(q),
         job[q].phase \notin Collecting \cup Sharing
  PROVE  \E next : Move(q, next) /\ LocksOK(next) /\ next.held = {}
<1> DEFINE j == job[q]
<1>1. j \in Job
  BY DEF BillingInv, BillingTypeOK
<1>2. j.made = {} /\ j.held = {}
  BY DEF LocksOK, Opened
<1>3. ASSUME NEW next, next.made = {}, next.held = {}
      PROVE  LocksOK(next)
  BY <1>3 DEF LocksOK
<1>4. ASSUME NEW phase, NEW prices, NEW todo
      PROVE  /\ LocksOK([j EXCEPT !.phase = phase])
             /\ [j EXCEPT !.phase = phase].held = {}
             /\ LocksOK([j EXCEPT !.phase = phase, !.price = prices])
             /\ [j EXCEPT !.phase = phase, !.price = prices].held = {}
             /\ LocksOK([j EXCEPT !.phase = phase, !.todo = todo])
             /\ [j EXCEPT !.phase = phase, !.todo = todo].held = {}
             /\ LocksOK([j EXCEPT !.todo = todo])
             /\ [j EXCEPT !.todo = todo].held = {}
  <2>1. /\ [j EXCEPT !.phase = phase].made = {}
        /\ [j EXCEPT !.phase = phase].held = {}
        /\ [j EXCEPT !.phase = phase, !.price = prices].made = {}
        /\ [j EXCEPT !.phase = phase, !.price = prices].held = {}
        /\ [j EXCEPT !.phase = phase, !.todo = todo].made = {}
        /\ [j EXCEPT !.phase = phase, !.todo = todo].held = {}
        /\ [j EXCEPT !.todo = todo].made = {}
        /\ [j EXCEPT !.todo = todo].held = {}
    BY <1>1, <1>2 DEF Job
  <2> QED BY <1>3, <2>1
<1>5. LocksOK(Generated(q)) /\ Generated(q).held = {}
  BY <1>4, NoJobLocks DEF Generated
<1>6. \/ PayNothing(q) \/ (\E rowOf \in [Term -> Pay] : PayShares(q, rowOf))
      \/ CheckExists(q) \/ CreateInvoice(q) \/ LinesCreated(q)
      \/ (\E c \in Category : CreateLine(q, c))
      \/ SelectUnpaid(q) \/ ClearLines(q) \/ SaveTotal(q)
  BY DEF Work, Collecting, Sharing, OpenInvoice, CheckItem, ItemsChecked, WriteTotal,
         SumBalance, RefuseAmount, PayOneInvoice, TakeShare, TrimShare, CutShare,
         CommitCheckout
<1>7. CASE PayNothing(q) \/ \E rowOf \in [Term -> Pay] : PayShares(q, rowOf)
  BY <1>7, NoJobLocks DEF PayNothing, PayShares
<1>8. CASE CheckExists(q)
  BY <1>4, <1>5, <1>8 DEF CheckExists
<1>9. CASE CreateInvoice(q)
  BY <1>4, <1>9, NoJobLocks DEF CreateInvoice
<1>10. CASE LinesCreated(q)
  BY <1>5, <1>10 DEF LinesCreated
<1>11. CASE \E c \in Category : CreateLine(q, c)
  BY <1>4, <1>11 DEF CreateLine
<1>12. CASE SelectUnpaid(q) \/ SaveTotal(q)
  BY <1>4, <1>12, NoJobLocks DEF SelectUnpaid, SaveTotal
<1>13. CASE ClearLines(q)
  BY <1>4, <1>13 DEF ClearLines
<1> QED BY <1>6, <1>7, <1>8, <1>9, <1>10, <1>11, <1>12, <1>13

\* A request that comes in holds nothing, and one that dies lets go of everything.
LEMMA RequestLocks ==
  ASSUME NEW q \in Request,
         \/ Crash(q)
         \/ \E cart \in Cart, amount \in Entered : SubmitCheckout(q, cart, amount)
         \/ \E t \in Term : Generate(q, t)
         \/ \E t \in Term, c \in Category, amount \in Amount : SavePrice(q, t, c, amount)
  PROVE  \E next : Move(q, next) /\ LocksOK(next) /\ next.held = {}
<1>1. CASE Crash(q)
  BY <1>1, NoJobLocks DEF Crash
<1>2. ASSUME NEW phase, NEW cart, NEW amount, NEW prices, NEW term, NEW reprice
      PROVE  /\ LocksOK([NoJob EXCEPT !.phase = phase, !.cart = cart, !.amount = amount,
                                      !.price = prices, !.term = term])
             /\ [NoJob EXCEPT !.phase = phase, !.cart = cart, !.amount = amount,
                              !.price = prices, !.term = term].held = {}
             /\ LocksOK([NoJob EXCEPT !.phase = phase, !.term = term])
             /\ [NoJob EXCEPT !.phase = phase, !.term = term].held = {}
             /\ LocksOK([NoJob EXCEPT !.phase = phase, !.term = term, !.reprice = reprice])
             /\ [NoJob EXCEPT !.phase = phase, !.term = term, !.reprice = reprice].held = {}
  BY DEF LocksOK, NoJob
<1>3. CASE \E cart \in Cart, amount \in Entered : SubmitCheckout(q, cart, amount)
  <2>1. PICK cart \in Cart, amount \in Entered : SubmitCheckout(q, cart, amount)
    BY <1>3
  <2> DEFINE next == [NoJob EXCEPT !.phase = "open", !.cart = cart, !.amount = amount,
                                   !.price = price, !.term = First(cart)]
  <2>2. Move(q, next)
    BY <2>1 DEF SubmitCheckout, Begin
  <2>3. LocksOK(next) /\ next.held = {}
    BY <1>2
  <2> QED BY <2>2, <2>3
<1>4. CASE \E t \in Term : Generate(q, t)
  BY <1>2, <1>4 DEF Generate, Begin
<1>5. CASE \E t \in Term, c \in Category, amount \in Amount : SavePrice(q, t, c, amount)
  BY <1>2, <1>5 DEF SavePrice, Begin
<1> QED BY <1>1, <1>3, <1>4, <1>5

LEMMA LocksStep == LocksInv /\ [Next]_vars => LocksInv'
<1> SUFFICES ASSUME LocksInv, [Next]_vars PROVE LocksInv'
  OBVIOUS
<1>0. BillingInv /\ BillingInv'
  BY BillingStep DEF LocksInv
<1>1. ASSUME NEW q \in Request, NEW next, Move(q, next), LocksOK(next),
             \A t \in next.held \ job[q].held :
               \A other \in Request \ {q} : t \notin job[other].held
      PROVE  LocksInv'
  <2>1. \A r \in Request : job'[r] = IF r = q THEN next ELSE job[r]
    BY <1>0, <1>1 DEF Move, BillingInv, BillingTypeOK
  <2>2. Exclusive'
    BY <1>1, <2>1 DEF LocksInv, Exclusive
  <2> QED BY <1>0, <1>1, <2>1, <2>2 DEF LocksInv
<1>2. CASE job' = job
  BY <1>0, <1>2 DEF LocksInv, Exclusive
<1>3. ASSUME NEW q \in Request, Work(q) PROVE LocksInv'
  <2>1. LocksOK(job[q])
    BY DEF LocksInv
  <2>2. CASE job[q].phase \in Collecting
    BY <1>0, <1>1, <1>3, <2>1, <2>2, CheckoutLocks
  <2>3. CASE job[q].phase \in Sharing
    BY <1>0, <1>1, <1>3, <2>1, <2>3, SharingLocks
  <2>4. CASE job[q].phase \notin Collecting \cup Sharing
    BY <1>0, <1>1, <1>3, <2>1, <2>4, AutocommitLocks
  <2> QED BY <2>2, <2>3, <2>4
<1>4. CASE \E q \in Request :
             \/ Crash(q)
             \/ \E cart \in Cart, amount \in Entered : SubmitCheckout(q, cart, amount)
             \/ \E t \in Term : Generate(q, t)
             \/ \E t \in Term, c \in Category, amount \in Amount :
                  SavePrice(q, t, c, amount)
  <2>1. PICK q, next : q \in Request /\ Move(q, next) /\ LocksOK(next) /\ next.held = {}
    BY <1>4, RequestLocks
  <2> QED BY <1>1, <2>1
<1>5. CASE \/ \E p \in Pay, t \in Term, amount \in Entered :
                InitiatePayment(p, t, amount) \/ RecordCash(p, t, amount)
           \/ \E p \in Pay, status \in {"CONFIRMED", "FAILED"} : Settle(p, status)
           \/ \E p \in Pay : DeletePayment(p)
  BY <1>2, <1>5 DEF InitiatePayment, RecordCash, Settle, DeletePayment
<1>6. UNCHANGED vars => job' = job
  BY DEF vars
<1> QED BY <1>2, <1>3, <1>4, <1>5, <1>6 DEF Next

\* A request waits only for a checkout that has come further than itself.
LEMMA WaitsForwards ==
  ASSUME LocksInv, NEW q \in Request, NEW other \in Request, WaitsFor(q, other)
  PROVE  Way(job[q]) < Way(job[other])
<1> DEFINE j == job[q]
           o == job[other]
           t == j.term
<1>1. t \in {"current", "next"} /\ o.term \in {"current", "next"}
  BY DEF LocksInv, BillingInv, BillingTypeOK, Job, Term
<1>2. LocksOK(o) /\ LocksOK(j) /\ q # other
  BY DEF LocksInv, WaitsFor
<1>3. CASE j.phase \in {"open", "create"} /\ t \in o.made
  <2>1. t \in Opened(o) /\ "next" \notin j.held
    BY <1>1, <1>2, <1>3 DEF LocksOK, Opened, Collecting, Sharing
  <2> QED BY <1>1, <1>3, <2>1 DEF Way, Opened, Collecting, Sharing
<1>4. CASE j.phase \in {"write", "relines"} /\ t \in o.held
  <2>1. t \in Opened(o) /\ t \notin j.held
    BY <1>2, <1>4 DEF LocksOK, LocksInv, Exclusive
  <2>2. o.phase \in {"check", "write"} => o.term = "next"
    BY <1>1, <1>2, <1>4 DEF LocksOK
  <2> QED BY <1>1, <1>4, <2>1, <2>2 DEF Way, Opened, Collecting, Sharing
<1> QED BY <1>3, <1>4 DEF WaitsFor

\* One of any requests has come as far as any of them.
LEMMA SomeoneFurthest ==
  ASSUME NEW Q, Q # {}, NEW way, \A q \in Q : way[q] \in 0 .. 5
  PROVE  \E q \in Q : \A other \in Q : way[other] <= way[q]
<1>1. \A q \in Q : way[q] \in {0, 1, 2, 3, 4, 5}
  OBVIOUS
<1>2. CASE \E q \in Q : way[q] \in {3, 4, 5}
  BY <1>1, <1>2
<1>3. CASE \A q \in Q : way[q] \in {0, 1, 2}
  BY <1>3
<1> QED BY <1>1, <1>2, <1>3

\* The locks never close a circle: of any requests, however many there are, one
\* waits for none of the others, so that what PostgreSQL would break up as a
\* deadlock does not arise between checkouts, generation and re-pricing.
THEOREM LocksCloseNoCircle == Spec => []NoCircle
<1>1. Init => LocksInv
  BY InitOK, NoJobLocks DEF LocksInv, Exclusive, Init
<1>2. LocksInv => NoCircle
  <2> SUFFICES ASSUME LocksInv, NEW Q \in SUBSET Request, Q # {}
               PROVE  \E q \in Q : \A other \in Q : ~ WaitsFor(q, other)
    BY DEF NoCircle
  <2>1. \A q \in Q : Way(job[q]) \in 0 .. 5
    BY DEF Way
  <2>2. PICK q \in Q : \A other \in Q : Way(job[other]) <= Way(job[q])
    <3>1. \A q \in Q : [r \in Q |-> Way(job[r])][q] \in 0 .. 5
      BY <2>1
    <3>2. PICK q \in Q : \A other \in Q : [r \in Q |-> Way(job[r])][other]
                                          <= [r \in Q |-> Way(job[r])][q]
      BY <3>1, SomeoneFurthest
    <3> QED BY <3>2
  <2>3. \A other \in Q : ~ WaitsFor(q, other)
    BY <2>1, <2>2, WaitsForwards
  <2> QED BY <2>3
<1> QED BY <1>1, <1>2, LocksStep, PTL DEF Spec

=============================================================================
