------------------------ MODULE InvoiceLedger_proofs -------------------------
(***************************************************************************)
(* InvoiceLedger keeps IInv, for any number of lines, gift cards, dialogs  *)
(* and requests and for amounts of any size.                               *)
(*                                                                         *)
(* The argument.  Rounding is of running totals, so the shares of a sale   *)
(* add up to it (LimitsAddUp) and so do the parts of a line (ShareEnds).   *)
(* Money: payments overpay the sale by rounded cents at most (NotOverpaid) *)
(* and are taken only while it is not overpaid at all (DueFits), so what   *)
(* is over has been credited or was overpaid, and what pays back what is   *)
(* over stays within the two.                                              *)
(***************************************************************************)
EXTENDS InvoiceLedger, SumTheorems

-----------------------------------------------------------------------------
(* Sums of sequences. *)

\* UpTo is what it says of sequences of any length.
LEMMA UpToUnfolds ==
  ASSUME NEW N \in Nat, NEW a \in [1..N -> Int]
  PROVE  /\ Len(a) = N
         /\ UpTo(a) = [n \in 0..N |-> IF n = 0 THEN 0 ELSE UpTo(a)[n - 1] + a[n]]
<1>0. a \in Seq(Int) /\ Len(a) = N
  OBVIOUS
<1> DEFINE Is(g, k) == g = [n \in 0..k |-> IF n = 0 THEN 0 ELSE g[n - 1] + a[n]]
           K == {k \in Nat : \E g : Is(g, k)}
<1>1. 0 \in K
  <2>1. Is([n \in 0..0 |-> 0], 0)
    OBVIOUS
  <2> QED
    BY <2>1
<1>2. \A k \in Nat : k \in K => k + 1 \in K
  <2> SUFFICES ASSUME NEW k \in Nat, k \in K PROVE k + 1 \in K
    OBVIOUS
  <2>1. PICK g : Is(g, k)
    OBVIOUS
  <2> DEFINE h == [n \in 0..(k + 1) |-> IF n = 0 THEN 0 ELSE g[n - 1] + a[n]]
  <2>2. \A n \in 0..k : g[n] = h[n]
    BY <2>1
  <2> HIDE DEF h
  <2>3. ASSUME NEW n \in 1..(k + 1) PROVE g[n - 1] = h[n - 1]
    <3>1. n - 1 \in 0..k
      OBVIOUS
    <3> QED
      BY <2>2, <3>1
  <2>4. Is(h, k + 1)
    <3>1. h = [n \in 0..(k + 1) |-> IF n = 0 THEN 0 ELSE g[n - 1] + a[n]]
      BY DEF h
    <3>2. \A n \in 0..(k + 1) : (IF n = 0 THEN 0 ELSE g[n - 1] + a[n])
                                = (IF n = 0 THEN 0 ELSE h[n - 1] + a[n])
      BY <2>3
    <3> QED
      BY <3>1, <3>2
  <2>5. \E f : Is(f, k + 1)
    BY <2>4
  <2> HIDE DEF Is
  <2> QED
    BY <2>5
<1> HIDE DEF K
<1>3. \E g : Is(g, N)
  BY <1>1, <1>2, Induct DEF K
<1>4. UpTo(a) = CHOOSE g : Is(g, N)
  BY <1>0 DEF UpTo
<1>5. Is(UpTo(a), N)
  BY <1>3, <1>4
<1> QED
  BY <1>0, <1>5

LEMMA UpToSteps ==
  ASSUME NEW N \in Nat, NEW a \in [1..N -> Int]
  PROVE  /\ UpTo(a)[0] = 0
         /\ \A n \in 1..N : UpTo(a)[n] = UpTo(a)[n - 1] + a[n]
         /\ Sum(a) = UpTo(a)[N]
<1>1. UpTo(a) = [n \in 0..N |-> IF n = 0 THEN 0 ELSE UpTo(a)[n - 1] + a[n]] /\ Len(a) = N
  BY UpToUnfolds
<1>2. \A n \in 0..N : UpTo(a)[n] = IF n = 0 THEN 0 ELSE UpTo(a)[n - 1] + a[n]
  BY <1>1
<1>3. Sum(a) = UpTo(a)[N]
  BY <1>1 DEF Sum
<1>4. ASSUME NEW n \in 1..N PROVE UpTo(a)[n] = UpTo(a)[n - 1] + a[n]
  BY <1>2
<1>5. UpTo(a)[0] = 0
  BY <1>2
<1> QED
  BY <1>3, <1>4, <1>5

\* Induction up to a bound.
LEMMA InductTo ==
  ASSUME NEW N \in Nat, NEW S, 0 \in S, \A n \in 1..N : n - 1 \in S => n \in S
  PROVE  0..N \subseteq S
<1> DEFINE T == {n \in Nat : n <= N => n \in S}
<1>1. ASSUME NEW n \in Nat, n \in T PROVE n + 1 \in T
  <2> SUFFICES ASSUME n + 1 <= N PROVE n + 1 \in S
    OBVIOUS
  <2>1. n + 1 \in 1..N /\ (n + 1) - 1 \in S
    BY <1>1
  <2> QED
    BY <2>1
<1>3. 0 \in T
  OBVIOUS
<1> HIDE DEF T
<1>2. Nat \subseteq T
  BY <1>1, <1>3, Induct
<1> QED
  BY <1>2 DEF T

LEMMA UpToIsInt ==
  ASSUME NEW N \in Nat, NEW a \in [1..N -> Int]
  PROVE  \A n \in 0..N : UpTo(a)[n] \in Int
<1> DEFINE S == {n \in 0..N : UpTo(a)[n] \in Int}
<1>1. 0 \in S
  BY UpToSteps
<1>2. ASSUME NEW n \in 1..N, n - 1 \in S PROVE n \in S
  <2>1. UpTo(a)[n] = UpTo(a)[n - 1] + a[n] /\ a[n] \in Int
    BY UpToSteps
  <2> QED
    BY <1>2, <2>1
<1> HIDE DEF S
<1>3. 0..N \subseteq S
  BY <1>1, <1>2, InductTo
<1> QED
  BY <1>3 DEF S

\* The sum of a sequence of amounts is an amount; the running total never falls and
\* never passes the end.
LEMMA UpToRises ==
  ASSUME NEW N \in Nat, NEW a \in [1..N -> Nat]
  PROVE  /\ \A n \in 0..N : UpTo(a)[n] \in Nat /\ UpTo(a)[n] <= Sum(a)
         /\ Sum(a) \in Nat
<1>0. a \in [1..N -> Int]
  OBVIOUS
<1> DEFINE S == {n \in 0..N : UpTo(a)[n] \in Nat}
<1>1. 0 \in S
  BY <1>0, UpToSteps
<1>2. ASSUME NEW n \in 1..N, n - 1 \in S PROVE n \in S
  <2>1. UpTo(a)[n] = UpTo(a)[n - 1] + a[n] /\ a[n] \in Nat
    BY <1>0, UpToSteps
  <2> QED
    BY <1>2, <2>1
<1> HIDE DEF S
<1>3. 0..N \subseteq S
  BY <1>1, <1>2, InductTo
<1>4. \A n \in 0..N : UpTo(a)[n] \in Nat
  BY <1>3 DEF S
<1> DEFINE T == {n \in 0..N : UpTo(a)[N - n] <= Sum(a)}
<1>5. 0 \in T
  <2>1. UpTo(a)[N - 0] = Sum(a) /\ Sum(a) \in Nat
    BY <1>0, <1>4, UpToSteps
  <2> QED
    BY <2>1
<1>6. ASSUME NEW n \in 1..N, n - 1 \in T PROVE n \in T
  <2> DEFINE m == N - (n - 1)
  <2>1. m \in 1..N /\ m - 1 = N - n /\ m - 1 \in 0..N
    OBVIOUS
  <2>2. UpTo(a)[m] <= Sum(a)
    BY <1>6
  <2> HIDE DEF m
  <2>3. UpTo(a)[m] = UpTo(a)[m - 1] + a[m] /\ a[m] \in Nat
    BY <1>0, <2>1, UpToSteps
  <2>4. UpTo(a)[m - 1] \in Nat /\ UpTo(a)[m] \in Nat /\ Sum(a) \in Nat
    BY <1>0, <1>4, <2>1, UpToSteps
  <2>5. UpTo(a)[m - 1] <= Sum(a)
    BY <2>2, <2>3, <2>4
  <2> QED
    BY <2>1, <2>5
<1> HIDE DEF T
<1>7. 0..N \subseteq T
  BY <1>5, <1>6, InductTo
<1>8. ASSUME NEW n \in 0..N PROVE UpTo(a)[n] <= Sum(a)
  <2>1. N - n \in 0..N /\ N - (N - n) = n
    OBVIOUS
  <2>2. N - n \in T
    BY <1>7, <2>1
  <2>3. UpTo(a)[N - (N - n)] <= Sum(a)
    BY <2>2 DEF T
  <2> QED
    BY <2>1, <2>3
<1> QED
  BY <1>0, <1>4, <1>8, UpToSteps

LEMMA SumOfParts ==
  ASSUME NEW N \in Nat, NEW a \in [1..N -> Int], NEW b \in [1..N -> Int]
  PROVE  Sum([n \in 1..N |-> a[n] + b[n]]) = Sum(a) + Sum(b)
<1> DEFINE c == [n \in 1..N |-> a[n] + b[n]]
           S == {n \in 0..N : UpTo(c)[n] = UpTo(a)[n] + UpTo(b)[n]}
<1>0. c \in [1..N -> Int] /\ \A n \in 1..N : c[n] = a[n] + b[n]
  OBVIOUS
<1> HIDE DEF c
<1>1. 0 \in S
  <2>1. UpTo(a)[0] = 0 /\ UpTo(b)[0] = 0 /\ UpTo(c)[0] = 0
    BY <1>0, UpToSteps
  <2> QED
    BY <2>1
<1>2. ASSUME NEW n \in 1..N, n - 1 \in S PROVE n \in S
  <2>1. /\ UpTo(a)[n] = UpTo(a)[n - 1] + a[n] /\ UpTo(b)[n] = UpTo(b)[n - 1] + b[n]
        /\ UpTo(c)[n] = UpTo(c)[n - 1] + c[n]
    BY <1>0, UpToSteps
  <2>0. n - 1 \in 0..N
    OBVIOUS
  <2>2. /\ UpTo(a)[n - 1] \in Int /\ UpTo(b)[n - 1] \in Int
        /\ a[n] \in Int /\ b[n] \in Int /\ c[n] = a[n] + b[n]
    BY <1>0, <2>0, UpToIsInt
  <2>3. UpTo(c)[n - 1] = UpTo(a)[n - 1] + UpTo(b)[n - 1]
    BY <1>2
  <2> QED
    BY <2>1, <2>2, <2>3
<1> HIDE DEF S
<1>3. N \in S
  <2>1. 0..N \subseteq S
    BY <1>1, <1>2, InductTo
  <2> QED
    BY <2>1
<1>4. UpTo(c)[N] = UpTo(a)[N] + UpTo(b)[N]
  BY <1>3 DEF S
<1> QED
  BY <1>0, <1>4, UpToSteps DEF c

-----------------------------------------------------------------------------
(* Rounded shares. *)

LEMMA Quotient ==
  ASSUME NEW a \in Int, NEW b \in Nat \ {0}
  PROVE  a \div b \in Int /\ b * (a \div b) <= a /\ a < b * (a \div b) + b
OBVIOUS

LEMMA QuotientIs ==
  ASSUME NEW a \in Int, NEW b \in Nat \ {0}, NEW q \in Int, b * q <= a, a < b * q + b
  PROVE  a \div b = q
OBVIOUS

LEMMA QuotientRises ==
  ASSUME NEW a \in Int, NEW c \in Int, NEW b \in Nat \ {0}, a <= c
  PROVE  a \div b <= c \div b
OBVIOUS

LEMMA Half ==
  ASSUME NEW b \in Nat \ {0}
  PROVE  b \div 2 \in Nat /\ b \div 2 < b
OBVIOUS

\* Nothing has no share, and the whole has all.
LEMMA ShareEnds ==
  ASSUME NEW whole \in Nat \ {0}, NEW amount \in Nat
  PROVE  Share(0, whole, amount) = 0 /\ Share(whole, whole, amount) = amount
<1> DEFINE h == whole \div 2
<1>1. h \in Nat /\ h < whole
  BY Half
<1> HIDE DEF h
<1>2. (0 * amount + h) \div whole = 0
  BY <1>1, QuotientIs
<1>3. (whole * amount + h) \div whole = amount
  <2>1. whole * amount \in Int
    OBVIOUS
  <2> QED
    BY <1>1, <2>1, QuotientIs
<1> QED
  BY <1>2, <1>3 DEF Share, h

LEMMA ShareBounds ==
  ASSUME NEW part \in Nat, NEW whole \in Nat \ {0}, NEW amount \in Nat
  PROVE  LET s == Share(part, whole, amount) IN
         /\ s \in Nat
         /\ whole * s <= part * amount + whole \div 2
         /\ part * amount + whole \div 2 < whole * s + whole
<1> DEFINE h == whole \div 2
           p == part * amount
<1>1. h \in Nat /\ h < whole /\ p \in Nat
  BY Half
<1> HIDE DEF h, p
<1>2. LET q == (p + h) \div whole IN q \in Int /\ whole * q <= p + h /\ p + h < whole * q + whole
  BY <1>1, Quotient
<1>3. (p + h) \div whole \in Nat
  BY <1>1, <1>2
<1> QED
  BY <1>2, <1>3 DEF Share, h, p

\* A larger part has a share that is as large, and larger by no more than the part
\* itself if nothing costs more than its price.
LEMMA ShareRises ==
  ASSUME NEW part \in Nat, NEW more \in Nat, NEW whole \in Nat \ {0}, NEW amount \in Nat
  PROVE  /\ Share(part, whole, amount) <= Share(part + more, whole, amount)
         /\ amount <= whole => Share(part + more, whole, amount) <= Share(part, whole, amount) + more
<1> DEFINE h == whole \div 2
           s == Share(part, whole, amount)
           t == Share(part + more, whole, amount)
<1>0. part + more \in Nat
  OBVIOUS
<1>1. h \in Nat /\ s \in Nat /\ t \in Nat
  BY <1>0, Half, ShareBounds
<1>2. whole * s <= part * amount + h /\ part * amount + h < whole * s + whole
  BY ShareBounds
<1>3. whole * t <= (part + more) * amount + h /\ (part + more) * amount + h < whole * t + whole
  BY <1>0, ShareBounds
<1> HIDE DEF h, s, t
<1>4. (part + more) * amount = part * amount + more * amount /\ more * amount \in Nat
      /\ part * amount \in Nat
  OBVIOUS
<1>5. s <= t
  <2> SUFFICES ASSUME t + 1 <= s PROVE FALSE
    BY <1>1
  <2>1. whole * (t + 1) <= whole * s /\ whole * (t + 1) = whole * t + whole
    BY <1>1
  <2> QED
    BY <1>1, <1>2, <1>3, <1>4, <2>1
<1>6. ASSUME amount <= whole PROVE t <= s + more
  <2>1. more * amount <= more * whole
    BY <1>6
  <2> SUFFICES ASSUME s + more + 1 <= t PROVE FALSE
    BY <1>1
  <2>2. whole * (s + more + 1) <= whole * t
    BY <1>1
  <2>3. whole * (s + more + 1) = whole * s + more * whole + whole
    BY <1>1
  <2> QED
    BY <1>1, <1>2, <1>3, <1>4, <2>1, <2>2, <2>3
<1> QED
  BY <1>5, <1>6 DEF s, t

-----------------------------------------------------------------------------
(* What can be credited for each line. *)

\* The share of the first n lines (allocate_credits).
Target(price, gross, n) ==
    IF Sum(price) = 0 THEN 0 ELSE Share(UpTo(price)[n], Sum(price), gross)

LEMMA Limits ==
  ASSUME NEW N \in Nat, NEW price \in [1..N -> Nat], NEW urgent \in [1..N -> Nat],
         NEW gross \in Nat
  PROVE  CreditLimits(price, urgent, gross) =
           [n \in 1..N |-> Target(price, gross, n) - Target(price, gross, n - 1) + urgent[n]]
<1>1. Len(price) = N
  OBVIOUS
<1> QED
  BY <1>1 DEF CreditLimits, Target

LEMMA Targets ==
  ASSUME NEW N \in Nat, NEW price \in [1..N -> Nat], NEW gross \in Nat, gross <= Sum(price)
  PROVE  /\ Target(price, gross, 0) = 0 /\ Target(price, gross, N) = gross
         /\ \A n \in 0..N : Target(price, gross, n) \in Nat
<1>0. price \in [1..N -> Int] /\ Sum(price) \in Nat /\ UpTo(price)[0] = 0
      /\ UpTo(price)[N] = Sum(price) /\ \A n \in 0..N : UpTo(price)[n] \in Nat
  BY UpToSteps, UpToRises
<1>1. CASE Sum(price) = 0
  BY <1>0, <1>1 DEF Target
<1>2. CASE Sum(price) # 0
  <2>1. Sum(price) \in Nat \ {0}
    BY <1>0, <1>2
  <2>2. \A n \in 0..N : Share(UpTo(price)[n], Sum(price), gross) \in Nat
    BY <1>0, <2>1, ShareBounds
  <2>3. Share(0, Sum(price), gross) = 0 /\ Share(Sum(price), Sum(price), gross) = gross
    BY <2>1, ShareEnds
  <2> QED
    BY <1>0, <1>2, <2>2, <2>3 DEF Target
<1> QED
  BY <1>1, <1>2

\* A line gets what its price is worth after the discount, within a cent and never
\* more than the price.
LEMMA TargetRises ==
  ASSUME NEW N \in Nat, NEW price \in [1..N -> Nat], NEW gross \in Nat, gross <= Sum(price),
         NEW n \in 1..N
  PROVE  LET share == Target(price, gross, n) - Target(price, gross, n - 1) IN
         /\ share \in 0..price[n]
         /\ Sum(price) > 0 =>
              /\ (share - 1) * Sum(price) < price[n] * gross
              /\ price[n] * gross < (share + 1) * Sum(price)
<1> DEFINE W == Sum(price)
           p == UpTo(price)[n - 1]
           x == price[n]
           s == Share(p, W, gross)
           t == Share(p + x, W, gross)
<1>0. n - 1 \in 0..N /\ n \in 0..N /\ price \in [1..N -> Int]
  OBVIOUS
<1>1. W \in Nat /\ p \in Nat /\ x \in Nat /\ UpTo(price)[n] = p + x
  BY <1>0, UpToSteps, UpToRises
<1>2. CASE W = 0
  BY <1>1, <1>2 DEF Target
<1>3. CASE W # 0
  <2>0. W \in Nat \ {0} /\ p + x \in Nat
    BY <1>1, <1>3
  <2>1. Target(price, gross, n) = t /\ Target(price, gross, n - 1) = s
    BY <1>1, <1>3 DEF Target
  <2>2. gross <= W
    OBVIOUS
  <2> HIDE DEF W, p, x
  <2>3. s \in Nat /\ t \in Nat /\ s <= t /\ t <= s + x
    BY <1>1, <2>0, <2>2, ShareBounds, ShareRises
  <2>4. /\ W * s <= p * gross + W \div 2 /\ p * gross + W \div 2 < W * s + W
        /\ W * t <= (p + x) * gross + W \div 2 /\ (p + x) * gross + W \div 2 < W * t + W
    BY <1>1, <2>0, ShareBounds
  <2>5. W \div 2 \in Nat
    BY <2>0, Half
  <2> HIDE DEF s, t
  <2>6. (p + x) * gross = p * gross + x * gross /\ p * gross \in Nat /\ x * gross \in Nat
    BY <1>1
  <2>7. (t - s - 1) * W = W * t - W * s - W /\ (t - s + 1) * W = W * t - W * s + W
    BY <2>0, <2>3
  <2>8. W * t \in Nat /\ W * s \in Nat
    BY <2>0, <2>3
  <2>9. (t - s - 1) * W < x * gross /\ x * gross < (t - s + 1) * W
    <3> DEFINE h == W \div 2  a == p * gross  b == x * gross  c == W * t  d == W * s
    <3>1. /\ d <= a + h /\ a + h < d + W /\ c <= a + b + h /\ a + b + h < c + W
          /\ h \in Nat /\ a \in Nat /\ b \in Nat /\ c \in Nat /\ d \in Nat
      BY <2>4, <2>5, <2>6, <2>8
    <3> HIDE DEF h, a, b, c, d
    <3>2. c - d - W < b /\ b < c - d + W
      BY <2>0, <3>1
    <3> QED
      BY <2>7, <3>2 DEF b, c, d
  <2>10. t - s \in 0..x
    BY <1>1, <2>3
  <2> QED
    BY <2>1, <2>9, <2>10 DEF W, x
<1> QED
  BY <1>2, <1>3

\* The lines' limits are amounts and add up to what the sale costs
\* (returns/service.rs allocate_credits).
LEMMA LimitsAddUp ==
  ASSUME NEW N \in Nat, NEW price \in [1..N -> Nat], NEW urgent \in [1..N -> Nat],
         NEW gross \in Nat, gross <= Sum(price)
  PROVE  /\ CreditLimits(price, urgent, gross) \in [1..N -> Nat]
         /\ Sum(CreditLimits(price, urgent, gross)) = gross + Sum(urgent)
<1> DEFINE limit == CreditLimits(price, urgent, gross)
           T(n) == Target(price, gross, n)
           S == {n \in 0..N : UpTo(limit)[n] = T(n) + UpTo(urgent)[n]}
<1>1. limit = [n \in 1..N |-> T(n) - T(n - 1) + urgent[n]]
  BY Limits
<1>2. T(0) = 0 /\ T(N) = gross /\ \A n \in 0..N : T(n) \in Nat
  BY Targets
<1>3. ASSUME NEW n \in 1..N
      PROVE  T(n) - T(n - 1) \in Nat /\ limit[n] = T(n) - T(n - 1) + urgent[n]
  <2>1. T(n) - T(n - 1) \in 0..price[n] /\ price[n] \in Nat
    BY TargetRises
  <2> QED
    BY <1>1, <2>1
<1>4. limit \in [1..N -> Nat]
  <2>1. \A n \in 1..N : T(n) - T(n - 1) + urgent[n] \in Nat
    BY <1>3
  <2> HIDE DEF T, limit
  <2> QED
    BY <1>1, <2>1
<1> HIDE DEF T, limit
<1>5. limit \in [1..N -> Int] /\ urgent \in [1..N -> Int]
  BY <1>4
<1>6. 0 \in S
  <2>1. UpTo(limit)[0] = 0 /\ UpTo(urgent)[0] = 0
    BY <1>5, UpToSteps
  <2> QED
    BY <1>2, <2>1
<1>7. ASSUME NEW n \in 1..N, n - 1 \in S PROVE n \in S
  <2>0. n - 1 \in 0..N /\ n \in 0..N
    OBVIOUS
  <2>1. UpTo(limit)[n] = UpTo(limit)[n - 1] + limit[n]
        /\ UpTo(urgent)[n] = UpTo(urgent)[n - 1] + urgent[n]
    BY <1>5, UpToSteps
  <2>2. UpTo(urgent)[n - 1] \in Int /\ T(n - 1) \in Nat /\ T(n) \in Nat /\ urgent[n] \in Nat
    BY <1>2, <1>5, <2>0, UpToIsInt
  <2>3. UpTo(limit)[n - 1] = T(n - 1) + UpTo(urgent)[n - 1]
    BY <1>7
  <2> QED
    BY <1>3, <2>0, <2>1, <2>2, <2>3
<1> HIDE DEF S
<1>8. 0..N \subseteq S
  BY <1>6, <1>7, InductTo
<1>9. UpTo(limit)[N] = T(N) + UpTo(urgent)[N]
  BY <1>8 DEF S
<1> QED
  BY <1>2, <1>4, <1>5, <1>9, UpToSteps DEF limit

-----------------------------------------------------------------------------
(* A sale. *)

LEMMA LinesAre == Lines \in Nat /\ Line = 1..Lines /\ Garment \subseteq Line
                  /\ MaxQty \in Nat \ {0} /\ IsFiniteSet(Card)
BY LedgerAssumption DEF Line

LEMMA SlackIs == MaxAdvances \in Nat \ {0} /\ Slack \in Nat \ {0}
                 /\ \A x \in Int : 2 * x <= MaxAdvances + 1 => x <= Slack
BY LedgerAssumption DEF Slack

\* A payment may be stored a cent higher than it was checked; n payments, half a cent
\* each and half a cent for their sum.
LEMMA StoredIs ==
  ASSUME NEW counted \in Nat, NEW n \in Nat, NEW a \in StoredAs(counted, n)
  PROVE  /\ a \in Nat /\ 2 * (a - counted) <= n + 1
         /\ n = 1 => a = counted \/ a = counted + 1
BY DEF StoredAs

Fees(s) == Sum(s.urgent)
LimitOf(s) == CreditLimits(s.price, s.urgent, s.gross)

LEMMA SaleFields ==
  ASSUME NEW s \in Sales
  PROVE  /\ s.price \in [1..Lines -> Nat] /\ s.urgent \in [1..Lines -> Nat]
         /\ s.sold \in [1..Lines -> 1..MaxQty] /\ s.gross \in Nat /\ s.vouchers \in Nat
         /\ s.redeemed \in [Card -> Nat] /\ s.gross <= Sum(s.price)
         /\ s.tender \in Nat /\ s.tender <= Total(s) /\ \A g \in Garment : s.sold[g] = 1
         /\ s # None
BY SalesAssumption, LedgerAssumption DEF ValidSale, Sale, Line

LEMMA SaleAmounts ==
  ASSUME NEW s \in Sales
  PROVE  /\ Fees(s) \in Nat /\ Total(s) \in Nat /\ s.tender \in Nat
         /\ LimitOf(s) \in [1..Lines -> Nat]
         /\ Sum(LimitOf(s)) = s.gross + Fees(s)
<1>1. Fees(s) \in Nat
  BY SaleFields, LinesAre, UpToRises DEF Fees
<1>2. Total(s) \in Nat
  BY <1>1, SaleFields DEF Total, Fees
<1>4. s.tender \in Nat
  BY SaleFields
<1>5. /\ LimitOf(s) \in [1..Lines -> Nat]
      /\ Sum(LimitOf(s)) = s.gross + Fees(s)
  <2>1. /\ s.price \in [1..Lines -> Nat] /\ s.urgent \in [1..Lines -> Nat]
        /\ s.gross \in Nat /\ s.gross <= Sum(s.price) /\ Lines \in Nat
    BY SaleFields, LinesAre
  <2>2. \A price, urgent \in [1..Lines -> Nat], gross \in Nat : gross <= Sum(price) =>
          /\ CreditLimits(price, urgent, gross) \in [1..Lines -> Nat]
          /\ Sum(CreditLimits(price, urgent, gross)) = gross + Sum(urgent)
    BY <2>1, LimitsAddUp
  <2> QED
    BY <2>1, <2>2 DEF LimitOf, Fees
<1> QED
  BY <1>1, <1>2, <1>4, <1>5

-----------------------------------------------------------------------------
(* Money, as numbers. *)

\* What gift cards got back.
Back == SumOf(restored, Card)

LEMMA Balance ==
  Held = paid - cash + sale.tender - Back /\ Owed = Total(sale) - credits
<1>1. Held = paid - cash + sale.tender - Back
  BY DEF Held, HeldExternally, Back, SumOf
<1> QED
  BY <1>1 DEF Owed

LEMMA BalanceNext ==
  Held' = paid' - cash' + sale'.tender - Back' /\ Owed' = Total(sale)' - credits'
<1>1. (Held = paid - cash + sale.tender - Back /\ Owed = Total(sale) - credits)'
  BY Balance, PTL
<1> QED
  BY <1>1

LEMMA Covered ==
  TendersAreCovered <=>
    (Made => /\ cash + Back <= credits + Overpaid /\ cash <= paid
             /\ \A c \in Card : restored[c] <= sale.redeemed[c])
BY DEF TendersAreCovered, Back, SumOf

LEMMA CoveredNext ==
  TendersAreCovered' <=>
    (Made' => /\ cash' + Back' <= credits' + Overpaid' /\ cash' <= paid'
              /\ \A c \in Card : restored'[c] <= sale'.redeemed[c])
<1>1. (TendersAreCovered <=>
        (Made => /\ cash + Back <= credits + Overpaid /\ cash <= paid
                 /\ \A c \in Card : restored[c] <= sale.redeemed[c]))'
  BY Covered, PTL
<1> QED
  BY <1>1

LEMMA QuietKeeps ==
  ASSUME IInv, UNCHANGED <<goods, paid, adjustments, refunds, recorded>>,
         client' \in [Client -> Dialog], DialogsAsk',
         network' \subseteq Message, Made \/ network' = network
  PROVE  IInv'
<1> USE DEF goods, adjustments, refunds
<1>1. TypeOK'
  BY DEF IInv, TypeOK
<1>2. Made' = Made /\ HasAdjustments' = HasAdjustments /\ Limit' = Limit /\ Back' = Back
  BY DEF Made, HasAdjustments, Limit, Back
<1>3. NotOverpaid'
  BY <1>2 DEF IInv, NotOverpaid
<1>4. TendersAreCovered'
  BY <1>2, Covered, CoveredNext DEF IInv, Overpaid
<1>5. CreditsAreBooked'
  BY <1>2 DEF IInv, CreditsAreBooked
<1>6. NothingIsBack' /\ NothingBeforeTheSale'
  BY <1>2 DEF IInv, NothingIsBack, NothingBeforeTheSale
<1>7. ClosedHow'
  BY DEF IInv, ClosedHow, Closed
<1> QED
  BY <1>1, <1>3, <1>4, <1>5, <1>6, <1>7 DEF IInv

-----------------------------------------------------------------------------
(* Dialogs. *)

LEMMA DialogFields ==
  ASSUME NEW x \in Dialog
  PROVE  /\ x.pc \in {"closed", "open", "waiting", "ok", "refused"}
         /\ x.message \in Message \cup {None}
         /\ \A pc \in {"closed", "open", "waiting", "ok", "refused"} :
              /\ [x EXCEPT !.pc = pc] \in Dialog
              /\ [x EXCEPT !.pc = pc].pc = pc /\ [x EXCEPT !.pc = pc].message = x.message
BY DEF Dialog

LEMMA MessageFields ==
  ASSUME NEW m \in Message
  PROVE  m.table \in Table /\ m.id \in Request /\ m.content \in Content
BY DEF Message

LEMMA AnswerKeeps ==
  ASSUME TypeOK, DialogsAsk, Made' = Made, NEW m, NEW a \in {"ok", "refused"}, Answer(m, a)
  PROVE  client' \in [Client -> Dialog] /\ DialogsAsk'
<1>0. client \in [Client -> Dialog]
  BY DEF TypeOK
<1>1. CASE UNCHANGED client
  BY <1>0, <1>1 DEF DialogsAsk
<1>2. ASSUME NEW d \in Client, client[d].pc = "waiting",
             client' = [client EXCEPT ![d].pc = a]
      PROVE  client' \in [Client -> Dialog] /\ DialogsAsk'
  <2> DEFINE x == [client[d] EXCEPT !.pc = a]
  <2>0. client[d] \in Dialog /\ a \in {"closed", "open", "waiting", "ok", "refused"}
    BY <1>0
  <2>1. client' = [client EXCEPT ![d] = x]
    BY <1>2
  <2>2. \A y \in Dialog, pc \in {"closed", "open", "waiting", "ok", "refused"} :
          [y EXCEPT !.pc = pc] \in Dialog /\ [y EXCEPT !.pc = pc].message = y.message
    BY DEF Dialog
  <2>3. x \in Dialog /\ x.message = client[d].message
    BY <2>0, <2>2
  <2>4. Made /\ client[d].message \in Message
    BY <1>2 DEF DialogsAsk
  <2> HIDE DEF x
  <2> QED
    BY <1>0, <2>1, <2>3, <2>4 DEF DialogsAsk
<1> QED
  BY <1>1, <1>2 DEF Answer

LEMMA ClientKeeps ==
  ASSUME IInv, NEW d \in Client, ClientStep(d)
  PROVE  IInv'
<1>0. client \in [Client -> Dialog] /\ DialogsAsk /\ network \subseteq Message
  BY DEF IInv, TypeOK
<1>1. ASSUME NEW m \in Message, Open(d, m) PROVE IInv'
  <2> USE <1>1 DEF Open
  <2>1. [pc |-> "open", message |-> m] \in Dialog
    BY DEF Dialog
  <2>2. client' \in [Client -> Dialog] /\ network' \subseteq Message
    BY <1>0, <2>1
  <2>3. Made' /\ DialogsAsk'
    BY <1>0, <2>1 DEF DialogsAsk, Made, goods
  <2> QED
    BY <2>2, <2>3, QuietKeeps
<1>2. ASSUME Send(d) PROVE IInv'
  <2> USE <1>2 DEF Send
  <2>1. client' = [client EXCEPT ![d] = [client[d] EXCEPT !.pc = "waiting"]]
    BY <1>0
  <2>2. Made /\ client[d].message \in Message
    BY <1>0 DEF DialogsAsk
  <2> DEFINE x == [client[d] EXCEPT !.pc = "waiting"]
  <2>0. x \in Dialog /\ x.message = client[d].message
    <3>1. client[d] \in Dialog
      BY <1>0
    <3> QED
      BY <3>1, DialogFields
  <2> HIDE DEF x
  <2>3. client' \in [Client -> Dialog] /\ network' \subseteq Message
    BY <1>0, <2>0, <2>1, <2>2 DEF x
  <2>4. DialogsAsk'
    BY <1>0, <2>0, <2>1, <2>2 DEF DialogsAsk, Made, goods, x
  <2> QED
    BY <2>2, <2>3, <2>4, QuietKeeps
<1>3. ASSUME NEW content \in Content, Retry(d, content) PROVE IInv'
  <2> USE <1>3 DEF Retry
  <2> DEFINE x == [pc |-> "open", message |-> [client[d].message EXCEPT !.content = content]]
  <2>1. client' = [client EXCEPT ![d] = x]
    BY <1>0
  <2>2. Made /\ client[d].message \in Message
    BY <1>0 DEF DialogsAsk
  <2>3. x \in Dialog /\ x.message \in Message
    <3>1. [client[d].message EXCEPT !.content = content] \in Message
      BY <2>2 DEF Message
    <3> QED
      BY <3>1 DEF Dialog
  <2> HIDE DEF x
  <2>4. client' \in [Client -> Dialog] /\ network' \subseteq Message
    BY <1>0, <2>1, <2>3
  <2>5. DialogsAsk'
    BY <1>0, <2>1, <2>2, <2>3 DEF DialogsAsk, Made, goods
  <2> QED
    BY <2>2, <2>4, <2>5, QuietKeeps
<1>4. ASSUME Close(d) PROVE IInv'
  <2> USE <1>4 DEF Close
  <2>1. ClosedDialog \in Dialog /\ ClosedDialog.pc = "closed"
    BY DEF ClosedDialog, Dialog
  <2>2. client' \in [Client -> Dialog] /\ network' \subseteq Message
    BY <1>0, <2>1
  <2>3. DialogsAsk'
    BY <1>0, <2>1 DEF DialogsAsk, Made, goods
  <2>4. network' = network
    OBVIOUS
  <2> QED
    BY <2>2, <2>3, <2>4, QuietKeeps
<1> QED
  BY <1>1, <1>2, <1>3, <1>4 DEF ClientStep

LEMMA ReplayKeeps ==
  ASSUME IInv, NEW m \in network, Replay(m) \/ Refuse(m)
  PROVE  IInv'
<1>1. Made' = Made /\ network' = network /\ network \subseteq Message
      /\ UNCHANGED <<goods, paid, adjustments, refunds, recorded>>
  BY DEF Replay, Refuse, Made, goods, IInv, TypeOK
<1>2. \E a \in {"ok", "refused"} : Answer(m, a)
  BY DEF Replay, Refuse
<1>3. client' \in [Client -> Dialog] /\ DialogsAsk'
  BY <1>1, <1>2, AnswerKeeps DEF IInv
<1> QED
  BY <1>1, <1>3, QuietKeeps

-----------------------------------------------------------------------------
(* The amounts of an invoice. *)

\* An adjustment or refund plan that adds nothing up is nothing.
LEMMA Zeros ==
  ASSUME IInv, ~HasAdjustments
  PROVE  Back = 0 /\ Sum(credited) = 0
<1>0. \A n \in Int : n = n + n => n = 0
  OBVIOUS
<1>1. restored \in [Card -> Nat] /\ credited \in [1..Lines -> Nat] /\ IsFiniteSet(Card)
      /\ Lines \in Nat
  BY LinesAre DEF IInv, TypeOK
<1>2. (\A c \in Card : restored[c] = 0) /\ (\A l \in 1..Lines : credited[l] = 0)
  BY LinesAre DEF IInv, NothingIsBack
<1>3. Back = 0
  <2>1. Numbers(restored, Card) /\ \A c \in Card : restored[c] = restored[c] + restored[c]
    BY <1>1, <1>2 DEF Numbers
  <2>2. SumOf(restored, Card) = SumOf(restored, Card) + SumOf(restored, Card)
    BY <1>1, <2>1, SumAdds
  <2>3. SumOf(restored, Card) \in Int
    BY <1>1, <2>1, SumIsInt
  <2> QED
    BY <1>0, <2>2, <2>3 DEF Back
<1>4. Sum(credited) = 0
  <2>1. credited \in [1..Lines -> Int] /\ Sum(credited) \in Nat
    BY <1>1, UpToRises
  <2>2. [l \in 1..Lines |-> credited[l] + credited[l]] = credited
    BY <1>1, <1>2
  <2>3. Sum([l \in 1..Lines |-> credited[l] + credited[l]]) = Sum(credited) + Sum(credited)
    BY <1>1, <2>1, SumOfParts
  <2>4. Sum(credited) = Sum(credited) + Sum(credited)
    BY <2>2, <2>3
  <2> QED
    BY <1>0, <2>1, <2>4
<1> QED
  BY <1>3, <1>4

LEMMA Amounts ==
  ASSUME IInv, Made
  PROVE  /\ sale \in Sales /\ Total(sale) \in Nat /\ sale.tender \in Nat
         /\ paid \in Nat /\ cash \in Nat /\ credits \in Nat /\ Back \in Nat
         /\ cash + Back <= credits + Overpaid /\ cash <= paid
         /\ paid + sale.tender <= Total(sale) + Slack /\ Slack \in Nat \ {0}
         /\ Overpaid \in Nat /\ Overpaid = Excess(paid + sale.tender, Total(sale))
         /\ Held = paid - cash + sale.tender - Back /\ Owed = Total(sale) - credits
         /\ Held \in Int /\ Owed \in Int /\ BalanceDue \in Nat /\ RefundDue \in Nat
<1>1. sale \in Sales /\ paid \in Nat /\ cash \in Nat /\ credits \in Nat
      /\ restored \in [Card -> Nat]
  BY DEF IInv, TypeOK, Made
<1>2. Total(sale) \in Nat /\ sale.tender \in Nat
  BY <1>1, SaleAmounts
<1>3. Back \in Nat
  BY <1>1, LinesAre, SumIsNat DEF Back
<1>4. cash + Back <= credits + Overpaid /\ cash <= paid
  BY Covered DEF IInv
<1>5. paid + sale.tender <= Total(sale) + Slack /\ Slack \in Nat \ {0}
  BY SlackIs DEF IInv, NotOverpaid
<1>9. Overpaid \in Nat /\ Overpaid = Excess(paid + sale.tender, Total(sale))
  BY <1>1, <1>2 DEF Overpaid, Excess
<1>6. Held = paid - cash + sale.tender - Back /\ Owed = Total(sale) - credits
  BY Balance
<1>7. Held \in Int /\ Owed \in Int
  BY <1>1, <1>2, <1>3, <1>6
<1>8. BalanceDue \in Nat /\ RefundDue \in Nat
  BY <1>7 DEF BalanceDue, RefundDue, Excess
<1> QED
  BY <1>1, <1>2, <1>3, <1>4, <1>5, <1>6, <1>7, <1>8, <1>9

\* Something is due only while the sale is not overpaid, so paying what is due does
\* not overpay it.
LEMMA DueFits ==
  ASSUME IInv, Made, NEW amount \in Nat, amount <= BalanceDue
  PROVE  /\ paid + amount + sale.tender <= Total(sale) + Slack
         /\ amount > 0 => paid + amount + sale.tender <= Total(sale) /\ Held < Owed
<1>1. \A total, tender, pay, back, out, old \in Nat :
        /\ out + back <= old + Excess(pay + tender, total)
        /\ amount > 0 /\ amount <= Excess(total - old, pay - out + tender - back)
        => pay + amount + tender <= total /\ pay - out + tender - back < total - old
  BY DEF Excess
<1>3. /\ Total(sale) \in Nat /\ sale.tender \in Nat /\ paid \in Nat /\ cash \in Nat
      /\ Back \in Nat /\ credits \in Nat
      /\ cash + Back <= credits + Excess(paid + sale.tender, Total(sale))
      /\ amount <= Excess(Total(sale) - credits, paid - cash + sale.tender - Back)
  BY Amounts DEF BalanceDue
<1>4. amount > 0 => /\ paid + amount + sale.tender <= Total(sale)
                    /\ paid - cash + sale.tender - Back < Total(sale) - credits
  BY <1>1, <1>3
<1>2. amount > 0 => paid + amount + sale.tender <= Total(sale) /\ Held < Owed
  BY <1>4, Amounts
<1> QED
  BY <1>2, Amounts

\* What is stored of a payment passes what is due by a cent at most.
LEMMA PayFits ==
  ASSUME IInv, Made, NEW amount \in 1..BalanceDue, Pay(amount)
  PROVE  /\ paid' \in Nat /\ paid <= paid'
         /\ paid' = paid + amount \/ paid' = paid + amount + 1
         /\ paid' + sale.tender <= Total(sale) + Slack
<1>1. paid \in Nat /\ amount \in Nat /\ amount > 0 /\ amount <= BalanceDue
  BY Amounts
<1>2. PICK a \in StoredAs(amount, 1) : paid' = paid + a
  BY DEF Pay
<1>3. a = amount \/ a = amount + 1
  BY <1>1, StoredIs
<1> QED
  BY <1>1, <1>2, <1>3, DueFits, Amounts

-----------------------------------------------------------------------------
(* The sale and the shop floor. *)

LEMMA SaleKeeps ==
  ASSUME IInv, NEW s \in Sales, ~HasAdjustments, sale' = s,
         paid' \in Nat, paid' + s.tender <= Total(s) + Slack,
         UNCHANGED <<status, work, adjustments, refunds, requests>>
  PROVE  IInv'
<1> USE DEF adjustments, refunds, requests
<1>0. Made' /\ HasAdjustments' = HasAdjustments /\ Back' = Back
  BY SaleFields DEF Made, HasAdjustments, Back
<1>1. TypeOK'
  BY DEF IInv, TypeOK
<1>2. NotOverpaid'
  BY DEF NotOverpaid
<1>3. Back = 0 /\ Sum(credited) = 0 /\ cash = 0 /\ credits = 0
      /\ (\A c \in Card : restored[c] = 0) /\ \A l \in Line : returned[l] = 0 /\ credited[l] = 0
  BY Zeros DEF IInv, NothingIsBack
<1>4. TendersAreCovered'
  <2>1. s.redeemed \in [Card -> Nat] /\ s.tender \in Nat /\ Total(s) \in Nat
    BY SaleFields, SaleAmounts
  <2>2. \A c \in Card : restored'[c] <= sale'.redeemed[c]
    BY <1>3, <2>1
  <2>3. Overpaid' \in Nat
    BY <2>1 DEF Overpaid, Excess
  <2>4. cash' = 0 /\ Back' = 0 /\ credits' = 0
    BY <1>0, <1>3
  <2>5. \A n \in Nat : 0 + 0 <= 0 + n /\ 0 <= n
    OBVIOUS
  <2> QED
    BY <2>2, <2>3, <2>4, <2>5, CoveredNext
<1>5. CreditsAreBooked'
  <2>1. ASSUME NEW l \in Line PROVE Share(0, s.sold[l], LimitOf(s)[l]) = 0
    <3>1. s.sold[l] \in Nat \ {0} /\ LimitOf(s)[l] \in Nat
      BY LinesAre, SaleFields, SaleAmounts
    <3> QED
      BY <3>1, ShareEnds
  <2>2. Limit' = LimitOf(s)
    BY DEF Limit, LimitOf
  <2>3. ASSUME NEW l \in Line
        PROVE  credited'[l] = Share(returned'[l], sale'.sold[l], Limit'[l])
    BY <1>3, <2>1, <2>2
  <2> QED
    BY <1>3, <2>3 DEF CreditsAreBooked
<1>6. NothingIsBack' /\ NothingBeforeTheSale'
  BY <1>0 DEF IInv, NothingIsBack, NothingBeforeTheSale
<1>7. DialogsAsk' /\ ClosedHow'
  BY <1>0 DEF IInv, DialogsAsk, ClosedHow, Closed
<1> QED
  BY <1>1, <1>2, <1>4, <1>5, <1>6, <1>7 DEF IInv

LEMMA SaleStepKeeps ==
  ASSUME IInv, SaleStep
  PROVE  IInv'
<1>1. ASSUME NEW s \in Sales, UpdateInvoice(s) PROVE IInv'
  <2>1. paid \in Nat /\ s.tender \in Nat /\ Total(s) \in Nat
    BY SaleAmounts DEF IInv, TypeOK
  <2>2. paid + s.tender <= Total(s) + Slack
    BY <1>1, <2>1, SlackIs DEF UpdateInvoice, Editable
  <2> QED
    BY <1>1, <2>1, <2>2, SaleKeeps DEF UpdateInvoice, Editable
<1>2. ASSUME NEW s \in Sales, NEW n \in 0..MaxAdvances, NEW counted \in 0..Total(s),
             CreateInvoice(s, n, counted)
      PROVE  IInv'
  <2>1. s.tender \in Nat /\ Total(s) \in Nat /\ n \in Nat /\ counted \in Nat
    BY SaleAmounts, SlackIs
  <2>2. ~HasAdjustments
    BY <1>2 DEF CreateInvoice, IInv, NothingBeforeTheSale
  <2>4. paid' \in StoredAs(counted, n) /\ counted <= Total(s) - s.tender
    BY <1>2 DEF CreateInvoice
  <2>5. paid' \in Nat /\ 2 * (paid' - counted) <= n + 1
    BY <2>1, <2>4, StoredIs
  <2>6. paid' - counted <= Slack
    <3>1. paid' - counted \in Int /\ n <= MaxAdvances
      BY <2>1, <2>5, SlackIs
    <3>2. \A x \in Int : 2 * x <= n + 1 => 2 * x <= MaxAdvances + 1
      BY <2>1, <3>1, SlackIs
    <3> QED
      BY <2>5, <3>1, <3>2, SlackIs
  <2>7. paid' \in Nat /\ paid' + s.tender <= Total(s) + Slack
    <3>1. Slack \in Nat
      BY SlackIs
    <3>2. \A p, c, total, tender, k \in Nat :
            p - c <= k /\ c <= total - tender => p + tender <= total + k
      OBVIOUS
    <3> QED
      BY <2>1, <2>4, <2>5, <2>6, <3>1, <3>2
  <2> QED
    BY <1>2, <2>2, <2>7, SaleKeeps DEF CreateInvoice
<1> QED
  BY <1>1, <1>2 DEF SaleStep

\* Whatever changes neither the sale nor what was credited and paid back.
LEMMA ShopKeeps ==
  ASSUME IInv, Made, UNCHANGED <<sale, adjustments, refunds, network>>,
         paid' \in Nat, paid <= paid', paid' + sale.tender <= Total(sale) + Slack,
         status' \in [Garment -> {"open", "collected"}],
         work' \in [Garment -> {"none", "touched", "started"}],
         recorded' \in [Table -> [Request -> Content \cup {None}]],
         HasAdjustments => HasAdjustments',
         client' \in [Client -> Dialog], DialogsAsk', ClosedHow'
  PROVE  IInv'
<1> USE DEF adjustments, refunds
<1>1. TypeOK'
  BY DEF IInv, TypeOK
<1>2. Made' /\ Limit' = Limit /\ Back' = Back
  BY DEF Made, Limit, Back
<1>3. NotOverpaid'
  BY DEF NotOverpaid
<1>4. TendersAreCovered'
  <2>1. Overpaid <= Overpaid' /\ Overpaid' \in Nat
    BY Amounts DEF Overpaid, Excess
  <2>2. /\ cash + Back <= credits + Overpaid /\ cash <= paid /\ cash \in Nat /\ Back \in Nat
        /\ credits \in Nat /\ Overpaid \in Nat /\ paid \in Nat
    BY Amounts
  <2>3. cash' + Back' <= credits' + Overpaid' /\ cash' <= paid'
    <3>1. \A out, back, old, over, next \in Nat :
            out + back <= old + over /\ over <= next => out + back <= old + next
      OBVIOUS
    <3>2. cash' = cash /\ Back' = Back /\ credits' = credits
      BY <1>2
    <3>3. cash + Back <= credits + Overpaid'
      BY <2>1, <2>2, <3>1
    <3> QED
      BY <2>2, <3>2, <3>3
  <2>4. \A c \in Card : restored'[c] <= sale'.redeemed[c]
    BY Covered DEF IInv
  <2> QED
    BY <2>3, <2>4, CoveredNext
<1>5. CreditsAreBooked'
  BY <1>2 DEF IInv, CreditsAreBooked
<1>6. NothingIsBack' /\ NothingBeforeTheSale'
  BY <1>2 DEF IInv, NothingIsBack, NothingBeforeTheSale
<1> QED
  BY <1>1, <1>3, <1>4, <1>5, <1>6 DEF IInv

LEMMA ShopStepKeeps ==
  ASSUME IInv, ShopStep
  PROVE  IInv'
<1>0. /\ Made /\ BalanceDue \in Nat /\ paid \in Nat
      /\ paid + sale.tender <= Total(sale) + Slack /\ status \in [Garment -> {"open", "collected"}]
      /\ work \in [Garment -> {"none", "touched", "started"}] /\ ClosedHow
      /\ client \in [Client -> Dialog] /\ DialogsAsk
      /\ recorded \in [Table -> [Request -> Content \cup {None}]]
  BY Amounts DEF ShopStep, IInv, TypeOK
<1> USE DEF goods, adjustments, refunds, requests
<1>d. ASSUME sale' = sale, UNCHANGED requests
      PROVE  DialogsAsk' /\ HasAdjustments' = HasAdjustments /\ client' \in [Client -> Dialog]
             /\ recorded' \in [Table -> [Request -> Content \cup {None}]]
  BY <1>0, <1>d DEF DialogsAsk, Made, HasAdjustments
<1>1. ASSUME NEW g \in Garment, NEW w \in {"none", "touched", "started"}, Produce(g, w)
      PROVE  IInv'
  <2> USE <1>1 DEF Produce
  <2>1. ClosedHow'
    BY <1>0 DEF ClosedHow, Closed
  <2>2. work' \in [Garment -> {"none", "touched", "started"}]
    BY <1>0
  <2> QED
    BY <1>0, <1>d, <2>1, <2>2, ShopKeeps
<1>2. ASSUME NEW g \in Garment, NEW amount \in 0..BalanceDue, CollectOrder(g, amount)
      PROVE  IInv'
  <2> USE <1>2 DEF CollectOrder
  <2>1. status' = [status EXCEPT ![g] = "collected"] /\ status' \in [Garment -> {"open", "collected"}]
    BY <1>0
  <2>2. ClosedHow'
    BY <1>0, <2>1 DEF ClosedHow, Closed
  <2>4. paid' \in Nat /\ paid <= paid' /\ paid' + sale.tender <= Total(sale) + Slack
    <3>1. CASE amount > 0
      <4>1. amount \in 1..BalanceDue /\ Pay(amount)
        BY <1>0, <3>1
      <4> QED
        BY <1>0, <4>1, PayFits
    <3>2. CASE ~(amount > 0)
      BY <1>0, <3>2
    <3> QED
      BY <3>1, <3>2
  <2> QED
    BY <1>0, <1>d, <2>1, <2>2, <2>4, ShopKeeps
<1>3. ASSUME CollectInvoice PROVE IInv'
  <2> USE <1>3 DEF CollectInvoice
  <2>1. status' \in [Garment -> {"open", "collected"}]
    BY <1>0
  <2>2. ASSUME NEW g \in Garment, Closed(g), g \notin cancelled
        PROVE  status'[g] = "collected"
    BY <2>2 DEF HandedOut
  <2>3. ClosedHow'
    BY <1>0, <2>2 DEF ClosedHow, Closed
  <2>4. paid' \in Nat /\ paid <= paid' /\ paid' + sale.tender <= Total(sale) + Slack
    BY <1>0, DueFits
  <2> QED
    BY <1>0, <1>d, <2>1, <2>3, <2>4, ShopKeeps
<1> QED
  BY <1>1, <1>2, <1>3 DEF ShopStep

-----------------------------------------------------------------------------
(* The server. *)

LEMMA RecordKeeps ==
  ASSUME IInv, Made, Made' = Made, NEW m \in network, Record(m)
  PROVE  /\ recorded' \in [Table -> [Request -> Content \cup {None}]]
         /\ HasAdjustments => HasAdjustments'
         /\ m.table # "payment" => HasAdjustments'
         /\ client' \in [Client -> Dialog] /\ DialogsAsk' /\ network' = network
         /\ recorded'[m.table][m.id] = m.content
<1>1. recorded \in [Table -> [Request -> Content \cup {None}]] /\ TypeOK /\ DialogsAsk
  BY DEF IInv, TypeOK
<1>2. m.table \in Table /\ m.id \in Request /\ m.content \in Content /\ m.content # None
  BY MessageFields, LedgerAssumption DEF IInv, TypeOK
<1> DEFINE t == m.table  i == m.id  x == m.content
<1>3. recorded' = [recorded EXCEPT ![t][i] = x]
  BY DEF Record
<1>4. t \in Table /\ i \in Request /\ x \in Content /\ x # None
  BY <1>2
<1> HIDE DEF t, i, x
<1>5. recorded' \in [Table -> [Request -> Content \cup {None}]]
  BY <1>1, <1>3, <1>4
<1>6. \A u \in Table, r \in Request :
        recorded'[u][r] = IF u = t /\ r = i THEN x ELSE recorded[u][r]
  BY <1>1, <1>3, <1>4
<1>7. HasAdjustments => HasAdjustments'
  BY <1>4, <1>6 DEF HasAdjustments, Table
<1>8. t # "payment" => HasAdjustments'
  BY <1>4, <1>6 DEF HasAdjustments, Table
<1>9. client' \in [Client -> Dialog] /\ DialogsAsk' /\ network' = network
  BY <1>1, AnswerKeeps DEF Record
<1> QED
  BY <1>4, <1>5, <1>6, <1>7, <1>8, <1>9 DEF t, i, x

LEMMA ServerFinds ==
  ASSUME IInv, NEW m \in network
  PROVE  Made
BY DEF IInv, NothingBeforeTheSale

LEMMA PaymentKeeps ==
  ASSUME IInv, NEW m \in network, NEW amount \in 1..BalanceDue, RecordPayment(m, amount)
  PROVE  IInv'
<1> USE DEF RecordPayment, goods, adjustments, refunds
<1>1. Made /\ Made' = Made
  BY ServerFinds DEF Made
<1>2. /\ recorded' \in [Table -> [Request -> Content \cup {None}]]
      /\ HasAdjustments => HasAdjustments'
      /\ client' \in [Client -> Dialog] /\ DialogsAsk' /\ network' = network
  BY <1>1, RecordKeeps
<1>4. paid' \in Nat /\ paid <= paid' /\ paid' + sale.tender <= Total(sale) + Slack
  BY <1>1, PayFits
<1>5. status' \in [Garment -> {"open", "collected"}] /\ ClosedHow'
      /\ work' \in [Garment -> {"none", "touched", "started"}]
  BY DEF IInv, TypeOK, ClosedHow, Closed
<1> QED
  BY <1>1, <1>2, <1>4, <1>5, ShopKeeps

LEMMA PlanFits ==
  \A total, tender, pay, back, out, old, new, external, sum \in Nat :
     /\ out + back <= old + Excess(pay + tender, total) /\ old <= new
     /\ external + sum <= Excess(pay - out + tender - back, total - new)
     => (out + external) + (back + sum) <= new + Excess(pay + tender, total)
BY DEF Excess

\* A plan that pays what is over, after more was credited, stays within the credits and
\* what was overpaid.
LEMMA PayOutFits ==
  ASSUME IInv, Made, UNCHANGED <<sale, paid>>, credits' \in Nat, credits <= credits',
         NEW due, due = Excess(Held, Total(sale) - credits'),
         NEW external \in Nat, NEW cards \in [Card -> Nat],
         external + SumOf(cards, Card) <= due,
         PayOut(external, cards)
  PROVE  /\ cash' \in Nat /\ restored' \in [Card -> Nat]
         /\ Back' = Back + SumOf(cards, Card) /\ SumOf(cards, Card) \in Nat
         /\ TendersAreCovered'
<1>1. restored \in [Card -> Nat] /\ cash \in Nat /\ paid \in Nat
  BY DEF IInv, TypeOK
<1>2. cash' = cash + external /\ restored' = [c \in Card |-> restored[c] + cards[c]]
      /\ external <= paid - cash /\ \A c \in Card : cards[c] <= sale.redeemed[c] - restored[c]
  BY DEF PayOut, TenderHeld, HeldExternally
<1>3. cash' \in Nat /\ restored' \in [Card -> Nat]
  BY <1>1, <1>2
<1>4. SumOf(cards, Card) \in Nat
  BY LinesAre, SumIsNat
<1>5. Back' = Back + SumOf(cards, Card)
  <2>1. Numbers(restored, Card) /\ Numbers(cards, Card)
        /\ \A c \in Card : restored'[c] = restored[c] + cards[c]
    BY <1>1, <1>2 DEF Numbers
  <2>2. SumOf(restored', Card) = SumOf(restored, Card) + SumOf(cards, Card)
    BY <2>1, LinesAre, SumAdds
  <2> QED
    BY <2>2 DEF Back
<1>6. /\ Total(sale) \in Nat /\ sale.tender \in Nat /\ cash \in Nat /\ credits \in Nat
      /\ Back \in Nat /\ cash + Back <= credits + Overpaid /\ Overpaid' = Overpaid
      /\ Overpaid = Excess(paid + sale.tender, Total(sale))
      /\ Held = paid - cash + sale.tender - Back /\ Held \in Int
  BY Amounts DEF Overpaid
<1>7. cash' + Back' <= credits' + Overpaid'
  <2> DEFINE sum == SumOf(cards, Card)
  <2>1. sum \in Nat /\ Back' = Back + sum /\ cash' = cash + external
    BY <1>2, <1>4, <1>5
  <2>2. external + sum <= Excess(paid - cash + sale.tender - Back, Total(sale) - credits')
    BY <1>6
  <2> HIDE DEF sum
  <2>3. (cash + external) + (Back + sum) <= credits' + Overpaid
    BY <1>1, <1>6, <2>1, <2>2, PlanFits
  <2> QED
    BY <1>6, <2>1, <2>3
<1>8. cash' <= paid'
  BY <1>1, <1>2
<1>9. ASSUME NEW c \in Card PROVE restored'[c] <= sale'.redeemed[c]
  <2>1. sale.redeemed \in [Card -> Nat]
    BY Amounts, SaleFields
  <2>2. restored'[c] = restored[c] + cards[c] /\ restored[c] \in Nat /\ cards[c] \in Nat
        /\ cards[c] <= sale.redeemed[c] - restored[c] /\ sale.redeemed[c] \in Nat
    BY <1>1, <1>2, <2>1
  <2> QED
    BY <2>2
<1> QED
  BY <1>3, <1>4, <1>5, <1>7, <1>8, <1>9, CoveredNext

LEMMA RefundKeeps ==
  ASSUME IInv, NEW m \in network, NEW external \in 0..RefundDue,
         NEW cards \in [Card -> 0..RefundDue], CreateRefund(m, external, cards)
  PROVE  IInv'
<1> USE DEF CreateRefund, goods, adjustments
<1>1. Made /\ Made' = Made
  BY ServerFinds DEF Made
<1>2. /\ recorded' \in [Table -> [Request -> Content \cup {None}]]
      /\ HasAdjustments'
      /\ client' \in [Client -> Dialog] /\ DialogsAsk' /\ network' = network
  BY <1>1, RecordKeeps
<1>3. RefundDue \in Nat /\ RefundDue = Excess(Held, Total(sale) - credits) /\ credits \in Nat
  BY <1>1, Amounts DEF RefundDue
<1>4. external \in Nat /\ cards \in [Card -> Nat] /\ external + SumOf(cards, Card) <= RefundDue
  BY <1>3 DEF SumOf
<1>5. credits' = credits /\ credits <= credits /\ UNCHANGED <<sale, paid>>
  BY <1>3
<1>6. cash' \in Nat /\ restored' \in [Card -> Nat] /\ TendersAreCovered'
  BY <1>1, <1>3, <1>4, <1>5, PayOutFits
<1>7. TypeOK'
  BY <1>2, <1>6 DEF IInv, TypeOK
<1>8. NotOverpaid' /\ CreditsAreBooked' /\ ClosedHow'
  <2>1. Limit' = Limit
    BY DEF Limit
  <2> QED
    BY <1>1, <2>1 DEF IInv, NotOverpaid, CreditsAreBooked, ClosedHow, Closed
<1>9. NothingIsBack' /\ NothingBeforeTheSale'
  BY <1>1, <1>2 DEF NothingIsBack, NothingBeforeTheSale
<1> QED
  BY <1>2, <1>6, <1>7, <1>8, <1>9 DEF IInv

\* What Credit does to the money, whether or not it is paid out at once.
LEMMA CreditMoves ==
  ASSUME IInv, Made, NEW m, NEW quantity, NEW amount \in [1..Lines -> Nat],
         Credit(m, quantity, amount)
  PROVE  LET due == Excess(Held, Owed - Sum(amount)) IN
         /\ Sum(amount) \in Nat /\ credits' = credits + Sum(amount)
         /\ cash' \in Nat /\ restored' \in [Card -> Nat] /\ TendersAreCovered'
         /\ \/ UNCHANGED refunds
            \/ cash' + Back' = cash + Back + due
<1> USE DEF goods
<1> DEFINE due == Excess(Held, Owed - Sum(amount))
<1>1. Sum(amount) \in Nat
  BY LinesAre, UpToRises
<1>2. credits' = credits + Sum(amount) /\ UNCHANGED <<sale, paid>>
  BY DEF Credit
<1>3. credits \in Nat /\ Total(sale) \in Nat /\ Held \in Int /\ Owed = Total(sale) - credits
      /\ Back \in Nat /\ cash \in Nat
  BY Amounts
<1>4. credits' \in Nat /\ credits <= credits'
  BY <1>1, <1>2, <1>3
<1>5. due \in Nat /\ due = Excess(Held, Total(sale) - credits')
  <2>1. Owed - Sum(amount) \in Int /\ Owed - Sum(amount) = Total(sale) - credits'
    BY <1>1, <1>2, <1>3
  <2> QED
    BY <1>3, <2>1 DEF Excess
<1>6. CASE UNCHANGED refunds
  <2>1. cash' \in Nat /\ restored' \in [Card -> Nat]
    BY <1>6 DEF IInv, TypeOK, refunds
  <2>2. Made' /\ Back' = Back /\ cash' = cash /\ restored' = restored
    BY <1>2, <1>6 DEF Made, Back, refunds
  <2>3. cash + Back <= credits' + Overpaid' /\ cash <= paid
    <3>1. Overpaid' = Overpaid
      BY <1>2 DEF Overpaid
    <3> QED
      BY <1>3, <1>4, <3>1, Amounts
  <2>4. TendersAreCovered'
    BY <1>2, <2>2, <2>3, Covered, CoveredNext DEF IInv
  <2> QED
    BY <1>1, <1>2, <1>6, <2>1, <2>4
<1>7. ASSUME NEW external \in 0..due, NEW cards \in [Card -> 0..due],
             external + MapThenSumSet(LAMBDA c : cards[c], Card) = due,
             PayOut(external, cards)
      PROVE  /\ cash' \in Nat /\ restored' \in [Card -> Nat] /\ TendersAreCovered'
             /\ cash' + Back' = cash + Back + due
  <2>1. external + SumOf(cards, Card) = due
    BY <1>7 DEF SumOf
  <2>2. external \in Nat /\ cards \in [Card -> Nat] /\ external + SumOf(cards, Card) <= due
    BY <1>5, <2>1
  <2> HIDE DEF due
  <2>3. /\ cash' \in Nat /\ restored' \in [Card -> Nat] /\ TendersAreCovered'
        /\ Back' = Back + SumOf(cards, Card) /\ SumOf(cards, Card) \in Nat
    BY <1>2, <1>4, <1>5, <1>7, <2>2, PayOutFits
  <2>4. cash' = cash + external
    BY <1>7 DEF PayOut
  <2> QED
    BY <1>3, <2>1, <2>2, <2>3, <2>4
<1> QED
  BY <1>1, <1>2, <1>6, <1>7 DEF Credit

\* Crediting the lines keeps the books, if each line gets its share.
LEMMA CreditKeeps ==
  ASSUME IInv, NEW m \in network,
         NEW quantity \in [Line -> Nat], NEW amount \in [1..Lines -> Nat],
         Credit(m, quantity, amount),
         \A l \in Line : returned[l] + quantity[l] <= MaxQty,
         cancelled' \subseteq Garment,
         \A l \in Line : l \notin cancelled' =>
           credited[l] + amount[l] = Share(returned[l] + quantity[l], sale.sold[l], Limit[l]),
         ClosedHow'
  PROVE  IInv'
<1> USE DEF goods
<1>1. Made /\ Made' = Made /\ Limit' = Limit /\ UNCHANGED <<goods, paid>>
  BY ServerFinds DEF Made, Limit, Credit
<1>2. Record(m) /\ m.table = "adjustment"
  BY DEF Credit
<1>3. /\ recorded' \in [Table -> [Request -> Content \cup {None}]]
      /\ HasAdjustments'
      /\ client' \in [Client -> Dialog] /\ DialogsAsk' /\ network' = network
  BY <1>1, <1>2, RecordKeeps
<1>4. /\ Sum(amount) \in Nat /\ credits' = credits + Sum(amount)
      /\ cash' \in Nat /\ restored' \in [Card -> Nat] /\ TendersAreCovered'
  BY <1>1, CreditMoves
<1>5. /\ returned' = [l \in Line |-> returned[l] + quantity[l]]
      /\ credited' = [l \in Line |-> credited[l] + amount[l]]
  BY DEF Credit
<1>6. /\ returned \in [Line -> 0..MaxQty] /\ credited \in [Line -> Nat] /\ credits \in Nat
      /\ MaxQty \in Nat /\ Line = 1..Lines /\ Lines \in Nat
  BY LinesAre DEF IInv, TypeOK
<1>7. returned' \in [Line -> 0..MaxQty] /\ credited' \in [Line -> Nat] /\ credits' \in Nat
  <2>1. ASSUME NEW l \in Line
        PROVE  returned[l] + quantity[l] \in 0..MaxQty /\ credited[l] + amount[l] \in Nat
    <3>1. /\ returned[l] \in Nat /\ quantity[l] \in Nat /\ credited[l] \in Nat /\ amount[l] \in Nat
          /\ returned[l] + quantity[l] <= MaxQty
      BY <1>6
    <3>2. \A r, q, c, a, max \in Nat : r + q <= max => r + q \in 0..max /\ c + a \in Nat
      OBVIOUS
    <3> QED
      BY <1>6, <3>1, <3>2
  <2>2. returned' \in [Line -> 0..MaxQty] /\ credited' \in [Line -> Nat]
    BY <1>5, <2>1
  <2>3. \A c, s \in Nat : c + s \in Nat
    OBVIOUS
  <2> QED
    BY <1>4, <1>6, <2>2, <2>3
<1>8. TypeOK'
  BY <1>1, <1>3, <1>4, <1>7 DEF IInv, TypeOK
<1>9. CreditsAreBooked'
  <2>1. credits = Sum(credited)
    BY <1>1 DEF IInv, CreditsAreBooked
  <2>2. Sum([l \in 1..Lines |-> credited[l] + amount[l]]) = Sum(credited) + Sum(amount)
    <3>1. credited \in [1..Lines -> Int] /\ amount \in [1..Lines -> Int]
      BY <1>6
    <3> QED
      BY <1>6, <3>1, SumOfParts
  <2>3. credits' = Sum(credited')
    BY <1>4, <1>5, <1>6, <2>1, <2>2
  <2>4. ASSUME NEW l \in Line, l \notin cancelled'
        PROVE  credited'[l] = Share(returned'[l], sale'.sold[l], Limit'[l])
    BY <1>1, <1>5, <2>4
  <2> QED
    BY <2>3, <2>4 DEF CreditsAreBooked
<1>10. NotOverpaid' /\ NothingIsBack' /\ NothingBeforeTheSale'
  BY <1>1, <1>3 DEF IInv, NotOverpaid, NothingIsBack, NothingBeforeTheSale
<1> QED
  BY <1>3, <1>4, <1>8, <1>9, <1>10 DEF IInv

\* The credits of a return: an amount for each line, by which the line then has its
\* share (returns/service.rs line_credit).
LEMMA PartsFit ==
  ASSUME IInv, Made, NEW quantity \in [Line -> 0..MaxQty],
         \A l \in Line : quantity[l] > 0 => Returnable(l, quantity[l]),
         NEW amount, amount = [l \in Line |->
           IF quantity[l] = 0 THEN 0
           ELSE PartCredit(Limit[l], sale.sold[l], credited[l], returned[l], quantity[l])],
         NEW l \in Line
  PROVE  /\ amount[l] \in Nat
         /\ returned[l] + quantity[l] <= MaxQty
         /\ l \notin cancelled =>
              credited[l] + amount[l] = Share(returned[l] + quantity[l], sale.sold[l], Limit[l])
<1>1. /\ returned[l] \in 0..MaxQty /\ credited[l] \in Nat /\ quantity[l] \in 0..MaxQty
      /\ MaxQty \in Nat /\ sale \in Sales
  BY LinesAre, Amounts DEF IInv, TypeOK
<1>2. sale.sold[l] \in 1..MaxQty /\ Limit[l] \in Nat
  BY <1>1, LinesAre, SaleFields, SaleAmounts DEF Limit, LimitOf
<1>3. l \notin cancelled => credited[l] = Share(returned[l], sale.sold[l], Limit[l])
  BY DEF IInv, CreditsAreBooked
<1>4. CASE quantity[l] = 0
  <2>1. amount[l] = 0 /\ returned[l] + quantity[l] = returned[l] /\ credited[l] + 0 = credited[l]
    BY <1>1, <1>4
  <2> QED
    BY <1>1, <1>3, <2>1
<1>5. CASE quantity[l] # 0
  <2>1. quantity[l] > 0
    BY <1>1, <1>5
  <2>2. returned[l] + quantity[l] <= sale.sold[l] /\ (l \in Garment => Active(l))
    BY <2>1 DEF Returnable
  <2>3. l \notin cancelled
    BY <2>2 DEF IInv, TypeOK, ClosedHow, Active
  <2> DEFINE r == returned[l]  q == quantity[l]  w == sale.sold[l]  x == Limit[l]
             old == Share(r, w, x)  new == Share(r + q, w, x)
  <2>4. amount[l] = new - credited[l] /\ credited[l] = old
    BY <1>3, <1>5, <2>3 DEF PartCredit
  <2>5. r \in Nat /\ q \in Nat /\ w \in Nat \ {0} /\ x \in Nat /\ w <= MaxQty /\ r + q <= w
    BY <1>1, <1>2, <2>2
  <2> HIDE DEF r, q, w, x
  <2>6. old \in Nat /\ new \in Nat /\ old <= new /\ r + q \in Nat
    <3>1. r + q \in Nat
      BY <2>5
    <3>2. old \in Nat /\ new \in Nat
      BY <2>5, <3>1, ShareBounds
    <3> QED
      BY <2>5, <3>1, <3>2, ShareRises
  <2> HIDE DEF old, new
  <2>7. amount[l] \in Nat /\ credited[l] + amount[l] = new /\ r + q <= MaxQty
    BY <1>1, <2>4, <2>5, <2>6
  <2> QED
    BY <2>7 DEF r, q, w, x, new
<1> QED
  BY <1>4, <1>5

LEMMA ReturnKeeps ==
  ASSUME IInv, NEW m \in network, NEW quantity \in [Line -> 0..MaxQty],
         CreateReturn(m, quantity)
  PROVE  IInv'
<1> DEFINE amount == [l \in Line |->
             IF quantity[l] = 0 THEN 0
             ELSE PartCredit(Limit[l], sale.sold[l], credited[l], returned[l], quantity[l])]
<1>0. Made /\ Line = 1..Lines /\ MaxQty \in Nat
  BY ServerFinds, LinesAre
<1>1. /\ \A l \in Line : quantity[l] > 0 => Returnable(l, quantity[l])
      /\ Credit(m, quantity, amount) /\ cancelled' = cancelled
  BY DEF CreateReturn
<1>2. \A l \in Line :
        /\ amount[l] \in Nat
        /\ returned[l] + quantity[l] <= MaxQty
        /\ l \notin cancelled =>
             credited[l] + amount[l] = Share(returned[l] + quantity[l], sale.sold[l], Limit[l])
  BY <1>0, <1>1, PartsFit
<1>3. amount \in [1..Lines -> Nat]
  BY <1>0, <1>2
<1> HIDE DEF amount
<1>4. quantity \in [Line -> Nat] /\ cancelled' \subseteq Garment
  BY <1>0, <1>1 DEF IInv, TypeOK
<1>5. ClosedHow'
  <2> SUFFICES ASSUME NEW g \in Garment
               PROVE  /\ g \in cancelled' => Closed(g)'
                      /\ Closed(g)' /\ g \notin cancelled' => status'[g] = "collected"
    BY DEF ClosedHow
  <2>1. g \in Line /\ returned[g] \in Nat /\ quantity[g] \in Nat
    BY <1>0, <1>4, LinesAre DEF IInv, TypeOK
  <2>2. returned'[g] = returned[g] + quantity[g] /\ status' = status
    BY <2>1 DEF Credit, goods, CreateReturn
  <2>3. (g \in cancelled => returned[g] > 0)
        /\ (returned[g] > 0 /\ g \notin cancelled => status[g] = "collected")
    BY DEF IInv, ClosedHow, Closed
  <2>4. quantity[g] > 0 => status[g] = "collected"
    BY <1>1, <2>1 DEF Returnable
  <2> QED
    BY <1>1, <2>1, <2>2, <2>3, <2>4 DEF Closed
<1> QED
  BY <1>1, <1>2, <1>3, <1>4, <1>5, CreditKeeps

LEMMA CancelKeeps ==
  ASSUME IInv, NEW m \in network, NEW g \in Garment, NEW charge \in 0..Limit[g],
         CancelOrder(m, g, charge)
  PROVE  IInv'
<1> DEFINE quantity == [l \in Line |-> IF l = g THEN 1 ELSE 0]
           amount == [l \in Line |-> IF l = g THEN Limit[g] - charge ELSE 0]
<1>0. Made /\ Line = 1..Lines /\ MaxQty \in Nat \ {0} /\ g \in Line
  BY ServerFinds, LinesAre
<1>1. /\ Active(g) /\ Credit(m, quantity, amount) /\ cancelled' = cancelled \cup {g}
  BY DEF CancelOrder
<1>2. Limit[g] \in Nat /\ returned \in [Line -> 0..MaxQty] /\ credited \in [Line -> Nat]
      /\ cancelled \subseteq Garment
  BY <1>0, Amounts, SaleAmounts DEF Limit, LimitOf, IInv, TypeOK
<1>3. amount \in [1..Lines -> Nat] /\ quantity \in [Line -> Nat]
  <2>1. Limit[g] - charge \in Nat
    BY <1>2
  <2> QED
    BY <1>0, <2>1
<1>4. \A l \in Line : l # g => quantity[l] = 0 /\ amount[l] = 0
  OBVIOUS
<1>5. quantity[g] = 1
  BY <1>0
<1> HIDE DEF amount, quantity
<1>6. returned[g] = 0
  BY <1>0, <1>1, <1>2 DEF Active, Closed
<1>7. \A l \in Line : returned[l] + quantity[l] <= MaxQty
  BY <1>0, <1>2, <1>4, <1>5, <1>6
<1>8. ASSUME NEW l \in Line, l \notin cancelled'
      PROVE  credited[l] + amount[l] = Share(returned[l] + quantity[l], sale.sold[l], Limit[l])
  <2>1. l # g /\ l \notin cancelled
    BY <1>1, <1>8
  <2>2. credited[l] = Share(returned[l], sale.sold[l], Limit[l])
    BY <1>0, <2>1 DEF IInv, CreditsAreBooked
  <2>3. credited[l] + amount[l] = credited[l] /\ returned[l] + quantity[l] = returned[l]
    BY <1>2, <1>4, <2>1
  <2> QED
    BY <2>2, <2>3
<1>9. ClosedHow'
  <2> SUFFICES ASSUME NEW h \in Garment
               PROVE  /\ h \in cancelled' => Closed(h)'
                      /\ Closed(h)' /\ h \notin cancelled' => status'[h] = "collected"
    BY DEF ClosedHow
  <2>1. h \in Line /\ returned[h] \in Nat
    BY <1>0, <1>2, LinesAre
  <2>2. returned'[h] = returned[h] + quantity[h] /\ status' = status
    BY <1>1, <2>1 DEF Credit, goods
  <2>3. (h \in cancelled => returned[h] > 0)
        /\ (returned[h] > 0 /\ h \notin cancelled => status[h] = "collected")
    BY DEF IInv, ClosedHow, Closed
  <2> QED
    BY <1>1, <1>4, <1>5, <1>6, <2>1, <2>2, <2>3 DEF Closed
<1>10. cancelled' \subseteq Garment
  BY <1>1, <1>2
<1> QED
  BY <1>1, <1>3, <1>7, <1>8, <1>9, <1>10, CreditKeeps

LEMMA InitHolds == Init => IInv
<1> SUFFICES ASSUME Init PROVE IInv
  OBVIOUS
<1>1. TypeOK
  BY LinesAre DEF Init, TypeOK, Table, ClosedDialog, Dialog
<1>2. ~Made /\ ~HasAdjustments
  BY DEF Init, Made, HasAdjustments, Table
<1>3. NotOverpaid /\ TendersAreCovered /\ CreditsAreBooked
  BY <1>2 DEF NotOverpaid, TendersAreCovered, CreditsAreBooked
<1>4. NothingIsBack /\ NothingBeforeTheSale /\ DialogsAsk
  BY <1>2 DEF Init, NothingIsBack, NothingBeforeTheSale, DialogsAsk, ClosedDialog
<1>5. ClosedHow
  <2>1. \A g \in Garment : returned[g] = 0 /\ g \notin cancelled
    BY LinesAre DEF Init
  <2> QED
    BY <2>1 DEF ClosedHow, Closed
<1> QED
  BY <1>1, <1>3, <1>4, <1>5 DEF IInv

LEMMA StepKeeps == IInv /\ [Next]_vars => IInv'
<1> SUFFICES ASSUME IInv, [Next]_vars PROVE IInv'
  OBVIOUS
<1>1. CASE UNCHANGED vars
  <2>1. Made' = Made
    BY <1>1 DEF vars, goods, Made
  <2>2. client' \in [Client -> Dialog] /\ DialogsAsk' /\ network' \subseteq Message
        /\ network' = network
    BY <1>1, <2>1 DEF vars, requests, IInv, TypeOK, DialogsAsk
  <2>3. UNCHANGED <<goods, paid, adjustments, refunds, recorded>>
    BY <1>1 DEF vars, requests
  <2> QED
    BY <2>2, <2>3, QuietKeeps
<1>2. ASSUME NEW m \in network, ServerStep(m) PROVE IInv'
  <2>1. Made
    BY ServerFinds
  <2>2. RefundDue \in Nat
    BY <2>1, Amounts
  <2> QED
    BY <1>2, ReplayKeeps, PaymentKeeps, ReturnKeeps, CancelKeeps, RefundKeeps DEF ServerStep
<1> QED
  BY <1>1, <1>2, SaleStepKeeps, ShopStepKeeps, ClientKeeps DEF Next

-----------------------------------------------------------------------------
(* What the ledger promises. *)

\* Every reachable state satisfies the inductive invariant.
THEOREM Invariant == Spec => []IInv
<1>1. Init => IInv
  BY InitHolds
<1>2. IInv /\ [Next]_vars => IInv'
  BY StepKeeps
<1> QED
  BY <1>1, <1>2, PTL DEF Spec

\* What was paid back and what is still due never exceed what was credited and the cents
\* that rounding let the payments overpay, which are at most Slack, and no tender pays back more than it took (returns/service.rs validate_refund).
THEOREM RefundsStayCovered == Spec => []RefundsAreCovered
<1>1. IInv => RefundsAreCovered
  <2> SUFFICES ASSUME IInv, Made
      PROVE  /\ Overpaid <= Slack
             /\ cash + MapThenSumSet(LAMBDA c : restored[c], Card) + RefundDue
                  <= credits + Overpaid
             /\ cash <= paid
             /\ \A c \in Card : restored[c] <= sale.redeemed[c]
    BY DEF RefundsAreCovered
  <2>1. /\ cash <= paid
        /\ \A c \in Card : restored[c] <= sale.redeemed[c]
    BY DEF IInv, TendersAreCovered
  <2>4. Overpaid <= Slack
    BY Amounts DEF Excess
  <2>2. cash + Back + RefundDue <= credits + Overpaid
    <3>1. \A total, tender, pay, back, out, old \in Nat :
            out + back <= old + Excess(pay + tender, total)
            => out + back + Excess(pay - out + tender - back, total - old)
                 <= old + Excess(pay + tender, total)
      BY DEF Excess
    <3> QED
      BY <3>1, Amounts DEF RefundDue
  <2>3. cash + MapThenSumSet(LAMBDA c : restored[c], Card) + RefundDue <= credits + Overpaid
    BY <2>2 DEF Back, SumOf
  <2> QED
    BY <2>1, <2>3, <2>4
<1> QED
  BY <1>1, Invariant, PTL

LEMMA SaleIsExact ==
  ASSUME NEW s \in Sales, NEW l \in Line
  PROVE  LET gross == LimitOf(s)[l] - s.urgent[l] IN
         /\ gross \in 0..s.price[l]
         /\ Sum(s.price) > 0 =>
              /\ (gross - 1) * Sum(s.price) < s.price[l] * s.gross
              /\ s.price[l] * s.gross < (gross + 1) * Sum(s.price)
<1>1. /\ s.price \in [1..Lines -> Nat] /\ s.urgent \in [1..Lines -> Nat]
      /\ s.gross \in Nat /\ s.gross <= Sum(s.price) /\ Lines \in Nat /\ l \in 1..Lines
  BY SaleFields, LinesAre
<1> DEFINE price == s.price  urgent == s.urgent  amount == s.gross
           share == Target(price, amount, l) - Target(price, amount, l - 1)
<1>2. LimitOf(s) = [n \in 1..Lines |->
        Target(price, amount, n) - Target(price, amount, n - 1) + urgent[n]]
  BY <1>1, Limits DEF LimitOf
<1> HIDE DEF price, urgent, amount
<1>3. /\ price \in [1..Lines -> Nat] /\ urgent \in [1..Lines -> Nat]
      /\ amount \in Nat /\ amount <= Sum(price)
  BY <1>1 DEF price, urgent, amount
<1>4. /\ share \in 0..price[l]
      /\ Sum(price) > 0 =>
           /\ (share - 1) * Sum(price) < price[l] * amount
           /\ price[l] * amount < (share + 1) * Sum(price)
  BY <1>1, <1>3, TargetRises
<1>5. LimitOf(s)[l] - urgent[l] = share
  <2>1. LimitOf(s)[l] = share + urgent[l]
    BY <1>1, <1>2
  <2>2. share \in Int /\ urgent[l] \in Nat
    BY <1>1, <1>3, <1>4
  <2> HIDE DEF share
  <2> QED
    BY <2>1, <2>2
<1> HIDE DEF share
<1> QED
  BY <1>4, <1>5 DEF price, urgent, amount

\* Rounding makes and loses nothing: not over the lines (allocate_credits), and not
\* over the parts in which a line comes back (line_credit).
THEOREM CreditsStayExact == Spec => []CreditsAreExact
<1>1. IInv => CreditsAreExact
  <2> SUFFICES ASSUME IInv, Made PROVE CreditsAreExact
    BY DEF CreditsAreExact
  <2>1. sale \in Sales /\ Limit = LimitOf(sale)
    BY Amounts DEF Limit, LimitOf
  <2>2. Sum(Limit) = sale.gross + Sum(sale.urgent) /\ Limit \in [1..Lines -> Nat]
    BY <2>1, SaleAmounts DEF Fees
  <2>3. \A l \in Line : LET gross == Limit[l] - sale.urgent[l] IN
          /\ gross \in 0..sale.price[l]
          /\ Sum(sale.price) > 0 =>
               /\ (gross - 1) * Sum(sale.price) < sale.price[l] * sale.gross
               /\ sale.price[l] * sale.gross < (gross + 1) * Sum(sale.price)
    BY <2>1, SaleIsExact
  <2>4. /\ credits = Sum(credited)
        /\ \A l \in Line : l \notin cancelled =>
             credited[l] = Share(returned[l], sale.sold[l], Limit[l])
    BY DEF IInv, CreditsAreBooked
  <2>5. ASSUME cancelled = {}, \A l \in Line : returned[l] = sale.sold[l]
        PROVE  credits = sale.gross + Sum(sale.urgent)
    <3>1. ASSUME NEW l \in Line PROVE credited[l] = Limit[l]
      <4>1. sale.sold[l] \in Nat \ {0} /\ Limit[l] \in Nat
        BY <2>1, <2>2, LinesAre, SaleFields
      <4>2. credited[l] = Share(sale.sold[l], sale.sold[l], Limit[l])
        BY <2>4, <2>5
      <4> QED
        BY <4>1, <4>2, ShareEnds
    <3>2. credited = Limit
      BY <2>2, <3>1, LinesAre DEF IInv, TypeOK
    <3> QED
      BY <2>2, <2>4, <3>2
  <2> QED
    BY <2>2, <2>3, <2>4, <2>5 DEF CreditsAreExact
<1> QED
  BY <1>1, Invariant, PTL

\* What a step may do to the money of a sale that stays.
Moves == Made /\ Held' # Held /\ sale' = sale =>
           \/ Held < Owed /\ Held < Held' /\ Held' <= Owed' + 1
           \/ Owed' <= Held' /\ Held' < Held

\* A payment of no more than a cent above what is due.
LEMMA PaymentMoves ==
  ASSUME IInv, Made, NEW amount \in Nat, amount <= BalanceDue + 1,
         amount # 0 => BalanceDue > 0, paid' = paid + amount,
         UNCHANGED <<sale, credits, refunds>>
  PROVE  Moves
<1>1. \A held, owed \in Int :
        /\ amount <= Excess(owed, held) + 1 /\ held + amount # held
        /\ amount # 0 => Excess(owed, held) > 0
        => held < owed /\ held < held + amount /\ held + amount <= owed + 1
  BY DEF Excess
<1>2. Held' = Held + amount /\ Owed' = Owed
  <2>1. Back' = Back /\ cash' = cash /\ sale'.tender = sale.tender
        /\ Total(sale)' = Total(sale)
    BY DEF refunds, Back
  <2>2. \A p, c, r, b \in Nat : (p + amount) - c + r - b = (p - c + r - b) + amount
    OBVIOUS
  <2> QED
    BY <2>1, <2>2, Amounts, BalanceNext
<1> QED
  BY <1>1, <1>2, Amounts DEF Moves, BalanceDue

LEMMA PayMoves ==
  ASSUME IInv, Made, NEW amount \in 1..BalanceDue, Pay(amount),
         UNCHANGED <<sale, credits, refunds>>
  PROVE  Moves
<1>1. BalanceDue \in Nat /\ amount \in Nat /\ amount + 1 \in Nat /\ BalanceDue > 0 /\ paid \in Nat
      /\ amount <= BalanceDue + 1 /\ amount + 1 <= BalanceDue + 1
  BY Amounts
<1>2. paid' = paid + amount \/ paid' = paid + (amount + 1)
  BY <1>1, PayFits
<1> QED
  BY <1>1, <1>2, PaymentMoves

\* Paying out what is over.
LEMMA PayOutMoves ==
  ASSUME IInv, Made, UNCHANGED <<sale, paid>>, credits' \in Nat,
         NEW out \in Nat, out <= Excess(Held, Total(sale) - credits'),
         cash' \in Nat, Back' \in Nat, cash' + Back' = cash + Back + out
  PROVE  Moves
<1>1. \A held, owed \in Int : out <= Excess(held, owed) /\ held - out # held
        => owed <= held - out /\ held - out < held
  BY DEF Excess
<1>2. Held' = Held - out /\ Owed' = Total(sale) - credits'
  <2>1. sale'.tender = sale.tender /\ Total(sale)' = Total(sale)
    OBVIOUS
  <2>2. \A p, c, r, b, c2, b2 \in Nat :
          c2 + b2 = c + b + out => p - c2 + r - b2 = (p - c + r - b) - out
    OBVIOUS
  <2> QED
    BY <2>1, <2>2, Amounts, BalanceNext
<1>3. Held \in Int /\ Total(sale) - credits' \in Int
  BY Amounts
<1> QED
  BY <1>1, <1>2, <1>3 DEF Moves

LEMMA NothingMoves ==
  ASSUME UNCHANGED <<paid, refunds>>
  PROVE  Moves
<1>1. sale' = sale => Held' = Held
  BY BalanceNext, Balance DEF refunds, Back
<1> QED
  BY <1>1 DEF Moves

LEMMA CreditMovesOut ==
  ASSUME IInv, Made, NEW m, NEW quantity, NEW amount \in [1..Lines -> Nat],
         Credit(m, quantity, amount)
  PROVE  Moves
<1> DEFINE due == Excess(Held, Owed - Sum(amount))
<1>1. /\ Sum(amount) \in Nat /\ credits' = credits + Sum(amount)
      /\ cash' \in Nat /\ restored' \in [Card -> Nat]
      /\ UNCHANGED refunds \/ cash' + Back' = cash + Back + due
  BY CreditMoves
<1>2. UNCHANGED <<sale, paid>>
  BY DEF Credit, goods
<1>3. Back' \in Nat
  <2>1. SumOf(restored', Card) \in Nat
    BY <1>1, LinesAre, SumIsNat
  <2> QED
    BY <2>1 DEF Back
<1>4. credits \in Nat /\ Total(sale) \in Nat /\ Owed = Total(sale) - credits /\ Held \in Int
  BY Amounts
<1>5. credits' \in Nat /\ Owed - Sum(amount) = Total(sale) - credits'
      /\ Owed - Sum(amount) \in Int
  BY <1>1, <1>4
<1>6. due \in Nat /\ due = Excess(Held, Total(sale) - credits')
  BY <1>4, <1>5 DEF Excess
<1> HIDE DEF due
<1>7. due <= Excess(Held, Total(sale) - credits')
  BY <1>6
<1> QED
  BY <1>1, <1>2, <1>3, <1>5, <1>6, <1>7, PayOutMoves, NothingMoves

LEMMA StepMoves ==
  ASSUME IInv, [Next]_vars
  PROVE  Moves
<1> USE DEF adjustments, goods
<1>1. CASE UNCHANGED vars
  BY <1>1, NothingMoves DEF vars
<1>2. CASE SaleStep
  <2>1. ASSUME NEW s \in Sales, UpdateInvoice(s) PROVE Moves
    BY <2>1, NothingMoves DEF UpdateInvoice
  <2>2. ASSUME NEW s \in Sales, NEW n, NEW counted, CreateInvoice(s, n, counted) PROVE Moves
    BY <2>2 DEF CreateInvoice, Moves
  <2> QED
    BY <1>2, <2>1, <2>2 DEF SaleStep
<1>3. CASE ShopStep
  <2>0. Made /\ BalanceDue \in Nat
    BY <1>3, Amounts DEF ShopStep
  <2>1. ASSUME NEW g, NEW w, Produce(g, w) PROVE Moves
    BY <2>1, NothingMoves DEF Produce
  <2>2. ASSUME NEW g \in Garment, NEW amount \in 0..BalanceDue, CollectOrder(g, amount)
        PROVE  Moves
    <3>1. CASE amount > 0
      <4>1. amount \in 1..BalanceDue /\ Pay(amount) /\ UNCHANGED <<sale, credits, refunds>>
        BY <2>0, <2>2, <3>1 DEF CollectOrder
      <4> QED
        BY <2>0, <4>1, PayMoves
    <3>2. CASE ~(amount > 0)
      BY <2>2, <3>2, NothingMoves DEF CollectOrder
    <3> QED
      BY <3>1, <3>2
  <2>3. ASSUME CollectInvoice PROVE Moves
    BY <2>0, <2>3, PaymentMoves DEF CollectInvoice
  <2> QED
    BY <1>3, <2>1, <2>2, <2>3 DEF ShopStep
<1>4. ASSUME NEW d \in Client, ClientStep(d) PROVE Moves
  BY <1>4, NothingMoves DEF ClientStep, Open, Send, Retry, Close
<1>5. ASSUME NEW m \in network, ServerStep(m) PROVE Moves
  <2>0. /\ Made /\ BalanceDue \in Nat /\ RefundDue \in Nat /\ credits \in Nat
        /\ RefundDue = Excess(Held, Total(sale) - credits)
        /\ cash \in Nat /\ Back \in Nat /\ Line = 1..Lines
    BY ServerFinds, Amounts, LinesAre DEF RefundDue
  <2>1. ASSUME Replay(m) \/ Refuse(m) PROVE Moves
    BY <2>1, NothingMoves DEF Replay, Refuse
  <2>2. ASSUME NEW amount \in 1..BalanceDue, RecordPayment(m, amount) PROVE Moves
    BY <2>0, <2>2, PayMoves DEF RecordPayment
  <2>3. ASSUME NEW quantity \in [Line -> 0..MaxQty], CreateReturn(m, quantity) PROVE Moves
    <3> DEFINE amount == [l \in Line |->
                 IF quantity[l] = 0 THEN 0
                 ELSE PartCredit(Limit[l], sale.sold[l], credited[l], returned[l], quantity[l])]
    <3>1. /\ \A l \in Line : quantity[l] > 0 => Returnable(l, quantity[l])
          /\ Credit(m, quantity, amount)
      BY <2>3 DEF CreateReturn
    <3>2. \A l \in Line : amount[l] \in Nat
      BY <2>0, <3>1, PartsFit
    <3>3. amount \in [1..Lines -> Nat]
      BY <2>0, <3>2
    <3> HIDE DEF amount
    <3> QED
      BY <2>0, <3>1, <3>3, CreditMovesOut
  <2>4. ASSUME NEW g \in Garment, NEW charge \in 0..Limit[g], CancelOrder(m, g, charge)
        PROVE  Moves
    <3> DEFINE quantity == [l \in Line |-> IF l = g THEN 1 ELSE 0]
               amount == [l \in Line |-> IF l = g THEN Limit[g] - charge ELSE 0]
    <3>1. Credit(m, quantity, amount)
      BY <2>4 DEF CancelOrder
    <3>2. Limit[g] \in Nat
      BY <2>0, Amounts, SaleAmounts, LinesAre DEF Limit, LimitOf
    <3>3. Limit[g] - charge \in Nat
      BY <3>2
    <3>4. amount \in [1..Lines -> Nat]
      BY <2>0, <3>3
    <3> HIDE DEF amount, quantity
    <3> QED
      BY <2>0, <3>1, <3>4, CreditMovesOut
  <2>5. ASSUME NEW external \in 0..RefundDue, NEW cards \in [Card -> 0..RefundDue],
               CreateRefund(m, external, cards)
        PROVE  Moves
    <3>1. external \in Nat /\ cards \in [Card -> Nat]
          /\ external + SumOf(cards, Card) <= RefundDue
      BY <2>0, <2>5 DEF CreateRefund, SumOf
    <3>2. credits' = credits /\ credits <= credits /\ UNCHANGED <<sale, paid>>
          /\ PayOut(external, cards) /\ cash' = cash + external
      BY <2>0, <2>5 DEF CreateRefund, PayOut
    <3>3. /\ cash' \in Nat /\ Back' = Back + SumOf(cards, Card) /\ SumOf(cards, Card) \in Nat
      BY <2>0, <3>1, <3>2, PayOutFits
    <3> DEFINE out == external + SumOf(cards, Card)
    <3>4. out \in Nat /\ out <= Excess(Held, Total(sale) - credits')
          /\ Back' \in Nat /\ cash' + Back' = cash + Back + out
      BY <2>0, <3>1, <3>2, <3>3
    <3> HIDE DEF out
    <3> QED
      BY <2>0, <3>2, <3>3, <3>4, PayOutMoves
  <2> QED
    BY <1>5, <2>1, <2>2, <2>3, <2>4, <2>5 DEF ServerStep
<1> QED
  BY <1>1, <1>2, <1>3, <1>4, <1>5 DEF Next

\* As long as the sale stays, money is taken only while something is owed and passes it
\* by a cent at most, and is paid back only while something is over and never past it.
THEOREM MoneyOnlySettles == Spec => MoneyMovesToBalance
<1>1. IInv /\ [Next]_vars =>
        [Made /\ Held' # Held /\ sale' = sale =>
           \/ Held < Owed /\ Held < Held' /\ Held' <= Owed' + 1
           \/ Owed' <= Held' /\ Held' < Held]_vars
  BY StepMoves DEF Moves
<1> QED
  BY <1>1, Invariant, PTL DEF Spec, MoneyMovesToBalance

\* What a step may do to a garment that is closed.
Rests(g) == /\ Closed(g)' /\ credited'[g] = credited[g]
            /\ status'[g] = status[g] /\ work'[g] = work[g]

LEMMA ClosedRests ==
  ASSUME IInv, [Next]_vars, Made, NEW g \in Garment, Closed(g)
  PROVE  Rests(g)
<1>0. /\ g \in Line /\ returned[g] \in Nat /\ credited[g] \in Nat /\ returned[g] > 0
      /\ g \notin cancelled => status[g] = "collected"
      /\ status \in [Garment -> {"open", "collected"}]
      /\ work \in [Garment -> {"none", "touched", "started"}]
      /\ Line = 1..Lines
  BY LinesAre DEF IInv, TypeOK, ClosedHow, Closed
<1> USE DEF adjustments
<1>a. ASSUME UNCHANGED <<adjustments, status, work>> PROVE Rests(g)
  BY <1>0, <1>a DEF Rests, Closed
<1>1. CASE UNCHANGED vars
  BY <1>1, <1>a DEF vars, goods
<1>2. CASE SaleStep
  BY <1>2, <1>a DEF SaleStep, UpdateInvoice, CreateInvoice
<1>3. CASE ShopStep
  <2>1. ASSUME NEW h \in Garment, NEW w, Produce(h, w) PROVE Rests(g)
    BY <1>0, <2>1 DEF Produce, Active, Rests, Closed
  <2>2. ASSUME NEW h \in Garment, NEW amount, CollectOrder(h, amount) PROVE Rests(g)
    BY <1>0, <2>2 DEF CollectOrder, Active, Rests, Closed
  <2>3. ASSUME CollectInvoice PROVE Rests(g)
    BY <1>0, <2>3 DEF CollectInvoice, HandedOut, Rests, Closed
  <2> QED
    BY <1>3, <2>1, <2>2, <2>3 DEF ShopStep
<1>4. ASSUME NEW d \in Client, ClientStep(d) PROVE Rests(g)
  BY <1>4, <1>a DEF ClientStep, Open, Send, Retry, Close, goods
<1>5. ASSUME NEW m \in network, ServerStep(m) PROVE Rests(g)
  <2>c. ASSUME NEW quantity, NEW amount, Credit(m, quantity, amount),
               quantity[g] = 0, amount[g] = 0
        PROVE  Rests(g)
    <3>1. /\ returned'[g] = returned[g] + quantity[g] /\ credited'[g] = credited[g] + amount[g]
          /\ status' = status /\ work' = work
      BY <1>0, <2>c DEF Credit, goods
    <3> QED
      BY <1>0, <2>c, <3>1 DEF Rests, Closed
  <2>1. ASSUME Replay(m) \/ Refuse(m) PROVE Rests(g)
    BY <1>a, <2>1 DEF Replay, Refuse, goods
  <2>2. ASSUME NEW amount, RecordPayment(m, amount) PROVE Rests(g)
    BY <1>a, <2>2 DEF RecordPayment, goods
  <2>3. ASSUME NEW quantity \in [Line -> 0..MaxQty], CreateReturn(m, quantity) PROVE Rests(g)
    <3> DEFINE amount == [l \in Line |->
                 IF quantity[l] = 0 THEN 0
                 ELSE PartCredit(Limit[l], sale.sold[l], credited[l], returned[l], quantity[l])]
    <3>1. quantity[g] \in Nat /\ (quantity[g] > 0 => Active(g))
      BY <1>0, <2>3, LinesAre DEF CreateReturn, Returnable
    <3>2. quantity[g] = 0
      BY <3>1 DEF Active
    <3>3. amount[g] = 0 /\ Credit(m, quantity, amount)
      BY <1>0, <2>3, <3>2 DEF CreateReturn
    <3> HIDE DEF amount
    <3> QED
      BY <2>c, <3>2, <3>3
  <2>4. ASSUME NEW h \in Garment, NEW charge, CancelOrder(m, h, charge) PROVE Rests(g)
    <3> DEFINE quantity == [l \in Line |-> IF l = h THEN 1 ELSE 0]
               amount == [l \in Line |-> IF l = h THEN Limit[h] - charge ELSE 0]
    <3>1. h # g /\ Credit(m, quantity, amount)
      BY <2>4 DEF CancelOrder, Active
    <3>2. quantity[g] = 0 /\ amount[g] = 0
      BY <1>0, <3>1
    <3> HIDE DEF amount, quantity
    <3> QED
      BY <2>c, <3>1, <3>2
  <2>5. ASSUME NEW external, NEW cards, CreateRefund(m, external, cards) PROVE Rests(g)
    BY <1>a, <2>5 DEF CreateRefund, goods
  <2> QED
    BY <1>5, <2>1, <2>2, <2>3, <2>4, <2>5 DEF ServerStep
<1> QED
  BY <1>1, <1>2, <1>3, <1>4, <1>5 DEF Next

\* Nothing touches a garment that was cancelled or returned.
THEOREM ClosedGarmentsRest == Spec => ClosedGarmentsStayClosed
<1>1. IInv /\ [Next]_vars =>
        [Made => \A g \in Garment : Closed(g) =>
           /\ Closed(g)' /\ credited'[g] = credited[g]
           /\ status'[g] = status[g] /\ work'[g] = work[g]]_vars
  BY ClosedRests DEF Rests
<1> QED
  BY <1>1, Invariant, PTL DEF Spec, ClosedGarmentsStayClosed

-----------------------------------------------------------------------------
(* Answers. *)

\* What the dialog d may be told by a step.
Told(d) ==
  /\ client'[d].pc = "ok" =>
       recorded'[client[d].message.table][client[d].message.id] = client[d].message.content
  /\ client'[d].pc = "refused" =>
       recorded[client[d].message.table][client[d].message.id] # client[d].message.content

LEMMA AnswerReaches ==
  ASSUME client \in [Client -> Dialog], NEW d \in Client, client[d].pc = "waiting",
         NEW m, NEW a \in {"ok", "refused"}, Answer(m, a)
  PROVE  client'[d].pc = "waiting" \/ (client'[d].pc = a /\ client[d].message = m)
<1>1. CASE UNCHANGED client
  BY <1>1
<1>2. ASSUME NEW e \in Client, client[e].message = m, client' = [client EXCEPT ![e].pc = a]
      PROVE  client'[d].pc = "waiting" \/ (client'[d].pc = a /\ client[d].message = m)
  <2>1. CASE e = d
    <3> DEFINE y == client[d]
    <3>1. y \in Dialog /\ client'[d] = [y EXCEPT !.pc = a]
      BY <1>2, <2>1
    <3> HIDE DEF y
    <3>2. [y EXCEPT !.pc = a].pc = a
      BY <3>1 DEF Dialog
    <3> QED
      BY <1>2, <2>1, <3>1, <3>2
  <2>2. CASE e # d
    BY <1>2, <2>2
  <2> QED
    BY <2>1, <2>2
<1> QED
  BY <1>1, <1>2 DEF Answer

LEMMA StepTells ==
  ASSUME IInv, [Next]_vars, NEW d \in Client, client[d].pc = "waiting"
  PROVE  Told(d)
<1>0. client \in [Client -> Dialog]
  BY DEF IInv, TypeOK
<1>a. client'[d] = client[d] => Told(d)
  BY DEF Told
<1>o. (client'[d].pc \notin {"ok", "refused"}) => Told(d)
  BY DEF Told
<1>1. CASE UNCHANGED vars \/ SaleStep \/ ShopStep
  BY <1>1, <1>a DEF vars, requests, SaleStep, ShopStep, UpdateInvoice, CreateInvoice,
                    Produce, CollectOrder, CollectInvoice
<1>2. ASSUME NEW e \in Client, ClientStep(e) PROVE Told(d)
  <2>1. ASSUME NEW m, Open(e, m) PROVE Told(d)
    BY <1>0, <1>a, <2>1 DEF Open
  <2>2. ASSUME Send(e) \/ Close(e) PROVE Told(d)
    BY <1>0, <1>a, <2>2 DEF Send, Close
  <2>3. ASSUME NEW content, Retry(e, content) PROVE Told(d)
    BY <1>0, <1>a, <1>o, <2>3 DEF Retry
  <2> QED
    BY <1>2, <2>1, <2>2, <2>3 DEF ClientStep
<1>3. ASSUME NEW m \in network, ServerStep(m) PROVE Told(d)
  <2>1. ASSUME Record(m) PROVE Told(d)
    <3>1. client'[d].pc = "waiting" \/ (client'[d].pc = "ok" /\ client[d].message = m)
      BY <1>0, <2>1, AnswerReaches DEF Record
    <3>2. recorded'[m.table][m.id] = m.content
      <4>1. recorded \in [Table -> [Request -> Content \cup {None}]] /\ m \in Message
        BY DEF IInv, TypeOK
      <4>2. m.table \in Table /\ m.id \in Request
        BY <4>1, MessageFields
      <4> QED
        BY <2>1, <4>1, <4>2 DEF Record
    <3> QED
      BY <3>1, <3>2 DEF Told
  <2>2. ASSUME Replay(m) PROVE Told(d)
    <3>1. client'[d].pc = "waiting" \/ (client'[d].pc = "ok" /\ client[d].message = m)
      BY <1>0, <2>2, AnswerReaches DEF Replay
    <3> QED
      BY <2>2, <3>1 DEF Told, Replay, Stored
  <2>3. ASSUME Refuse(m) PROVE Told(d)
    <3>1. client'[d].pc = "waiting" \/ (client'[d].pc = "refused" /\ client[d].message = m)
      BY <1>0, <2>3, AnswerReaches DEF Refuse
    <3> QED
      BY <2>3, <3>1 DEF Told, Refuse, Refused, Stored
  <2> QED
    BY <1>3, <2>1, <2>2, <2>3
    DEF ServerStep, RecordPayment, CreateReturn, CancelOrder, Credit, CreateRefund
<1> QED
  BY <1>1, <1>2, <1>3 DEF Next

\* A dialog is told the truth about its request, however often it was sent.
THEOREM AnswersStayTrue == Spec => AnswersAreTrue
<1>1. IInv /\ [Next]_vars =>
        [\A d \in Client : LET m == client[d].message IN
           client[d].pc = "waiting" =>
             /\ client'[d].pc = "ok" => recorded'[m.table][m.id] = m.content
             /\ client'[d].pc = "refused" => recorded[m.table][m.id] # m.content]_vars
  BY StepTells DEF Told
<1> QED
  BY <1>1, Invariant, PTL DEF Spec, AnswersAreTrue

=============================================================================
