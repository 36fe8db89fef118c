----------------------------- MODULE Stock_proofs -----------------------------
(***************************************************************************)
(* What holds of shop fabric for any number of materials, locations,       *)
(* invoices and desks: no location is oversold, fabric is neither made nor *)
(* lost, transfers do not wait for transfers, and transfers and returns    *)
(* arrive where stock is held.                                             *)
(*                                                                         *)
(* The inductive invariant says of every open transaction what it owns and *)
(* owes: the rows it changed are its own and it changed no other; a        *)
(* transfer or a return has shared every shelf it fills by then; and what  *)
(* it did and will do to a material is what its invoice will have given    *)
(* back or taken when it commits.                                          *)
(***************************************************************************)
EXTENDS Stock, SumTheorems

\* What t sees of the rows it changed is not negative.
Covered(t, s) == \A r \in t.locked : s[r] + t.delta[r] >= 0

-----------------------------------------------------------------------------
(* Amounts of a material. *)

LEMMA Finite == IsFiniteSet(Location) /\ IsFiniteSet(Invoice) /\ None \notin Invoice
BY StockAssumption

LEMMA SequencesAreFinite ==
    ASSUME NEW S, NEW q \in Seq(S)
    PROVE  DOMAIN q = 1..Len(q) /\ Len(q) \in Nat /\ IsFiniteSet(DOMAIN q)
<1>1. DOMAIN q = 1..Len(q) /\ Len(q) \in Nat
  OBVIOUS
<1>2. IsFiniteSet(1..Len(q))
  BY <1>1, FS_Interval
<1> QED
  BY <1>1, <1>2

LEMMA TotalIs ==
    ASSUME NEW f, NEW m
    PROVE  TotalOf(f, m) = SumOf([l \in Location |-> f[<<m, l>>]], Location)
BY DEF TotalOf, SumOver, SumOf

LEMMA PendingIs ==
    ASSUME NEW todo, NEW m
    PROVE  Pending(todo, m) = SumOf([k \in DOMAIN todo |-> Effect(todo[k], m)], DOMAIN todo)
BY DEF Pending, SumOver, SumOf

\* What the line k of an invoice has taken and not given back.
Gone(m, these) == [k \in DOMAIN these |-> IF these[k].row[1] = m
                                          THEN these[k].quantity - these[k].restocked ELSE 0]

LEMMA TakenIs ==
    ASSUME NEW m, NEW these
    PROVE  Taken(m, these) = IF these = None THEN 0 ELSE SumOf(Gone(m, these), DOMAIN these)
BY DEF Taken, Gone, SumOver, SumOf

LEMMA TotalIsInt ==
    ASSUME NEW f \in [Row -> Int], NEW m \in Material
    PROVE  TotalOf(f, m) \in Int
<1>1. Numbers([l \in Location |-> f[<<m, l>>]], Location)
  BY DEF Numbers, Row
<1> QED
  BY <1>1, Finite, TotalIs, SumIsInt

LEMMA TotalAdds ==
    ASSUME NEW f \in [Row -> Int], NEW g \in [Row -> Int], NEW m \in Material,
           NEW h, \A r \in Row : h[r] = f[r] + g[r]
    PROVE  TotalOf(h, m) = TotalOf(f, m) + TotalOf(g, m)
<1> DEFINE F == [l \in Location |-> f[<<m, l>>]]
           G == [l \in Location |-> g[<<m, l>>]]
           H == [l \in Location |-> h[<<m, l>>]]
<1>1. Numbers(F, Location) /\ Numbers(G, Location)
      /\ \A l \in Location : H[l] = F[l] + G[l]
  BY DEF Numbers, Row
<1> HIDE DEF F, G, H
<1>2. SumOf(H, Location) = SumOf(F, Location) + SumOf(G, Location)
  BY <1>1, Finite, SumAdds
<1> QED
  BY <1>2, TotalIs DEF F, G, H

LEMMA TotalOfNothing ==
    ASSUME NEW f, \A r \in Row : f[r] = 0, NEW m \in Material
    PROVE  TotalOf(f, m) = 0
<1>1. \A l \in Location : [k \in Location |-> f[<<m, k>>]][l] = 0
  BY DEF Row
<1> QED
  BY <1>1, Finite, TotalIs, SumOfNothing

\* A change of one row changes the total of its material by as much.
LEMMA TotalChanges ==
    ASSUME NEW f \in [Row -> Int], NEW r \in Row, NEW n \in Int, NEW m \in Material
    PROVE  TotalOf([f EXCEPT ![r] = f[r] + n], m) = TotalOf(f, m) + (IF r[1] = m THEN n ELSE 0)
<1> DEFINE g == [q \in Row |-> IF q = r THEN n ELSE 0]
           h == [f EXCEPT ![r] = f[r] + n]
<1>1. g \in [Row -> Int] /\ \A q \in Row : h[q] = f[q] + g[q]
  OBVIOUS
<1>2. TotalOf(h, m) = TotalOf(f, m) + TotalOf(g, m)
  <2> HIDE DEF g, h
  <2> QED
    BY <1>1, TotalAdds
<1> DEFINE G == [l \in Location |-> g[<<m, l>>]]
<1>3. CASE r[1] = m
  <2>1. r = <<m, r[2]>> /\ r[2] \in Location
    BY <1>3 DEF Row
  <2>2. G[r[2]] = n /\ \A l \in Location \ {r[2]} : G[l] = 0
    BY <2>1 DEF Row
  <2>3. Numbers(G, Location)
    BY <2>1, <2>2 DEF Numbers
  <2> HIDE DEF G
  <2>4. SumOf(G, Location) = G[r[2]] + SumOf(G, Location \ {r[2]})
    BY <2>1, <2>3, Finite, SumTakes
  <2>5. SumOf(G, Location \ {r[2]}) = 0
    <3>1. IsFiniteSet(Location \ {r[2]})
      BY Finite, FS_Difference
    <3> QED
      BY <2>2, <3>1, SumOfNothing
  <2>6. TotalOf(g, m) = n
    BY <2>2, <2>4, <2>5, TotalIs DEF G
  <2> QED
    BY <1>2, <1>3, <2>6
<1>4. CASE r[1] # m
  <2>1. \A l \in Location : G[l] = 0
    BY <1>4 DEF Row
  <2> HIDE DEF G
  <2>2. SumOf(G, Location) = 0
    BY <2>1, Finite, SumOfNothing
  <2>3. TotalOf(g, m) = 0
    BY <2>2, TotalIs DEF G
  <2> QED
    BY <1>2, <1>4, <2>3
<1> QED
  BY <1>3, <1>4

LEMMA EffectIsInt ==
    ASSUME NEW s \in Step, NEW m
    PROVE  Effect(s, m) \in Int
BY DEF Step, Effect

\* The first statement does its part, the others do the rest.
LEMMA PendingFalls ==
    ASSUME NEW todo \in Seq(Step), todo # <<>>, NEW m
    PROVE  /\ Pending(todo, m) = Effect(Head(todo), m) + Pending(Tail(todo), m)
           /\ Pending(Tail(todo), m) \in Int /\ Effect(Head(todo), m) \in Int
<1> DEFINE n == Len(todo)
           F == [k \in 1..n |-> Effect(todo[k], m)]
           G == [k \in 1..(n - 1) |-> Effect(Tail(todo)[k], m)]
           h == [k \in 1..(n - 1) |-> k + 1]
<1>1. n \in Nat \ {0} /\ DOMAIN todo = 1..n /\ DOMAIN Tail(todo) = 1..(n - 1)
      /\ Head(todo) = todo[1] /\ \A k \in 1..(n - 1) : Tail(todo)[k] = todo[k + 1]
  OBVIOUS
<1>2. Numbers(F, 1..n) /\ IsFiniteSet(1..n) /\ IsFiniteSet(1..(n - 1))
  <2>1. \A k \in 1..n : todo[k] \in Step
    BY <1>1
  <2>2. n - 1 \in Int /\ n \in Int
    BY <1>1
  <2> QED
    BY <2>1, <2>2, EffectIsInt, FS_Interval DEF Numbers
<1>3. F[1] = Effect(Head(todo), m) /\ F[1] \in Int /\ 1 \in 1..n
  BY <1>1, <1>2 DEF Numbers
<1>4. /\ h \in [1..(n - 1) -> (1..n) \ {1}]
      /\ \A x, y \in 1..(n - 1) : h[x] = h[y] => x = y
      /\ \A z \in (1..n) \ {1} : z - 1 \in 1..(n - 1) /\ h[z - 1] = z
      /\ \A x \in 1..(n - 1) : G[x] = F[h[x]]
  BY <1>1
<1>5. Numbers(F, (1..n) \ {1})
  BY <1>2 DEF Numbers
<1> HIDE DEF F, G, h, n
<1>6. SumOf(F, 1..n) = F[1] + SumOf(F, (1..n) \ {1})
  BY <1>2, <1>3, SumTakes
<1>7. SumOf(G, 1..(n - 1)) = SumOf(F, (1..n) \ {1})
  <2> DEFINE S == 1..(n - 1)  T == (1..n) \ {1}
  <2>1. h \in Bijection(S, T)
    BY <1>4 DEF Bijection, Injection, Surjection, IsInjective
  <2>2. IsFiniteSet(S) /\ Numbers(F, T) /\ \A x \in S : G[x] = F[h[x]]
    BY <1>2, <1>4, <1>5
  <2> HIDE DEF S, T
  <2>3. SumOf(G, S) = SumOf(F, T)
    BY <2>1, <2>2, SumRenames
  <2> QED
    BY <2>3 DEF S, T
<1>8. SumOf(F, (1..n) \ {1}) \in Int
  BY <1>2, <1>5, FS_Difference, SumIsInt
<1>9. Pending(todo, m) = SumOf(F, 1..n) /\ Pending(Tail(todo), m) = SumOf(G, 1..(n - 1))
  BY <1>1, PendingIs DEF F, G
<1> QED
  BY <1>3, <1>6, <1>7, <1>8, <1>9

LEMMA NothingPending == ASSUME NEW m PROVE Pending(<<>>, m) = 0
<1>1. DOMAIN <<>> = {}
  OBVIOUS
<1> QED
  BY <1>1, PendingIs, SumStart

LEMMA PendingIsInt ==
    ASSUME NEW todo \in Seq(Step), NEW m
    PROVE  Pending(todo, m) \in Int
<1>1. Numbers([k \in DOMAIN todo |-> Effect(todo[k], m)], DOMAIN todo)
  BY EffectIsInt DEF Numbers
<1> QED
  BY <1>1, SequencesAreFinite, PendingIs, SumIsInt

LEMMA PendingJoins ==
    ASSUME NEW a \in Seq(Step), NEW b \in Seq(Step), NEW m
    PROVE  Pending(a \o b, m) = Pending(a, m) + Pending(b, m)
<1> DEFINE x == Len(a)  y == Len(b)  ab == a \o b
           S == 1..x  T == (x + 1)..(x + y)  U == 1..y
           A == [k \in DOMAIN a |-> Effect(a[k], m)]
           B == [k \in DOMAIN b |-> Effect(b[k], m)]
           C == [k \in DOMAIN ab |-> Effect(ab[k], m)]
           h == [k \in U |-> x + k]
<1>1. /\ x \in Nat /\ y \in Nat /\ ab \in Seq(Step) /\ Len(ab) = x + y
      /\ DOMAIN a = S /\ DOMAIN b = U /\ DOMAIN ab = S \cup T /\ S \cap T = {}
      /\ \A k \in S : ab[k] = a[k]
      /\ \A k \in U : ab[x + k] = b[k] /\ x + k \in T
      /\ \A k \in T : k - x \in U /\ x + (k - x) = k
  OBVIOUS
<1> HIDE DEF ab, x, y
<1>2. IsFiniteSet(S) /\ IsFiniteSet(T) /\ IsFiniteSet(U)
  <2>1. x + 1 \in Int /\ x + y \in Int /\ 1 \in Int /\ x \in Int /\ y \in Int
    BY <1>1
  <2> QED
    BY <2>1, FS_Interval
<1>3. Numbers(C, S \cup T) /\ Numbers(C, T) /\ Numbers(A, S)
  <2>1. \A k \in S \cup T : ab[k] \in Step
    BY <1>1
  <2>2. \A k \in S : a[k] \in Step
    BY <1>1
  <2> QED
    BY <1>1, <2>1, <2>2, EffectIsInt DEF Numbers
<1>4. \A k \in S : A[k] = C[k]
  BY <1>1
<1>5. h \in Bijection(U, T) /\ \A k \in U : B[k] = C[h[k]]
  <2>1. h \in [U -> T] /\ \A k \in U : h[k] = x + k
    BY <1>1
  <2>2. \A k \in U : B[k] = C[x + k]
    BY <1>1
  <2>3. \A k, l \in U : x + k = x + l => k = l
    BY <1>1
  <2>4. \A z \in T : \E k \in U : z = x + k
    BY <1>1
  <2> HIDE DEF h, U, T, B, C
  <2>5. h \in Bijection(U, T)
    BY <2>1, <2>3, <2>4 DEF Bijection, Injection, Surjection, IsInjective
  <2> QED
    BY <1>1, <2>1, <2>2, <2>5
<1> HIDE DEF S, T, U, A, B, C, h
<1>6. SumOf(C, S \cup T) = SumOf(C, S) + SumOf(C, T)
  BY <1>1, <1>2, <1>3, SumSplits
<1>7. SumOf(A, S) = SumOf(C, S)
  BY <1>2, <1>3, <1>4, SumSame
<1>8. SumOf(B, U) = SumOf(C, T)
  BY <1>2, <1>3, <1>5, SumRenames
<1> QED
  BY <1>1, <1>6, <1>7, <1>8, PendingIs DEF A, B, C, ab

\* Steps that look or share change nothing.
LEMMA LooksChangeNothing ==
    ASSUME NEW todo \in Seq(Step), NEW m, \A k \in DOMAIN todo : todo[k].kind = "share"
    PROVE  Pending(todo, m) = 0
<1>1. \A k \in DOMAIN todo : Effect(todo[k], m) = 0
  BY DEF Effect
<1>2. \A k \in DOMAIN todo : [j \in DOMAIN todo |-> Effect(todo[j], m)][k] = 0
  BY <1>1
<1> QED
  BY <1>2, PendingIs, SequencesAreFinite, SumOfNothing

-----------------------------------------------------------------------------

LEMMA InitIInv == Init => IInv
<1> SUFFICES ASSUME Init PROVE IInv
  OBVIOUS
<1>1. TypeOK /\ Open = {}
  BY DEF Init, TypeOK, Open
<1>2. ASSUME NEW m \in Material
      PROVE  received[m] = TotalOf(stock, m) + SumOver([i \in Invoice |-> Taken(m, lines[i])])
  <2>1. TotalOf(stock, m) = 0
    BY TotalOfNothing DEF Init
  <2> DEFINE F == [i \in Invoice |-> Taken(m, lines[i])]
  <2>2. \A i \in Invoice : F[i] = 0
    BY TakenIs DEF Init
  <2>3. SumOver(F) = SumOf(F, Invoice)
    BY DEF SumOver, SumOf
  <2> HIDE DEF F
  <2>4. SumOver(F) = 0
    BY <2>2, <2>3, Finite, SumOfNothing
  <2> QED
    BY <2>1, <2>4 DEF F, Init
<1>3. StockIsAccounted
  BY <1>2 DEF StockIsAccounted, Sound, Init
<1> QED
  BY <1>1, <1>3 DEF IInv

LEMMA AccountsStay ==
    ASSUME StockIsAccounted, UNCHANGED <<stock, received, lines>>
    PROVE  StockIsAccounted'
BY DEF StockIsAccounted

\* A transaction that opens or runs a statement leaves the others alone.
LEMMA OneMoves ==
    ASSUME IInv, NEW d \in Desk, NEW t \in Transaction,
           work' = [work EXCEPT ![d] = t], UNCHANGED <<usable, stock, received, lines>>,
           Clean(t), OwnRows(t), Held(t, usable), Covered(t, stock), Balanced(t),
           \A e \in Open \ {d} : Apart(t, work[e])
    PROVE  IInv'
<1>1. work' \in [Desk -> Transaction \cup {Idle}]
  BY DEF IInv, TypeOK
<1>2. /\ work'[d] = t
      /\ \A e \in Desk \ {d} : work'[e] = work[e] /\ (e \in Open' <=> e \in Open)
  BY DEF IInv, TypeOK, Open
<1>3. \A e \in Open \ {d} : Apart(work[e], t)
  BY DEF Apart
<1>4. TypeOK'
  <2>1. \A e \in Open' : \A r \in work'[e].locked : OnHand(e, r)' >= 0
    <3> SUFFICES ASSUME NEW e \in Open', NEW r \in work'[e].locked
                 PROVE  stock[r] + work'[e].delta[r] >= 0
      BY DEF OnHand
    <3>1. CASE e = d
      BY <3>1, <1>2 DEF Covered
    <3>2. CASE e # d
      BY <3>2, <1>2 DEF IInv, TypeOK, OnHand, Open
    <3> QED BY <3>1, <3>2
  <2> QED
    BY <1>1, <2>1 DEF IInv, TypeOK
<1>5. \A e \in Open' : Clean(work'[e]) /\ OwnRows(work'[e]) /\ Held(work'[e], usable)
                       /\ Balanced(work'[e])
  BY <1>2 DEF IInv, Open
<1>7. StockIsAccounted'
  BY AccountsStay DEF IInv
<1>6. \A e, f \in Open' : e # f => Apart(work'[e], work'[f])
  BY <1>2, <1>3 DEF IInv, Open
<1> QED
  BY <1>4, <1>5, <1>6, <1>7 DEF IInv, Clean, OwnRows, Held, Balanced, Due, Apart

LEMMA Ends == ASSUME IInv, NEW d \in Desk, End(d) PROVE IInv'
<1>1. work' \in [Desk -> Transaction \cup {Idle}] /\ Open' \subseteq Open
      /\ \A e \in Open' : work'[e] = work[e]
  BY DEF IInv, TypeOK, End, Open
<1>2. TypeOK'
  BY <1>1 DEF IInv, TypeOK, End, OnHand
<1> QED
  BY <1>1, <1>2, AccountsStay DEF IInv, End, Clean, OwnRows, Held, Balanced, Due, Apart

\* What a transaction has before its first statement.
Fresh(t) ==
    t \in Transaction /\ t.locked = {} /\ t.shared = {} /\ \A r \in Row : t.delta[r] = 0

\* A transaction opens with nothing changed and nothing locked but its parents.
LEMMA Opens ==
    ASSUME IInv, NEW d \in Desk, NEW t, Starts(d, t),
           Fresh(t), OwnRows(t), Held(t, usable), Balanced(t),
           \A e \in Open : /\ t.op = "transfer" => work[e].material # t.material
                           /\ work[e].invoice = t.invoice => t.invoice = None
    PROVE  IInv'
<1>1. t \in Transaction /\ Clean(t) /\ Covered(t, stock)
  BY DEF Clean, Covered, Fresh
<1>2. \A e \in Open \ {d} : Apart(t, work[e])
  BY DEF Apart, Fresh
<1> QED
  BY <1>1, <1>2, OneMoves DEF Starts

LEMMA OpenedIs ==
    ASSUME NEW op \in Op, NEW m \in Material \cup {None}, NEW i \in Invoice \cup {None},
           NEW after \in Seq(Line), NEW todo \in Seq(Step)
    PROVE  /\ Fresh(Opened(op, m, i, after, todo))
           /\ Opened(op, m, i, after, todo).op = op
           /\ Opened(op, m, i, after, todo).material = m
           /\ Opened(op, m, i, after, todo).invoice = i
           /\ Opened(op, m, i, after, todo).after = after
           /\ Opened(op, m, i, after, todo).todo = todo
BY DEF Opened, Transaction, Fresh

\* Before its first statement a transaction owes all that it will do.
LEMMA BalancedAtFirst ==
    ASSUME NEW t, Fresh(t), OnForm(t) => t.invoice = None, Sound(t.after),
           ASSUME ~OnForm(t), NEW m \in Material PROVE Pending(t.todo, m) = Due(t, m)
    PROVE  Balanced(t)
<1>1. ASSUME ~OnForm(t), NEW m \in Material
      PROVE  TotalOf(t.delta, m) + Pending(t.todo, m) = Due(t, m)
  <2>1. TotalOf(t.delta, m) = 0 /\ t.todo \in Seq(Step)
    BY TotalOfNothing DEF Fresh, Transaction
  <2>2. Pending(t.todo, m) \in Int /\ Pending(t.todo, m) = Due(t, m)
    BY <1>1, <2>1, PendingIsInt
  <2> QED
    BY <2>1, <2>2
<1> QED
  BY <1>1 DEF Balanced

-----------------------------------------------------------------------------
(* The statements each request will run. *)

\* Two sequences of steps make one.
LEMMA JoinedType ==
    ASSUME NEW a \in Seq(Step), NEW b \in Seq(Step)
    PROVE  a \o b \in Seq(Step)
OBVIOUS

LEMMA DoType ==
    ASSUME NEW k \in {"share", "check", "take", "put"}, NEW r \in Row, NEW n \in Nat
    PROVE  /\ Do(k, r, n) \in Step
           /\ Do(k, r, n).kind = k /\ Do(k, r, n).row = r /\ Do(k, r, n).amount = n
BY DEF Do, Step

LEMMA ForEachType ==
    ASSUME NEW kind \in {"take", "put"}, NEW m \in Material, NEW entries \in Entries
    PROVE  ForEach(kind, m, entries) \in Seq(Step)
<1>1. PICK n \in 0..MaxEntries : entries \in [1..n -> Entry]
  BY DEF Entries, Upto
<1>2. n \in Nat /\ Len(entries) = n
  BY <1>1, StockAssumption
<1>3. \A k \in 1..n : Do(kind, <<m, entries[k].place>>, entries[k].amount) \in Step
  BY <1>1, DoType DEF Entry, Amount, Row
<1> QED
  BY <1>2, <1>3 DEF ForEach

LEMMA SellType ==
    ASSUME NEW new \in Contents
    PROVE  Sell(new) \in Seq(Step) /\ Sold(new) \in Seq(Line)
<1>1. new \in Seq(NewLine)
  BY ContentsAssumption
<1>2. ASSUME NEW k \in 1..Len(new)
      PROVE  new[k].row \in Row /\ new[k].quantity \in Nat /\ new[k].garment \in BOOLEAN
  <2>1. new[k] \in NewLine
    BY <1>1
  <2> QED
    BY <2>1 DEF NewLine, Amount
<1>3. ASSUME NEW k \in 1..(2 * Len(new))
      PROVE  IF k % 2 = 1 THEN (k + 1) \div 2 \in 1..Len(new) ELSE k \div 2 \in 1..Len(new)
  BY <1>1
<1>4. \A k \in 1..(2 * Len(new)) :
         (IF k % 2 = 1 THEN Do("check", new[(k + 1) \div 2].row, 0)
                       ELSE Do("take", new[k \div 2].row, new[k \div 2].quantity)) \in Step
  BY <1>2, <1>3, DoType
<1>5. Sell(new) \in Seq(Step)
  BY <1>1, <1>4 DEF Sell
<1>6. Sold(new) \in Seq(Line)
  BY <1>1, <1>2 DEF Sold, Line
<1> QED
  BY <1>5, <1>6

LEMMA RestoreType ==
    ASSUME NEW old \in Seq(Line)
    PROVE  Restore(old) \in Seq(Step)
<1>1. ASSUME NEW k \in 1..Len(old) PROVE Do("put", old[k].row, old[k].quantity) \in Step
  <2>1. old[k] \in Line
    OBVIOUS
  <2> QED
    BY <2>1, DoType DEF Line
<1> QED
  BY <1>1 DEF Restore

-----------------------------------------------------------------------------
(* What those statements do to the stock is what the invoice takes. *)

LEMMA GoneIsInt ==
    ASSUME NEW these \in Seq(Line), NEW m
    PROVE  /\ Numbers(Gone(m, these), DOMAIN these)
           /\ Taken(m, these) = SumOf(Gone(m, these), DOMAIN these) /\ Taken(m, these) \in Int
<1>1. \A k \in DOMAIN these : these[k].quantity \in Nat /\ these[k].restocked \in Nat
  <2>1. \A k \in DOMAIN these : these[k] \in Line
    OBVIOUS
  <2> QED
    BY <2>1 DEF Line
<1>2. Numbers(Gone(m, these), DOMAIN these)
  BY <1>1 DEF Numbers, Gone
<1>3. these # None
  BY ContentsAssumption
<1>4. Taken(m, these) = SumOf(Gone(m, these), DOMAIN these)
  BY <1>3, TakenIs
<1> QED
  BY <1>2, <1>4, SequencesAreFinite, SumIsInt

LEMMA SellTakes ==
    ASSUME NEW new \in Contents, NEW m
    PROVE  Pending(Sell(new), m) = 0 - Taken(m, Sold(new)) /\ Sound(Sold(new))
<1> DEFINE n == Len(new)  sell == Sell(new)  sold == Sold(new)
           D == 1..(2 * n)  U == 1..n  E == {2 * k : k \in U}
           F == [k \in D |-> Effect(sell[k], m)]
           G == [k \in U |-> Effect(sell[2 * k], m)]
           H == Gone(m, sold)
           Z == [k \in U |-> 0]
           h == [k \in U |-> 2 * k]
<1>0. sell \in Seq(Step) /\ sold \in Seq(Line) /\ new \in Seq(NewLine)
  BY SellType, ContentsAssumption
<1>1. n \in Nat /\ DOMAIN sell = D /\ DOMAIN sold = U
      /\ \A k \in U : new[k] \in NewLine
  BY <1>0 DEF Sell, Sold
<1>2. \A k \in U : new[k].row \in Row /\ new[k].quantity \in Nat
  BY <1>1 DEF NewLine, Amount
<1>3. \A k \in D : k \notin E => k % 2 = 1
  <2> SUFFICES ASSUME NEW k \in D, k % 2 # 1 PROVE k \in E
    OBVIOUS
  <2>1. k \div 2 \in U /\ k = 2 * (k \div 2)
    BY <1>1
  <2> QED
    BY <2>1
<1>4. \A k \in D : k \notin E => F[k] = 0
  <2> SUFFICES ASSUME NEW k \in D, k \notin E PROVE F[k] = 0
    OBVIOUS
  <2>1. sell[k] = Do("check", new[(k + 1) \div 2].row, 0)
    BY <1>3 DEF Sell
  <2> QED
    BY <2>1 DEF Effect, Do
<1>5. \A k \in U : 2 * k \in D /\ G[k] = F[2 * k]
                   /\ G[k] = IF new[k].row[1] = m THEN -new[k].quantity ELSE 0
  <2> SUFFICES ASSUME NEW k \in U
               PROVE  2 * k \in D /\ G[k] = F[2 * k]
                      /\ G[k] = IF new[k].row[1] = m THEN -new[k].quantity ELSE 0
    OBVIOUS
  <2>1. 2 * k \in D /\ (2 * k) % 2 # 1 /\ (2 * k) \div 2 = k
    BY <1>1
  <2>2. sell[2 * k] = Do("take", new[k].row, new[k].quantity)
    BY <2>1 DEF Sell
  <2>3. Effect(sell[2 * k], m) = IF new[k].row[1] = m THEN -new[k].quantity ELSE 0
    BY <2>2 DEF Effect, Do
  <2> QED
    BY <2>1, <2>3
<1>6. \A k \in U : H[k] = IF new[k].row[1] = m THEN new[k].quantity ELSE 0
  BY <1>1, <1>2 DEF Gone, Sold
<1>7. Numbers(F, D) /\ Numbers(H, U) /\ Numbers(G, U) /\ IsFiniteSet(D) /\ IsFiniteSet(U)
      /\ \A k \in U : Z[k] = G[k] + H[k]
  <2>1. Numbers(F, D)
    BY <1>0, <1>1, EffectIsInt DEF Numbers
  <2>2. ASSUME NEW k \in U PROVE G[k] \in Int /\ H[k] \in Int /\ 0 = G[k] + H[k]
    <3>1. /\ G[k] = IF new[k].row[1] = m THEN -new[k].quantity ELSE 0
          /\ H[k] = IF new[k].row[1] = m THEN new[k].quantity ELSE 0
          /\ new[k].quantity \in Nat
      BY <1>2, <1>5, <1>6
    <3> HIDE DEF G, H
    <3> QED
      BY <3>1
  <2>3. IsFiniteSet(D) /\ IsFiniteSet(U)
    BY <1>0, <1>1, SequencesAreFinite
  <2> QED
    BY <2>1, <2>2, <2>3 DEF Numbers
<1>8. h \in Bijection(U, E) /\ \A k \in U : G[k] = F[h[k]]
  BY <1>5 DEF Bijection, Injection, Surjection, IsInjective
<1>9. E \in SUBSET D /\ Numbers(F, E)
  BY <1>5, <1>7 DEF Numbers
<1>10. Sound(sold)
  BY <1>1, <1>2 DEF Sound, Sold
<1>11. Pending(sell, m) = SumOf(F, D) /\ Taken(m, sold) = SumOf(H, U)
  BY <1>0, <1>1, PendingIs, GoneIsInt
<1> HIDE DEF n, sell, sold, D, U, E, F, G, H, Z, h
<1>12. SumOf(F, D) = SumOf(F, E)
  BY <1>4, <1>7, <1>9, SumSkips
<1>13. SumOf(G, U) = SumOf(F, E)
  BY <1>7, <1>8, <1>9, SumRenames
<1>14. SumOf(Z, U) = SumOf(G, U) + SumOf(H, U)
  BY <1>7, SumAdds
<1>15. SumOf(Z, U) = 0
  BY <1>7, SumOfNothing DEF Z
<1>16. SumOf(G, U) \in Int /\ SumOf(H, U) \in Int
  BY <1>7, SumIsInt
<1> QED
  BY <1>10, <1>11, <1>12, <1>13, <1>14, <1>15, <1>16 DEF sell, sold

\* An invoice of which nothing is back gives everything back.
LEMMA RestoreGives ==
    ASSUME NEW old \in Seq(Line), NEW m, Sound(old),
           \A k \in DOMAIN old : old[k].returned = 0
    PROVE  Pending(Restore(old), m) = Taken(m, old)
<1> DEFINE D == DOMAIN old
           F == [k \in D |-> Effect(Restore(old)[k], m)]
<1>1. \A k \in D : old[k] \in Line
  OBVIOUS
<1>2. \A k \in D : old[k].row \in Row /\ old[k].quantity \in Nat /\ old[k].restocked = 0
  BY <1>1, ContentsAssumption DEF Line, Sound
<1>3. DOMAIN Restore(old) = D /\ \A k \in D : Restore(old)[k] = Do("put", old[k].row, old[k].quantity)
  BY DEF Restore
<1>4. \A k \in D : F[k] = Gone(m, old)[k]
  BY <1>2, <1>3 DEF Gone, Effect, Do
<1>5. Pending(Restore(old), m) = SumOf(F, D)
  BY <1>3, PendingIs
<1>6. Numbers(Gone(m, old), D) /\ Taken(m, old) = SumOf(Gone(m, old), D) /\ IsFiniteSet(D)
  BY GoneIsInt, SequencesAreFinite
<1> HIDE DEF D, F
<1>7. SumOf(Gone(m, old), D) = SumOf(F, D)
  BY <1>4, <1>6, SumSame
<1> QED
  BY <1>5, <1>6, <1>7

\* The difference between two states of an invoice is what its lines gave back.
LEMMA TakenFalls ==
    ASSUME NEW old \in Seq(Line), NEW after \in Seq(Line), NEW m,
           DOMAIN after = DOMAIN old, NEW back,
           \A k \in DOMAIN old : /\ back[k] \in Int
                                 /\ Gone(m, old)[k] = Gone(m, after)[k] + back[k]
    PROVE  Taken(m, old) - Taken(m, after) = SumOf(back, DOMAIN old)
<1> DEFINE D == DOMAIN old
           A == Gone(m, old)  B == Gone(m, after)
<1>1. /\ IsFiniteSet(D) /\ Numbers(A, D) /\ Numbers(B, D) /\ Numbers(back, D)
      /\ Taken(m, old) = SumOf(A, D) /\ Taken(m, after) = SumOf(B, D)
      /\ \A k \in D : A[k] = B[k] + back[k]
  BY GoneIsInt, SequencesAreFinite DEF Numbers
<1> HIDE DEF D, A, B
<1>2. SumOf(A, D) = SumOf(B, D) + SumOf(back, D)
  BY <1>1, SumAdds
<1>3. SumOf(B, D) \in Int /\ SumOf(back, D) \in Int
  BY <1>1, SumIsInt
<1> QED
  BY <1>1, <1>2, <1>3 DEF D

-----------------------------------------------------------------------------
(* Requests. *)

LEMMA StockFormKeeps ==
    ASSUME IInv, NEW d \in Desk, NEW m \in Material, NEW entries \in Entries,
           ReceiveStock(d, m, entries) \/ RemoveStock(d, m, entries)
    PROVE  IInv'
<1>1. PICK op \in {"receive", "remove"}, todo \in Seq(Step) :
         Starts(d, Opened(op, None, None, <<>>, todo))
  BY ForEachType DEF ReceiveStock, RemoveStock
<1> DEFINE t == Opened(op, None, None, <<>>, todo)
<1>2. Fresh(t) /\ t.op = op /\ t.invoice = None /\ t.after = <<>>
  <2>1. op \in Op /\ None \in Material \cup {None} /\ None \in Invoice \cup {None}
        /\ <<>> \in Seq(Line)
    BY DEF Op
  <2>2. ASSUME NEW after \in Seq(Line)
        PROVE  /\ Fresh(Opened(op, None, None, after, todo))
               /\ Opened(op, None, None, after, todo).op = op
               /\ Opened(op, None, None, after, todo).invoice = None
               /\ Opened(op, None, None, after, todo).after = after
    BY <2>1 DEF Opened, Transaction, Fresh
  <2> QED
    BY <2>1, <2>2
<1> HIDE DEF t
<1>3. Balanced(t)
  <2>1. OnForm(t) /\ Sound(t.after)
    BY <1>2 DEF OnForm, Sound
  <2> QED
    BY <1>2, <2>1, BalancedAtFirst
<1>4. OwnRows(t) /\ Held(t, usable)
  BY <1>2 DEF OwnRows, Held
<1> QED
  BY <1>1, <1>2, <1>3, <1>4, Opens DEF t

\* What a transfer takes from one shelf it puts on another.
LEMMA MoveBalances ==
    ASSUME NEW m \in Material, NEW from \in Location, NEW to \in Location, NEW n \in Nat,
           NEW x \in Material
    PROVE  Move(m, from, to, n) \in Seq(Step) /\ Pending(Move(m, from, to, n), x) = 0
<1> DEFINE look == Do("share", <<m, to>>, 0)
           take == Do("take", <<m, from>>, n)
           put == Do("put", <<m, to>>, n)
<1>1. look \in Step /\ take \in Step /\ put \in Step
  BY DoType DEF Row
<1>2. /\ Effect(look, x) = 0
      /\ Effect(take, x) = IF m = x THEN -n ELSE 0
      /\ Effect(put, x) = IF m = x THEN n ELSE 0
  BY DEF Effect, Do
<1> HIDE DEF look, take, put
<1>3. /\ <<look, take, put>> \in Seq(Step) /\ <<take, put>> \in Seq(Step)
      /\ <<put>> \in Seq(Step)
      /\ Head(<<look, take, put>>) = look /\ Tail(<<look, take, put>>) = <<take, put>>
      /\ Head(<<take, put>>) = take /\ Tail(<<take, put>>) = <<put>>
      /\ Head(<<put>>) = put /\ Tail(<<put>>) = <<>>
      /\ <<look, take, put>> # <<>> /\ <<take, put>> # <<>> /\ <<put>> # <<>>
  BY <1>1
<1>4. Pending(<<put>>, x) = Effect(put, x) + 0
  BY <1>3, PendingFalls, NothingPending
<1>5. Pending(<<take, put>>, x) = Effect(take, x) + Pending(<<put>>, x)
  BY <1>3, PendingFalls
<1>6. Pending(<<look, take, put>>, x) = Effect(look, x) + Pending(<<take, put>>, x)
  BY <1>3, PendingFalls
<1>7. Pending(<<look, take, put>>, x) = 0
  BY <1>2, <1>4, <1>5, <1>6
<1> QED
  BY <1>3, <1>7 DEF Move, look, take, put

LEMMA TransferKeeps ==
    ASSUME IInv, NEW d \in Desk, NEW m \in Material, NEW from \in Location,
           NEW to \in Location, NEW n \in Amount, TransferStock(d, m, from, to, n)
    PROVE  IInv'
<1> DEFINE t == Opened("transfer", m, None, <<>>, Move(m, from, to, n))
<1>1. n \in Nat
  BY StockAssumption DEF Amount
<1>2. Move(m, from, to, n) \in Seq(Step) /\ \A x \in Material : Pending(Move(m, from, to, n), x) = 0
  BY <1>1, MoveBalances
<1>3. Fresh(t) /\ t.op = "transfer" /\ t.material = m /\ t.todo = Move(m, from, to, n)
      /\ t.invoice = None /\ t.after = <<>>
  <2>1. <<>> \in Seq(Line) /\ "transfer" \in Op /\ m \in Material \cup {None}
        /\ None \in Invoice \cup {None}
    BY DEF Op
  <2>2. ASSUME NEW after \in Seq(Line), NEW todo \in Seq(Step)
        PROVE  /\ Fresh(Opened("transfer", m, None, after, todo))
               /\ Opened("transfer", m, None, after, todo).op = "transfer"
               /\ Opened("transfer", m, None, after, todo).material = m
               /\ Opened("transfer", m, None, after, todo).todo = todo
               /\ Opened("transfer", m, None, after, todo).invoice = None
               /\ Opened("transfer", m, None, after, todo).after = after
    BY <2>1 DEF Opened, Transaction, Fresh
  <2> QED
    BY <1>2, <2>1, <2>2
<1>4. /\ DOMAIN t.todo = 1..3
      /\ t.todo[1] = Do("share", <<m, to>>, 0)
      /\ t.todo[2] = Do("take", <<m, from>>, n)
      /\ t.todo[3] = Do("put", <<m, to>>, n)
  BY <1>3 DEF Move
<1> HIDE DEF t
<1>5. OwnRows(t)
  BY <1>3, <1>4 DEF OwnRows, Do, Fresh
<1>6. Held(t, usable)
  BY <1>3, <1>4 DEF Held, Do, Fresh
<1>7. Balanced(t)
  <2>1. Sound(t.after)
    BY <1>3 DEF Sound
  <2>2. ASSUME NEW x \in Material PROVE Pending(t.todo, x) = Due(t, x)
    BY <1>2, <1>3 DEF Due
  <2> QED
    BY <1>3, <2>1, <2>2, BalancedAtFirst
<1>8. Starts(d, t) /\ \A e \in Open : work[e].material # t.material
  BY <1>3 DEF TransferStock, t
<1> QED
  BY <1>3, <1>5, <1>6, <1>7, <1>8, Opens

LEMMA SaleKeeps ==
    ASSUME IInv, NEW d \in Desk, NEW i \in Invoice, NEW new \in Contents,
           CreateInvoice(d, i, new) \/ UpdateInvoice(d, i, new)
    PROVE  IInv'
<1>s. Sell(new) \in Seq(Step) /\ Sold(new) \in Seq(Line)
  BY SellType
<1>1. PICK op \in {"create", "edit"}, todo \in Seq(Step) :
         /\ Starts(d, Opened(op, None, i, Sold(new), todo)) /\ Unlocked(i)
         /\ \A m \in Material : Pending(todo, m) = Taken(m, lines[i]) - Taken(m, Sold(new))
  <2>1. CASE CreateInvoice(d, i, new)
    <3>1. \A m \in Material : Pending(Sell(new), m) = Taken(m, lines[i]) - Taken(m, Sold(new))
      BY <2>1, SellTakes, TakenIs DEF CreateInvoice
    <3> QED
      BY <2>1, <3>1, <1>s DEF CreateInvoice
  <2>2. CASE UpdateInvoice(d, i, new)
    <3>1. lines[i] \in Seq(Line) /\ Sound(lines[i]) /\ \A k \in DOMAIN lines[i] : lines[i][k].returned = 0
      BY <2>2 DEF UpdateInvoice, IInv, TypeOK, StockIsAccounted, Editable
    <3>2. Restore(lines[i]) \in Seq(Step) /\ Restore(lines[i]) \o Sell(new) \in Seq(Step)
      BY <1>s, <3>1, RestoreType, JoinedType
    <3>3. ASSUME NEW m \in Material
          PROVE  Pending(Restore(lines[i]) \o Sell(new), m) = Taken(m, lines[i]) - Taken(m, Sold(new))
      <4>1. Pending(Restore(lines[i]) \o Sell(new), m)
              = Pending(Restore(lines[i]), m) + Pending(Sell(new), m)
        BY <1>s, <3>2, PendingJoins
      <4>2. Pending(Restore(lines[i]), m) = Taken(m, lines[i])
        BY <3>1, RestoreGives
      <4>3. Pending(Sell(new), m) = 0 - Taken(m, Sold(new))
        BY SellTakes
      <4>4. Taken(m, lines[i]) \in Int /\ Taken(m, Sold(new)) \in Int
        BY <1>s, <3>1, GoneIsInt
      <4> QED
        BY <4>1, <4>2, <4>3, <4>4
    <3> QED
      BY <2>2, <3>2, <3>3 DEF UpdateInvoice
  <2> QED
    BY <2>1, <2>2
<1> DEFINE t == Opened(op, None, i, Sold(new), todo)
<1>2. Fresh(t) /\ t.op = op /\ t.invoice = i /\ t.after = Sold(new) /\ t.todo = todo
  <2>1. op \in Op /\ None \in Material \cup {None} /\ i \in Invoice \cup {None}
    BY DEF Op
  <2> QED
    BY <1>s, <2>1, OpenedIs
<1> HIDE DEF t
<1>3. Balanced(t)
  <2>1. ~OnForm(t) /\ Sound(t.after)
    BY <1>2, SellTakes DEF OnForm
  <2>2. ASSUME NEW m \in Material PROVE Pending(t.todo, m) = Due(t, m)
    BY <1>1, <1>2, Finite DEF Due
  <2> QED
    BY <1>2, <2>1, <2>2, BalancedAtFirst
<1>4. OwnRows(t) /\ Held(t, usable)
  BY <1>2 DEF OwnRows, Held
<1>5. Starts(d, t) /\ \A e \in Open : work[e].invoice # t.invoice
  BY <1>1, <1>2 DEF Unlocked, t
<1> QED
  BY <1>2, <1>3, <1>4, <1>5, Opens

\* A cancelled line owes what it gives back to its shelf.
LEMMA CancelGives ==
    ASSUME NEW old \in Seq(Line), NEW k \in DOMAIN old, NEW n \in Nat, NEW line \in Line,
           old[k].restocked = 0, line.row = old[k].row, line.quantity = old[k].quantity,
           line.restocked = n, NEW todo,
           todo = IF n = 0 THEN <<>> ELSE <<Do("put", old[k].row, n)>>, NEW m
    PROVE  Pending(todo, m) = Taken(m, old) - Taken(m, [old EXCEPT ![k] = line])
<1> DEFINE after == [old EXCEPT ![k] = line]
           back == [j \in DOMAIN old |-> IF j = k /\ old[k].row[1] = m THEN n ELSE 0]
           D == DOMAIN old
<1>1. /\ after \in Seq(Line) /\ DOMAIN after = D /\ IsFiniteSet(D) /\ k \in D
      /\ after[k] = line /\ \A j \in D \ {k} : after[j] = old[j]
  BY SequencesAreFinite
<1>2. \A j \in D : old[j].quantity \in Nat /\ old[j].restocked \in Nat
  <2>1. \A j \in D : old[j] \in Line
    OBVIOUS
  <2> QED
    BY <2>1 DEF Line
<1> HIDE DEF after
<1>3. ASSUME NEW j \in D
      PROVE  back[j] \in Int /\ Gone(m, old)[j] = Gone(m, after)[j] + back[j]
  <2>1. /\ Gone(m, old)[j] = IF old[j].row[1] = m THEN old[j].quantity - old[j].restocked ELSE 0
        /\ Gone(m, after)[j] = IF after[j].row[1] = m THEN after[j].quantity - after[j].restocked ELSE 0
        /\ back[j] = IF j = k /\ old[k].row[1] = m THEN n ELSE 0
    BY <1>1 DEF Gone
  <2> HIDE DEF back
  <2>2. CASE j = k
    <3>1. old[k].quantity \in Nat /\ back[k] = IF old[k].row[1] = m THEN n ELSE 0
      BY <1>2, <2>1, <2>2
    <3>2. /\ Gone(m, old)[k] = IF old[k].row[1] = m THEN old[k].quantity ELSE 0
          /\ Gone(m, after)[k] = IF old[k].row[1] = m THEN old[k].quantity - n ELSE 0
      BY <1>1, <2>1, <2>2, <3>1
    <3>3. \A x, y \in Nat : x = (x - y) + y /\ 0 = 0 + 0
      OBVIOUS
    <3> QED
      BY <2>2, <3>1, <3>2, <3>3
  <2>3. CASE j # k
    BY <1>1, <1>2, <2>1, <2>3
  <2> QED
    BY <2>2, <2>3
<1>4. Taken(m, old) - Taken(m, after) = SumOf(back, D)
  <2> HIDE DEF back
  <2> QED
    BY <1>1, <1>3, TakenFalls
<1>5. SumOf(back, D) = IF old[k].row[1] = m THEN n ELSE 0
  <2>1. back[k] = (IF old[k].row[1] = m THEN n ELSE 0) /\ \A j \in D \ {k} : back[j] = 0
    OBVIOUS
  <2>2. Numbers(back, D)
    BY <1>3 DEF Numbers
  <2> HIDE DEF back, D
  <2>3. SumOf(back, D) = back[k] + SumOf(back, D \ {k})
    BY <1>1, <2>2, SumTakes
  <2>4. SumOf(back, D \ {k}) = 0
    BY <1>1, <2>1, FS_Difference, SumOfNothing
  <2> QED
    BY <2>1, <2>3, <2>4
<1>6. Pending(todo, m) = IF old[k].row[1] = m THEN n ELSE 0
  <2>1. CASE n = 0
    BY <2>1, NothingPending
  <2>2. CASE n # 0
    <3> DEFINE put == Do("put", old[k].row, n)
    <3>1. old[k] \in Line
      OBVIOUS
    <3>2. put \in Step
      BY <3>1, DoType DEF Line
    <3>3. Effect(put, m) = IF old[k].row[1] = m THEN n ELSE 0
      BY DEF Effect, Do
    <3> HIDE DEF put
    <3>4. <<put>> \in Seq(Step) /\ Head(<<put>>) = put /\ Tail(<<put>>) = <<>> /\ <<put>> # <<>>
      BY <3>2
    <3>5. Pending(<<put>>, m) = Effect(put, m) + 0
      BY <3>4, PendingFalls, NothingPending
    <3> QED
      BY <2>2, <3>3, <3>5 DEF put
  <2> QED
    BY <2>1, <2>2
<1> QED
  BY <1>4, <1>5, <1>6 DEF after

LEMMA CancelKeeps ==
    ASSUME IInv, NEW d \in Desk, NEW i \in Invoice, lines[i] # None,
           NEW k \in DOMAIN lines[i], NEW n \in 0..MaxAmount, CancelOrder(d, i, k, n)
    PROVE  IInv'
<1>1. lines[i] \in Seq(Line) /\ lines[i][k] \in Line /\ n \in Nat
  BY StockAssumption DEF IInv, TypeOK
<1> DEFINE gone == [lines[i][k] EXCEPT !.returned = lines[i][k].quantity, !.restocked = n]
           after == [lines[i] EXCEPT ![k] = gone]
           todo == IF n = 0 THEN <<>> ELSE <<Do("put", lines[i][k].row, n)>>
           t == Opened("cancel", None, i, after, todo)
<1>g. /\ gone \in Line /\ gone.row = lines[i][k].row
      /\ gone.quantity = lines[i][k].quantity /\ gone.restocked = n
      /\ gone.returned = lines[i][k].quantity
  BY <1>1 DEF Line
<1>q. lines[i][k].quantity \in Nat /\ lines[i][k].restocked = 0 /\ n <= lines[i][k].quantity
  <2>1. lines[i][k].returned = 0 /\ n \in 0..lines[i][k].quantity
    BY DEF CancelOrder
  <2>2. lines[i][k].quantity \in Nat /\ lines[i][k].restocked \in Nat
    BY <1>1 DEF Line
  <2>3. lines[i][k].restocked <= lines[i][k].returned
    BY DEF IInv, StockIsAccounted, Sound
  <2> QED
    BY <2>1, <2>2, <2>3
<1>2. after \in Seq(Line)
  <2> HIDE DEF gone
  <2> QED
    BY <1>1, <1>g
<1>3. todo \in Seq(Step)
  <2>1. Do("put", lines[i][k].row, n) \in Step
    BY <1>1, DoType DEF Line
  <2> QED
    BY <2>1
<1>4. Fresh(t) /\ t.op = "cancel" /\ t.invoice = i /\ t.after = after /\ t.todo = todo
  <2>1. "cancel" \in Op /\ None \in Material \cup {None} /\ i \in Invoice \cup {None}
    BY DEF Op
  <2> HIDE DEF after, todo
  <2> QED
    BY <1>2, <1>3, <2>1, OpenedIs
<1>5. Starts(d, t) /\ Unlocked(i)
  BY DEF CancelOrder
<1> HIDE DEF t
<1>6. Sound(after)
  <2>1. \A j \in DOMAIN lines[i] : j # k => after[j] = lines[i][j]
    OBVIOUS
  <2>2. after[k] = gone /\ DOMAIN after = DOMAIN lines[i]
    OBVIOUS
  <2>3. Sound(lines[i])
    BY DEF IInv, StockIsAccounted
  <2> HIDE DEF after, gone
  <2> QED
    BY <1>g, <1>q, <2>1, <2>2, <2>3 DEF Sound
<1>7. ASSUME NEW m \in Material PROVE Pending(t.todo, m) = Due(t, m)
  <2>1. Pending(todo, m) = Taken(m, lines[i]) - Taken(m, [lines[i] EXCEPT ![k] = gone])
    <3> HIDE DEF gone
    <3> QED
      BY <1>1, <1>g, <1>q, CancelGives
  <2> HIDE DEF todo, gone
  <2> QED
    BY <1>4, <2>1, Finite DEF Due
<1> HIDE DEF after, todo
<1>8. Balanced(t)
  BY <1>4, <1>6, <1>7, BalancedAtFirst DEF OnForm
<1>9. \A e \in Open : work[e].invoice # t.invoice
  BY <1>4, <1>5 DEF Unlocked
<1> QED
  BY <1>4, <1>5, <1>8, <1>9, Opens DEF OwnRows, Held

LEMMA MoreReturnedType ==
    ASSUME NEW line \in Line, NEW n \in Nat, NEW m \in Nat
    PROVE  MoreReturned(line, n, m) \in Line
<1> DEFINE more == line.returned + n
           shelved == line.restocked + m
<1>1. more \in Nat /\ shelved \in Nat
  BY DEF Line
<1> HIDE DEF more, shelved
<1>2. [line EXCEPT !.returned = more, !.restocked = shelved] \in Line
  BY <1>1 DEF Line
<1> QED
  BY <1>2 DEF MoreReturned, more, shelved

\* What is put on a shelf is what comes back of the lines picked for it.
LEMMA ReturnGives ==
    ASSUME NEW old \in Seq(Line), NEW back \in [DOMAIN old -> Nat], NEW n \in Nat,
           NEW picks \in [1..n -> DOMAIN old], IsInjective(picks), NEW puts \in Seq(Step),
           Len(puts) = n, NEW m,
           \A j \in 1..n : /\ puts[j].kind = "put" /\ puts[j].amount = back[picks[j]]
                           /\ puts[j].row[1] = old[picks[j]].row[1]
    PROVE  /\ Returned(old, back, picks) \in Seq(Line)
           /\ Pending(puts, m) = Taken(m, old) - Taken(m, Returned(old, back, picks))
<1> DEFINE after == Returned(old, back, picks)
           D == DOMAIN old  U == 1..n
           Picked == {picks[j] : j \in U}
           kept == [k \in D |-> IF k \in Picked THEN back[k] ELSE 0]
           F == [k \in D |-> IF old[k].row[1] = m THEN kept[k] ELSE 0]
           G == [j \in DOMAIN puts |-> Effect(puts[j], m)]
<1>1. IsFiniteSet(D) /\ D = 1..Len(old) /\ Len(old) \in Nat /\ DOMAIN puts = U
      /\ DOMAIN picks = U /\ Picked \in SUBSET D /\ IsFiniteSet(U)
  BY SequencesAreFinite
<1>2. \A k \in D : old[k] \in Line /\ back[k] \in Nat /\ kept[k] \in Nat
  OBVIOUS
<1>3. \A k \in D : /\ old[k].quantity \in Nat /\ old[k].restocked \in Nat
                    /\ old[k].returned \in Nat
  BY <1>2 DEF Line
<1>4. DOMAIN after = D
      /\ \A k \in D : after[k] = MoreReturned(old[k], back[k], kept[k])
  BY <1>1 DEF Returned
<1> HIDE DEF after, kept
<1>5. \A k \in D : /\ after[k] \in Line /\ after[k].row = old[k].row
                    /\ after[k].quantity = old[k].quantity
                    /\ after[k].restocked = old[k].restocked + kept[k]
  <2> SUFFICES ASSUME NEW k \in D
               PROVE  /\ after[k] \in Line /\ after[k].row = old[k].row
                      /\ after[k].quantity = old[k].quantity
                      /\ after[k].restocked = old[k].restocked + kept[k]
    OBVIOUS
  <2>1. old[k] \in Line /\ back[k] \in Nat /\ kept[k] \in Nat
        /\ after[k] = MoreReturned(old[k], back[k], kept[k])
    BY <1>2, <1>4
  <2>2. after[k] \in Line
    BY <2>1, MoreReturnedType
  <2> QED
    BY <2>1, <2>2 DEF MoreReturned, Line
<1>6. after \in Seq(Line)
  <2>1. after = [k \in 1..Len(old) |-> after[k]]
    BY <1>1 DEF after, Returned
  <2> QED
    BY <1>1, <1>5, <2>1
<1>7. ASSUME NEW k \in D PROVE F[k] \in Int /\ Gone(m, old)[k] = Gone(m, after)[k] + F[k]
  <2>1. /\ Gone(m, old)[k] = IF old[k].row[1] = m THEN old[k].quantity - old[k].restocked ELSE 0
        /\ Gone(m, after)[k] = IF old[k].row[1] = m
                               THEN old[k].quantity - (old[k].restocked + kept[k]) ELSE 0
        /\ F[k] = IF old[k].row[1] = m THEN kept[k] ELSE 0
        /\ kept[k] \in Nat /\ old[k].quantity \in Nat /\ old[k].restocked \in Nat
    BY <1>2, <1>3, <1>4, <1>5 DEF Gone
  <2>2. \A x, y, z \in Nat : x - y = (x - (y + z)) + z
    OBVIOUS
  <2> HIDE DEF F
  <2> QED
    BY <2>1, <2>2
<1>8. Taken(m, old) - Taken(m, after) = SumOf(F, D)
  <2> HIDE DEF F
  <2> QED
    BY <1>4, <1>6, <1>7, TakenFalls
<1>9. Numbers(F, D) /\ Numbers(F, Picked) /\ \A k \in D \ Picked : F[k] = 0
  <2>1. \A k \in D \ Picked : F[k] = 0
    BY DEF kept
  <2> HIDE DEF F
  <2> QED
    BY <1>1, <1>7, <2>1 DEF Numbers
<1>10. picks \in Bijection(U, Picked) /\ \A j \in U : G[j] = F[picks[j]]
  <2>1. picks \in Bijection(U, Picked)
    BY <1>1 DEF Bijection, Injection, Surjection, IsInjective
  <2>2. ASSUME NEW j \in U PROVE G[j] = F[picks[j]]
    <3>1. picks[j] \in D /\ picks[j] \in Picked
      OBVIOUS
    <3>2. F[picks[j]] = IF old[picks[j]].row[1] = m THEN back[picks[j]] ELSE 0
      BY <3>1 DEF kept
    <3>3. G[j] = IF old[picks[j]].row[1] = m THEN back[picks[j]] ELSE 0
      BY <1>1 DEF Effect
    <3> QED
      BY <3>2, <3>3
  <2> QED
    BY <2>1, <2>2
<1>11. Pending(puts, m) = SumOf(G, U)
  BY <1>1, PendingIs
<1> HIDE DEF D, U, Picked, F, G
<1>12. SumOf(F, D) = SumOf(F, Picked)
  BY <1>1, <1>9, SumSkips
<1>13. SumOf(G, U) = SumOf(F, Picked)
  BY <1>1, <1>9, <1>10, SumRenames
<1> QED
  BY <1>6, <1>8, <1>11, <1>12, <1>13 DEF after

\* Nothing that can be returned makes a line give back more than it took.
LEMMA ReturnIsSound ==
    ASSUME NEW old \in Seq(Line), Sound(old), NEW back \in [DOMAIN old -> Nat], NEW picks,
           \A k \in DOMAIN old : back[k] \in Returnable(old[k])
    PROVE  Sound(Returned(old, back, picks))
<1> DEFINE after == Returned(old, back, picks)
           Kept(k) == IF k \in {picks[j] : j \in DOMAIN picks} THEN back[k] ELSE 0
<1>1. DOMAIN after = DOMAIN old
      /\ \A k \in DOMAIN old : after[k] = MoreReturned(old[k], back[k], Kept(k))
  BY DEF Returned
<1>2. \A k \in DOMAIN old : Kept(k) \in Nat /\ Kept(k) <= back[k]
  OBVIOUS
<1> HIDE DEF after, Kept
<1>3. ASSUME NEW k \in DOMAIN old
      PROVE  /\ after[k].restocked <= after[k].returned
             /\ after[k].returned <= after[k].quantity
  <2>1. old[k] \in Line /\ back[k] \in Nat
    OBVIOUS
  <2>2. /\ after[k].restocked = old[k].restocked + Kept(k)
        /\ after[k].returned = old[k].returned + back[k]
        /\ after[k].quantity = old[k].quantity
    BY <1>1, <2>1 DEF MoreReturned, Line
  <2>3. /\ old[k].quantity \in Nat /\ old[k].restocked \in Nat /\ old[k].returned \in Nat
    BY <2>1 DEF Line
  <2>4. old[k].restocked <= old[k].returned /\ old[k].returned <= old[k].quantity
    BY ContentsAssumption DEF Sound
  <2>5. old[k].returned + back[k] <= old[k].quantity
    <3>1. back[k] \in Returnable(old[k])
      OBVIOUS
    <3>2. \/ back[k] = 0 \/ (old[k].returned = 0 /\ back[k] = old[k].quantity)
          \/ back[k] \in 0..(old[k].quantity - old[k].returned)
      BY <3>1 DEF Returnable
    <3> QED
      BY <2>1, <2>3, <2>4, <3>2
  <2> QED
    BY <1>2, <2>1, <2>2, <2>3, <2>4, <2>5
<1> QED
  BY <1>1, <1>3 DEF Sound, after

\* A return shares every shelf before it puts anything there.
LEMMA ReturnKeeps ==
    ASSUME IInv, NEW d \in Desk, NEW i \in Invoice, lines[i] # None,
           NEW back \in [DOMAIN lines[i] -> 0..MaxAmount],
           NEW picks \in Upto(Len(lines[i]), DOMAIN lines[i]), IsInjective(picks),
           NEW place \in [DOMAIN picks -> Location], CreateReturn(d, i, back, picks, place)
    PROVE  IInv'
<1> DEFINE old == lines[i]
           At(j) == <<old[picks[j]].row[1], place[j]>>
           shares == [j \in 1..Len(picks) |-> Do("share", At(j), 0)]
           puts == [j \in 1..Len(picks) |-> Do("put", At(j), back[picks[j]])]
           t == Opened("return", None, i, Returned(old, back, picks), shares \o puts)
<1>1. old \in Seq(Line)
  BY DEF IInv, TypeOK
<1>2. PICK n \in 0..Len(old) : picks \in [1..n -> DOMAIN old]
  BY DEF Upto
<1>3. n \in Nat /\ Len(picks) = n /\ DOMAIN picks = 1..n
  BY <1>1, <1>2
<1>4. \A k \in DOMAIN old : old[k] \in Line /\ back[k] \in Nat
  BY <1>1, StockAssumption
<1>5. \A j \in 1..n : At(j) \in Row /\ back[picks[j]] \in Nat
  BY <1>2, <1>3, <1>4 DEF Line, Row
<1>6. shares \in Seq(Step) /\ Len(shares) = n
  <2>1. \A j \in 1..n : Do("share", At(j), 0) \in Step
    BY <1>5, DoType
  <2> QED
    BY <1>3, <2>1
<1>7. puts \in Seq(Step) /\ Len(puts) = n
  <2>1. \A j \in 1..n : Do("put", At(j), back[picks[j]]) \in Step
    BY <1>5, DoType
  <2> QED
    BY <1>3, <2>1
<1>8. /\ Returned(old, back, picks) \in Seq(Line)
      /\ \A m \in Material :
            Pending(puts, m) = Taken(m, old) - Taken(m, Returned(old, back, picks))
  <2>1. back \in [DOMAIN old -> Nat]
    BY <1>4
  <2>2. \A j \in 1..n : /\ puts[j].kind = "put" /\ puts[j].amount = back[picks[j]]
                        /\ puts[j].row[1] = old[picks[j]].row[1]
    BY <1>3 DEF Do
  <2> HIDE DEF old, puts
  <2>3. Returned(old, back, picks) \in Seq(Line)
    BY <1>1, <1>2, <1>3, <1>7, <2>1, <2>2, ReturnGives
  <2>4. ASSUME NEW m \in Material
        PROVE  Pending(puts, m) = Taken(m, old) - Taken(m, Returned(old, back, picks))
    BY <1>1, <1>2, <1>3, <1>7, <2>1, <2>2, ReturnGives
  <2> QED
    BY <2>3, <2>4
<1>9. \A j \in 1..n : /\ shares[j].kind = "share" /\ shares[j].row[2] = place[j]
                     /\ puts[j].kind = "put" /\ puts[j].row[2] = place[j]
  BY <1>3 DEF Do
<1>10. /\ Fresh(t) /\ t.op = "return" /\ t.todo = shares \o puts
       /\ t.invoice = i /\ t.after = Returned(old, back, picks)
  <2>1. "return" \in Op /\ None \in Material \cup {None} /\ i \in Invoice \cup {None}
    BY DEF Op
  <2> HIDE DEF shares, puts
  <2>2. shares \o puts \in Seq(Step)
    BY <1>6, <1>7, JoinedType
  <2> QED
    BY <1>8, <2>1, <2>2 DEF Opened, Transaction, Fresh
<1>11. Starts(d, t) /\ Unlocked(i) /\ \A k \in DOMAIN old : back[k] \in Returnable(old[k])
  BY DEF CreateReturn
<1> HIDE DEF shares, puts, t
<1>12. ASSUME NEW k \in DOMAIN t.todo, t.todo[k].kind = "put"
       PROVE  \E j \in 1..(k - 1) : t.todo[j].kind = "share" /\ t.todo[j].row[2] = t.todo[k].row[2]
  <2>1. k \in 1..(n + n) /\ t.todo[k] = IF k <= n THEN shares[k] ELSE puts[k - n]
    BY <1>3, <1>6, <1>7, <1>10
  <2>2. k > n /\ k - n \in 1..n
    BY <1>3, <1>9, <1>12, <2>1
  <2>3. t.todo[k - n] = shares[k - n] /\ k - n \in 1..(k - 1)
    BY <1>3, <1>6, <1>7, <1>10, <2>2
  <2> QED
    BY <1>9, <2>1, <2>2, <2>3
<1>13. Held(t, usable) /\ OwnRows(t)
  BY <1>10, <1>12 DEF Held, OwnRows, Fresh
<1>14. Sound(t.after)
  <2>1. Sound(old) /\ back \in [DOMAIN old -> Nat]
    BY <1>4 DEF IInv, StockIsAccounted
  <2> HIDE DEF old
  <2> QED
    BY <1>1, <1>10, <1>11, <2>1, ReturnIsSound
<1>15. ASSUME NEW m \in Material PROVE Pending(t.todo, m) = Due(t, m)
  <2>1. Pending(shares \o puts, m) = Pending(shares, m) + Pending(puts, m)
    BY <1>6, <1>7, PendingJoins
  <2>2. Pending(shares, m) = 0
    BY <1>3, <1>6, <1>9, LooksChangeNothing
  <2>3. Pending(puts, m) \in Int
    BY <1>7, PendingIsInt
  <2>4. Due(t, m) = Taken(m, old) - Taken(m, Returned(old, back, picks))
    BY <1>10, Finite DEF Due
  <2> QED
    BY <1>8, <1>10, <2>1, <2>2, <2>3, <2>4
<1>16. Balanced(t)
  BY <1>10, <1>14, <1>15, BalancedAtFirst DEF OnForm
<1>17. \A e \in Open : work[e].invoice # t.invoice
  BY <1>10, <1>11 DEF Unlocked
<1> QED
  BY <1>10, <1>11, <1>13, <1>16, <1>17, Opens

-----------------------------------------------------------------------------
(* Statements. *)

\* What is left to do after a statement: the next ones, one place earlier.
LEMMA RestOf ==
    ASSUME NEW todo \in Seq(Step), todo # <<>>
    PROVE  /\ Head(todo) \in Step /\ Head(todo) = todo[1] /\ Tail(todo) \in Seq(Step)
           /\ \A k \in DOMAIN Tail(todo) : k + 1 \in DOMAIN todo /\ Tail(todo)[k] = todo[k + 1]
           /\ \A k \in DOMAIN todo : k > 1 => k - 1 \in DOMAIN Tail(todo)
OBVIOUS

\* A shelf that was going to be shared still is, or has just been.
LEMMA HeldAdvances ==
    ASSUME NEW t \in Transaction, t.todo # <<>>, NEW u \in Transaction, NEW U, Held(t, U),
           u.op = t.op, u.todo = Tail(t.todo), t.shared \subseteq u.shared,
           u.shared \subseteq U,
           Head(t.todo).kind = "share" => Head(t.todo).row[2] \in u.shared,
           \A r \in Row : u.delta[r] > 0 =>
              \/ t.delta[r] > 0
              \/ Head(t.todo).kind = "put" /\ Head(t.todo).row = r
    PROVE  Held(u, U)
<1> SUFFICES ASSUME t.op \in {"transfer", "return"} PROVE Held(u, U)
  BY DEF Held
<1>1. t.todo \in Seq(Step)
  BY DEF Transaction
<1>2. \A r \in Row : u.delta[r] > 0 => r[2] \in u.shared
  <2>1. Head(t.todo).kind = "put" => Head(t.todo).row[2] \in t.shared
    BY <1>1, RestOf DEF Held
  <2> QED
    BY <2>1 DEF Held
<1>3. ASSUME NEW k \in DOMAIN u.todo, u.todo[k].kind = "put"
      PROVE  \/ u.todo[k].row[2] \in u.shared
             \/ \E j \in 1..(k - 1) : u.todo[j].kind = "share"
                                        /\ u.todo[j].row[2] = u.todo[k].row[2]
  <2>1. k \in Nat /\ k + 1 \in DOMAIN t.todo /\ u.todo[k] = t.todo[k + 1]
    BY <1>1, RestOf
  <2>2. CASE t.todo[k + 1].row[2] \in t.shared
    BY <2>1, <2>2
  <2>3. ASSUME NEW j \in 1..k, t.todo[j].kind = "share",
               t.todo[j].row[2] = t.todo[k + 1].row[2]
        PROVE  \/ u.todo[k].row[2] \in u.shared
               \/ \E l \in 1..(k - 1) : u.todo[l].kind = "share"
                                          /\ u.todo[l].row[2] = u.todo[k].row[2]
    <3>1. CASE j = 1
      BY <1>1, <2>1, <2>3, <3>1, RestOf
    <3>2. CASE j > 1
      <4>1. DOMAIN t.todo = 1..Len(t.todo) /\ Len(t.todo) \in Nat
        BY <1>1
      <4>2. j \in DOMAIN t.todo /\ j \in Nat /\ j - 1 \in 1..(k - 1)
        BY <2>1, <3>2, <4>1
      <4>3. j - 1 \in DOMAIN Tail(t.todo)
        BY <1>1, <3>2, <4>2, RestOf
      <4>4. Tail(t.todo)[j - 1] = t.todo[(j - 1) + 1]
        BY <1>1, <4>3, RestOf
      <4>5. u.todo[j - 1] = t.todo[j]
        BY <4>2, <4>4
      <4> QED
        BY <2>1, <2>3, <4>2, <4>5
    <3> QED
      BY <3>1, <3>2
  <2> QED
    BY <1>3, <2>1, <2>2, <2>3 DEF Held
<1> QED
  BY <1>2, <1>3 DEF Held

LEMMA Underway ==
    ASSUME IInv, NEW d \in Open, work[d].todo # <<>>
    PROVE  /\ work[d] \in Transaction /\ work[d].todo \in Seq(Step) /\ d \in Desk
           /\ Upcoming(d) \in Step /\ Tail(work[d].todo) \in Seq(Step)
           /\ OwnRows(work[d]) /\ Clean(work[d]) /\ Held(work[d], usable)
           /\ Covered(work[d], stock)
           /\ \A e \in Open \ {d} : Apart(work[d], work[e])
<1>1. work[d] \in Transaction /\ d \in Desk
  BY DEF IInv, TypeOK, Open
<1>2. work[d].todo \in Seq(Step)
  BY <1>1 DEF Transaction
<1>3. Upcoming(d) \in Step /\ Tail(work[d].todo) \in Seq(Step)
  BY <1>2, RestOf DEF Upcoming
<1>4. Covered(work[d], stock)
  BY DEF IInv, TypeOK, Covered, OnHand
<1> QED
  BY <1>1, <1>2, <1>3, <1>4 DEF IInv

\* What a statement does to the stock is no longer to be done.
LEMMA BalanceAdvances ==
    ASSUME IInv, NEW d \in Open, work[d].todo # <<>>, NEW u \in Transaction,
           u.op = work[d].op, u.invoice = work[d].invoice, u.after = work[d].after,
           u.todo = Tail(work[d].todo),
           \A m \in Material : \/ OnForm(work[d])
                               \/ u.delta = work[d].delta /\ Effect(Upcoming(d), m) = 0
                               \/ TotalOf(u.delta, m) = TotalOf(work[d].delta, m) + Effect(Upcoming(d), m)
    PROVE  Balanced(u)
<1>1. Balanced(work[d]) /\ work[d] \in Transaction
  BY Underway DEF IInv
<1>2. ASSUME ~OnForm(u), NEW m \in Material
      PROVE  TotalOf(u.delta, m) + Pending(u.todo, m) = Due(u, m)
  <2>1. Due(u, m) = Due(work[d], m) /\ ~OnForm(work[d])
    BY <1>2 DEF Due, OnForm
  <2>2. TotalOf(work[d].delta, m) + Pending(work[d].todo, m) = Due(work[d], m)
    BY <1>1, <2>1 DEF Balanced
  <2>3. /\ Pending(work[d].todo, m) = Effect(Upcoming(d), m) + Pending(u.todo, m)
        /\ Pending(u.todo, m) \in Int /\ Effect(Upcoming(d), m) \in Int
    BY Underway, PendingFalls DEF Upcoming
  <2>4. TotalOf(work[d].delta, m) \in Int
    BY <1>1, TotalIsInt DEF Transaction
  <2>5. TotalOf(u.delta, m) = TotalOf(work[d].delta, m) + Effect(Upcoming(d), m)
    BY <2>1, <2>4
  <2> QED
    BY <2>1, <2>2, <2>3, <2>4, <2>5
<1>3. OnForm(u) => u.invoice = None
  BY <1>1 DEF Balanced, OnForm
<1> QED
  BY <1>1, <1>2, <1>3 DEF Balanced

\* A statement that changes no row: it looks at a location, shares it, or notes
\* that an entry was refused.
LEMMA LookKeeps ==
    ASSUME IInv, NEW d \in Open, work[d].todo # <<>>, NEW t \in Transaction, Advance(d, t),
           t.op = work[d].op, t.material = work[d].material, t.todo = work[d].todo,
           t.locked = work[d].locked, t.delta = work[d].delta,
           t.invoice = work[d].invoice, t.after = work[d].after,
           work[d].shared \subseteq t.shared, t.shared \subseteq work[d].shared \cup usable,
           Upcoming(d).kind = "share" => Upcoming(d).row[2] \in t.shared,
           OnForm(work[d]) \/ Upcoming(d).kind \in {"share", "check"}
    PROVE  IInv'
<1> DEFINE u == [t EXCEPT !.todo = Tail(t.todo)]
<1>1. /\ work[d] \in Transaction /\ Tail(work[d].todo) \in Seq(Step) /\ d \in Desk
  BY Underway
<1>2. u \in Transaction /\ u.todo = Tail(work[d].todo) /\ u.shared = t.shared
      /\ u.op = work[d].op /\ u.material = work[d].material /\ u.locked = work[d].locked
      /\ u.delta = work[d].delta /\ u.invoice = work[d].invoice /\ u.after = work[d].after
  BY <1>1 DEF Transaction
<1>3. work' = [work EXCEPT ![d] = u] /\ UNCHANGED <<usable, stock, received, lines>>
  BY DEF Advance
<1> HIDE DEF u
<1>4. Held(u, usable)
  <2>1. CASE u.op \in {"transfer", "return"}
    <3>1. Held(work[d], usable) /\ work[d].shared \subseteq usable
      BY <1>2, <2>1, Underway DEF Held
    <3>2. u.shared \subseteq usable /\ work[d].shared \subseteq u.shared
      BY <1>2, <3>1
    <3> QED
      BY <1>1, <1>2, <3>1, <3>2, HeldAdvances DEF Upcoming
  <2>2. CASE u.op \notin {"transfer", "return"}
    BY <2>2 DEF Held
  <2> QED
    BY <2>1, <2>2
<1>5. Clean(u) /\ Covered(u, stock) /\ \A e \in Open \ {d} : Apart(u, work[e])
  BY <1>2, Underway DEF Clean, Covered, Apart
<1>6. OwnRows(u)
  <2> SUFFICES ASSUME u.op = "transfer"
               PROVE  /\ u.material \in Material
                      /\ \A q \in u.locked : q[1] = u.material
                      /\ \A k \in DOMAIN u.todo : u.todo[k].row[1] = u.material
    BY DEF OwnRows
  <2> QED
    BY <1>2, Underway, RestOf DEF OwnRows
<1>7. Balanced(u)
  <2>1. \A m \in Material : OnForm(work[d]) \/ Effect(Upcoming(d), m) = 0
    BY DEF Effect
  <2> QED
    BY <1>2, <2>1, BalanceAdvances
<1> QED
  BY <1>1, <1>2, <1>3, <1>4, <1>5, <1>6, <1>7, OneMoves

\* A statement that changes a row nobody else has changed and leaves enough on it.
LEMMA ChangeKeeps ==
    ASSUME IInv, NEW d \in Open, work[d].todo # <<>>, NEW n \in Int,
           Advance(d, Change(d, Upcoming(d).row, n)), RowFree(d, Upcoming(d).row),
           OnHand(d, Upcoming(d).row) + n >= 0,
           \/ Upcoming(d).kind = "put" /\ n = Upcoming(d).amount
           \/ Upcoming(d).kind = "take" /\ n = -Upcoming(d).amount
    PROVE  IInv'
<1> DEFINE r == Upcoming(d).row
           t == Change(d, r, n)
           u == [t EXCEPT !.todo = Tail(t.todo)]
<1>1. /\ work[d] \in Transaction /\ Tail(work[d].todo) \in Seq(Step) /\ r \in Row
      /\ d \in Desk /\ Upcoming(d).kind # "share" /\ (Upcoming(d).kind = "put" \/ n <= 0)
  <2>1. Upcoming(d) \in Step
    BY Underway
  <2>2. r \in Row /\ Upcoming(d).amount \in Nat
    BY <2>1 DEF Step
  <2>3. Upcoming(d).kind # "put" => n <= 0
    BY <2>2
  <2> QED
    BY <2>2, <2>3, Underway
<1>2. work[d].delta \in [Row -> Int] /\ work[d].locked \subseteq Row
      /\ work[d].shared \subseteq Location
  BY <1>1 DEF Transaction
<1>3. /\ u \in Transaction /\ u.todo = Tail(work[d].todo) /\ u.op = work[d].op
      /\ u.material = work[d].material /\ u.shared = work[d].shared
      /\ u.invoice = work[d].invoice /\ u.after = work[d].after
      /\ u.locked = work[d].locked \cup {r}
      /\ u.delta = [work[d].delta EXCEPT ![r] = work[d].delta[r] + n]
  <2> DEFINE locked == work[d].locked \cup {r}
             delta == [work[d].delta EXCEPT ![r] = work[d].delta[r] + n]
  <2>1. locked \subseteq Row /\ delta \in [Row -> Int]
    BY <1>1, <1>2
  <2>2. t = [work[d] EXCEPT !.locked = locked, !.delta = delta]
    BY DEF Change
  <2> HIDE DEF locked, delta, t, r
  <2>3. t \in Transaction /\ t.todo = work[d].todo /\ t.op = work[d].op
        /\ t.material = work[d].material /\ t.shared = work[d].shared
        /\ t.locked = locked /\ t.delta = delta
        /\ t.invoice = work[d].invoice /\ t.after = work[d].after
    BY <1>1, <2>1, <2>2 DEF Transaction
  <2>4. u \in Transaction /\ u.todo = Tail(work[d].todo) /\ u.op = work[d].op
        /\ u.material = work[d].material /\ u.shared = work[d].shared
        /\ u.locked = locked /\ u.delta = delta
        /\ u.invoice = work[d].invoice /\ u.after = work[d].after
    BY <1>1, <2>3 DEF Transaction
  <2> QED
    BY <2>4 DEF locked, delta
<1>4. work' = [work EXCEPT ![d] = u] /\ UNCHANGED <<usable, stock, received, lines>>
  BY DEF Advance
<1> HIDE DEF t, u
<1>5. \A q \in Row : q # r => u.delta[q] = work[d].delta[q]
  BY <1>2, <1>3
<1>6. u.delta[r] = work[d].delta[r] + n
  BY <1>1, <1>2, <1>3
<1>7. Clean(u)
  BY <1>3, <1>5, Underway DEF Clean
<1>8. Covered(u, stock)
  <2> SUFFICES ASSUME NEW q \in u.locked PROVE stock[q] + u.delta[q] >= 0
    BY DEF Covered
  <2>1. CASE q = r
    BY <1>1, <1>2, <1>6, <2>1 DEF OnHand, IInv, TypeOK
  <2>2. CASE q # r
    BY <1>2, <1>3, <1>5, <2>2, Underway DEF Covered
  <2> QED
    BY <2>1, <2>2
<1>9. OwnRows(u)
  <2> SUFFICES ASSUME u.op = "transfer"
               PROVE  /\ u.material \in Material
                      /\ \A q \in u.locked : q[1] = u.material
                      /\ \A k \in DOMAIN u.todo : u.todo[k].row[1] = u.material
    BY DEF OwnRows
  <2>1. r[1] = work[d].material
    BY <1>3, Underway, RestOf DEF OwnRows, Upcoming
  <2> QED
    BY <1>3, <2>1, Underway, RestOf DEF OwnRows
<1>10. Held(u, usable)
  <2>1. CASE u.op \in {"transfer", "return"}
    <3>1. Held(work[d], usable) /\ work[d].shared \subseteq usable
      BY <1>3, <2>1, Underway DEF Held
    <3>2. \A q \in Row : u.delta[q] > 0 => work[d].delta[q] > 0
                                           \/ (Upcoming(d).kind = "put" /\ r = q)
      BY <1>1, <1>2, <1>5, <1>6
    <3> QED
      BY <1>1, <1>3, <3>1, <3>2, HeldAdvances DEF Upcoming
  <2>2. CASE u.op \notin {"transfer", "return"}
    BY <2>2 DEF Held
  <2> QED
    BY <2>1, <2>2
<1>11. \A e \in Open \ {d} : Apart(u, work[e])
  BY <1>3, Underway DEF Apart, RowFree
<1>12. Balanced(u)
  <2>1. ASSUME NEW m \in Material
        PROVE  TotalOf(u.delta, m) = TotalOf(work[d].delta, m) + Effect(Upcoming(d), m)
    <3>1. Effect(Upcoming(d), m) = IF r[1] = m THEN n ELSE 0
      BY DEF Effect
    <3>2. TotalOf(u.delta, m) = TotalOf(work[d].delta, m) + (IF r[1] = m THEN n ELSE 0)
      <4>1. r \in Row /\ n \in Int
        BY <1>1
      <4> HIDE DEF r
      <4>2. \A f \in [Row -> Int] :
              TotalOf([f EXCEPT ![r] = f[r] + n], m) = TotalOf(f, m) + (IF r[1] = m THEN n ELSE 0)
        BY <4>1, TotalChanges
      <4> QED
        BY <1>2, <1>3, <4>2
    <3> QED
      BY <3>1, <3>2
  <2> QED
    BY <1>3, <2>1, BalanceAdvances
<1> QED
  BY <1>1, <1>3, <1>4, <1>7, <1>8, <1>9, <1>10, <1>11, <1>12, OneMoves

LEMMA ShareKeeps ==
    ASSUME IInv, NEW d \in Desk, ShareLocation(d)
    PROVE  IInv'
<1>1. d \in Open /\ work[d].todo # <<>>
  BY DEF ShareLocation, Ready
<1>k. Upcoming(d).kind = "share"
  BY DEF ShareLocation, Ready
<1> DEFINE l == Upcoming(d).row[2]
           shared == work[d].shared \cup {l}
<1>2. CASE l \in usable
  <2>1. work[d] \in Transaction /\ shared \subseteq Location
    BY <1>1, <1>2, Underway DEF IInv, TypeOK, Transaction
  <2>2. Advance(d, [work[d] EXCEPT !.shared = shared])
    BY <1>2 DEF ShareLocation
  <2>3. shared \subseteq work[d].shared \cup usable /\ Upcoming(d).row[2] \in shared
    BY <1>2
  <2> DEFINE t == [work[d] EXCEPT !.shared = shared]
  <2> HIDE DEF shared
  <2>4. t \in Transaction /\ t.op = work[d].op /\ t.material = work[d].material
        /\ t.todo = work[d].todo /\ t.locked = work[d].locked /\ t.delta = work[d].delta
        /\ t.invoice = work[d].invoice /\ t.after = work[d].after /\ t.shared = shared
    BY <2>1 DEF Transaction
  <2>5. work[d].shared \subseteq t.shared
    BY <2>4 DEF shared
  <2> HIDE DEF t
  <2> QED
    BY <1>1, <1>k, <2>2, <2>3, <2>4, <2>5, LookKeeps DEF t
<1>3. CASE l \notin usable
  BY <1>3, Ends DEF ShareLocation
<1> QED
  BY <1>2, <1>3

LEMMA CheckKeeps ==
    ASSUME IInv, NEW d \in Desk, CheckLocation(d)
    PROVE  IInv'
<1>1. d \in Open /\ work[d].todo # <<>> /\ Upcoming(d).kind = "check"
  BY DEF CheckLocation, Ready
<1>2. CASE Advance(d, work[d])
  <2>1. /\ Upcoming(d).kind = "share" => Upcoming(d).row[2] \in work[d].shared
        /\ OnForm(work[d]) \/ Upcoming(d).kind \in {"share", "check"}
    BY <1>1
  <2> QED
    BY <1>1, <1>2, <2>1, Underway, LookKeeps
<1>3. CASE End(d)
  BY <1>3, Ends
<1> QED
  BY <1>2, <1>3 DEF CheckLocation

LEMMA DecrementKeeps ==
    ASSUME IInv, NEW d \in Desk, DecrementStock(d)
    PROVE  IInv'
<1> DEFINE r == Upcoming(d).row
           n == Upcoming(d).amount
<1>1. d \in Open /\ work[d].todo # <<>> /\ Upcoming(d).kind = "take"
  BY DEF DecrementStock, Ready
<1>2. /\ work[d] \in Transaction /\ Upcoming(d) \in Step
  BY <1>1, Underway
<1>3. r \in Row /\ n \in Nat /\ OnHand(d, r) \in Int
  <2>1. r \in Row /\ n \in Nat
    BY <1>2 DEF Step
  <2>2. stock[r] \in Nat /\ work[d].delta[r] \in Int
    BY <1>2, <2>1 DEF IInv, TypeOK, Transaction
  <2> QED
    BY <2>1, <2>2 DEF OnHand
<1>4. CASE OnHand(d, r) >= n /\ RowFree(d, r) /\ Advance(d, Change(d, r, -n))
  <2>1. -n \in Int /\ -n <= 0 /\ OnHand(d, r) + (-n) >= 0
    BY <1>3, <1>4
  <2> QED
    BY <1>1, <1>4, <2>1, ChangeKeeps
<1>5. CASE work[d].op = "remove" /\ Advance(d, [work[d] EXCEPT !.refused = TRUE])
  <2> DEFINE t == [work[d] EXCEPT !.refused = TRUE]
  <2>1. t \in Transaction /\ t.op = work[d].op /\ t.material = work[d].material
        /\ t.todo = work[d].todo /\ t.locked = work[d].locked /\ t.delta = work[d].delta
        /\ t.invoice = work[d].invoice /\ t.after = work[d].after
        /\ t.shared = work[d].shared
    BY <1>2 DEF Transaction
  <2>2. OnForm(work[d])
    BY <1>5 DEF OnForm
  <2> HIDE DEF t
  <2> QED
    BY <1>1, <1>5, <2>1, <2>2, LookKeeps DEF t
<1>6. CASE End(d)
  BY <1>6, Ends
<1> QED
  BY <1>4, <1>5, <1>6 DEF DecrementStock

LEMMA UpsertKeeps ==
    ASSUME IInv, NEW d \in Desk, UpsertStock(d)
    PROVE  IInv'
<1> DEFINE r == Upcoming(d).row
           n == Upcoming(d).amount
<1>1. d \in Open /\ work[d].todo # <<>> /\ Upcoming(d).kind = "put"
  BY DEF UpsertStock, Ready
<1>2. r \in Row /\ n \in Nat /\ work[d] \in Transaction
  BY <1>1, Underway DEF Step
<1>3. OnHand(d, r) \in Int /\ OnHand(d, r) >= 0
  <2>1. stock[r] \in Nat /\ work[d].delta[r] \in Int
    BY <1>2 DEF IInv, TypeOK, Transaction
  <2>2. CASE r \in work[d].locked
    BY <1>1, <2>1, <2>2, Underway DEF Covered, OnHand
  <2>3. CASE r \notin work[d].locked
    BY <1>1, <1>2, <2>1, <2>3, Underway DEF Clean, OnHand
  <2> QED
    BY <2>2, <2>3
<1>4. RowFree(d, r) /\ Advance(d, Change(d, r, n))
  BY DEF UpsertStock
<1> QED
  BY <1>1, <1>2, <1>3, <1>4, ChangeKeeps

-----------------------------------------------------------------------------
(* What all invoices have taken. *)

LEMMA InvoicesTake ==
    ASSUME NEW these \in [Invoice -> Seq(Line) \cup {None}], NEW m
    PROVE  /\ Numbers([i \in Invoice |-> Taken(m, these[i])], Invoice)
           /\ SumOver([i \in Invoice |-> Taken(m, these[i])])
                = SumOf([i \in Invoice |-> Taken(m, these[i])], Invoice)
           /\ SumOver([i \in Invoice |-> Taken(m, these[i])]) \in Int
<1> DEFINE F == [i \in Invoice |-> Taken(m, these[i])]
<1>1. ASSUME NEW i \in Invoice PROVE Taken(m, these[i]) \in Int
  <2>1. CASE these[i] = None
    BY <2>1, TakenIs
  <2>2. CASE these[i] \in Seq(Line)
    BY <2>2, GoneIsInt
  <2> QED
    BY <2>1, <2>2
<1>2. Numbers(F, Invoice)
  BY <1>1 DEF Numbers
<1>3. SumOver(F) = SumOf(F, Invoice)
  BY DEF SumOver, SumOf
<1> QED
  BY <1>2, <1>3, Finite, SumIsInt

\* When one invoice changes, the sum changes by as much.
LEMMA OneInvoiceChanges ==
    ASSUME NEW these \in [Invoice -> Seq(Line) \cup {None}],
           NEW those \in [Invoice -> Seq(Line) \cup {None}],
           NEW i \in Invoice, \A j \in Invoice \ {i} : those[j] = these[j], NEW m
    PROVE  /\ SumOver([j \in Invoice |-> Taken(m, those[j])]) - Taken(m, those[i])
                = SumOver([j \in Invoice |-> Taken(m, these[j])]) - Taken(m, these[i])
           /\ Taken(m, those[i]) \in Int /\ Taken(m, these[i]) \in Int
<1> DEFINE F == [j \in Invoice |-> Taken(m, these[j])]
           G == [j \in Invoice |-> Taken(m, those[j])]
           others == Invoice \ {i}
<1>1. /\ Numbers(F, Invoice) /\ SumOver(F) = SumOf(F, Invoice)
      /\ Numbers(G, Invoice) /\ SumOver(G) = SumOf(G, Invoice)
  BY InvoicesTake
<1>2. /\ F[i] = Taken(m, these[i]) /\ G[i] = Taken(m, those[i])
      /\ \A j \in others : F[j] = G[j]
  OBVIOUS
<1>3. IsFiniteSet(others) /\ Numbers(F, others) /\ F[i] \in Int /\ G[i] \in Int
  BY <1>1, Finite, FS_Difference DEF Numbers
<1> HIDE DEF F, G
<1>4. SumOf(F, Invoice) = F[i] + SumOf(F, others) /\ SumOf(G, Invoice) = G[i] + SumOf(G, others)
  BY <1>1, Finite, SumTakes
<1> HIDE DEF others
<1>5. SumOf(F, others) = SumOf(G, others) /\ SumOf(F, others) \in Int
  BY <1>2, <1>3, SumSame, SumIsInt
<1>6. SumOver(G) - G[i] = SumOver(F) - F[i]
  BY <1>1, <1>3, <1>4, <1>5
<1> QED
  BY <1>2, <1>3, <1>6 DEF F, G

\* A commit keeps the accounts: it adds to the stock what its invoice gives back.
LEMMA CommitAccounts ==
    ASSUME IInv, NEW d \in Open, work[d] \in Transaction, Commit(d),
           lines' \in [Invoice -> Seq(Line) \cup {None}], NEW m \in Material
    PROVE  received'[m] = TotalOf(stock', m) + SumOver([i \in Invoice |-> Taken(m, lines'[i])])
<1> DEFINE t == work[d]
           Sum == SumOver([i \in Invoice |-> Taken(m, lines[i])])
           New == SumOver([i \in Invoice |-> Taken(m, lines'[i])])
<1>1. /\ t.delta \in [Row -> Int] /\ t.after \in Seq(Line) /\ t.todo = <<>>
      /\ t.invoice \in Invoice \cup {None}
  BY DEF Transaction, Commit
<1>2. lines \in [Invoice -> Seq(Line) \cup {None}] /\ stock \in [Row -> Nat]
  BY DEF IInv, TypeOK
<1>3. TotalOf(stock', m) = TotalOf(stock, m) + TotalOf(t.delta, m)
  <2>1. \A r \in Row : stock'[r] = stock[r] + t.delta[r]
    BY DEF Commit
  <2>2. stock \in [Row -> Int]
    BY <1>2
  <2> HIDE DEF t
  <2> QED
    BY <1>1, <2>1, <2>2, TotalAdds
<1>4. received[m] = TotalOf(stock, m) + Sum
  BY DEF IInv, StockIsAccounted
<1>5. TotalOf(stock, m) \in Int /\ TotalOf(t.delta, m) \in Int /\ Sum \in Int
  <2>1. stock \in [Row -> Int]
    BY <1>2
  <2> QED
    BY <1>1, <1>2, <2>1, TotalIsInt, InvoicesTake
<1>6. received'[m] = IF OnForm(t) THEN received[m] + TotalOf(t.delta, m) ELSE received[m]
  BY DEF Commit, OnForm
<1>7. /\ OnForm(t) => t.invoice = None
      /\ ~OnForm(t) => TotalOf(t.delta, m) = Due(t, m)
  <2>1. Balanced(t) /\ Pending(t.todo, m) = 0
    BY <1>1, NothingPending DEF IInv
  <2> QED
    BY <1>5, <2>1 DEF Balanced
<1>8. CASE t.invoice = None
  <2>1. New = Sum
    <3>1. \A i \in Invoice : lines'[i] = lines[i]
      BY <1>8, Finite DEF Commit
    <3> QED
      BY <3>1
  <2>2. Due(t, m) = 0
    BY <1>8 DEF Due
  <2> HIDE DEF t, Sum, New
  <2> QED
    BY <1>3, <1>4, <1>5, <1>6, <1>7, <2>1, <2>2 DEF New
<1>9. CASE t.invoice # None
  <2>1. /\ t.invoice \in Invoice /\ ~OnForm(t)
        /\ lines'[t.invoice] = t.after
        /\ \A j \in Invoice \ {t.invoice} : lines'[j] = lines[j]
    BY <1>1, <1>7, <1>9 DEF Commit
  <2>2. /\ New - Taken(m, lines'[t.invoice]) = Sum - Taken(m, lines[t.invoice])
        /\ Taken(m, lines'[t.invoice]) \in Int /\ Taken(m, lines[t.invoice]) \in Int
    <3> HIDE DEF t
    <3> QED
      BY <1>2, <2>1, OneInvoiceChanges
  <2>3. TotalOf(t.delta, m) = Taken(m, lines[t.invoice]) - Taken(m, lines'[t.invoice])
    BY <1>7, <1>9, <2>1 DEF Due
  <2>4. New \in Int
    BY InvoicesTake
  <2> HIDE DEF t, Sum, New
  <2> DEFINE before == Taken(m, lines[t.invoice])
             after == Taken(m, lines'[t.invoice])
             shelves == TotalOf(stock, m)
  <2>5. /\ received'[m] = shelves + Sum
        /\ TotalOf(stock', m) = shelves + (before - after)
        /\ New - after = Sum - before
        /\ {before, after, shelves, Sum, New} \subseteq Int
    BY <1>3, <1>4, <1>5, <1>6, <2>1, <2>2, <2>3, <2>4
  <2> HIDE DEF before, after, shelves
  <2>6. shelves + Sum = (shelves + (before - after)) + New
    BY <2>5
  <2> QED
    BY <2>5, <2>6 DEF New
<1> QED
  BY <1>8, <1>9

\* What a commit adds to a row is its own, so the others still see enough there.
LEMMA CommitKeeps ==
    ASSUME IInv, NEW d \in Desk, Commit(d)
    PROVE  IInv'
<1>1. d \in Open /\ work[d] \in Transaction
  BY DEF Commit, IInv, TypeOK, Open
<1>2. work[d].delta \in [Row -> Int] /\ work[d].after \in Seq(Line)
  BY <1>1 DEF Transaction
<1>3. \A r \in Row : stock[r] \in Nat /\ stock'[r] = stock[r] + work[d].delta[r]
                      /\ stock'[r] >= 0 /\ (r \notin work[d].locked => stock'[r] = stock[r])
  <2> SUFFICES ASSUME NEW r \in Row
               PROVE  /\ stock[r] \in Nat /\ stock'[r] = stock[r] + work[d].delta[r]
                      /\ stock'[r] >= 0 /\ (r \notin work[d].locked => stock'[r] = stock[r])
    OBVIOUS
  <2>1. stock[r] \in Nat /\ work[d].delta[r] \in Int
    BY <1>2 DEF IInv, TypeOK
  <2>2. stock'[r] = stock[r] + work[d].delta[r]
    BY DEF Commit
  <2>3. r \in work[d].locked => stock[r] + work[d].delta[r] >= 0
    BY <1>1 DEF IInv, TypeOK, OnHand
  <2>4. r \notin work[d].locked => work[d].delta[r] = 0
    BY <1>1 DEF IInv, Clean
  <2> QED
    BY <2>1, <2>2, <2>3, <2>4
<1>4. stock' \in [Row -> Nat]
  <2>1. \A r \in Row : stock[r] + work[d].delta[r] \in Nat
    BY <1>2, <1>3
  <2> QED
    BY <2>1 DEF Commit
<1>5. lines' \in [Invoice -> Seq(Line) \cup {None}]
  BY <1>2 DEF Commit, IInv, TypeOK
<1>6. /\ work' \in [Desk -> Transaction \cup {Idle}] /\ usable' = usable
      /\ \A e \in Open' : e \in Open /\ e # d /\ work'[e] = work[e]
  BY DEF Commit, IInv, TypeOK, Open
<1>7. \A e \in Open' : \A r \in work'[e].locked : OnHand(e, r)' >= 0
  <2> SUFFICES ASSUME NEW e \in Open', NEW r \in work[e].locked
               PROVE  stock'[r] + work[e].delta[r] >= 0
    BY <1>6 DEF OnHand
  <2>1. e \in Open /\ e # d /\ work[e] \in Transaction
    BY <1>6 DEF Open, IInv, TypeOK
  <2>2. r \in Row /\ r \notin work[d].locked
    BY <1>1, <2>1 DEF Transaction, IInv, Apart
  <2> QED
    BY <1>3, <2>1, <2>2 DEF IInv, TypeOK, OnHand
<1>8. TypeOK'
  BY <1>4, <1>5, <1>6, <1>7 DEF TypeOK, IInv
<1>9. StockIsAccounted'
  <2>1. ASSUME NEW m \in Material
        PROVE  received'[m] = TotalOf(stock', m) + SumOver([i \in Invoice |-> Taken(m, lines'[i])])
    BY <1>1, <1>5, CommitAccounts
  <2>2. \A i \in Invoice : Sound(lines'[i])
    <3>1. Sound(work[d].after) /\ \A i \in Invoice : Sound(lines[i])
      BY <1>1 DEF IInv, Balanced, StockIsAccounted
    <3>2. \A i \in Invoice : lines'[i] = work[d].after \/ lines'[i] = lines[i]
      BY DEF Commit
    <3> QED
      BY <3>1, <3>2
  <2> QED
    BY <2>1, <2>2 DEF StockIsAccounted
<1>10. \A e \in Open' : Balanced(work[e])'
  <2> SUFFICES ASSUME NEW e \in Open' PROVE Balanced(work[e])'
    OBVIOUS
  <2>1. Balanced(work[e]) /\ e \in Open /\ work'[e] = work[e]
    BY <1>6 DEF IInv
  <2>2. work[e].invoice # None => lines'[work[e].invoice] = lines[work[e].invoice]
    <3>1. work[e] \in Transaction /\ Apart(work[d], work[e])
      BY <1>1, <1>6 DEF IInv, TypeOK, Open
    <3> QED
      BY <3>1 DEF Apart, Transaction, Commit
  <2> QED
    BY <2>1, <2>2 DEF Balanced, Due
<1> QED
  BY <1>6, <1>8, <1>9, <1>10 DEF IInv, Clean, OwnRows, Held, Apart

\* Whether a line is collected does not change what it took.
LEMMA SameTaken ==
    ASSUME NEW old \in Seq(Line), NEW new \in Seq(Line), DOMAIN new = DOMAIN old, NEW m,
           \A j \in DOMAIN old : /\ new[j].row = old[j].row /\ new[j].quantity = old[j].quantity
                                 /\ new[j].returned = old[j].returned
                                 /\ new[j].restocked = old[j].restocked
    PROVE  Taken(m, new) = Taken(m, old) /\ (Sound(old) => Sound(new))
<1>1. Gone(m, new) = Gone(m, old)
  BY DEF Gone
<1>2. Taken(m, new) = Taken(m, old)
  BY <1>1, GoneIsInt
<1>3. Sound(old) => Sound(new)
  BY ContentsAssumption DEF Sound
<1> QED
  BY <1>2, <1>3

LEMMA HandOutKeeps ==
    ASSUME IInv, NEW i \in Invoice, lines[i] # None, NEW k \in DOMAIN lines[i], HandOut(i, k)
    PROVE  IInv'
<1> DEFINE line == [lines[i][k] EXCEPT !.collected = TRUE]
           new == [lines[i] EXCEPT ![k] = line]
<1>1. lines[i] \in Seq(Line)
  BY DEF IInv, TypeOK
<1>2. /\ new \in Seq(Line) /\ Sound(new)
      /\ \A m \in Material : Taken(m, new) = Taken(m, lines[i])
  <2>1. /\ line \in Line /\ line.row = lines[i][k].row /\ line.quantity = lines[i][k].quantity
        /\ line.returned = lines[i][k].returned /\ line.restocked = lines[i][k].restocked
    <3>1. lines[i][k] \in Line
      BY <1>1
    <3> QED
      BY <3>1 DEF Line
  <2> HIDE DEF line
  <2>2. /\ new \in Seq(Line) /\ DOMAIN new = DOMAIN lines[i]
        /\ \A j \in DOMAIN lines[i] : new[j] = IF j = k THEN line ELSE lines[i][j]
    BY <1>1, <2>1
  <2> HIDE DEF new
  <2>3. \A j \in DOMAIN lines[i] :
          /\ new[j].row = lines[i][j].row /\ new[j].quantity = lines[i][j].quantity
          /\ new[j].returned = lines[i][j].returned /\ new[j].restocked = lines[i][j].restocked
    BY <2>1, <2>2
  <2>4. ASSUME NEW m
        PROVE  Taken(m, new) = Taken(m, lines[i]) /\ (Sound(lines[i]) => Sound(new))
    BY <1>1, <2>2, <2>3, SameTaken
  <2>5. Sound(lines[i])
    BY DEF IInv, StockIsAccounted
  <2> QED
    BY <2>2, <2>4, <2>5
<1>3. /\ lines' = [lines EXCEPT ![i] = new] /\ Open' = Open
      /\ UNCHANGED <<usable, stock, received, work>>
  BY DEF HandOut, Open
<1> HIDE DEF new
<1>4. /\ lines' \in [Invoice -> Seq(Line) \cup {None}] /\ lines'[i] = new
      /\ \A j \in Invoice \ {i} : lines'[j] = lines[j]
  BY <1>2, <1>3 DEF IInv, TypeOK
<1>5. TypeOK'
  BY <1>3, <1>4 DEF IInv, TypeOK, OnHand
<1>6. StockIsAccounted'
  <2>1. ASSUME NEW m \in Material
        PROVE  received'[m] = TotalOf(stock', m) + SumOver([j \in Invoice |-> Taken(m, lines'[j])])
    <3>1. [j \in Invoice |-> Taken(m, lines'[j])] = [j \in Invoice |-> Taken(m, lines[j])]
      BY <1>2, <1>4
    <3> QED
      BY <1>3, <3>1 DEF IInv, StockIsAccounted
  <2>2. \A j \in Invoice : Sound(lines'[j])
    BY <1>2, <1>4 DEF IInv, StockIsAccounted
  <2> QED
    BY <2>1, <2>2 DEF StockIsAccounted
<1>7. \A d \in Open : Balanced(work[d])'
  <2> SUFFICES ASSUME NEW d \in Open PROVE Balanced(work[d])'
    OBVIOUS
  <2>1. work[d] \in Transaction /\ Balanced(work[d]) /\ work[d].invoice # i
    BY DEF IInv, TypeOK, Open, HandOut, Unlocked
  <2>2. work[d].invoice # None => lines'[work[d].invoice] = lines[work[d].invoice]
    BY <1>4, <2>1 DEF Transaction
  <2> QED
    BY <1>3, <2>1, <2>2 DEF Balanced, Due
<1> QED
  BY <1>3, <1>5, <1>6, <1>7 DEF IInv, Clean, OwnRows, Held, Apart

\* A location that somebody shares cannot be retired.
LEMMA UpdateLocationKeeps ==
    ASSUME IInv, NEW l \in Location, UpdateLocation(l)
    PROVE  IInv'
<1>1. Open' = Open /\ UNCHANGED <<stock, lines, work>>
  BY DEF UpdateLocation, Open
<1>2. usable' \subseteq Location /\ usable \ {l} \subseteq usable'
  BY DEF UpdateLocation, IInv, TypeOK
<1>3. TypeOK'
  BY <1>1, <1>2 DEF IInv, TypeOK, OnHand
<1>4. \A d \in Open : Held(work[d], usable')
  BY <1>2 DEF IInv, Held, UpdateLocation
<1>5. StockIsAccounted'
  BY AccountsStay DEF IInv, UpdateLocation
<1> QED
  BY <1>1, <1>3, <1>4, <1>5 DEF IInv, Clean, OwnRows, Apart, Held, Balanced, Due

LEMMA StutterKeeps == IInv /\ UNCHANGED vars => IInv'
BY AccountsStay
   DEF IInv, vars, TypeOK, Open, OnHand, Clean, OwnRows, Held, Balanced, Due, Apart

LEMMA NextKeeps == IInv /\ [Next]_vars => IInv'
<1> SUFFICES ASSUME IInv, [Next]_vars PROVE IInv'
  OBVIOUS
<1>1. ASSUME NEW d \in Desk, Request(d) PROVE IInv'
  BY <1>1, StockFormKeeps, TransferKeeps, SaleKeeps, ReturnKeeps, CancelKeeps DEF Request
<1>2. ASSUME NEW d \in Desk, Statement(d) PROVE IInv'
  <2>1. Rollback(d) => IInv'
    BY Ends DEF Rollback
  <2> QED
    BY <1>2, <2>1, ShareKeeps, CheckKeeps, DecrementKeeps, UpsertKeeps, CommitKeeps DEF Statement
<1>3. ASSUME NEW i \in Invoice, lines[i] # None, NEW k \in DOMAIN lines[i], HandOut(i, k)
      PROVE  IInv'
  BY <1>3, HandOutKeeps
<1>4. ASSUME NEW l \in Location, UpdateLocation(l) PROVE IInv'
  BY <1>4, UpdateLocationKeeps
<1> QED
  BY <1>1, <1>2, <1>3, <1>4, StutterKeeps DEF Next

-----------------------------------------------------------------------------
(* The results. *)

\* Every open transaction owns the rows it changed, shares the shelves it fills,
\* and owes the stock exactly what its invoice gives back or takes, whatever the
\* statements of others do in between.
THEOREM Invariant == Spec => []IInv
<1> QED
  BY InitIInv, NextKeeps, PTL DEF Spec

\* Fabric is neither made nor lost, and no line gives back more than it took,
\* for any number of requests running at once (decrement_stock, upsert_stock,
\* restore_material_stock).
THEOREM StockStaysAccounted == Spec => []StockIsAccounted
<1>1. IInv => StockIsAccounted
  BY DEF IInv
<1> QED
  BY <1>1, Invariant, PTL

\* However requests interleave, no shelf is oversold: committed quantities are
\* never negative, and neither is what any open transaction sees of the rows it
\* has changed (decrement_stock).
THEOREM NeverOversold == Spec => []TypeOK
<1>1. IInv => TypeOK
  BY DEF IInv
<1> QED
  BY <1>1, Invariant, PTL

\* Transfers of any number of materials between any number of locations never
\* wait for each other (the material lock of transfer_stock).
THEOREM TransfersPass == Spec => []TransfersDoNotWait
<1>1. ASSUME IInv PROVE TransfersDoNotWait
  <2> SUFFICES ASSUME NEW d \in Open, NEW e \in Open, work[d].op = "transfer",
                      work[e].op = "transfer", WaitsFor(d, e)
               PROVE  FALSE
    BY DEF TransfersDoNotWait
  <2>1. d # e /\ work[d].todo # <<>> /\ Upcoming(d).row \in work[e].locked
    BY DEF WaitsFor
  <2>2. Upcoming(d).row[1] = work[d].material
    BY <1>1, <2>1, Underway, RestOf DEF OwnRows, Upcoming
  <2>3. Upcoming(d).row[1] = work[e].material
    BY <1>1, <2>1 DEF IInv, OwnRows
  <2> QED
    BY <1>1, <2>1, <2>2, <2>3 DEF IInv, Apart
<1> QED
  BY <1>1, Invariant, PTL

\* A location cannot be retired between the look a transfer or a return took at
\* it and the goods that arrive there (lock_restock_location, transfer_stock).
THEOREM ArrivesWhereStockIsHeld == Spec => []GoodsArriveWhereStockIsHeld
<1>1. IInv => GoodsArriveWhereStockIsHeld
  BY DEF IInv, Held, GoodsArriveWhereStockIsHeld
<1> QED
  BY <1>1, Invariant, PTL

=============================================================================
