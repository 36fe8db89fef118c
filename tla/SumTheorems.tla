---------------------------- MODULE SumTheorems -----------------------------
(***************************************************************************)
(* What sums over sets and over sequences are, for summands of any number  *)
(* and size.  The induction that this takes is a search for the smallest   *)
(* exception: Induct says so of sets, without an operator as a parameter.  *)
(***************************************************************************)
EXTENDS Integers, FiniteSetsExt, FiniteSetTheorems, WellFoundedInduction, TLAPS

\* A set of numbers has a smallest one.
LEMMA Smallest ==
  ASSUME NEW S, S \subseteq Nat, S # {}
  PROVE  \E n \in S : \A m \in S : n <= m
<1> DEFINE R == OpToRel(<, Nat)
<1>1. IsWellFoundedOn(R, Nat)
  BY NatLessThanWellFounded
<1>2. \A m, n \in Nat : m < n => <<m, n>> \in R
  BY DEF OpToRel
<1> HIDE DEF R
<1>3. PICK n \in S : \A m \in S : ~(<<m, n>> \in R)
  BY <1>1, WFMin
<1>4. \A m \in S : ~(m < n)
  BY <1>2, <1>3
<1> QED
  BY <1>4

LEMMA Induct ==
  ASSUME NEW S, 0 \in S, \A n \in Nat : n \in S => n + 1 \in S
  PROVE  Nat \subseteq S
<1> SUFFICES ASSUME Nat \ S # {} PROVE FALSE
  OBVIOUS
<1>1. PICK n \in Nat \ S : \A m \in Nat \ S : n <= m
  BY Smallest
<1>2. n # 0 /\ n - 1 \in Nat /\ n - 1 \in S
  BY <1>1
<1> QED
  BY <1>1, <1>2

-----------------------------------------------------------------------------
(* Sums over finite sets. *)

SumOf(f, S) == MapThenSumSet(LAMBDA x : f[x], S)

First(s) == CHOOSE x \in s : TRUE
Rest(s) == s \ {First(s)}
UpToSize(S, n) == {s \in SUBSET S : Cardinality(s) <= n}
Sums(g, f, D) == g = [s \in D |-> IF s = {} THEN 0 ELSE f[First(s)] + g[Rest(s)]]

LEMMA FirstIs ==
  ASSUME NEW s, IsFiniteSet(s), s # {}
  PROVE  /\ First(s) \in s /\ IsFiniteSet(Rest(s)) /\ Rest(s) \subseteq s
         /\ Cardinality(s) \in Nat \ {0}
         /\ Cardinality(Rest(s)) = Cardinality(s) - 1
<1>1. First(s) \in s
  BY DEF First
<1> QED
  BY <1>1, FS_CardinalityType, FS_EmptySet, FS_RemoveElement DEF Rest

\* The recursion of the library's sum has a solution on every finite set.
LEMMA SumsExist ==
  ASSUME NEW f, NEW S, IsFiniteSet(S)
  PROVE  \E g : Sums(g, f, SUBSET S)
<1>0. \A s \in SUBSET S : IsFiniteSet(s) /\ Cardinality(s) \in Nat
  BY FS_Subset, FS_CardinalityType
<1> DEFINE N == {n \in Nat : \E g : Sums(g, f, UpToSize(S, n))}
<1>1. 0 \in N
  <2>1. UpToSize(S, 0) = {{}}
    BY <1>0, FS_EmptySet DEF UpToSize
  <2> DEFINE g == [s \in UpToSize(S, 0) |-> 0]
  <2>2. Sums(g, f, UpToSize(S, 0))
    BY <2>1 DEF Sums
  <2> QED
    BY <2>2
<1>2. \A n \in Nat : n \in N => n + 1 \in N
  <2> SUFFICES ASSUME NEW n \in Nat, n \in N PROVE n + 1 \in N
    OBVIOUS
  <2>1. PICK g : Sums(g, f, UpToSize(S, n))
    OBVIOUS
  <2> DEFINE h == [s \in UpToSize(S, n + 1) |-> IF s = {} THEN 0 ELSE f[First(s)] + g[Rest(s)]]
  <2>2. ASSUME NEW s \in UpToSize(S, n + 1), s # {}
        PROVE  Rest(s) \in UpToSize(S, n) /\ Rest(s) \in UpToSize(S, n + 1)
    BY <1>0, <2>2, FirstIs DEF UpToSize
  <2>3. \A s \in UpToSize(S, n) : s \in UpToSize(S, n + 1)
    BY <1>0 DEF UpToSize
  <2>4. \A s \in UpToSize(S, n) : g[s] = h[s]
    BY <2>1, <2>3 DEF Sums
  <2>5. \A s \in UpToSize(S, n + 1) : s # {} => g[Rest(s)] = h[Rest(s)]
    BY <2>2, <2>4
  <2>6. h = [s \in UpToSize(S, n + 1) |-> IF s = {} THEN 0 ELSE f[First(s)] + h[Rest(s)]]
    <3> HIDE DEF h
    <3>1. h = [s \in UpToSize(S, n + 1) |-> IF s = {} THEN 0 ELSE f[First(s)] + g[Rest(s)]]
      BY DEF h
    <3> QED
      BY <3>1, <2>5
  <2> HIDE DEF h
  <2> QED
    BY <2>6 DEF Sums
<1> HIDE DEF N
<1>3. Cardinality(S) \in N
  BY <1>0, <1>1, <1>2, Induct
<1>4. UpToSize(S, Cardinality(S)) = SUBSET S
  BY <1>0, FS_Subset DEF UpToSize
<1> QED
  BY <1>3, <1>4 DEF N

LEMMA SumIsChosen ==
  ASSUME NEW f, NEW S
  PROVE  SumOf(f, S) = (CHOOSE g : Sums(g, f, SUBSET S))[S]
BY DEF SumOf, Sums, First, Rest, MapThenSumSet, MapThenFoldSet

\* Whatever set a solution is made for, it says the same of a smaller one.
LEMMA SumsAgree ==
  \A f, S, T, g, h :
    IsFiniteSet(S) /\ T \subseteq S /\ Sums(g, f, SUBSET S) /\ Sums(h, f, SUBSET T)
      => g[T] = h[T]
<1> TAKE f, S, T, g, h
<1> HAVE IsFiniteSet(S) /\ T \subseteq S /\ Sums(g, f, SUBSET S) /\ Sums(h, f, SUBSET T)
<1>0. \A s \in SUBSET S : IsFiniteSet(s) /\ Cardinality(s) \in Nat
  BY FS_Subset, FS_CardinalityType
<1> DEFINE N == {n \in Nat : \A s \in UpToSize(T, n) : g[s] = h[s]}
<1>e. {} \in SUBSET S /\ {} \in SUBSET T /\ g[{}] = 0 /\ h[{}] = 0
  BY DEF Sums
<1>1. 0 \in N
  BY <1>0, <1>e, FS_EmptySet DEF UpToSize
<1>2. \A n \in Nat : n \in N => n + 1 \in N
  <2> SUFFICES ASSUME NEW n \in Nat, n \in N, NEW s \in UpToSize(T, n + 1)
      PROVE  g[s] = h[s]
    OBVIOUS
  <2> SUFFICES ASSUME s # {} PROVE g[s] = h[s]
    BY <1>e
  <2>1. s \in SUBSET T /\ s \in SUBSET S /\ Rest(s) \in UpToSize(T, n)
    BY <1>0, FirstIs DEF UpToSize
  <2>2. g[s] = f[First(s)] + g[Rest(s)] /\ h[s] = f[First(s)] + h[Rest(s)]
    BY <2>1 DEF Sums
  <2> QED
    BY <2>1, <2>2
<1> HIDE DEF N
<1>3. Cardinality(T) \in N /\ T \in UpToSize(T, Cardinality(T))
  BY <1>0, <1>1, <1>2, Induct DEF UpToSize
<1> QED
  BY <1>3 DEF N

LEMMA SumStart == ASSUME NEW f PROVE SumOf(f, {}) = 0
<1>1. PICK g : Sums(g, f, SUBSET {})
  BY SumsExist, FS_EmptySet
<1>2. Sums(CHOOSE k : Sums(k, f, SUBSET {}), f, SUBSET {})
  BY <1>1
<1> QED
  BY <1>2, SumIsChosen DEF Sums

LEMMA SumUnfolds ==
  ASSUME NEW f, NEW S, IsFiniteSet(S), S # {}
  PROVE  SumOf(f, S) = f[First(S)] + SumOf(f, Rest(S))
<1>1. IsFiniteSet(Rest(S)) /\ Rest(S) \subseteq S
  BY FirstIs
<1>2. SUFFICES ASSUME NEW g, g = (CHOOSE k : Sums(k, f, SUBSET S)),
                      NEW h, h = (CHOOSE k : Sums(k, f, SUBSET Rest(S)))
               PROVE  g[S] = f[First(S)] + h[Rest(S)]
  BY SumIsChosen
<1>3. Sums(g, f, SUBSET S) /\ Sums(h, f, SUBSET Rest(S))
  BY <1>1, <1>2, SumsExist
<1>4. \A R : R \subseteq S /\ Sums(h, f, SUBSET R) => g[R] = h[R]
  BY <1>3, SumsAgree
<1>5. g[Rest(S)] = h[Rest(S)]
  BY <1>1, <1>3, <1>4
<1> QED
  BY <1>3, <1>5 DEF Sums

-----------------------------------------------------------------------------
(* The order of the summands does not matter. *)

Numbers(f, S) == \A x \in S : f[x] \in Int

\* What holds of a set if it holds of all that is left when one element is taken
\* away, holds of every finite set.
LEMMA SubsetInduct ==
  ASSUME NEW S, IsFiniteSet(S), NEW P,
         \A s \in SUBSET S : (\A x \in s : s \ {x} \in P) => s \in P
  PROVE  S \in P
<1>0. \A s \in SUBSET S : IsFiniteSet(s) /\ Cardinality(s) \in Nat
  BY FS_Subset, FS_CardinalityType
<1> DEFINE N == {n \in Nat : \A s \in UpToSize(S, n) : s \in P}
<1>1. 0 \in N
  BY <1>0, FS_EmptySet DEF UpToSize
<1>2. \A n \in Nat : n \in N => n + 1 \in N
  <2> SUFFICES ASSUME NEW n \in Nat, n \in N, NEW s \in UpToSize(S, n + 1)
      PROVE  s \in P
    OBVIOUS
  <2>1. \A x \in s : s \ {x} \in UpToSize(S, n)
    BY <1>0, FS_RemoveElement DEF UpToSize
  <2> QED
    BY <2>1 DEF UpToSize
<1> HIDE DEF N
<1>3. Cardinality(S) \in N /\ S \in UpToSize(S, Cardinality(S))
  BY <1>0, <1>1, <1>2, Induct DEF UpToSize
<1> QED
  BY <1>3 DEF N

LEMMA SumIsInt ==
  ASSUME NEW S, NEW f, IsFiniteSet(S), Numbers(f, S)
  PROVE  SumOf(f, S) \in Int
<1> DEFINE P == {s \in SUBSET S : SumOf(f, s) \in Int}
<1>1. ASSUME NEW s \in SUBSET S, \A x \in s : s \ {x} \in P
      PROVE  s \in P
  <2> SUFFICES ASSUME s # {} PROVE SumOf(f, s) \in Int
    BY SumStart
  <2>1. IsFiniteSet(s) /\ First(s) \in s /\ f[First(s)] \in Int
    BY FS_Subset, FirstIs DEF Numbers
  <2>2. SumOf(f, Rest(s)) \in Int
    BY <1>1, <2>1 DEF Rest
  <2> QED
    BY <2>1, <2>2, SumUnfolds
<1> HIDE DEF P
<1>2. S \in P
  BY <1>1, SubsetInduct
<1> QED
  BY <1>2 DEF P

LEMMA SumTakes ==
  ASSUME NEW S, NEW f, IsFiniteSet(S), Numbers(f, S), NEW x \in S
  PROVE  SumOf(f, S) = f[x] + SumOf(f, S \ {x})
<1>0. \A s \in SUBSET S : IsFiniteSet(s) /\ Numbers(f, s)
  BY FS_Subset DEF Numbers
<1> DEFINE Takes(s) == \A y \in s : SumOf(f, s) = f[y] + SumOf(f, s \ {y})
           P == {s \in SUBSET S : Takes(s)}
<1>1. ASSUME NEW s \in SUBSET S, \A y \in s : s \ {y} \in P
      PROVE  s \in P
  <2> SUFFICES ASSUME NEW z \in s PROVE SumOf(f, s) = f[z] + SumOf(f, s \ {z})
    OBVIOUS
  <2> DEFINE y == First(s)
             both == s \ {y, z}
  <2>1. SumOf(f, s) = f[y] + SumOf(f, s \ {y}) /\ y \in s
    BY <1>0, SumUnfolds, FirstIs DEF Rest
  <2> HIDE DEF y
  <2>2. CASE z = y
    BY <2>1, <2>2
  <2>3. CASE z # y
    <3>1. Takes(s \ {y}) /\ Takes(s \ {z})
      BY <1>1, <2>1
    <3>2. z \in s \ {y} /\ y \in s \ {z}
          /\ (s \ {y}) \ {z} = both /\ (s \ {z}) \ {y} = both
      BY <2>1, <2>3
    <3>3. SumOf(f, s \ {y}) = f[z] + SumOf(f, both)
      BY <3>1, <3>2
    <3>4. SumOf(f, s \ {z}) = f[y] + SumOf(f, both)
      BY <3>1, <3>2
    <3>5. f[z] \in Int /\ f[y] \in Int /\ SumOf(f, both) \in Int
      BY <1>0, <2>1, SumIsInt DEF Numbers
    <3> HIDE DEF both
    <3> QED
      BY <2>1, <3>3, <3>4, <3>5
  <2> QED
    BY <2>2, <2>3
<1> HIDE DEF P
<1>2. S \in P
  BY <1>1, SubsetInduct
<1> QED
  BY <1>2 DEF P

LEMMA SumAdds ==
  ASSUME NEW S, IsFiniteSet(S), NEW f, NEW g, NEW h, Numbers(f, S), Numbers(g, S),
         \A x \in S : h[x] = f[x] + g[x]
  PROVE  SumOf(h, S) = SumOf(f, S) + SumOf(g, S)
<1>0. \A s \in SUBSET S :
        IsFiniteSet(s) /\ Numbers(f, s) /\ Numbers(g, s) /\ Numbers(h, s)
  BY FS_Subset DEF Numbers
<1> DEFINE P == {s \in SUBSET S : SumOf(h, s) = SumOf(f, s) + SumOf(g, s)}
<1>1. ASSUME NEW s \in SUBSET S, \A x \in s : s \ {x} \in P
      PROVE  s \in P
  <2> SUFFICES ASSUME NEW x \in s PROVE SumOf(h, s) = SumOf(f, s) + SumOf(g, s)
    BY SumStart
  <2> DEFINE r == s \ {x}
  <2>1. SumOf(h, r) = SumOf(f, r) + SumOf(g, r)
    BY <1>1
  <2>2. /\ SumOf(h, s) = h[x] + SumOf(h, r) /\ SumOf(f, s) = f[x] + SumOf(f, r)
        /\ SumOf(g, s) = g[x] + SumOf(g, r)
    BY <1>0, SumTakes
  <2>3. SumOf(f, r) \in Int /\ SumOf(g, r) \in Int
    BY <1>0, SumIsInt
  <2> HIDE DEF r
  <2> QED
    BY <2>1, <2>2, <2>3 DEF Numbers
<1> HIDE DEF P
<1>2. S \in P
  BY <1>1, SubsetInduct
<1> QED
  BY <1>2 DEF P

LEMMA SumSame ==
  ASSUME NEW S, IsFiniteSet(S), NEW f, NEW g, Numbers(f, S), \A x \in S : f[x] = g[x]
  PROVE  SumOf(f, S) = SumOf(g, S)
<1>0. \A s \in SUBSET S : IsFiniteSet(s) /\ Numbers(f, s) /\ Numbers(g, s)
  BY FS_Subset DEF Numbers
<1> DEFINE P == {s \in SUBSET S : SumOf(f, s) = SumOf(g, s)}
<1>1. ASSUME NEW s \in SUBSET S, \A x \in s : s \ {x} \in P
      PROVE  s \in P
  <2> SUFFICES ASSUME NEW x \in s PROVE SumOf(f, s) = SumOf(g, s)
    BY SumStart
  <2>1. SumOf(f, s) = f[x] + SumOf(f, s \ {x}) /\ SumOf(g, s) = g[x] + SumOf(g, s \ {x})
    BY <1>0, SumTakes
  <2> QED
    BY <1>1, <2>1
<1> HIDE DEF P
<1>2. S \in P
  BY <1>1, SubsetInduct
<1> QED
  BY <1>2 DEF P

\* A sum of amounts is an amount, and at least each of its summands.
LEMMA SumIsNat ==
  ASSUME NEW S, IsFiniteSet(S), NEW f, \A x \in S : f[x] \in Nat
  PROVE  /\ SumOf(f, S) \in Nat
         /\ \A x \in S : f[x] <= SumOf(f, S)
<1>0. \A s \in SUBSET S : IsFiniteSet(s) /\ Numbers(f, s)
  BY FS_Subset DEF Numbers
<1> DEFINE P == {s \in SUBSET S : SumOf(f, s) \in Nat}
<1>1. ASSUME NEW s \in SUBSET S, \A x \in s : s \ {x} \in P
      PROVE  s \in P
  <2> SUFFICES ASSUME NEW x \in s PROVE SumOf(f, s) \in Nat
    BY SumStart
  <2>1. SumOf(f, s) = f[x] + SumOf(f, s \ {x})
    BY <1>0, SumTakes
  <2> QED
    BY <1>1, <2>1
<1> HIDE DEF P
<1>2. \A T \in SUBSET S : T \in P
  BY <1>0, <1>1, SubsetInduct
<1>3. \A x \in S : SumOf(f, S) = f[x] + SumOf(f, S \ {x}) /\ SumOf(f, S \ {x}) \in Nat
  BY <1>0, <1>2, SumTakes DEF P
<1>4. SumOf(f, S) \in Nat
  BY <1>2 DEF P
<1>5. ASSUME NEW x \in S PROVE f[x] <= SumOf(f, S)
  <2>1. SumOf(f, S) = f[x] + SumOf(f, S \ {x}) /\ SumOf(f, S \ {x}) \in Nat /\ f[x] \in Nat
    BY <1>3
  <2> QED
    BY <2>1
<1> QED
  BY <1>4, <1>5

-----------------------------------------------------------------------------
(* Sums over parts, and sums told in other terms. *)

LEMMA SumOfNothing ==
  ASSUME NEW S, IsFiniteSet(S), NEW f, \A x \in S : f[x] = 0
  PROVE  SumOf(f, S) = 0
<1>1. Numbers(f, S) /\ \A x \in S : f[x] = f[x] + f[x]
  BY DEF Numbers
<1>2. SumOf(f, S) = SumOf(f, S) + SumOf(f, S) /\ SumOf(f, S) \in Int
  BY <1>1, SumAdds, SumIsInt
<1>3. \A n \in Int : n = n + n => n = 0
  OBVIOUS
<1> QED
  BY <1>2, <1>3

LEMMA SumSplits ==
  ASSUME NEW S, IsFiniteSet(S), NEW T, IsFiniteSet(T), S \cap T = {},
         NEW f, Numbers(f, S \cup T)
  PROVE  SumOf(f, S \cup T) = SumOf(f, S) + SumOf(f, T)
<1>0. \A t \in SUBSET T : IsFiniteSet(t) /\ IsFiniteSet(S \cup t)
                          /\ Numbers(f, t) /\ Numbers(f, S \cup t)
  BY FS_Subset, FS_Union DEF Numbers
<1>i. SumOf(f, S) \in Int
  BY SumIsInt DEF Numbers
<1> DEFINE P == {t \in SUBSET T : SumOf(f, S \cup t) = SumOf(f, S) + SumOf(f, t)}
<1>1. ASSUME NEW t \in SUBSET T, \A x \in t : t \ {x} \in P
      PROVE  t \in P
  <2>1. CASE t = {}
    <3>1. S \cup t = S /\ SumOf(f, t) = 0
      BY <2>1, SumStart
    <3> QED
      BY <1>i, <2>1, <3>1
  <2>2. ASSUME NEW x \in t PROVE t \in P
    <3>1. SumOf(f, S \cup (t \ {x})) = SumOf(f, S) + SumOf(f, t \ {x})
      BY <1>1
    <3>2. (S \cup t) \ {x} = S \cup (t \ {x})
      OBVIOUS
    <3>3. SumOf(f, S \cup t) = f[x] + SumOf(f, S \cup (t \ {x}))
      BY <1>0, <3>2, SumTakes
    <3>4. SumOf(f, t) = f[x] + SumOf(f, t \ {x})
      BY <1>0, SumTakes
    <3>5. f[x] \in Int /\ SumOf(f, t \ {x}) \in Int
      BY <1>0, SumIsInt DEF Numbers
    <3> QED
      BY <1>i, <3>1, <3>3, <3>4, <3>5
  <2> QED
    BY <2>1, <2>2
<1> HIDE DEF P
<1>2. T \in P
  BY <1>1, SubsetInduct
<1> QED
  BY <1>2 DEF P

\* What is zero outside a part adds up to the part.
LEMMA SumSkips ==
  ASSUME NEW S, IsFiniteSet(S), NEW T \in SUBSET S, NEW f, Numbers(f, S),
         \A x \in S \ T : f[x] = 0
  PROVE  SumOf(f, S) = SumOf(f, T)
<1>1. IsFiniteSet(T) /\ IsFiniteSet(S \ T) /\ T \cup (S \ T) = S /\ T \cap (S \ T) = {}
  BY FS_Subset, FS_Difference
<1>2. SumOf(f, S) = SumOf(f, T) + SumOf(f, S \ T)
  BY <1>1, SumSplits
<1>3. SumOf(f, S \ T) = 0 /\ SumOf(f, T) \in Int
  BY <1>1, SumOfNothing, SumIsInt DEF Numbers
<1> QED
  BY <1>2, <1>3

\* The same summands under other names.
LEMMA SumRenames ==
  ASSUME NEW S, IsFiniteSet(S), NEW T, NEW h \in Bijection(S, T),
         NEW f, Numbers(f, T), NEW g, \A x \in S : g[x] = f[h[x]]
  PROVE  SumOf(g, S) = SumOf(f, T)
<1>b. /\ h \in [S -> T] /\ \A x, y \in S : h[x] = h[y] => x = y
      /\ \A z \in T : \E x \in S : h[x] = z
  BY DEF Bijection, Injection, Surjection, IsInjective
<1> DEFINE Names(s) == {h[x] : x \in s}
           P == {s \in SUBSET S : SumOf(g, s) = SumOf(f, Names(s))}
<1>0. ASSUME NEW s \in SUBSET S
      PROVE  /\ IsFiniteSet(s) /\ Numbers(g, s)
             /\ IsFiniteSet(Names(s)) /\ Numbers(f, Names(s))
  <2>1. IsFiniteSet(s) /\ Numbers(g, s) /\ Numbers(f, Names(s))
    BY <1>b, FS_Subset DEF Numbers
  <2>2. [x \in s |-> h[x]] \in Surjection(s, Names(s))
    BY DEF Surjection
  <2>3. IsFiniteSet(Names(s))
    BY <2>1, <2>2, FS_Surjection
  <2> QED
    BY <2>1, <2>3
<1>1. ASSUME NEW s \in SUBSET S, \A x \in s : s \ {x} \in P
      PROVE  s \in P
  <2>1. CASE s = {}
    <3>1. Names(s) = {}
      BY <2>1
    <3> QED
      BY <2>1, <3>1, SumStart
  <2>2. ASSUME NEW x \in s PROVE s \in P
    <3>1. SumOf(g, s \ {x}) = SumOf(f, Names(s \ {x}))
      BY <1>1
    <3>2. Names(s) \ {h[x]} = Names(s \ {x}) /\ h[x] \in Names(s)
      BY <1>b
    <3>3. SumOf(g, s) = g[x] + SumOf(g, s \ {x})
      BY <1>0, SumTakes
    <3>4. SumOf(f, Names(s)) = f[h[x]] + SumOf(f, Names(s) \ {h[x]})
      BY <1>0, <3>2, SumTakes
    <3> QED
      BY <3>1, <3>2, <3>3, <3>4
  <2> QED
    BY <2>1, <2>2
<1>2. Names(S) = T
  BY <1>b
<1> HIDE DEF P, Names
<1>3. S \in P
  BY <1>1, SubsetInduct
<1> QED
  BY <1>2, <1>3 DEF P

=============================================================================
