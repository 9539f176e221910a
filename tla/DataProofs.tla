----------------------------- MODULE DataProofs -----------------------------
(***************************************************************************)
(* Facts about the data the components are built from: Total, the finite   *)
(* sum of module Sums, and queues.  What needs induction over the summed   *)
(* set goes through SubsetInduction: the set of subsets a formula holds    *)
(* for takes the place of the formula.                                     *)
(***************************************************************************)
EXTENDS Sums, Sequences, FiniteSetTheorems, TLAPS

LEMMA SubsetInduction ==
    ASSUME NEW S, IsFiniteSet(S), NEW Good, {} \in Good,
           \A U \in SUBSET S : \A x \in U : U \ {x} \in Good => U \in Good
    PROVE  S \in Good
<1> SUFFICES ASSUME S \notin Good PROVE FALSE
  OBVIOUS
<1> DEFINE Bad == {U \in SUBSET S : U \notin Good}
<1>1. Bad \subseteq FiniteSubsetsOf(S) /\ Bad # {}
  BY FS_FiniteSubsetsOfFinite
<1>2. IsWellFoundedOn(StrictSubsetOrdering(S), FiniteSubsetsOf(S))
  BY FS_StrictSubsetOrderingWellFounded
<1>3. PICK U \in Bad : \A V \in Bad : <<V, U>> \notin StrictSubsetOrdering(S)
  <2> HIDE DEF Bad
  <2> QED
    BY <1>1, <1>2, WFMin
<1>4. PICK x \in U : TRUE
  OBVIOUS
<1>5. U \ {x} \in SUBSET S /\ U \ {x} # U /\ U \ {x} \subseteq U
  BY <1>4
<1>6. U \ {x} \notin Bad
  BY <1>3, <1>5 DEF StrictSubsetOrdering
<1> QED
  BY <1>4, <1>5, <1>6

\* Of some positions one is the last.
LEMMA LastOfSome ==
    ASSUME NEW L \in Nat, NEW S \in SUBSET (1..L), S # {}
    PROVE  \E m \in S : \A x \in S : x <= m
<1> DEFINE Good == {U \in SUBSET S : U # {} => \E m \in U : \A x \in U : x <= m}
<1>1. IsFiniteSet(S)
  <2>1. IsFiniteSet(1..L)
    BY FS_Interval
  <2> QED
    BY <2>1, FS_Subset
<1>2. \A U \in SUBSET S : \A x \in U : U \ {x} \in Good => U \in Good
  <2> TAKE U \in SUBSET S
  <2> TAKE x \in U
  <2> HAVE U \ {x} \in Good
  <2>1. CASE U \ {x} = {}
    <3>1. \A y \in U : y = x
      BY <2>1
    <3> QED
      BY <3>1
  <2>2. CASE U \ {x} # {}
    <3>1. PICK m \in U \ {x} : \A y \in U \ {x} : y <= m
      BY <2>2
    <3> QED
      BY <3>1
  <2> QED
    BY <2>1, <2>2
<1>3. S \in Good
  <2> HIDE DEF Good
  <2>1. {} \in Good
    BY DEF Good
  <2> QED
    BY <1>1, <1>2, <2>1, SubsetInduction
<1> QED
  BY <1>3

LEMMA UnitsFinite ==
    ASSUME NEW S, IsFiniteSet(S), NEW f, \A x \in S : f[x] \in Nat
    PROVE  IsFiniteSet(Units(f, S))
<1> DEFINE column == [x \in S |-> {x} \X (1..f[x])]
           T == {{x} \X (1..f[x]) : x \in S}
<1>1. column \in Surjection(S, T)
  BY DEF Surjection
<1>2. IsFiniteSet(T)
  <2> HIDE DEF column, T
  <2> QED
    BY <1>1, FS_Surjection
<1>3. ASSUME NEW x \in S PROVE IsFiniteSet({x} \X (1..f[x]))
  <2>1. IsFiniteSet({x})
    BY FS_Singleton
  <2>2. IsFiniteSet(1..f[x])
    BY FS_Interval
  <2> QED
    BY <2>1, <2>2, FS_Product
<1>4. \A c \in T : IsFiniteSet(c)
  BY <1>3
<1> QED
  BY <1>2, <1>4, FS_UNION DEF Units

LEMMA TotalNat ==
    ASSUME NEW S, IsFiniteSet(S), NEW f, \A x \in S : f[x] \in Nat
    PROVE  Total(f, S) \in Nat
BY UnitsFinite, FS_CardinalityType DEF Total

LEMMA TotalEmpty == ASSUME NEW f PROVE Total(f, {}) = 0
<1>1. Units(f, {}) = {}
  BY DEF Units
<1> QED
  BY <1>1, FS_EmptySet DEF Total

LEMMA TotalSplit ==
    ASSUME NEW S, IsFiniteSet(S), NEW f, \A x \in S : f[x] \in Nat, NEW x \in S
    PROVE  Total(f, S) = Total(f, S \ {x}) + f[x]
<1> DEFINE column == {x} \X (1..f[x])
           rest == Units(f, S \ {x})
<1>1. IsFiniteSet(S \ {x})
  BY FS_RemoveElement
<1>2. IsFiniteSet(rest)
  BY <1>1, UnitsFinite
<1>3. IsFiniteSet(column) /\ Cardinality(column) = f[x]
  <2>1. IsFiniteSet({x}) /\ Cardinality({x}) = 1
    BY FS_Singleton
  <2>2. IsFiniteSet(1..f[x]) /\ Cardinality(1..f[x]) = f[x]
    BY FS_Interval
  <2> QED
    BY <2>1, <2>2, FS_Product
<1>4. Units(f, S) = rest \cup column
  BY DEF Units
<1>5. rest \cap column = {}
  BY DEF Units
<1> HIDE DEF rest, column
<1>6. Cardinality(rest \cup column) = Cardinality(rest) + Cardinality(column) - 0
  <2>1. Cardinality(rest \cup column)
          = Cardinality(rest) + Cardinality(column) - Cardinality(rest \cap column)
    BY <1>2, <1>3, FS_Union
  <2> QED
    BY <1>5, <2>1, FS_EmptySet
<1>7. Cardinality(rest) \in Nat
  BY <1>2, FS_CardinalityType
<1> QED
  BY <1>3, <1>4, <1>6, <1>7 DEF Total, rest

LEMMA TotalSame ==
    ASSUME NEW S, NEW f, NEW g, \A x \in S : f[x] = g[x]
    PROVE  Total(f, S) = Total(g, S)
<1>1. Units(f, S) = Units(g, S)
  BY DEF Units
<1> QED
  BY <1>1 DEF Total

(* One summand changes, and the sum with it.                                *)
LEMMA TotalChange ==
    ASSUME NEW S, IsFiniteSet(S), NEW f, NEW g, NEW x \in S,
           \A y \in S : f[y] \in Nat /\ g[y] \in Nat /\ (y # x => f[y] = g[y])
    PROVE  Total(g, S) = Total(f, S) - f[x] + g[x]
<1>1. Total(f, S) = Total(f, S \ {x}) + f[x] /\ Total(g, S) = Total(g, S \ {x}) + g[x]
  BY TotalSplit
<1>2. Total(f, S \ {x}) = Total(g, S \ {x})
  BY TotalSame
<1>3. Total(f, S \ {x}) \in Nat
  BY FS_RemoveElement, TotalNat
<1> QED
  BY <1>1, <1>2, <1>3

LEMMA TotalZero ==
    ASSUME NEW S, NEW f, \A x \in S : f[x] = 0
    PROVE  Total(f, S) = 0
<1>1. Units(f, S) = {}
  BY DEF Units
<1> QED
  BY <1>1, FS_EmptySet DEF Total

(* A sum with one summand only.                                             *)
LEMMA TotalSingle ==
    ASSUME NEW S, IsFiniteSet(S), NEW f, NEW x \in S, f[x] \in Nat,
           \A y \in S \ {x} : f[y] = 0
    PROVE  Total(f, S) = f[x]
<1>1. Total(f, S \ {x}) = 0
  BY TotalZero
<1>2. \A y \in S : f[y] \in Nat
  OBVIOUS
<1>3. Total(f, S) = Total(f, S \ {x}) + f[x]
  BY <1>2, TotalSplit
<1> QED
  BY <1>1, <1>3

LEMMA SummandBound ==
    ASSUME NEW S, IsFiniteSet(S), NEW f, \A x \in S : f[x] \in Nat, NEW x \in S
    PROVE  f[x] <= Total(f, S)
<1>1. Total(f, S \ {x}) \in Nat
  BY FS_RemoveElement, TotalNat
<1> QED
  BY <1>1, TotalSplit

(* A sum of naturals is zero only if every summand is.                      *)
LEMMA TotalZeroMeans ==
    ASSUME NEW S, IsFiniteSet(S), NEW f, \A x \in S : f[x] \in Nat, Total(f, S) = 0
    PROVE  \A x \in S : f[x] = 0
<1> TAKE x \in S
<1>1. f[x] <= 0
  BY SummandBound
<1> QED
  BY <1>1

LEMMA TotalAdd ==
    ASSUME NEW S, IsFiniteSet(S), NEW f, NEW g, NEW h,
           \A x \in S : f[x] \in Nat /\ g[x] \in Nat /\ h[x] = f[x] + g[x]
    PROVE  Total(h, S) = Total(f, S) + Total(g, S)
<1> DEFINE Good == {U \in SUBSET S : Total(h, U) = Total(f, U) + Total(g, U)}
<1>1. {} \in Good
  BY TotalEmpty
<1>2. ASSUME NEW U \in SUBSET S, NEW x \in U, U \ {x} \in Good PROVE U \in Good
  <2>1. IsFiniteSet(U) /\ IsFiniteSet(U \ {x})
    BY FS_Subset
  <2>2. \A y \in U : f[y] \in Nat /\ g[y] \in Nat /\ h[y] \in Nat /\ h[y] = f[y] + g[y]
    OBVIOUS
  <2>3. /\ Total(f, U) = Total(f, U \ {x}) + f[x]
        /\ Total(g, U) = Total(g, U \ {x}) + g[x]
        /\ Total(h, U) = Total(h, U \ {x}) + h[x]
    BY <2>1, <2>2, TotalSplit
  <2>4. Total(f, U \ {x}) \in Nat /\ Total(g, U \ {x}) \in Nat
    BY <2>1, <2>2, TotalNat
  <2>5. Total(h, U \ {x}) = Total(f, U \ {x}) + Total(g, U \ {x})
    BY <1>2
  <2> QED
    BY <2>2, <2>3, <2>4, <2>5
<1> HIDE DEF Good
<1>3. S \in Good
  BY <1>1, <1>2, SubsetInduction
<1> QED
  BY <1>3 DEF Good

-----------------------------------------------------------------------------
(* Shares: what x gets of D when it holds w[x] of P, rounded down.          *)

LEMMA FloorBounds ==
    ASSUME NEW a \in Nat, NEW b \in Nat \ {0}
    PROVE  /\ a \div b \in Nat
           /\ b * (a \div b) <= a
           /\ a <= b * (a \div b) + (b - 1)
OBVIOUS

(* The set of those that hold something grows by one holder at a time.      *)
Holders(w, U) == {x \in U : w[x] > 0}

LEMMA HoldersSplit ==
    ASSUME NEW U, IsFiniteSet(U), NEW w, \A x \in U : w[x] \in Nat, NEW x \in U
    PROVE  /\ Cardinality(Holders(w, U)) \in Nat /\ Cardinality(Holders(w, U \ {x})) \in Nat
           /\ Cardinality(Holders(w, U))
                = Cardinality(Holders(w, U \ {x})) + (IF w[x] > 0 THEN 1 ELSE 0)
<1>1. IsFiniteSet(Holders(w, U \ {x})) /\ IsFiniteSet(Holders(w, U))
  BY FS_Subset DEF Holders
<1>2. CASE w[x] > 0
  <2>1. Holders(w, U) = Holders(w, U \ {x}) \cup {x} /\ x \notin Holders(w, U \ {x})
    BY <1>2 DEF Holders
  <2> QED
    BY <1>1, <1>2, <2>1, FS_AddElement, FS_CardinalityType
<1>3. CASE ~(w[x] > 0)
  <2>1. Holders(w, U) = Holders(w, U \ {x})
    BY <1>3 DEF Holders
  <2> QED
    BY <1>1, <1>3, <2>1, FS_CardinalityType
<1> QED
  BY <1>2, <1>3

(* Rounding down pays out at most what there is, and keeps less than one    *)
(* unit per holder.                                                         *)
LEMMA SharesOfTheWhole ==
    ASSUME NEW S, IsFiniteSet(S), NEW w, \A x \in S : w[x] \in Nat,
           NEW D \in Nat, NEW P \in Nat \ {0}, NEW share,
           \A x \in S : share[x] = (w[x] * D) \div P
    PROVE  /\ P * Total(share, S) <= D * Total(w, S)
           /\ D * Total(w, S) <= P * Total(share, S) + (P - 1) * Cardinality(Holders(w, S))
<1> DEFINE Bounded(U) ==
             /\ P * Total(share, U) <= D * Total(w, U)
             /\ D * Total(w, U) <= P * Total(share, U) + (P - 1) * Cardinality(Holders(w, U))
           Good == {U \in SUBSET S : Bounded(U)}
<1>0. ASSUME NEW x \in S
      PROVE  /\ share[x] \in Nat
             /\ P * share[x] <= w[x] * D /\ w[x] * D <= P * share[x] + (P - 1)
             /\ w[x] = 0 => share[x] = 0
  <2>1. w[x] * D \in Nat
    OBVIOUS
  <2>2. /\ share[x] \in Nat
        /\ P * share[x] <= w[x] * D /\ w[x] * D <= P * share[x] + (P - 1)
    BY <2>1, FloorBounds
  <2>3. ASSUME w[x] = 0, share[x] # 0 PROVE FALSE
    <3>1. P * share[x] >= P
      BY <2>2, <2>3
    <3>2. w[x] * D = 0
      BY <2>3
    <3> QED
      BY <2>2, <3>1, <3>2
  <2> QED
    BY <2>2, <2>3
<1>1. {} \in Good
  <2>1. Holders(w, {}) = {}
    BY DEF Holders
  <2>2. Total(share, {}) = 0 /\ Total(w, {}) = 0 /\ Cardinality(Holders(w, {})) = 0
    BY <2>1, TotalEmpty, FS_EmptySet
  <2>3. P * 0 <= D * 0 /\ D * 0 <= P * 0 + (P - 1) * 0
    OBVIOUS
  <2> QED
    BY <2>2, <2>3
<1>2. ASSUME NEW U \in SUBSET S, NEW x \in U, U \ {x} \in Good PROVE U \in Good
  <2>1. IsFiniteSet(U) /\ IsFiniteSet(U \ {x})
    BY FS_Subset
  <2>2. \A y \in U : share[y] \in Nat /\ w[y] \in Nat
    BY <1>0
  <2>3. /\ Total(share, U) = Total(share, U \ {x}) + share[x]
        /\ Total(w, U) = Total(w, U \ {x}) + w[x]
    BY <2>1, <2>2, TotalSplit
  <2>4. Total(share, U \ {x}) \in Nat /\ Total(w, U \ {x}) \in Nat
    BY <2>1, <2>2, TotalNat
  <2>5. /\ Cardinality(Holders(w, U \ {x})) \in Nat
        /\ Cardinality(Holders(w, U))
             = Cardinality(Holders(w, U \ {x})) + (IF w[x] > 0 THEN 1 ELSE 0)
    BY <2>1, <2>2, HoldersSplit
  <2>6. Bounded(U \ {x})
    BY <1>2
  <2>7. P * Total(share, U) <= D * Total(w, U)
    <3>1. P * share[x] <= w[x] * D /\ share[x] \in Nat /\ w[x] \in Nat
      BY <1>0
    <3> QED
      BY <2>3, <2>4, <2>6, <3>1
  <2>8. D * Total(w, U) <= P * Total(share, U) + (P - 1) * Cardinality(Holders(w, U))
    <3>1. /\ w[x] * D <= P * share[x] + (P - 1) * (IF w[x] > 0 THEN 1 ELSE 0)
          /\ share[x] \in Nat /\ w[x] \in Nat
      BY <1>0
    <3> DEFINE n == IF w[x] > 0 THEN 1 ELSE 0
               c == Cardinality(Holders(w, U \ {x}))
               s == Total(share, U \ {x})
               v == Total(w, U \ {x})
    <3>2. /\ D * v <= P * s + (P - 1) * c
          /\ w[x] * D <= P * share[x] + (P - 1) * n
          /\ n \in Nat /\ c \in Nat /\ s \in Nat /\ v \in Nat
      BY <2>4, <2>5, <2>6, <3>1
    <3>3. D * (v + w[x]) <= P * (s + share[x]) + (P - 1) * (c + n)
      <4> HIDE DEF n, c, s, v
      <4> QED
        BY <2>2, <3>1, <3>2
    <3> QED
      BY <2>3, <2>5, <3>3
  <2> QED
    BY <2>7, <2>8
<1> HIDE DEF Good
<1>3. S \in Good
  BY <1>1, <1>2, SubsetInduction
<1> QED
  BY <1>3 DEF Good

(* The same when P is all that is held: the case the payouts are in.        *)
LEMMA SharesPayOut ==
    ASSUME NEW S, IsFiniteSet(S), NEW w, \A x \in S : w[x] \in Nat,
           NEW D \in Nat, Total(w, S) > 0, NEW share,
           \A x \in S : share[x] = (w[x] * D) \div Total(w, S)
    PROVE  /\ \A x \in S : share[x] \in Nat
           /\ Total(share, S) <= D
           /\ D - Total(share, S) < Cardinality(Holders(w, S))
<1> DEFINE P == Total(w, S)  T == Total(share, S)  n == Cardinality(Holders(w, S))
<1>1. P \in Nat \ {0}
  BY TotalNat
<1>2. \A x \in S : share[x] \in Nat
  <2> TAKE x \in S
  <2>1. w[x] * D \in Nat
    OBVIOUS
  <2> QED
    BY <1>1, <2>1, FloorBounds
<1>3. T \in Nat
  BY <1>2, TotalNat
<1>4. n \in Nat
  BY FS_Subset, FS_CardinalityType DEF Holders
<1>5. P * T <= D * P /\ D * P <= P * T + (P - 1) * n
  BY <1>1, SharesOfTheWhole
<1>6. T <= D
  <2> HIDE DEF P, T
  <2> SUFFICES ASSUME T >= D + 1 PROVE FALSE
    BY <1>3
  <2>1. P * T >= P * (D + 1)
    BY <1>1, <1>3
  <2> QED
    BY <1>1, <1>3, <1>5, <2>1
<1>7. n > 0
  <2> SUFFICES ASSUME n = 0 PROVE FALSE
    BY <1>4
  <2>1. Holders(w, S) = {}
    BY FS_Subset, FS_EmptySet DEF Holders
  <2>2. \A x \in S : w[x] = 0
    BY <2>1 DEF Holders
  <2> QED
    BY <2>2, TotalZero
<1>8. D - T < n
  <2> HIDE DEF P, T, n
  <2> SUFFICES ASSUME D - T >= n PROVE FALSE
    BY <1>3, <1>4
  <2>1. P * (D - T) >= P * n
    BY <1>1, <1>3, <1>4
  <2>2. P * (D - T) = D * P - P * T /\ (P - 1) * n = P * n - n
    BY <1>1, <1>3, <1>4
  <2> QED
    BY <1>1, <1>3, <1>4, <1>5, <1>7, <2>1, <2>2
<1> QED
  BY <1>2, <1>6, <1>8

-----------------------------------------------------------------------------
(* Queues: what joins at the back leaves at the front.                     *)

Elements(q) == {q[i] : i \in DOMAIN q}
Distinct(q) == \A i, j \in DOMAIN q : q[i] = q[j] => i = j

LEMMA QueueAppend ==
    ASSUME NEW S, NEW q \in Seq(S), NEW x \in S
    PROVE  /\ Append(q, x) \in Seq(S) /\ Len(Append(q, x)) = Len(q) + 1
           /\ Elements(Append(q, x)) = Elements(q) \cup {x}
           /\ Distinct(q) /\ x \notin Elements(q) => Distinct(Append(q, x))
<1> DEFINE r == Append(q, x)
<1>1. r \in Seq(S) /\ Len(r) = Len(q) + 1 /\ r[Len(q) + 1] = x
  OBVIOUS
<1>2. \A i \in 1..Len(q) : r[i] = q[i]
  OBVIOUS
<1>3. DOMAIN q = 1..Len(q) /\ DOMAIN r = 1..(Len(q) + 1) /\ Len(q) \in Nat
  BY <1>1
<1> HIDE DEF r
<1>4. Elements(r) = Elements(q) \cup {x}
  BY <1>1, <1>2, <1>3 DEF Elements
<1>5. ASSUME Distinct(q), x \notin Elements(q) PROVE Distinct(r)
  BY <1>1, <1>2, <1>3, <1>5 DEF Elements, Distinct
<1> QED
  BY <1>1, <1>4, <1>5 DEF r

LEMMA QueueTail ==
    ASSUME NEW S, NEW q \in Seq(S), q # <<>>, Distinct(q)
    PROVE  /\ Tail(q) \in Seq(S) /\ Len(Tail(q)) = Len(q) - 1 /\ Head(q) \in S /\ Head(q) \in Elements(q)
           /\ Elements(Tail(q)) = Elements(q) \ {Head(q)}
           /\ Distinct(Tail(q))
<1> DEFINE r == Tail(q)
<1>1. r \in Seq(S) /\ Len(r) = Len(q) - 1 /\ Head(q) = q[1] /\ Len(q) \in Nat \ {0} /\ q[1] \in S
  OBVIOUS
<1>2. \A i \in 1..Len(r) : r[i] = q[i + 1]
  OBVIOUS
<1>3. DOMAIN q = 1..Len(q) /\ DOMAIN r = 1..(Len(q) - 1)
  BY <1>1
<1> HIDE DEF r
<1>4. \A i \in 2..Len(q) : i - 1 \in DOMAIN r /\ r[i - 1] = q[i]
  BY <1>1, <1>2, <1>3
<1>5. Elements(r) \subseteq Elements(q) \ {q[1]}
  BY <1>1, <1>2, <1>3 DEF Elements, Distinct
<1>6. Elements(q) \ {q[1]} \subseteq Elements(r)
  <2> SUFFICES ASSUME NEW i \in 1..Len(q), q[i] # q[1] PROVE q[i] \in Elements(r)
    BY <1>3 DEF Elements
  <2> QED
    BY <1>1, <1>4 DEF Elements
<1>7. Distinct(r)
  <2> SUFFICES ASSUME NEW i \in DOMAIN r, NEW j \in DOMAIN r, r[i] = r[j] PROVE i = j
    BY DEF Distinct
  <2>1. q[i + 1] = q[j + 1] /\ i + 1 \in DOMAIN q /\ j + 1 \in DOMAIN q
    BY <1>1, <1>2, <1>3
  <2> QED
    BY <2>1, <1>3, <1>1 DEF Distinct
<1>8. q[1] \in Elements(q)
  BY <1>1, <1>3 DEF Elements
<1> QED
  BY <1>1, <1>5, <1>6, <1>7, <1>8 DEF r
=============================================================================
