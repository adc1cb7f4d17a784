----------------------------- MODULE TotalsProofs -----------------------------
(***************************************************************************)
(* What a total is, for any finite set and any natural numbers: enough to  *)
(* follow the balances of wallets through the steps that change them.      *)
(***************************************************************************)
EXTENDS Totals, FiniteSetTheorems, TLAPS

LEMMA UnitsOfOne ==
  ASSUME NEW x, NEW n \in Nat
  PROVE  IsFiniteSet({x} \X (1 .. n)) /\ Cardinality({x} \X (1 .. n)) = n
<1>1. IsFiniteSet({x}) /\ Cardinality({x}) = 1
  BY FS_Singleton
<1>2. IsFiniteSet(1 .. n) /\ Cardinality(1 .. n) = n
  BY FS_Interval
<1>3. /\ IsFiniteSet({x} \X (1 .. n))
      /\ Cardinality({x} \X (1 .. n)) = Cardinality({x}) * Cardinality(1 .. n)
  BY <1>1, <1>2, FS_Product, Zenon
<1> QED
  BY <1>1, <1>2, <1>3

LEMMA UnitsOfUnion ==
  ASSUME NEW S, NEW T, NEW units
  PROVE  UnitsOf(S \cup T, units) = UnitsOf(S, units) \cup UnitsOf(T, units)
BY DEF UnitsOf

LEMMA UnitsAreDisjoint ==
  ASSUME NEW S, NEW T, NEW units, S \cap T = {}
  PROVE  UnitsOf(S, units) \cap UnitsOf(T, units) = {}
BY DEF UnitsOf

\* The units of a finite set are finitely many.
LEMMA UnitsAreFinite ==
  ASSUME NEW S, IsFiniteSet(S), NEW units, \A x \in S : units[x] \in Nat
  PROVE  IsFiniteSet(UnitsOf(S, units))
<1> DEFINE parts == {{x} \X (1 .. units[x]) : x \in S}
           part == [x \in S |-> {x} \X (1 .. units[x])]
<1>1. part \in Surjection(S, parts)
  BY DEF Surjection
<1>2. IsFiniteSet(parts)
  BY <1>1, FS_Surjection
<1>3. ASSUME NEW p \in parts PROVE IsFiniteSet(p)
  <2>1. PICK x \in S : p = {x} \X (1 .. units[x])
    OBVIOUS
  <2> QED
    BY <2>1, UnitsOfOne, Zenon
<1> QED
  BY <1>2, <1>3, FS_UNION DEF UnitsOf

LEMMA TotalType ==
  ASSUME NEW S, IsFiniteSet(S), NEW units, \A x \in S : units[x] \in Nat
  PROVE  Total(S, units) \in Nat
BY UnitsAreFinite, FS_CardinalityType DEF Total

LEMMA TotalOfNone ==
  ASSUME NEW units
  PROVE  Total({}, units) = 0
BY FS_EmptySet DEF Total, UnitsOf

LEMMA TotalOfOne ==
  ASSUME NEW x, NEW units, units[x] \in Nat
  PROVE  Total({x}, units) = units[x]
<1>1. UnitsOf({x}, units) = {x} \X (1 .. units[x])
  BY DEF UnitsOf
<1> QED
  BY <1>1, UnitsOfOne DEF Total

\* The totals of two disjoint sets add up.
LEMMA TotalOfUnion ==
  ASSUME NEW S, IsFiniteSet(S), NEW T, IsFiniteSet(T), S \cap T = {},
         NEW units, \A x \in S \cup T : units[x] \in Nat
  PROVE  Total(S \cup T, units) = Total(S, units) + Total(T, units)
<1>1. IsFiniteSet(UnitsOf(S, units)) /\ IsFiniteSet(UnitsOf(T, units))
  BY UnitsAreFinite
<1>2. Total(S, units) \in Nat /\ Total(T, units) \in Nat
  BY TotalType
<1>3. Cardinality(UnitsOf(S, units) \cap UnitsOf(T, units)) = 0
  BY UnitsAreDisjoint, FS_EmptySet
<1> DEFINE US == UnitsOf(S, units)
           UT == UnitsOf(T, units)
<1>4. UnitsOf(S \cup T, units) = US \cup UT
  BY UnitsOfUnion
<1>5. Total(S, units) = Cardinality(US) /\ Total(T, units) = Cardinality(UT)
      /\ Total(S \cup T, units) = Cardinality(US \cup UT)
  BY <1>4 DEF Total
<1> HIDE DEF US, UT
<1>6. Cardinality(US \cup UT) = Cardinality(US) + Cardinality(UT) - Cardinality(US \cap UT)
  BY <1>1, FS_Union DEF US, UT
<1> QED
  BY <1>2, <1>3, <1>5, <1>6 DEF US, UT

\* A new member adds its units.
LEMMA TotalAdd ==
  ASSUME NEW S, IsFiniteSet(S), NEW x, x \notin S,
         NEW units, \A y \in S \cup {x} : units[y] \in Nat
  PROVE  Total(S \cup {x}, units) = Total(S, units) + units[x]
<1>1. IsFiniteSet({x}) /\ S \cap {x} = {}
  BY FS_Singleton
<1>2. Total(S \cup {x}, units) = Total(S, units) + Total({x}, units)
  BY <1>1, TotalOfUnion
<1> QED
  BY <1>2, TotalOfOne

\* A total depends only on the units of the members.
LEMMA TotalSame ==
  ASSUME NEW S, NEW f, NEW g, \A x \in S : f[x] = g[x]
  PROVE  Total(S, f) = Total(S, g)
<1>1. UnitsOf(S, f) = UnitsOf(S, g)
  BY DEF UnitsOf
<1> QED
  BY <1>1 DEF Total

\* A total grows by what one of its members gains.
LEMMA TotalGrows ==
  ASSUME NEW S, IsFiniteSet(S), NEW x \in S, NEW f, NEW g, NEW d \in Nat,
         \A y \in S : f[y] \in Nat,
         \A y \in S \ {x} : g[y] = f[y], g[x] = f[x] + d
  PROVE  Total(S, g) = Total(S, f) + d
<1>1. PICK R : R = S \ {x}
  OBVIOUS
<1>2. IsFiniteSet(R) /\ x \notin R /\ R \cup {x} = S
  BY <1>1, FS_Subset
<1>3. (\A y \in R \cup {x} : f[y] \in Nat) /\ (\A y \in R \cup {x} : g[y] \in Nat)
  BY <1>1, <1>2
<1>4. Total(S, f) = Total(R, f) + f[x]
  BY <1>2, <1>3, TotalAdd
<1>5. Total(S, g) = Total(R, g) + g[x]
  BY <1>2, <1>3, TotalAdd
<1>6. Total(R, g) = Total(R, f)
  BY <1>1, TotalSame
<1>7. Total(R, f) \in Nat /\ f[x] \in Nat
  BY <1>2, <1>3, TotalType
<1> QED
  BY <1>4, <1>5, <1>6, <1>7
=============================================================================
