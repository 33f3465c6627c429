----------------------------- MODULE PowersOfTwo -----------------------------
(***************************************************************************)
(* Powers of two, as the numbers of subsets of intervals: the provers know    *)
(* nothing else of ^.                                                        *)
(***************************************************************************)
EXTENDS Integers, FiniteSetTheorems, TLAPS

LEMMA PowerType == \A b \in Nat : 2 ^ b \in Nat /\ 2 ^ b = Cardinality(SUBSET (1 .. b)) /\ IsFiniteSet(SUBSET (1 .. b))
<1> SUFFICES ASSUME NEW b \in Nat
             PROVE  2 ^ b \in Nat /\ 2 ^ b = Cardinality(SUBSET (1 .. b)) /\ IsFiniteSet(SUBSET (1 .. b))
  OBVIOUS
<1>1. IsFiniteSet(1 .. b) /\ Cardinality(1 .. b) = b
  <2>1. 1 \in Int /\ b \in Int OBVIOUS
  <2> QED BY <2>1, FS_Interval
<1>2. IsFiniteSet(SUBSET (1 .. b)) /\ Cardinality(SUBSET (1 .. b)) = 2 ^ b
  BY <1>1, FS_SUBSET
<1> QED BY <1>2, FS_CardinalityType

LEMMA PowerZero == 2 ^ 0 = 1
<1>1. SUBSET (1 .. 0) = {{}} OBVIOUS
<1>2. Cardinality({{}}) = 1 BY FS_Singleton
<1> QED BY <1>1, <1>2, PowerType

\* The subsets of 1 .. b + 1 are those of 1 .. b, without and with b + 1.
LEMMA PowerSucc == \A b \in Nat : 2 ^ (b + 1) = 2 * 2 ^ b
<1> SUFFICES ASSUME NEW b \in Nat PROVE 2 ^ (b + 1) = 2 * 2 ^ b OBVIOUS
<1> DEFINE S == SUBSET (1 .. b)
           f == [x \in S |-> x \cup {b + 1}]
           T == {x \cup {b + 1} : x \in S}
<1>1. IsFiniteSet(S) /\ Cardinality(S) = 2 ^ b /\ 2 ^ b \in Nat BY PowerType
<1>2. f \in Surjection(S, T) BY DEF Surjection
<1>3. f \in Injection(S, T)
  <2>1. \A x \in S : b + 1 \notin x OBVIOUS
  <2>2. ASSUME NEW x \in S, NEW y \in S, x \cup {b + 1} = y \cup {b + 1} PROVE x = y
    BY <2>1, <2>2
  <2>3. f \in [S -> T] OBVIOUS
  <2>4. \A x, y \in S : f[x] = f[y] => x = y BY <2>2
  <2> HIDE DEF f, S, T
  <2> QED BY <2>3, <2>4 DEF Injection, IsInjective
<1>4. IsFiniteSet(T) /\ Cardinality(T) = Cardinality(S)
  <2> HIDE DEF f, S, T
  <2> QED BY <1>1, <1>2, <1>3, FS_Surjection
<1>5. SUBSET (1 .. b + 1) = S \cup T
  <2>1. ASSUME NEW x \in SUBSET (1 .. b + 1) PROVE x \in S \cup T
    <3>1. CASE b + 1 \in x
      <4>1. x \ {b + 1} \in S OBVIOUS
      <4>2. x = (x \ {b + 1}) \cup {b + 1} BY <3>1
      <4> QED BY <4>1, <4>2
    <3>2. CASE b + 1 \notin x BY <3>2
    <3> QED BY <3>1, <3>2
  <2>2. ASSUME NEW x \in S \cup T PROVE x \in SUBSET (1 .. b + 1) BY <2>2
  <2> QED BY <2>1, <2>2
<1>6. S \cap T = {}
  <2>1. \A x \in S : b + 1 \notin x OBVIOUS
  <2>2. \A x \in T : b + 1 \in x OBVIOUS
  <2> QED BY <2>1, <2>2
<1>7. Cardinality(S \cup T) = Cardinality(S) + Cardinality(T)
  <2> HIDE DEF S, T
  <2>1. Cardinality(S \cup T) = Cardinality(S) + Cardinality(T) - Cardinality(S \cap T)
    BY <1>1, <1>4, FS_Union
  <2> QED BY <2>1, <1>1, <1>4, <1>6, FS_EmptySet
<1>8. 2 ^ (b + 1) = Cardinality(SUBSET (1 .. b + 1))
  <2>1. b + 1 \in Nat OBVIOUS
  <2> QED BY <2>1, PowerType
<1>9. 2 ^ (b + 1) = Cardinality(S \cup T) BY <1>5, <1>8
<1>10. Cardinality(S) = 2 ^ b /\ Cardinality(T) = 2 ^ b BY <1>1, <1>4
<1> HIDE DEF S, T, f
<1> QED BY <1>1, <1>7, <1>9, <1>10

LEMMA PowerMonotone == \A b, m \in Nat : b <= m => 2 ^ b <= 2 ^ m
<1> SUFFICES ASSUME NEW b \in Nat, NEW m \in Nat, b <= m PROVE 2 ^ b <= 2 ^ m OBVIOUS
<1>1. SUBSET (1 .. b) \in SUBSET (SUBSET (1 .. m)) OBVIOUS
<1>2. Cardinality(SUBSET (1 .. b)) <= Cardinality(SUBSET (1 .. m)) BY <1>1, PowerType, FS_Subset
<1> QED BY <1>2, PowerType
=============================================================================
