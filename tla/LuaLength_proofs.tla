--------------------------- MODULE LuaLength_proofs ---------------------------
(***************************************************************************)
(* luaH_getn always returns a boundary, for every table and every range of    *)
(* int.  The invariant says what the searches keep: i is zero or present, and  *)
(* j, once the bisection starts, is absent and above i.                       *)
(***************************************************************************)
EXTENDS LuaSizes, PowersOfTwo, WellFoundedInduction

\* Numbers within unsigned int are not reduced: none of the sums and products
\* of unbound_search wraps around.
LEMMA NoWrap ==
  ASSUME NEW x \in 0 .. 2 * MAX_INT + 1
  PROVE  unsigned(x) = x
<1>1. MAX_INT \in Nat BY LengthAssumption
<1>2. 2 * (MAX_INT + 1) \in Nat /\ x \in Nat /\ x < 2 * (MAX_INT + 1) BY <1>1
<1>3. \A y, z \in Nat : y < z => y % z = y OBVIOUS
<1> QED BY <1>2, <1>3 DEF unsigned

LEMMA InitInv == Init => Inv
BY LengthAssumption DEF Init, Inv, TypeOK, SearchInv, Boundary

LEMMA StepInv == Inv /\ [Next \/ Done]_vars => Inv'
<1> SUFFICES ASSUME Inv, [Next \/ Done]_vars PROVE Inv' OBVIOUS
<1>5. CASE UNCHANGED vars
  BY <1>5 DEF Inv, TypeOK, SearchInv, Boundary, vars, isnil
<1>t. TypeOK /\ SearchInv /\ MAX_INT \in Nat /\ MAXASIZE \in Nat /\ MAXASIZE < MAX_INT
  BY LengthAssumption DEF Inv
<1>u. UNCHANGED <<present, sizearray, dummy>> BY DEF Next, Done, vars
<1>1. CASE luaH_getn
  <2>1. sizearray + 1 \in 0 .. 2 * MAX_INT + 1 BY <1>t DEF TypeOK
  <2>2. unsigned(sizearray + 1) = sizearray + 1 BY <2>1, NoWrap
  <2> QED BY <1>1, <1>t, <1>u, <2>2 DEF Inv, TypeOK, SearchInv, Boundary, luaH_getn, Return, isnil
<1>2. CASE Double
  <2>1. j \in 1 .. MAX_INT /\ i \in 0 .. MAX_INT BY <1>2, <1>t DEF TypeOK, SearchInv, Double
  <2>2. j * 2 \in 0 .. 2 * MAX_INT + 1 BY <2>1, <1>t
  <2>3. unsigned(j * 2) = j * 2 BY <2>2, NoWrap
  <2> QED BY <1>2, <1>t, <1>u, <2>1, <2>3 DEF Inv, TypeOK, SearchInv, Boundary, Double, isnil
<1>3. CASE Linear
  <2>1. i \in 1 .. MAX_INT + 1 /\ pc = "linear" BY <1>3, <1>t DEF TypeOK, SearchInv, Linear
  <2>2. i + 1 \in 0 .. 2 * MAX_INT + 1 \/ isnil(i) BY <2>1, <1>t DEF TypeOK, isnil
  <2>3. CASE ~isnil(i)
    <3>1. unsigned(i + 1) = i + 1 BY <2>2, <2>3, NoWrap
    <3>2. i \in 1 .. MAX_INT BY <2>1, <2>3, <1>t DEF isnil, TypeOK
    <3> QED BY <1>3, <2>1, <2>3, <3>1, <3>2, <1>t, <1>u DEF Inv, TypeOK, SearchInv, Boundary, Linear, Return, isnil
  <2>4. CASE isnil(i)
    <3>1. i - 1 = 0 \/ ~isnil(i - 1) BY <2>1, <1>t DEF SearchInv
    <3>2. i - 1 \in 0 .. MAX_INT /\ (i - 1) + 1 = i BY <2>1, <1>t
    <3> QED BY <1>3, <2>1, <2>4, <3>1, <3>2, <1>t, <1>u DEF Inv, TypeOK, SearchInv, Boundary, Linear, Return, isnil
  <2> QED BY <2>3, <2>4
<1>4. CASE Bisect
  <2> DEFINE m == unsigned(i + j) \div 2
  <2>1. i \in 0 .. MAX_INT /\ j \in i + 1 .. MAX_INT /\ pc = "bisect" BY <1>4, <1>t DEF TypeOK, SearchInv, Bisect
  <2>2. i + j \in 0 .. 2 * MAX_INT + 1 BY <2>1, <1>t
  <2>3. unsigned(i + j) = i + j BY <2>2, NoWrap
  <2>4. m = (i + j) \div 2 BY <2>3
  <2>5. j - i > 1 => m \in i + 1 .. j - 1 BY <2>1, <2>4, <1>t
  <2>6. CASE j - i > 1 /\ isnil(m) /\ j' = m /\ UNCHANGED <<i, pc, result>>
    BY <2>1, <2>5, <2>6, <1>t, <1>u DEF Inv, TypeOK, SearchInv, Boundary, isnil
  <2>7. CASE j - i > 1 /\ ~isnil(m) /\ i' = m /\ UNCHANGED <<j, pc, result>>
    BY <2>1, <2>5, <2>7, <1>t, <1>u DEF Inv, TypeOK, SearchInv, Boundary, isnil
  <2>8. CASE ~(j - i > 1) /\ Return(i)
    <3>1. j = i + 1 BY <2>1, <2>8
    <3> QED BY <2>1, <2>8, <3>1, <1>t, <1>u DEF Inv, TypeOK, SearchInv, Boundary, Return, isnil
  <2> QED BY <1>4, <2>6, <2>7, <2>8 DEF Bisect
<1> QED BY <1>1, <1>2, <1>3, <1>4, <1>5 DEF Next, Search, Done

\* The length operator returns a boundary of the table, however many holes it
\* has (luaH_getn, unbound_search).
THEOREM LengthIsBoundary == Spec => []Boundary
<1>1. Inv => Boundary BY DEF Inv
<1> QED BY InitInv, StepInv, <1>1, PTL DEF Spec

\* The loop variables stay within unsigned int, and the result within int.
THEOREM LengthInvariant == Spec => []Inv
BY InitInv, StepInv, PTL DEF Spec

-----------------------------------------------------------------------------
(* The slices that rehash counts.                                           *)

\* The last index before slice l.
Before(l) == IF l = 0 THEN 0 ELSE 2 ^ (l - 1)
Slice(S, l) == {k \in S : ceillog2(k) = l}

LEMMA BeforeSlice ==
  ASSUME NEW l \in Nat
  PROVE  /\ Before(l) \in Nat /\ 2 ^ l \in Nat /\ Before(l) < 2 ^ l /\ Before(l + 1) = 2 ^ l
         /\ \A k \in Int : k > Before(l) <=> 2 ^ l < 2 * k
         /\ \A k \in Int : k > (2 ^ l) \div 2 <=> 2 * k > 2 ^ l
         /\ (2 ^ l) \div 2 = Before(l)
<1>1. CASE l = 0
  <2>1. 2 ^ l = 1 /\ Before(l) = 0 BY <1>1, PowerZero DEF Before
  <2>2. Before(l + 1) = 2 ^ l BY <1>1 DEF Before
  <2>3. 1 \div 2 = 0 OBVIOUS
  <2> QED BY <2>1, <2>2, <2>3
<1>2. CASE l # 0
  <2>0. l - 1 \in Nat /\ (l - 1) + 1 = l /\ l + 1 # 0 /\ (l + 1) - 1 = l BY <1>2
  <2>1. Before(l) = 2 ^ (l - 1) /\ 2 ^ (l - 1) \in Nat BY <1>2, <2>0, PowerType DEF Before
  <2>2. 2 ^ l = 2 * Before(l)
    <3>1. 2 ^ ((l - 1) + 1) = 2 * 2 ^ (l - 1) BY <2>0, PowerSucc
    <3> QED BY <3>1, <2>0, <2>1
  <2>3. Before(l) >= 1
    <3> DEFINE z == 0
    <3>1. z \in Nat /\ z <= l - 1 BY <2>0
    <3>2. 2 ^ z = 1 BY PowerZero
    <3> HIDE DEF z
    <3>3. 2 ^ z <= 2 ^ (l - 1) BY <3>1, <2>0, PowerMonotone
    <3> QED BY <3>2, <3>3, <2>1
  <2>4. Before(l + 1) = 2 ^ l BY <2>0 DEF Before
  <2>5. \A x \in Nat : (2 * x) \div 2 = x OBVIOUS
  <2>6. (2 ^ l) \div 2 = Before(l) /\ 2 ^ l \in Nat BY <2>1, <2>2, <2>5
  <2>7. Before(l) \in Nat BY <2>1
  <2> HIDE DEF Before
  <2> QED BY <2>2, <2>3, <2>4, <2>6, <2>7
<1> QED BY <1>1, <1>2

LEMMA SmallestIn ==
  ASSUME NEW S \in SUBSET Nat, S # {}
  PROVE  \E x \in S : \A y \in S : x <= y
<1> DEFINE R == OpToRel(<, Nat)
<1>1. \E x \in S : \A y \in S : ~(<<y, x>> \in R)
  <2>1. IsWellFoundedOn(R, Nat) BY NatLessThanWellFounded
  <2> HIDE DEF R
  <2> QED BY <2>1, WFMin
<1>2. \A x, y \in Nat : <<y, x>> \in R <=> y < x BY DEF OpToRel
<1> HIDE DEF R
<1>3. PICK x \in S : \A y \in S : ~(<<y, x>> \in R) BY <1>1
<1>4. \A y \in S : ~(y < x) BY <1>2, <1>3, Zenon
<1> QED BY <1>4

\* ceillog2 gives the slice of an index: (2^(l-1), 2^l].
LEMMA SliceOf ==
  ASSUME NEW k \in 1 .. MAXASIZE
  PROVE  /\ ceillog2(k) \in 0 .. MAXBITS
         /\ \A l \in 0 .. MAXBITS : ceillog2(k) = l <=> Before(l) < k /\ k <= 2 ^ l
<1>m. MAXBITS \in Nat /\ MAXASIZE = 2 ^ MAXBITS BY SizesAssumption
<1>k. k \in Nat /\ k >= 1 BY <1>m, PowerType
<1> DEFINE S == {l \in 0 .. MAXBITS : k <= 2 ^ l}
           Fits(l) == k <= 2 ^ l /\ \A x \in 0 .. l - 1 : 2 ^ x < k
<1>p. \A b \in Nat : 2 ^ b \in Nat BY PowerType
\* The slices do not overlap and are in order.
<1>1. ASSUME NEW l \in 0 .. MAXBITS PROVE Fits(l) <=> Before(l) < k /\ k <= 2 ^ l
  <2>1. CASE l = 0
    <3>1. Before(l) = 0 /\ 0 .. l - 1 = {} BY <2>1 DEF Before
    <3> QED BY <3>1, <1>k
  <2>2. CASE l # 0
    <3>0. l - 1 \in Nat /\ l - 1 \in 0 .. l - 1 /\ Before(l) = 2 ^ (l - 1) BY <2>2 DEF Before
    <3>1. ASSUME NEW x \in 0 .. l - 1 PROVE 2 ^ x <= 2 ^ (l - 1)
      <4>1. x \in Nat /\ x <= l - 1 BY <3>0
      <4> QED BY <3>0, <4>1, PowerMonotone
    <3>2. \A x \in 0 .. l - 1 : 2 ^ x \in Nat BY <1>p
    <3> QED BY <3>0, <3>1, <3>2, <1>k
  <2> QED BY <2>1, <2>2
<1>2. PICK l \in S : \A x \in S : l <= x
  <2>1. MAXBITS \in S BY <1>m
  <2>2. S \in SUBSET Nat BY <1>m
  <2> HIDE DEF S
  <2> QED BY <2>1, <2>2, SmallestIn
<1>3. Fits(l)
  <2>1. ASSUME NEW x \in 0 .. l - 1 PROVE 2 ^ x < k
    <3>1. x \notin S /\ x \in 0 .. MAXBITS BY <1>2, <1>m
    <3> QED BY <3>1, <1>p, <1>k
  <2> QED BY <2>1, <1>2
<1>4. ASSUME NEW x \in 0 .. MAXBITS, NEW y \in 0 .. MAXBITS, Fits(x), Fits(y) PROVE x = y
  <2>1. CASE x < y
    <3>1. x \in 0 .. y - 1 BY <2>1
    <3> QED BY <3>1, <1>4, <1>p, <1>k
  <2>2. CASE y < x
    <3>1. y \in 0 .. x - 1 BY <2>2
    <3> QED BY <3>1, <1>4, <1>p, <1>k
  <2> QED BY <2>1, <2>2
<1>5. ceillog2(k) = CHOOSE x \in 0 .. MAXBITS : Fits(x) BY DEF ceillog2
<1> HIDE DEF Fits
<1>6. ceillog2(k) \in 0 .. MAXBITS /\ Fits(ceillog2(k)) BY <1>2, <1>3, <1>5
<1> QED BY <1>1, <1>4, <1>6

LEMMA SliceIs ==
  ASSUME NEW S \in SUBSET (1 .. MAXASIZE), NEW l \in 0 .. MAXBITS
  PROVE  Slice(S, l) = {k \in S : Before(l) < k /\ k <= 2 ^ l}
BY SliceOf DEF Slice

LEMMA FiniteIndices ==
  ASSUME NEW S \in SUBSET (1 .. MAXASIZE)
  PROVE  IsFiniteSet(S) /\ Cardinality(S) \in Nat /\ Cardinality(S) <= MAXASIZE
<1>1. 1 \in Int /\ MAXASIZE \in Nat BY LengthAssumption
<1>2. IsFiniteSet(1 .. MAXASIZE) /\ Cardinality(1 .. MAXASIZE) = MAXASIZE BY <1>1, FS_Interval
<1>3. IsFiniteSet(S) /\ Cardinality(S) <= MAXASIZE BY <1>2, FS_Subset
<1> QED BY <1>3, FS_CardinalityType

LEMMA DisjointSum ==
  ASSUME NEW S, NEW T, IsFiniteSet(S), IsFiniteSet(T), S \cap T = {}
  PROVE  Cardinality(S \cup T) = Cardinality(S) + Cardinality(T)
<1>1. Cardinality(S \cup T) = Cardinality(S) + Cardinality(T) - Cardinality(S \cap T) BY FS_Union
<1>2. Cardinality(S \cap T) = 0 BY FS_EmptySet
<1>3. Cardinality(S) \in Nat /\ Cardinality(T) \in Nat BY FS_CardinalityType
<1> QED BY <1>1, <1>2, <1>3

\* A slice adds its indices to those before it.
LEMMA NextSlice ==
  ASSUME NEW S \in SUBSET (1 .. MAXASIZE), NEW l \in 0 .. MAXBITS
  PROVE  Cardinality({k \in S : k <= 2 ^ l}) = Cardinality({k \in S : k <= Before(l)}) + Cardinality(Slice(S, l))
<1> DEFINE T == {k \in S : k <= Before(l)}
<1>0. l \in Nat /\ \A k \in S : k \in Nat BY SizesAssumption, LengthAssumption
<1>b. Before(l) \in Nat /\ 2 ^ l \in Nat /\ Before(l) < 2 ^ l BY <1>0, BeforeSlice
<1>1. Slice(S, l) = {k \in S : Before(l) < k /\ k <= 2 ^ l} BY SliceIs
<1>x. ASSUME NEW k \in S
      PROVE  /\ k <= 2 ^ l <=> k <= Before(l) \/ (Before(l) < k /\ k <= 2 ^ l)
             /\ ~(k <= Before(l) /\ Before(l) < k)
  <2>1. k \in Nat BY <1>0
  <2> QED BY <2>1, <1>b
<1>2. {k \in S : k <= 2 ^ l} = T \cup Slice(S, l) BY ONLY <1>1, <1>x, Zenon
<1>3. T \cap Slice(S, l) = {} BY ONLY <1>1, <1>x, Zenon
<1>4. T \in SUBSET (1 .. MAXASIZE) /\ Slice(S, l) \in SUBSET (1 .. MAXASIZE) BY DEF Slice
<1>5. IsFiniteSet(T) /\ IsFiniteSet(Slice(S, l)) BY <1>4, FiniteIndices
<1> HIDE DEF T
<1>6. Cardinality(T \cup Slice(S, l)) = Cardinality(T) + Cardinality(Slice(S, l)) BY <1>3, <1>5, DisjointSum
<1> QED BY <1>2, <1>6 DEF T

-----------------------------------------------------------------------------
(* What the loops of rehash have counted.                                   *)

\* The best size among those of the slices before l, and the keys it holds.
Best(l) ==
  /\ na = UseUpTo(n)
  /\ n = 0 \/ \E b \in 0 .. l - 1 : n = 2 ^ b /\ Candidate(2 ^ b)
  /\ \A b \in 0 .. l - 1 : Candidate(2 ^ b) => 2 ^ b <= n

\* The slices before lg are counted (numusearray), then the keys of the hash part
\* too (numusehash), and then added up, with the best size so far (computesizes).
SizesInv ==
  /\ present \in SUBSET (1 .. MAX_INT)
  /\ rpc \in {"start", "array", "hash", "sizes", "resize", "done"}
  /\ rpc \in {"start", "array", "hash"} => sizearray \in 0 .. MAXASIZE /\ a = 0 /\ na = 0 /\ n = 0
  /\ rpc = "start" => lg = 0 /\ idx = 1 /\ nums = [l \in 0 .. MAXBITS |-> 0] /\ nasize = 0
  /\ rpc = "array" =>
       /\ lg \in 0 .. MAXBITS + 1
       /\ idx = (IF Before(lg) > sizearray THEN sizearray ELSE Before(lg)) + 1
       /\ nums = [l \in 0 .. MAXBITS |-> IF l < lg THEN Cardinality(Slice(arr, l)) ELSE 0]
       /\ nasize = Cardinality({k \in arr : k < idx})
  /\ rpc = "hash" =>
       nums = [l \in 0 .. MAXBITS |-> Cardinality(Slice(arr, l))] /\ nasize = Cardinality(arr)
  /\ rpc \in {"sizes", "resize"} =>
       nums = [l \in 0 .. MAXBITS |-> Cardinality(Slice(InUse, l))] /\ nasize = Cardinality(InUse)
  /\ rpc = "sizes" => lg \in 0 .. MAXBITS /\ a = UseUpTo(Before(lg)) /\ Best(lg)
  /\ rpc = "resize" => Best(MAXBITS + 1)

LEMMA ArrayIndices == sizearray \in 0 .. MAXASIZE => arr \in SUBSET (1 .. MAXASIZE)
BY LengthAssumption DEF arr

LEMMA InUseIndices == InUse \in SUBSET (1 .. MAXASIZE)
BY DEF InUse

LEMMA NumusearrayStep ==
  ASSUME SizesInv, numusearray, UNCHANGED vars
  PROVE  SizesInv'
<1> DEFINE lim == IF 2 ^ lg > sizearray THEN sizearray ELSE 2 ^ lg
           lc == Cardinality(arr \cap idx .. lim)
<1>0. /\ rpc = "array" /\ lg \in 0 .. MAXBITS + 1 /\ sizearray \in 0 .. MAXASIZE
      /\ idx = (IF Before(lg) > sizearray THEN sizearray ELSE Before(lg)) + 1
      /\ nums = [l \in 0 .. MAXBITS |-> IF l < lg THEN Cardinality(Slice(arr, l)) ELSE 0]
      /\ nasize = Cardinality({k \in arr : k < idx})
      /\ present \in SUBSET (1 .. MAX_INT) /\ a = 0 /\ na = 0 /\ n = 0
  BY DEF SizesInv, numusearray
<1>c. MAXBITS \in Nat /\ MAXASIZE \in Nat /\ MAXASIZE = 2 ^ MAXBITS /\ lg \in Nat
  BY <1>0, SizesAssumption, LengthAssumption
<1>b. Before(lg) \in Nat /\ 2 ^ lg \in Nat /\ Before(lg) < 2 ^ lg /\ Before(lg + 1) = 2 ^ lg
  BY <1>c, BeforeSlice
<1>u. present' = present /\ sizearray' = sizearray /\ arr' = arr /\ UNCHANGED <<a, na, n>>
  BY DEF vars, arr, numusearray
<1>a. arr \in SUBSET (1 .. MAXASIZE) /\ \A k \in arr : k \in 1 .. sizearray
  BY <1>0, ArrayIndices DEF arr
<1>1. ASSUME lg <= MAXBITS, ~(2 ^ lg > sizearray /\ idx > lim),
             nums' = [nums EXCEPT ![lg] = @ + lc], nasize' = nasize + lc,
             idx' = (IF idx <= lim THEN lim + 1 ELSE idx), lg' = lg + 1, rpc' = rpc
      PROVE  SizesInv'
  <2>0. lg \in 0 .. MAXBITS BY <1>1, <1>c
  <2>1. Slice(arr, lg) = {k \in arr : Before(lg) < k /\ k <= 2 ^ lg} BY <1>a, <2>0, SliceIs
  <2>3. lim \in Nat /\ idx \in Nat /\ idx <= lim + 1 BY <1>0, <1>b
  <2>2. arr \cap idx .. lim = Slice(arr, lg)
    <3>1. ASSUME NEW k \in arr PROVE k \in idx .. lim <=> Before(lg) < k /\ k <= 2 ^ lg
      <4>1. k \in Nat /\ k <= sizearray /\ sizearray \in Nat BY <1>a, <1>0
      <4>2. k \in idx .. lim <=> idx <= k /\ k <= lim BY <4>1, <2>3
      <4>3. idx <= k <=> Before(lg) < k BY <4>1, <1>0, <1>b
      <4>4. k <= lim <=> k <= 2 ^ lg BY <4>1, <1>b
      <4> QED BY <4>2, <4>3, <4>4
    <3> QED BY ONLY <2>1, <3>1, Zenon
  <2>4. idx' = lim + 1 BY <2>3, <1>1
  <2>5. idx' = (IF Before(lg') > sizearray THEN sizearray ELSE Before(lg')) + 1 BY <2>4, <1>1, <1>b
  <2>6. nums' = [l \in 0 .. MAXBITS |-> IF l < lg' THEN Cardinality(Slice(arr, l)) ELSE 0]
    <3>1. lc = Cardinality(Slice(arr, lg)) BY <2>2
    <3>2. lc \in Nat
      <4>1. Slice(arr, lg) \in SUBSET (1 .. MAXASIZE) BY <1>a DEF Slice
      <4> QED BY <3>1, <4>1, FiniteIndices
    <3>3. nums[lg] = 0 BY <1>0, <2>0, <1>c
    <3> HIDE DEF lc
    <3>4. nums' = [nums EXCEPT ![lg] = lc] BY <1>1, <3>2, <3>3
    <3>5. \A l \in 0 .. MAXBITS : l < lg' <=> l < lg \/ l = lg BY <1>1, <1>c
    <3> QED BY <3>1, <3>4, <3>5, <1>0, <2>0
  <2>7. nasize' = Cardinality({k \in arr : k < idx'})
    <3> DEFINE T == {k \in arr : k < idx}
    <3>x. ASSUME NEW k \in arr
          PROVE  /\ k < idx' <=> k < idx \/ k \in idx .. lim
                 /\ ~(k < idx /\ k \in idx .. lim)
      <4>1. k \in Nat BY <1>a, <1>0
      <4> QED BY <4>1, <2>3, <2>4
    <3>y. \A k \in arr : k \in Slice(arr, lg) <=> k \in idx .. lim BY ONLY <2>2, Zenon
    <3>z. Slice(arr, lg) \subseteq arr BY DEF Slice
    <3>1. {k \in arr : k < idx'} = T \cup Slice(arr, lg) BY ONLY <3>x, <3>y, <3>z, Zenon
    <3>2. T \cap Slice(arr, lg) = {} BY ONLY <3>x, <3>y, <3>z, Zenon
    <3>3. T \in SUBSET (1 .. MAXASIZE) /\ Slice(arr, lg) \in SUBSET (1 .. MAXASIZE) BY <1>a DEF Slice
    <3>4. IsFiniteSet(T) /\ IsFiniteSet(Slice(arr, lg)) BY <3>3, FiniteIndices
    <3>5. nasize' = Cardinality(T) + Cardinality(Slice(arr, lg)) BY <1>0, <1>1, <2>2
    <3> HIDE DEF T
    <3> QED BY <3>1, <3>2, <3>4, <3>5, DisjointSum
  <2>8. lg' \in 0 .. MAXBITS + 1 BY <1>1, <1>c
  <2> QED BY <1>0, <1>1, <1>u, <2>5, <2>6, <2>7, <2>8 DEF SizesInv
<1>2. ASSUME lg > MAXBITS \/ (2 ^ lg > sizearray /\ idx > lim),
             rpc' = "hash", UNCHANGED <<nums, nasize, idx, lg>>
      PROVE  SizesInv'
  <2>1. Before(lg) >= sizearray
    <3>1. CASE lg > MAXBITS
      <4>1. lg = MAXBITS + 1 BY <3>1, <1>0, <1>c
      <4>2. Before(MAXBITS + 1) = 2 ^ MAXBITS BY <1>c, BeforeSlice
      <4> QED BY <4>1, <4>2, <1>c, <1>0
    <3>2. CASE 2 ^ lg > sizearray /\ idx > lim
      <4>1. idx > sizearray BY <3>2
      <4> QED BY <4>1, <1>0, <1>b
    <3> QED BY <1>2, <3>1, <3>2
  <2>2. idx = sizearray + 1 BY <2>1, <1>0, <1>b
  <2>3. {k \in arr : k < idx} = arr
    <3>1. ASSUME NEW k \in arr PROVE k < idx
      <4>1. k \in Nat /\ k <= sizearray /\ sizearray \in Nat BY <1>a, <1>0
      <4> QED BY <4>1, <2>2
    <3> QED BY ONLY <3>1, Zenon
  <2>4. ASSUME NEW l \in 0 .. MAXBITS, ~(l < lg) PROVE Cardinality(Slice(arr, l)) = 0
    <3>l. l \in Nat BY <1>c
    <3>0. l \in Nat /\ Before(l) \in Nat BY <3>l, BeforeSlice
    <3>1. Before(l) >= Before(lg)
      <4>1. CASE l = lg BY <4>1, <1>b
      <4>2. CASE lg = 0 BY <4>2, <3>0 DEF Before
      <4>3. CASE lg # 0 /\ l > lg
        <5>1. lg - 1 \in Nat /\ l - 1 \in Nat /\ lg - 1 <= l - 1 BY <4>3, <1>c, <3>0
        <5>2. 2 ^ (lg - 1) <= 2 ^ (l - 1) BY <5>1, PowerMonotone
        <5> QED BY <5>2, <4>3, <5>1, PowerType DEF Before
      <4> QED BY <4>1, <4>2, <4>3, <2>4, <3>0, <1>c
    <3>2. Slice(arr, l) = {k \in arr : Before(l) < k /\ k <= 2 ^ l} BY <1>a, SliceIs
    <3>x. ASSUME NEW k \in arr PROVE ~(Before(l) < k)
      <4>1. k \in Nat /\ k <= sizearray /\ sizearray \in Nat BY <1>a, <1>0
      <4> QED BY <4>1, <3>0, <3>1, <2>1, <1>b
    <3>3. Slice(arr, l) = {} BY ONLY <3>2, <3>x, Zenon
    <3> QED BY <3>3, FS_EmptySet
  <2>5. nums = [l \in 0 .. MAXBITS |-> Cardinality(Slice(arr, l))] BY <2>4, <1>0
  <2> QED BY <1>0, <1>2, <1>u, <2>3, <2>5 DEF SizesInv
<1> HIDE DEF lim, lc
<1>3. \/ /\ lg <= MAXBITS /\ ~(2 ^ lg > sizearray /\ idx > lim)
         /\ nums' = [nums EXCEPT ![lg] = @ + lc] /\ nasize' = nasize + lc
         /\ idx' = (IF idx <= lim THEN lim + 1 ELSE idx) /\ lg' = lg + 1 /\ rpc' = rpc
      \/ /\ lg > MAXBITS \/ (2 ^ lg > sizearray /\ idx > lim)
         /\ rpc' = "hash" /\ UNCHANGED <<nums, nasize, idx, lg>>
  BY DEF numusearray, lim, lc
<1> QED BY <1>1, <1>2, <1>3

LEMMA NumusehashStep ==
  ASSUME SizesInv, numusehash, UNCHANGED vars
  PROVE  SizesInv'
<1> DEFINE H == {k \in ints : k <= MAXASIZE}
           HS(l) == {k \in ints : k <= MAXASIZE /\ ceillog2(k) = l}
<1>0. /\ rpc = "hash" /\ sizearray \in 0 .. MAXASIZE /\ present \in SUBSET (1 .. MAX_INT)
      /\ nums = [l \in 0 .. MAXBITS |-> Cardinality(Slice(arr, l))] /\ nasize = Cardinality(arr)
      /\ a = 0 /\ na = 0 /\ n = 0
  BY DEF SizesInv, numusehash
<1>1. /\ nums' = [l \in 0 .. MAXBITS |-> nums[l] + Cardinality(HS(l))]
      /\ nasize' = nasize + Cardinality(H)
      /\ rpc' = "sizes" /\ lg' = 0 /\ UNCHANGED <<idx, a, na, n>>
  BY DEF numusehash
<1>u. present' = present /\ InUse' = InUse BY DEF vars, InUse
<1>c. MAXBITS \in Nat /\ MAXASIZE \in Nat BY SizesAssumption, LengthAssumption
<1>a. arr \in SUBSET (1 .. MAXASIZE) /\ arr \subseteq present BY <1>0, ArrayIndices DEF arr
<1>i. ints = present \ arr BY DEF ints
<1>k. ASSUME NEW k \in present PROVE k \in 1 .. MAXASIZE <=> k <= MAXASIZE
  <2>1. k \in 1 .. MAX_INT BY <1>0
  <2>2. k \in Nat /\ k >= 1 BY <2>1, LengthAssumption
  <2> QED BY <2>2, <1>c
<1>h. H \in SUBSET (1 .. MAXASIZE) /\ H \cap arr = {} /\ H \subseteq present
  BY ONLY <1>i, <1>k, Zenon
<1>2. InUse = arr \cup H
  <2>1. \A k : k \in InUse <=> k \in present /\ k \in 1 .. MAXASIZE BY DEF InUse
  <2>2. \A k \in arr : k \in present /\ k \in 1 .. MAXASIZE BY <1>a
  <2> QED BY ONLY <2>1, <2>2, <1>i, <1>k, Zenon
<1>3. IsFiniteSet(arr) /\ IsFiniteSet(H) BY <1>a, <1>h, FiniteIndices
<1>4. nasize' = Cardinality(InUse)
  <2> HIDE DEF H
  <2> QED BY <1>0, <1>1, <1>2, <1>3, <1>h, DisjointSum
<1>5. ASSUME NEW l \in 0 .. MAXBITS PROVE nums'[l] = Cardinality(Slice(InUse, l))
  <2>1. HS(l) = Slice(H, l) BY DEF Slice
  <2>2. Slice(InUse, l) = Slice(arr, l) \cup Slice(H, l) BY <1>2 DEF Slice
  <2>3. Slice(arr, l) \cap Slice(H, l) = {} BY <1>h DEF Slice
  <2>4. Slice(arr, l) \in SUBSET (1 .. MAXASIZE) /\ Slice(H, l) \in SUBSET (1 .. MAXASIZE)
    BY <1>a, <1>h DEF Slice
  <2>5. IsFiniteSet(Slice(arr, l)) /\ IsFiniteSet(Slice(H, l)) BY <2>4, FiniteIndices
  <2>6. nums'[l] = Cardinality(Slice(arr, l)) + Cardinality(HS(l)) BY <1>0, <1>1
  <2> HIDE DEF H, HS
  <2> QED BY <2>1, <2>2, <2>3, <2>5, <2>6, DisjointSum
<1>6. nums' = [l \in 0 .. MAXBITS |-> Cardinality(Slice(InUse, l))] BY <1>1, <1>5
<1>7. UseUpTo(0) = 0
  <2>1. {k \in InUse : k <= 0} = {} BY <1>c DEF InUse
  <2> QED BY <2>1, FS_EmptySet DEF UseUpTo
<1>8. Before(0) = 0 BY DEF Before
<1>9. Best(0) BY <1>0, <1>7 DEF Best
<1>10. UseUpTo(0)' = UseUpTo(0) BY <1>u DEF UseUpTo
<1>11. (a = UseUpTo(Before(lg)) /\ Best(lg))'
  <2>1. Best(0)' BY <1>0, <1>1, <1>7, <1>10 DEF Best
  <2>2. a' = UseUpTo(Before(0))' BY <1>0, <1>1, <1>7, <1>8, <1>10
  <2> QED BY <2>1, <2>2, <1>1 DEF Best, UseUpTo, Candidate
<1> HIDE DEF H, HS
<1>12. lg' \in 0 .. MAXBITS BY <1>1, <1>c
<1> QED BY <1>0, <1>1, <1>u, <1>4, <1>6, <1>11, <1>12 DEF SizesInv, Slice

LEMMA UseUpToBounds ==
  /\ \A x \in Nat : UseUpTo(x) \in Nat /\ UseUpTo(x) <= x /\ UseUpTo(x) <= Cardinality(InUse)
  /\ \A x, y \in Nat : x <= y => UseUpTo(x) <= UseUpTo(y)
<1> DEFINE U(x) == {k \in InUse : k <= x}
<1>0. IsFiniteSet(InUse) BY InUseIndices, FiniteIndices
<1>k. \A k \in InUse : k \in Nat /\ k >= 1 BY LengthAssumption DEF InUse
<1>1. ASSUME NEW x \in Nat PROVE UseUpTo(x) \in Nat /\ UseUpTo(x) <= x /\ UseUpTo(x) <= Cardinality(InUse)
  <2>1. U(x) \in SUBSET InUse OBVIOUS
  <2>2. IsFiniteSet(U(x)) /\ Cardinality(U(x)) <= Cardinality(InUse) BY <1>0, <2>1, FS_Subset
  <2>3. Cardinality(U(x)) \in Nat BY <2>2, FS_CardinalityType
  <2>4. U(x) \in SUBSET (1 .. x) BY <1>k
  <2>5. 1 \in Int /\ x \in Int OBVIOUS
  <2>6. IsFiniteSet(1 .. x) /\ Cardinality(1 .. x) = x BY <2>5, FS_Interval
  <2>7. Cardinality(U(x)) <= x BY <2>4, <2>6, FS_Subset
  <2> QED BY <2>2, <2>3, <2>7 DEF UseUpTo
<1>2. ASSUME NEW x \in Nat, NEW y \in Nat, x <= y PROVE UseUpTo(x) <= UseUpTo(y)
  <2>1. \A k \in InUse : k <= x => k <= y BY <1>2, <1>k
  <2>2. U(x) \in SUBSET U(y) BY <2>1
  <2>3. U(y) \in SUBSET InUse OBVIOUS
  <2> HIDE DEF U
  <2>4. IsFiniteSet(U(y)) BY <1>0, <2>3, FS_Subset
  <2>5. Cardinality(U(x)) <= Cardinality(U(y)) BY <2>2, <2>4, FS_Subset
  <2> QED BY <2>5 DEF UseUpTo, U
<1> QED BY <1>1, <1>2

\* The test of computesizes, in terms of the keys.
LEMMA CandidateIs ==
  ASSUME NEW l \in 0 .. MAXBITS
  PROVE  Candidate(2 ^ l) <=> Cardinality(Slice(InUse, l)) > 0 /\ UseUpTo(2 ^ l) > (2 ^ l) \div 2
<1>0. l \in Nat BY SizesAssumption
<1>b. /\ 2 ^ l \in Nat
      /\ \A k \in Int : k > Before(l) <=> 2 ^ l < 2 * k
      /\ \A k \in Int : k > (2 ^ l) \div 2 <=> 2 * k > 2 ^ l
      /\ Before(l) \in Nat
  BY <1>0, BeforeSlice
<1>1. Slice(InUse, l) = {k \in InUse : Before(l) < k /\ k <= 2 ^ l} BY InUseIndices, SliceIs
<1>2. Slice(InUse, l) \in SUBSET (1 .. MAXASIZE) BY InUseIndices DEF Slice
<1>3. IsFiniteSet(Slice(InUse, l)) /\ Cardinality(Slice(InUse, l)) \in Nat BY <1>2, FiniteIndices
<1>4. Cardinality(Slice(InUse, l)) > 0 <=> Slice(InUse, l) # {} BY <1>3, FS_EmptySet
<1>5. ASSUME NEW k \in InUse PROVE Before(l) < k <=> 2 ^ l < 2 * k
  <2>1. k \in Int BY DEF InUse
  <2> QED BY <2>1, <1>b
<1>6. Slice(InUse, l) # {} <=> \E k \in InUse : 2 ^ l < 2 * k /\ k <= 2 ^ l BY ONLY <1>1, <1>5, Zenon
<1>7. UseUpTo(2 ^ l) \in Int BY <1>b, UseUpToBounds
<1>8. 2 * UseUpTo(2 ^ l) > 2 ^ l <=> UseUpTo(2 ^ l) > (2 ^ l) \div 2 BY <1>7, <1>b
<1> QED BY <1>4, <1>6, <1>8 DEF Candidate

\* No size beyond 2^l has more than half of its slots used when as many keys as
\* there are, or more, already find place below.
LEMMA NoneBeyond ==
  ASSUME NEW l \in 0 .. MAXBITS + 1, NEW b \in 0 .. MAXBITS, l <= b,
         Cardinality(InUse) <= Before(l) \/ UseUpTo(Before(l)) = Cardinality(InUse)
  PROVE  ~Candidate(2 ^ b)
<1>0. l \in Nat /\ b \in Nat BY SizesAssumption
<1>1. Before(l) \in Nat /\ Before(b) \in Nat /\ (2 ^ b) \div 2 = Before(b) /\ 2 ^ b \in Nat
      /\ Before(b) < 2 ^ b
  BY <1>0, BeforeSlice
<1>2. Before(l) <= Before(b)
  <2>1. CASE l = 0 BY <2>1, <1>1 DEF Before
  <2>2. CASE l # 0
    <3>1. b # 0 /\ l - 1 \in Nat /\ b - 1 \in Nat /\ l - 1 <= b - 1 BY <2>2, <1>0
    <3>2. 2 ^ (l - 1) <= 2 ^ (b - 1) BY <3>1, PowerMonotone
    <3> QED BY <3>1, <3>2, <2>2 DEF Before
  <2> QED BY <2>1, <2>2
<1>3. CASE Cardinality(InUse) <= Before(l)
  <2>1. UseUpTo(2 ^ b) \in Nat /\ UseUpTo(2 ^ b) <= Cardinality(InUse) BY <1>1, UseUpToBounds
  <2>2. Cardinality(InUse) \in Nat BY InUseIndices, FiniteIndices
  <2>3. ~(UseUpTo(2 ^ b) > (2 ^ b) \div 2) BY <2>1, <2>2, <1>1, <1>2, <1>3
  <2> QED BY <2>3, CandidateIs
<1>4. CASE UseUpTo(Before(l)) = Cardinality(InUse)
  <2>1. UseUpTo(Before(l)) <= UseUpTo(Before(b)) /\ UseUpTo(Before(b)) \in Nat
    BY <1>1, <1>2, UseUpToBounds
  <2>2. UseUpTo(2 ^ b) <= Cardinality(InUse) /\ UseUpTo(2 ^ b) \in Nat BY <1>1, UseUpToBounds
  <2>3. UseUpTo(2 ^ b) = UseUpTo(Before(b)) + Cardinality(Slice(InUse, b))
    BY InUseIndices, NextSlice DEF UseUpTo
  <2>4. Slice(InUse, b) \in SUBSET (1 .. MAXASIZE) BY InUseIndices DEF Slice
  <2>5. Cardinality(Slice(InUse, b)) \in Nat BY <2>4, FiniteIndices
  <2>6. Cardinality(InUse) \in Nat BY InUseIndices, FiniteIndices
  <2>7. Cardinality(Slice(InUse, b)) = 0 BY <2>1, <2>2, <2>3, <2>5, <2>6, <1>4
  <2> QED BY <2>7, CandidateIs
<1> QED BY <1>3, <1>4

\* Best changes only with n and na.
LEMMA BestNext ==
  ASSUME InUse' = InUse, NEW l
  PROVE  Best(l)' <=> /\ na' = UseUpTo(n')
                      /\ n' = 0 \/ \E b \in 0 .. l - 1 : n' = 2 ^ b /\ Candidate(2 ^ b)
                      /\ \A b \in 0 .. l - 1 : Candidate(2 ^ b) => 2 ^ b <= n'
BY DEF Best, UseUpTo, Candidate

LEMMA ComputesizesStep ==
  ASSUME SizesInv, computesizes, UNCHANGED vars
  PROVE  SizesInv'
<1> DEFINE New(S) == /\ na' = UseUpTo(n')
                     /\ n' = 0 \/ \E b \in S : n' = 2 ^ b /\ Candidate(2 ^ b)
                     /\ \A b \in S : Candidate(2 ^ b) => 2 ^ b <= n'
<1>0. /\ rpc = "sizes" /\ lg \in 0 .. MAXBITS /\ a = UseUpTo(Before(lg)) /\ Best(lg)
      /\ nums = [l \in 0 .. MAXBITS |-> Cardinality(Slice(InUse, l))] /\ nasize = Cardinality(InUse)
      /\ present \in SUBSET (1 .. MAX_INT) /\ MAXBITS \in Nat
  BY SizesAssumption DEF SizesInv, computesizes
<1>u. present' = present /\ InUse' = InUse /\ nums' = nums /\ nasize' = nasize
  BY DEF vars, InUse, computesizes
<1>v. (\A x : UseUpTo(x)' = UseUpTo(x)) /\ (\A x : Candidate(x)' = Candidate(x))
      /\ \A l : Slice(InUse, l)' = Slice(InUse, l)
  BY <1>u DEF UseUpTo, Candidate, Slice
<1>b. lg \in Nat /\ Before(lg + 1) = 2 ^ lg /\ 2 ^ lg \in Nat /\ (2 ^ lg) \div 2 = Before(lg) /\ Before(lg) \in Nat
  BY <1>0, BeforeSlice
\* One round looks at one size more.
<1>1. ASSUME a' = a + nums[lg],
             IF nums[lg] > 0 /\ a' > (2 ^ lg) \div 2 THEN n' = 2 ^ lg /\ na' = a' ELSE UNCHANGED <<n, na>>
      PROVE  a' = UseUpTo(2 ^ lg) /\ New(0 .. lg)
  <2>1. a' = UseUpTo(2 ^ lg) BY <1>0, <1>1, InUseIndices, NextSlice DEF UseUpTo
  <2>2. nums[lg] > 0 /\ a' > (2 ^ lg) \div 2 <=> Candidate(2 ^ lg) BY <1>0, <2>1, CandidateIs
  <2>p. \A x \in 0 .. lg : 2 ^ x \in Nat /\ 2 ^ x <= 2 ^ lg
    <3>1. ASSUME NEW x \in 0 .. lg PROVE 2 ^ x \in Nat /\ 2 ^ x <= 2 ^ lg
      <4>1. x \in Nat /\ x <= lg BY <1>b
      <4> QED BY <4>1, <1>b, PowerType, PowerMonotone
    <3> QED BY <3>1
  <2>i. 0 .. (lg + 1) - 1 = 0 .. lg /\ lg \in 0 .. lg
        /\ (\A x \in 0 .. lg : x = lg \/ x \in 0 .. lg - 1)
        /\ \A x \in 0 .. lg - 1 : x \in 0 .. lg
    BY <1>b
  <2>3. CASE Candidate(2 ^ lg)
    <3>1. n' = 2 ^ lg /\ na' = a' BY <2>2, <2>3, <1>1
    <3>2. na' = UseUpTo(n') BY <3>1, <2>1
    <3>3. \A x \in 0 .. lg : Candidate(2 ^ x) => 2 ^ x <= n' BY <3>1, <2>p
    <3>4. \E x \in 0 .. lg : n' = 2 ^ x /\ Candidate(2 ^ x) BY <3>1, <2>3, <2>i
    <3> QED BY <3>2, <3>3, <3>4, <2>1
  <2>4. CASE ~Candidate(2 ^ lg)
    <3>1. n' = n /\ na' = na BY <2>2, <2>4, <1>1
    <3>2. na' = UseUpTo(n') /\ (n' = 0 \/ \E x \in 0 .. lg : n' = 2 ^ x /\ Candidate(2 ^ x))
      BY <3>1, <1>0, <2>i DEF Best
    <3>3. \A x \in 0 .. lg : Candidate(2 ^ x) => 2 ^ x <= n' BY <3>1, <1>0, <2>i, <2>4 DEF Best
    <3> QED BY <3>2, <3>3, <2>1
  <2> QED BY <2>3, <2>4
<1>i. 0 .. (lg + 1) - 1 = 0 .. lg /\ 0 .. (MAXBITS + 1) - 1 = 0 .. MAXBITS BY <1>0, <1>b
\* The loop goes on.
<1>2. ASSUME a' = UseUpTo(2 ^ lg), New(0 .. lg), lg' = lg + 1, lg + 1 <= MAXBITS, rpc' = rpc
      PROVE  SizesInv'
  <2>1. lg' \in 0 .. MAXBITS BY <1>2, <1>0
  <2>2. Before(lg') = 2 ^ lg BY <1>2, <1>b
  <2>3. (a = UseUpTo(Before(lg)))' BY <1>2, <2>2, <1>u DEF UseUpTo, Before
  <2>4. 0 .. lg' - 1 = 0 .. lg BY <1>2, <1>i
  <2>5. Best(lg)' BY <1>2, <1>u, <2>4 DEF Best, UseUpTo, Candidate
  <2> QED BY <1>0, <1>u, <1>2, <2>1, <2>3, <2>5 DEF SizesInv, Slice
\* The loop ends, and the sizes it has not looked at are too large.
<1>3. ASSUME NEW l \in 0 .. MAXBITS + 1, New(0 .. l - 1), rpc' = "resize",
             Cardinality(InUse) <= Before(l) \/ UseUpTo(Before(l)) = Cardinality(InUse)
      PROVE  SizesInv'
  <2>1. \A b \in 0 .. MAXBITS : b \in 0 .. l - 1 \/ l <= b BY <1>0
  <2>2. \A b \in 0 .. MAXBITS : l <= b => ~Candidate(2 ^ b) BY <1>3, NoneBeyond
  <2>3. \A b \in 0 .. l - 1 : b \in 0 .. MAXBITS BY <1>0
  <2>4. New(0 .. MAXBITS) BY <1>3, <2>1, <2>2, <2>3
  <2>5. Best(MAXBITS + 1)' BY <2>4, <1>i, <1>u, BestNext
  <2> QED BY <1>0, <1>u, <1>3, <2>5 DEF SizesInv, Slice
<1>4. CASE /\ a' = a + nums[lg]
           /\ IF nums[lg] > 0 /\ a' > (2 ^ lg) \div 2 THEN n' = 2 ^ lg /\ na' = a' ELSE UNCHANGED <<n, na>>
           /\ lg' = lg + 1 /\ rpc' = IF a' = nasize THEN "resize" ELSE rpc
  <2>1. a' = UseUpTo(2 ^ lg) /\ New(0 .. lg) BY <1>1, <1>4
  <2>2. CASE a' = nasize
    <3>1. UseUpTo(Before(lg + 1)) = Cardinality(InUse) BY <2>1, <2>2, <1>b, <1>0
    <3>2. lg + 1 \in 0 .. MAXBITS + 1 /\ rpc' = "resize" BY <1>0, <1>4, <2>2
    <3>3. New(0 .. (lg + 1) - 1) BY <2>1, <1>i
    <3> QED BY <3>1, <3>2, <3>3, <1>3
  <2>3. CASE a' # nasize
    <3>1. lg # MAXBITS
      <4>1. {k \in InUse : k <= 2 ^ MAXBITS} = InUse
        <5>1. \A k \in InUse : k <= 2 ^ MAXBITS BY SizesAssumption, LengthAssumption DEF InUse
        <5> QED BY <5>1
      <4> QED BY <4>1, <2>1, <2>3, <1>0 DEF UseUpTo
    <3>2. lg + 1 <= MAXBITS BY <3>1, <1>0
    <3> QED BY <3>2, <2>1, <2>3, <1>2, <1>4
  <2> QED BY <2>2, <2>3
<1>5. CASE (2 ^ lg) \div 2 >= nasize /\ rpc' = "resize" /\ UNCHANGED <<a, na, n, lg>>
  <2>1. Cardinality(InUse) <= Before(lg) BY <1>5, <1>b, <1>0, InUseIndices, FiniteIndices
  <2>2. New(0 .. lg - 1) BY <1>5, <1>0 DEF Best
  <2>3. lg \in 0 .. MAXBITS + 1 BY <1>0
  <2> QED BY <2>1, <2>2, <2>3, <1>3, <1>5
<1> HIDE DEF New
<1> QED BY <1>4, <1>5 DEF computesizes

LEMMA SInitInv == SInit => SizesInv
BY SizesAssumption DEF SInit, Init, SizesInv

LEMMA SStepInv == SizesInv /\ [SNext \/ SDone]_<<vars, rehashVars>> => SizesInv'
<1> SUFFICES ASSUME SizesInv, [SNext \/ SDone]_<<vars, rehashVars>> PROVE SizesInv' OBVIOUS
\* Asking for the length changes neither the table nor the counts.
<1>1. ASSUME UNCHANGED rehashVars, present' = present, sizearray' = sizearray PROVE SizesInv'
  BY <1>1 DEF rehashVars, SizesInv, arr, InUse, Slice, Best, UseUpTo, Candidate
<1>2. CASE UNCHANGED <<vars, rehashVars>> BY <1>1, <1>2 DEF vars
<1>3. CASE Next /\ UNCHANGED rehashVars BY <1>1, <1>3 DEF Next
<1>4. CASE SDone BY <1>1, <1>4 DEF SDone, Done, vars
<1>5. CASE rehash
  <2>0. /\ rpc = "start" /\ rpc' = "array" /\ UNCHANGED <<lg, idx, nums, nasize, a, na, n>>
        /\ present' = present /\ sizearray' = sizearray
    BY <1>5 DEF rehash, vars
  <2>1. /\ lg = 0 /\ idx = 1 /\ nums = [l \in 0 .. MAXBITS |-> 0] /\ nasize = 0
        /\ sizearray \in 0 .. MAXASIZE /\ present \in SUBSET (1 .. MAX_INT)
        /\ a = 0 /\ na = 0 /\ n = 0
    BY <2>0 DEF SizesInv
  <2>c. MAXBITS \in Nat /\ MAXASIZE \in Nat BY SizesAssumption, LengthAssumption
  <2>2. idx = (IF Before(lg) > sizearray THEN sizearray ELSE Before(lg)) + 1
    BY <2>1, <2>c DEF Before
  <2>3. nums = [l \in 0 .. MAXBITS |-> IF l < lg THEN Cardinality(Slice(arr, l)) ELSE 0]
    <3>1. \A l \in 0 .. MAXBITS : ~(l < lg) BY <2>1
    <3> QED BY <2>1, <3>1
  <2>4. nasize = Cardinality({k \in arr : k < idx})
    <3>1. \A k \in arr : ~(k < idx) BY <2>1 DEF arr
    <3>2. {k \in arr : k < idx} = {} BY <3>1
    <3> QED BY <2>1, <3>2, FS_EmptySet
  <2>5. lg \in 0 .. MAXBITS + 1 BY <2>1, <2>c
  <2>6. arr' = arr BY <2>0 DEF arr
  <2>7. SizesInv' <=>
          /\ lg \in 0 .. MAXBITS + 1 /\ sizearray \in 0 .. MAXASIZE /\ a = 0 /\ na = 0 /\ n = 0
          /\ present \in SUBSET (1 .. MAX_INT)
          /\ idx = (IF Before(lg) > sizearray THEN sizearray ELSE Before(lg)) + 1
          /\ nums = [l \in 0 .. MAXBITS |-> IF l < lg THEN Cardinality(Slice(arr, l)) ELSE 0]
          /\ nasize = Cardinality({k \in arr : k < idx})
    BY <2>0, <2>6 DEF SizesInv, Before, Slice
  <2> QED BY <2>1, <2>2, <2>3, <2>4, <2>5, <2>7
<1>6. CASE Count /\ UNCHANGED vars
  BY <1>6, NumusearrayStep, NumusehashStep, ComputesizesStep DEF Count
<1>7. CASE resize /\ UNCHANGED <<present, pc, i, j, result>>
  BY <1>7 DEF resize, SizesInv
<1> QED BY <1>2, <1>3, <1>4, <1>5, <1>6, <1>7 DEF SNext

LEMMA SizesInvRight == SizesInv => SizesRight
<1> SUFFICES ASSUME SizesInv PROVE SizesRight OBVIOUS
<1>0. MAXBITS \in Nat BY SizesAssumption
<1>1. Counted BY DEF SizesInv, Counted, Slice
<1>2. Optimal
  <2> SUFFICES ASSUME rpc = "resize"
               PROVE  LET C == {m \in {2 ^ b : b \in 0 .. MAXBITS} : Candidate(m)}
                      IN  (n \in C \/ n = 0) /\ \A m \in C : m <= n
    BY DEF Optimal
  <2>1. Best(MAXBITS + 1) /\ 0 .. (MAXBITS + 1) - 1 = 0 .. MAXBITS BY <1>0 DEF SizesInv
  <2> QED BY <2>1 DEF Best
<1>3. ArrayUse
  <2> SUFFICES ASSUME rpc = "resize" PROVE na = UseUpTo(n) /\ n \div 2 <= na /\ na <= n
    BY DEF ArrayUse
  <2>1. Best(MAXBITS + 1) BY DEF SizesInv
  <2>2. CASE n = 0 BY <2>1, <2>2, UseUpToBounds DEF Best
  <2>3. CASE n # 0
    <3>1. PICK b \in 0 .. (MAXBITS + 1) - 1 : n = 2 ^ b /\ Candidate(2 ^ b) BY <2>1, <2>3 DEF Best
    <3>2. b \in Nat /\ n \in Nat
      <4>1. b \in Nat BY <1>0
      <4> QED BY <4>1, <3>1, PowerType
    <3>3. na = UseUpTo(n) /\ na \in Nat /\ na <= n BY <2>1, <3>2, UseUpToBounds DEF Best
    <3>4. 2 * na > n BY <3>1, <3>3 DEF Candidate
    <3> QED BY <3>2, <3>3, <3>4
  <2> QED BY <2>2, <2>3
<1> QED BY <1>1, <1>2, <1>3 DEF SizesRight

\* rehash counts every integer key once and gives the array the largest power of
\* two of which more than half is used (numusearray, numusehash, computesizes),
\* for every limit on its size.
THEOREM SizesOptimal == SSpec => []SizesRight
BY SInitInv, SStepInv, SizesInvRight, PTL DEF SSpec
=============================================================================
