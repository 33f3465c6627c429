------------------------------ MODULE LuaSizes ------------------------------
(***************************************************************************)
(* How rehash chooses the size of the array part: numusearray counts the      *)
(* values in the slices (2^(lg-1), 2^lg], numusehash adds the integer keys of  *)
(* the hash part, and computesizes looks for the best power of two.  The table *)
(* is that of LuaLength, whose length may be asked for before or after rehash. *)
(***************************************************************************)
EXTENDS LuaLength, FiniteSets

CONSTANTS MAXBITS, \* log2 of MAXASIZE
          Keys     \* the integer keys in use
ASSUME SizesAssumption ==
  MAXBITS \in Nat /\ MAXASIZE = 2 ^ MAXBITS /\ Keys \subseteq 1 .. MAX_INT

ceillog2(k) == CHOOSE lg \in 0 .. MAXBITS : k <= 2 ^ lg /\ \A l \in 0 .. lg - 1 : 2 ^ l < k

VARIABLES rpc, lg, idx,    \* loops of numusearray (next index) and computesizes
          nums, nasize,     \* the counts
          a, na, n          \* computesizes
rehashVars == <<rpc, lg, idx, nums, nasize, a, na, n>>

\* The array part, and the integer keys of the hash part with the new one.
arr == present \cap 1 .. sizearray
ints == present \ arr

\* Mutant: slices overlap by one.
numusearrayOverlap ==
  LET lim == IF 2 ^ lg > sizearray THEN sizearray ELSE 2 ^ lg
      lc == Cardinality(arr \cap idx .. lim)
  IN  /\ rpc = "array"
      /\ \/ /\ lg <= MAXBITS /\ ~(2 ^ lg > sizearray /\ idx > lim)
            /\ nums' = [nums EXCEPT ![lg] = @ + lc] /\ nasize' = nasize + lc
            /\ idx' = lim /\ lg' = lg + 1 /\ rpc' = rpc
         \/ /\ lg > MAXBITS \/ (2 ^ lg > sizearray /\ idx > lim)
            /\ rpc' = "hash" /\ UNCHANGED <<nums, nasize, idx, lg>>
      /\ UNCHANGED <<a, na, n>>

\* numusearray: one slice, cut at sizearray.
numusearray ==
  LET lim == IF 2 ^ lg > sizearray THEN sizearray ELSE 2 ^ lg
      lc == Cardinality(arr \cap idx .. lim)
  IN  /\ rpc = "array"
      /\ \/ /\ lg <= MAXBITS /\ ~(2 ^ lg > sizearray /\ idx > lim)
            /\ nums' = [nums EXCEPT ![lg] = @ + lc] /\ nasize' = nasize + lc
            /\ idx' = (IF idx <= lim THEN lim + 1 ELSE idx) /\ lg' = lg + 1 /\ rpc' = rpc
         \/ /\ lg > MAXBITS \/ (2 ^ lg > sizearray /\ idx > lim)
            /\ rpc' = "hash" /\ UNCHANGED <<nums, nasize, idx, lg>>
      /\ UNCHANGED <<a, na, n>>

\* numusehash and countint, for the keys of the hash part and the new key.
numusehash ==
  /\ rpc = "hash"
  /\ nums' = [l \in 0 .. MAXBITS |-> nums[l] + Cardinality({k \in ints : k <= MAXASIZE /\ ceillog2(k) = l})]
  /\ nasize' = nasize + Cardinality({k \in ints : k <= MAXASIZE})
  /\ rpc' = "sizes" /\ lg' = 0
  /\ UNCHANGED <<idx, a, na, n>>

\* Mutants: half is enough; or na lags one slice behind.
Round(enough, n2) ==
  /\ rpc = "sizes"
  /\ \/ /\ (2 ^ lg) \div 2 < nasize
        /\ a' = a + nums[lg]
        /\ IF nums[lg] > 0 /\ enough THEN n' = 2 ^ lg /\ na' = n2
           ELSE UNCHANGED <<n, na>>
        /\ lg' = lg + 1 /\ rpc' = IF a + nums[lg] = nasize THEN "resize" ELSE rpc
     \/ /\ (2 ^ lg) \div 2 >= nasize
        /\ rpc' = "resize" /\ UNCHANGED <<a, na, n, lg>>
  /\ UNCHANGED <<idx, nums, nasize>>
computesizesHalf == rpc = "sizes" /\ Round(lg <= MAXBITS /\ 2 * (a + nums[lg]) >= 2 ^ lg, a + nums[lg])
computesizesLag == rpc = "sizes" /\ Round(2 * (a + nums[lg]) > 2 ^ lg, a)

\* computesizes: one round of the loop, and its end.
computesizes ==
  /\ rpc = "sizes"
  /\ \/ /\ (2 ^ lg) \div 2 < nasize
        /\ a' = a + nums[lg]
        /\ IF nums[lg] > 0 /\ a' > (2 ^ lg) \div 2 THEN n' = 2 ^ lg /\ na' = a'
           ELSE UNCHANGED <<n, na>>
        /\ lg' = lg + 1 /\ rpc' = IF a' = nasize THEN "resize" ELSE rpc
     \/ /\ (2 ^ lg) \div 2 >= nasize
        /\ rpc' = "resize" /\ UNCHANGED <<a, na, n, lg>>
  /\ UNCHANGED <<idx, nums, nasize>>

\* resize: no hash part if it would be empty.
resize ==
  /\ rpc = "resize" /\ rpc' = "done"
  /\ sizearray' = n
  /\ dummy' \in BOOLEAN /\ (dummy' => present \subseteq 1 .. n)
  /\ UNCHANGED <<lg, idx, nums, nasize, a, na, n>>

SInit ==
  /\ Init /\ present \subseteq Keys
  /\ rpc = "start" /\ lg = 0 /\ idx = 1 /\ nums = [l \in 0 .. MAXBITS |-> 0] /\ nasize = 0
  /\ a = 0 /\ na = 0 /\ n = 0
\* rehash is called when a new key, which is in `present', finds no place.
rehash ==
  /\ pc = "getn" /\ rpc = "start" /\ rpc' = "array"
  /\ UNCHANGED <<lg, idx, nums, nasize, a, na, n, vars>>
Count == numusearray \/ numusehash \/ computesizes
SNext ==
  \/ rpc \in {"start", "done"} /\ Next /\ UNCHANGED rehashVars
  \/ rehash
  \/ Count /\ UNCHANGED vars
  \/ resize /\ UNCHANGED <<present, pc, i, j, result>>
SDone == Done /\ UNCHANGED rehashVars
SSpec == SInit /\ [][SNext \/ SDone]_<<vars, rehashVars>> /\ WF_<<vars, rehashVars>>(SNext)

-----------------------------------------------------------------------------
(* Properties.                                                             *)

InUse == present \cap 1 .. MAXASIZE
UseUpTo(m) == Cardinality({k \in InUse : k <= m})

\* Every integer key is counted once, in its slice, and nowhere else.
Counted ==
  rpc \in {"sizes", "resize"} =>
    /\ nasize = Cardinality(InUse)
    /\ \A l \in 0 .. MAXBITS : nums[l] = Cardinality({k \in InUse : ceillog2(k) = l})

\* More than half of an array of m slots would be used, and its upper half too.
Candidate(m) == 2 * UseUpTo(m) > m /\ \E k \in InUse : m < 2 * k /\ k <= m

\* The loop stops early but never misses a larger size of which more than half
\* would be used, with a key in its upper half.
Optimal ==
  rpc = "resize" =>
    LET C == {m \in {2 ^ b : b \in 0 .. MAXBITS} : Candidate(m)}
    IN  (n \in C \/ n = 0) /\ \A m \in C : m <= n

\* na is the number of keys that go to the array part (resize takes the others
\* as the size of the node vector), within the bounds computesizes asserts.
ArrayUse == rpc = "resize" => na = UseUpTo(n) /\ n \div 2 <= na /\ na <= n

\* rehash counts every integer key once and chooses the largest array of which
\* more than half is used, with the number of keys that go there.
SizesRight == Counted /\ Optimal /\ ArrayUse

=============================================================================
