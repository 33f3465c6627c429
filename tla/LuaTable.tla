------------------------------ MODULE LuaTable ------------------------------
(***************************************************************************)
(* A table of ltable.c: an array part and a hash part, a node vector with    *)
(* chained scatter and Brent's variation.  An assignment of a new key may     *)
(* move a node, or rebuild both parts (rehash, resize); `resize' inserts the  *)
(* entries one at a time into the new vector, and `stage' says how far it is. *)
(*                                                                         *)
(* Keys are integers that may live in the array part (IntKey) or other keys;  *)
(* Pow2Key are those hashed modulo the size (strings, booleans), the others   *)
(* modulo (size-1)|1.  Which hash a key has is left open.  hsize = 0 stands   *)
(* for the shared dummynode.                                                  *)
(***************************************************************************)
EXTENDS Integers, FiniteSets

CONSTANTS
  IntKey,        \* keys that may live in the array part
  Pow2Key,       \* strings and booleans
  ModKey,        \* all other keys
  Collectable,   \* keys that are collectable objects
  HashFunctions, \* the hashes that the keys may have
  NewSizes,      \* the sizes luaH_new may be called with: <<narray, size of the node vector>>
  Val, nil,      \* values; nil
  MAXBITS        \* log2 of the largest size of a part

Key == IntKey \cup Pow2Key \cup ModKey

ASSUME TableAssumption ==
  /\ IntKey \subseteq Nat \ {0} /\ \A k \in Key : k \in Nat \ {0} => k \in IntKey
  /\ HashFunctions \subseteq [Key -> Nat]
  /\ NewSizes \subseteq Nat \X Nat
  /\ Collectable \subseteq Key \ IntKey
  /\ nil \notin Key /\ nil \notin Val /\ nil \notin Int
  /\ MAXBITS \in Nat

VARIABLES
  hash,                  \* hash of every key
  asize, arr,            \* sizearray and the array part
  hsize, key, dead, val, next, \* the node vector: LUA_TDEADKEY is `dead'
  lastfree,              \* any free position is before this one
  stage,                 \* progress of resize
  oarr, okey, oval, oasize, ohsize, \* the table that resize takes apart
  i,                     \* its loop variable
  pkey, pval             \* the assignment that called rehash

hashVars == <<hsize, key, dead, val, next, lastfree>>
tableVars == <<asize, arr, hashVars>>
resizeVars == <<stage, oarr, okey, oval, oasize, ohsize, i, pkey, pval>>
vars == <<hash, tableVars, resizeVars>>

-----------------------------------------------------------------------------
(* Searching.                                                              *)

Nodes == 0 .. hsize - 1
mainposition(k) ==
  IF k \in Pow2Key THEN hash[k] % hsize
  ELSE hash[k] % (IF hsize = 1 THEN 1 ELSE hsize - 1)

\* The nodes that a loop visits which starts at node p and follows gnext.
Closed(nx, S) == \A x \in S : nx[x] # nil => nx[x] \in S
Reach(N, nx, p) == {n \in N : \A S \in SUBSET N : p \in S /\ Closed(nx, S) => n \in S}
Chain(p) == Reach(Nodes, next, p)

InArray(k) == k \in IntKey /\ k <= asize
\* luaH_getnum, luaH_getstr, luaH_get: where the key was found in the hash part.
Found(k) == IF hsize = 0 THEN {}
            ELSE {n \in Nodes : key[n] = k /\ ~dead[n] /\ n \in Chain(mainposition(k))}
luaH_get(k) ==
  IF InArray(k) THEN arr[k]
  ELSE LET F == Found(k) IN IF F = {} THEN nil ELSE val[CHOOSE n \in F : TRUE]

-----------------------------------------------------------------------------
(* Insertion.                                                              *)

Free == {f \in Nodes : f < lastfree /\ key[f] = nil}
\* getfreepos takes the last free position before lastfree.
getfreepos(n) == n \in Free /\ \A f \in Free : f <= n

\* newkey finds no place for k.
NoRoom(k) ==
  /\ ~InArray(k) /\ Found(k) = {}
  /\ hsize # 0 => val[mainposition(k)] # nil /\ Free = {}

\* Mutant: the key is stored but not its type: a dead key stays dead.
putMainDead(k, v) ==
  LET mp == mainposition(k)
  IN  /\ val[mp] = nil
      /\ key' = [key EXCEPT ![mp] = k] /\ val' = [val EXCEPT ![mp] = v]
      /\ UNCHANGED <<dead, next, lastfree>>

\* The main position has no value: the key is put there, chain as it was.
putMain(k, v) ==
  LET mp == mainposition(k)
  IN  /\ val[mp] = nil
      /\ key' = [key EXCEPT ![mp] = k] /\ dead' = [dead EXCEPT ![mp] = FALSE]
      /\ val' = [val EXCEPT ![mp] = v]
      /\ UNCHANGED <<next, lastfree>>

\* Mutant: the previous node is not linked to the new place.
moveCollidingUnlinked(k, v, n, prev) ==
  LET mp == mainposition(k)
  IN  /\ val[mp] # nil /\ getfreepos(n) /\ mainposition(key[mp]) # mp
      /\ prev \in Chain(mainposition(key[mp])) /\ next[prev] = mp
      /\ next' = [next EXCEPT ![n] = next[mp], ![mp] = nil]
      /\ key' = [key EXCEPT ![n] = key[mp], ![mp] = k]
      /\ dead' = [dead EXCEPT ![n] = dead[mp], ![mp] = FALSE]
      /\ val' = [val EXCEPT ![n] = val[mp], ![mp] = v]
      /\ lastfree' = n

\* The colliding node is out of its main position: it moves to the free one.
moveColliding(k, v, n, prev) ==
  LET mp == mainposition(k)
  IN  /\ val[mp] # nil /\ getfreepos(n) /\ mainposition(key[mp]) # mp
      /\ prev \in Chain(mainposition(key[mp])) /\ next[prev] = mp
      /\ next' = [next EXCEPT ![prev] = n, ![n] = next[mp], ![mp] = nil]
      /\ key' = [key EXCEPT ![n] = key[mp], ![mp] = k]
      /\ dead' = [dead EXCEPT ![n] = dead[mp], ![mp] = FALSE]
      /\ val' = [val EXCEPT ![n] = val[mp], ![mp] = v]
      /\ lastfree' = n

\* Mutant: the new node is chained to mp itself.
putFreeCircular(k, v, n) ==
  LET mp == mainposition(k)
  IN  /\ val[mp] # nil /\ getfreepos(n) /\ mainposition(key[mp]) = mp
      /\ next' = [next EXCEPT ![n] = mp, ![mp] = n]
      /\ key' = [key EXCEPT ![n] = k] /\ dead' = [dead EXCEPT ![n] = FALSE]
      /\ val' = [val EXCEPT ![n] = v]
      /\ lastfree' = n

\* The colliding node is in its main position: the new key goes to the free one.
putFree(k, v, n) ==
  LET mp == mainposition(k)
  IN  /\ val[mp] # nil /\ getfreepos(n) /\ mainposition(key[mp]) = mp
      /\ next' = [next EXCEPT ![n] = next[mp], ![mp] = n]
      /\ key' = [key EXCEPT ![n] = k] /\ dead' = [dead EXCEPT ![n] = FALSE]
      /\ val' = [val EXCEPT ![n] = v]
      /\ lastfree' = n

\* Mutant: the new key always goes to the free node.
newkeyNeverMoves(k, v) ==
  \/ putMain(k, v)
  \/ \E n \in Nodes :
       LET mp == mainposition(k)
       IN  /\ val[mp] # nil /\ getfreepos(n)
           /\ next' = [next EXCEPT ![n] = next[mp], ![mp] = n]
           /\ key' = [key EXCEPT ![n] = k] /\ dead' = [dead EXCEPT ![n] = FALSE]
           /\ val' = [val EXCEPT ![n] = v] /\ lastfree' = n

newkey(k, v) ==
  \/ putMain(k, v)
  \/ \E n \in Nodes : putFree(k, v, n) \/ \E prev \in Nodes : moveColliding(k, v, n, prev)

\* luaH_set and the store of v, when there is room.
Put(k, v) ==
  \/ /\ InArray(k)
     /\ arr' = [arr EXCEPT ![k] = v]
     /\ UNCHANGED <<asize, hashVars>>
  \/ /\ ~InArray(k)
     /\ \E n \in Found(k) : val' = [val EXCEPT ![n] = v]
     /\ UNCHANGED <<asize, arr, hsize, key, dead, next, lastfree>>
  \/ /\ ~InArray(k) /\ Found(k) = {} /\ hsize # 0
     /\ newkey(k, v)
     /\ UNCHANGED <<asize, arr, hsize>>

-----------------------------------------------------------------------------
(* Rehash.                                                                 *)

MAXASIZE == 2 ^ MAXBITS
PowersOf2 == {n \in 1 .. MAXASIZE : \E b \in 0 .. MAXBITS : n = 2 ^ b}

Used == {n \in Nodes : val[n] # nil}
UpTo(S, n) == {j \in S : j <= n}
\* numusearray, numusehash and countint: what each part holds, and the integer
\* keys that could live in the array part, with the new one.
ArrayUse == {j \in 1 .. asize : j <= MAXASIZE /\ arr[j] # nil}
IntUse(k) == UpTo(ArrayUse \cup (({key[n] : n \in Used} \cup {k}) \cap IntKey), MAXASIZE)

\* computesizes: n is the largest power of two such that more than half of the
\* slots 1..n are in use, and some in the upper half.
Candidate(S, n) == /\ 2 * Cardinality(UpTo(S, n)) > n
                   /\ \E j \in S : n < 2 * j /\ j <= n
computesizes(S, n) ==
  \/ n \in PowersOf2 /\ Candidate(S, n) /\ \A m \in PowersOf2 : Candidate(S, m) => m <= n
  \/ n = 0 /\ \A m \in PowersOf2 : ~Candidate(S, m)

\* setnodevector: the size is rounded up to a power of two.
RoundUp(size, n) ==
  IF size = 0 THEN n = 0
  ELSE n \in PowersOf2 /\ size <= n /\ n < 2 * size

\* Mutant: lastfree is not reset.
resizeLastfree(nasize, nhsize) ==
  /\ asize' = nasize
  /\ arr' = [j \in 1 .. nasize |-> IF j <= asize THEN arr[j] ELSE nil]
  /\ hsize' = nhsize /\ lastfree' = lastfree
  /\ key' = [n \in 0 .. nhsize - 1 |-> nil] /\ val' = [n \in 0 .. nhsize - 1 |-> nil]
  /\ dead' = [n \in 0 .. nhsize - 1 |-> FALSE] /\ next' = [n \in 0 .. nhsize - 1 |-> nil]
  /\ oarr' = arr /\ oasize' = asize /\ okey' = key /\ oval' = val /\ ohsize' = hsize
  /\ stage' = "shrink" /\ i' = nasize + 1

\* resize: the new vectors; the old ones are kept until all is re-inserted.
resize(nasize, nhsize) ==
  /\ asize' = nasize
  /\ arr' = [j \in 1 .. nasize |-> IF j <= asize THEN arr[j] ELSE nil]
  /\ hsize' = nhsize /\ lastfree' = nhsize
  /\ key' = [n \in 0 .. nhsize - 1 |-> nil] /\ val' = [n \in 0 .. nhsize - 1 |-> nil]
  /\ dead' = [n \in 0 .. nhsize - 1 |-> FALSE] /\ next' = [n \in 0 .. nhsize - 1 |-> nil]
  /\ oarr' = arr /\ oasize' = asize /\ okey' = key /\ oval' = val /\ ohsize' = hsize
  /\ stage' = "shrink" /\ i' = nasize + 1

\* rehash: the new size of the array part, and what the node vector must hold.
totalWithoutNew == Cardinality(ArrayUse) + Cardinality(Used)  \* mutant
total == Cardinality(ArrayUse) + Cardinality(Used) + 1
HashUse(k, nasize) == total - Cardinality(UpTo(IntUse(k), nasize))
rehash(k) ==
  \E nasize, nhsize \in {0} \cup PowersOf2 :
    /\ computesizes(IntUse(k), nasize) /\ RoundUp(HashUse(k, nasize), nhsize)
    /\ resize(nasize, nhsize)

-----------------------------------------------------------------------------
(* The steps.                                                              *)

\* t[k] = v (luaH_set, luaH_setnum, luaH_setstr and the store).
Set(k, v) ==
  /\ stage = "idle"
  /\ \/ Put(k, v) /\ UNCHANGED resizeVars
     \/ NoRoom(k) /\ rehash(k) /\ pkey' = k /\ pval' = v
  /\ hash' = hash

\* resize, entries of the vanishing slice of the array.
ShrinkArray ==
  /\ stage = "shrink" /\ i <= oasize
  /\ \/ oarr[i] = nil /\ UNCHANGED tableVars
     \/ oarr[i] # nil /\ Put(i, oarr[i])
  /\ i' = i + 1
  /\ UNCHANGED <<hash, stage, oarr, okey, oval, oasize, ohsize, pkey, pval>>

\* Mutant: the loop over the old nodes starts one too low.
EndShrinkLow ==
  /\ stage = "shrink" /\ i > oasize
  /\ stage' = "reinsert" /\ i' = ohsize - 2
  /\ UNCHANGED <<hash, tableVars, oarr, okey, oval, oasize, ohsize, pkey, pval>>

EndShrink ==
  /\ stage = "shrink" /\ i > oasize
  /\ stage' = "reinsert" /\ i' = ohsize - 1
  /\ UNCHANGED <<hash, tableVars, oarr, okey, oval, oasize, ohsize, pkey, pval>>

\* resize, entries of the old node vector, from the last to the first.
Reinsert ==
  /\ stage = "reinsert" /\ i >= 0
  /\ \/ oval[i] = nil /\ UNCHANGED tableVars
     \/ oval[i] # nil /\ Put(okey[i], oval[i])
  /\ i' = i - 1
  /\ UNCHANGED <<hash, stage, oarr, okey, oval, oasize, ohsize, pkey, pval>>

\* The old vectors are freed; rehash returns to newkey, which calls luaH_set.
EndResize ==
  /\ stage = "reinsert" /\ i < 0
  /\ stage' = IF pkey = nil THEN "idle" ELSE "retry"
  /\ oasize' = 0 /\ oarr' = [j \in {} |-> nil] /\ ohsize' = 0
  /\ okey' = [n \in {} |-> nil] /\ oval' = [n \in {} |-> nil] /\ i' = 0
  /\ UNCHANGED <<hash, tableVars, pkey, pval>>

Retry ==
  /\ stage = "retry" /\ Put(pkey, pval)
  /\ stage' = "idle" /\ pkey' = nil /\ pval' = nil
  /\ UNCHANGED <<hash, oarr, okey, oval, oasize, ohsize, i>>

\* Mutant: the array grows and the hash part stays as it is.
luaH_resizearrayOnly(n) ==
  /\ stage = "idle" /\ n > asize
  /\ asize' = n /\ arr' = [j \in 1 .. n |-> IF j <= asize THEN arr[j] ELSE nil]
  /\ UNCHANGED <<hash, hashVars, resizeVars>>

\* luaH_resizearray, called by OP_SETLIST for an array that must grow.
luaH_resizearray(n) ==
  /\ stage = "idle" /\ n > asize
  /\ resize(n, hsize)
  /\ UNCHANGED <<hash, pkey, pval>>

\* The collector: removeentry on an empty entry, and cleartable on a weak table.
removeentry(n) ==
  /\ stage = "idle" /\ val[n] = nil /\ key[n] \in Collectable /\ ~dead[n]
  /\ dead' = [dead EXCEPT ![n] = TRUE]
  /\ UNCHANGED <<hash, asize, arr, hsize, key, val, next, lastfree, resizeVars>>

ClearNode(n) ==
  /\ stage = "idle" /\ val[n] # nil
  /\ val' = [val EXCEPT ![n] = nil]
  /\ dead' = [dead EXCEPT ![n] = key[n] \in Collectable]
  /\ UNCHANGED <<hash, asize, arr, hsize, key, next, lastfree, resizeVars>>

ClearArray(j) ==
  /\ stage = "idle" /\ arr[j] # nil
  /\ arr' = [arr EXCEPT ![j] = nil]
  /\ UNCHANGED <<hash, asize, hashVars, resizeVars>>

\* luaH_new.
luaH_new(narray, nhash) ==
  /\ asize = narray /\ arr = [j \in 1 .. narray |-> nil]
  /\ hsize = nhash /\ lastfree = nhash
  /\ key = [n \in 0 .. nhash - 1 |-> nil] /\ val = [n \in 0 .. nhash - 1 |-> nil]
  /\ dead = [n \in 0 .. nhash - 1 |-> FALSE] /\ next = [n \in 0 .. nhash - 1 |-> nil]

Init ==
  /\ hash \in HashFunctions
  /\ \E s \in NewSizes : luaH_new(s[1], s[2])
  /\ stage = "idle" /\ pkey = nil /\ pval = nil
  /\ oasize = 0 /\ oarr = [j \in {} |-> nil] /\ ohsize = 0
  /\ okey = [n \in {} |-> nil] /\ oval = [n \in {} |-> nil] /\ i = 0

Resizing == ShrinkArray \/ EndShrink \/ Reinsert \/ EndResize \/ Retry
Collector == \/ \E n \in Nodes : removeentry(n) \/ ClearNode(n)
             \/ \E j \in 1 .. asize : ClearArray(j)
Next ==
  \/ \E k \in Key, v \in Val \cup {nil} : Set(k, v)
  \/ \E n \in IntKey : luaH_resizearray(n)
  \/ Resizing \/ Collector
Spec == Init /\ [][Next]_vars

-----------------------------------------------------------------------------
(* Properties.                                                             *)

ValN == Val \cup {nil}
KeyN == Key \cup {nil}

\* The types of the variables.
TypeOK ==
  /\ hash \in HashFunctions
  /\ asize \in Nat /\ arr \in [1 .. asize -> ValN]
  /\ hsize \in Nat /\ key \in [Nodes -> KeyN] /\ val \in [Nodes -> ValN]
  /\ dead \in [Nodes -> BOOLEAN] /\ next \in [Nodes -> Nodes \cup {nil}]
  /\ lastfree \in 0 .. hsize
  /\ stage \in {"idle", "shrink", "reinsert", "retry"}
  /\ oasize \in Nat /\ oarr \in [1 .. oasize -> ValN]
  /\ ohsize \in Nat /\ okey \in [0 .. ohsize - 1 -> KeyN] /\ oval \in [0 .. ohsize - 1 -> ValN]
  /\ i \in Int /\ pkey \in KeyN /\ pval \in ValN

\* Every key of the node vector, dead ones included, is reached from its main
\* position along gnext: no insertion, move or rehash loses one (newkey).
Associated == \A n \in Nodes : key[n] # nil => n \in Chain(mainposition(key[n]))

\* A key is live in at most one node, and never both there and in the array
\* part, so that luaH_get and luaH_next agree on its value.
OneNode ==
  \A n \in Nodes : key[n] # nil /\ ~dead[n] =>
    /\ ~InArray(key[n])
    /\ \A m \in Nodes : key[m] = key[n] /\ ~dead[m] => m = n

\* The loops that follow gnext end: no node is reached again from its successor.
Acyclic ==
  \A n \in Nodes : next[n] # nil =>
    \E S \in SUBSET Nodes : next[n] \in S /\ Closed(next, S) /\ n \notin S

\* ltable.c: if a key is not in its main position then the node there holds a
\* key that is (and newkey's search for the previous node finds it).
MainOccupied ==
  \A n \in Nodes : key[n] # nil =>
    LET mp == mainposition(key[n]) IN key[mp] # nil /\ mainposition(key[mp]) = mp

\* lobject.h: any free position is before lastfree.
FreeBefore == \A n \in Nodes : key[n] = nil => n < lastfree

\* Re-insertion always finds room in the vectors that rehash computed: resize
\* never calls rehash again, and the pending assignment does not either.
NoNestedRehash ==
  /\ stage = "shrink" /\ i <= oasize /\ oarr[i] # nil => ~NoRoom(i)
  /\ stage = "reinsert" /\ i >= 0 /\ oval[i] # nil => ~NoRoom(okey[i])
  /\ stage = "retry" => ~NoRoom(pkey)

\* What the chains rest on, for the proofs: free nodes are not linked, no node
\* has two predecessors, dead keys have no value; and what resize takes apart
\* are keys with values.
Unlinked ==
  \A n \in Nodes :
    /\ key[n] = nil => next[n] = nil /\ val[n] = nil /\ ~dead[n] /\ \A m \in Nodes : next[m] # n
    /\ dead[n] => val[n] = nil
    /\ \A m \in Nodes : next[m] = next[n] /\ next[n] # nil => m = n
ResizeInv ==
  /\ \A j \in 1 .. asize : arr[j] # nil => j \in IntKey
  /\ \A j \in 1 .. oasize : oarr[j] # nil => j \in IntKey
  /\ \A n \in 0 .. ohsize - 1 : oval[n] # nil => okey[n] # nil
  /\ stage = "shrink" => i > asize
  /\ stage = "reinsert" => i < ohsize
  /\ stage = "retry" => pkey # nil

\* The inductive invariant of tables: insertion keeps every chain complete,
\* without cycles and with a node in its main position at its head (newkey).
TableInv ==
  /\ TypeOK /\ Associated /\ OneNode /\ Acyclic /\ MainOccupied /\ FreeBefore
  /\ Unlinked /\ ResizeInv
=============================================================================
