--------------------------- MODULE LuaLibs_proofs ---------------------------
(***************************************************************************)
(* The smaller components whose promises are proved: require, references,  *)
(* the string table, files, sorting, string buffers and the finalizers of  *)
(* userdata.  Each has an inductive invariant of its own.                  *)
(***************************************************************************)
EXTENDS LuaRequire, LuaRef, LuaStrings, LuaIO, LuaSort, LuaBuffer, LuaFinalizers,
        PowersOfTwo, SequenceTheorems, WellFoundedInduction, FiniteSetTheorems

-----------------------------------------------------------------------------
(* require.                                                                *)

Entries == {"nil", "false", "true", "sentinel", "table", "value"}

\* A module whose chunk runs has a true entry, so that require does not search
\* for it again: the sentinel, or what it was replaced by.
ReqInv ==
  /\ loaded \in [Names -> Entries] /\ calls \in Seq(Names)
  /\ \A x, y \in 1 .. Len(calls) : calls[x] = calls[y] => x = y
  /\ \A x \in 1 .. Len(calls) : toboolean(loaded[calls[x]])
  /\ returned = <<>> \/ \E n \in Names : returned = <<n, loaded[n]>> /\ loaded[n] # "sentinel"
  /\ \A n \in Names : loaded[n] = "sentinel" => n \in failed \/ \E x \in 1 .. Len(calls) : calls[x] = n

\* The calls that an error leaves are the first ones, and the others failed.
LEMMA ErrorStep ==
  ASSUME NEW most \in 0 .. Len(calls), ReqInv, Error(most), loaded' = loaded
  PROVE  ReqInv'
<1>0. /\ loaded \in [Names -> Entries] /\ calls \in Seq(Names) /\ Len(calls) \in Nat
      /\ \A x, y \in 1 .. Len(calls) : calls[x] = calls[y] => x = y
      /\ \A x \in 1 .. Len(calls) : toboolean(loaded[calls[x]]) /\ calls[x] \in Names
      /\ \A n \in Names : loaded[n] = "sentinel" => n \in failed \/ \E x \in 1 .. Len(calls) : calls[x] = n
  BY DEF ReqInv
<1>1. PICK k \in 0 .. most : /\ calls' = SubSeq(calls, 1, k)
                             /\ failed' = failed \cup {calls[x] : x \in k + 1 .. Len(calls)}
                             /\ returned' = <<>>
  BY DEF Error
<1>2. k \in Nat /\ k <= Len(calls) BY <1>0
<1>3. calls' \in Seq(Names) /\ Len(calls') = k /\ \A x \in 1 .. k : calls'[x] = calls[x] /\ x \in 1 .. Len(calls)
  BY <1>0, <1>1, <1>2
<1>4. ASSUME NEW n \in Names, loaded[n] = "sentinel"
      PROVE  n \in failed' \/ \E x \in 1 .. Len(calls') : calls'[x] = n
  <2>1. CASE n \in failed BY <1>1, <2>1
  <2>2. ASSUME NEW x \in 1 .. Len(calls), calls[x] = n PROVE n \in failed' \/ \E y \in 1 .. k : calls'[y] = n
    <3>1. x \in 1 .. k \/ x \in k + 1 .. Len(calls) BY <1>0, <1>2
    <3> QED BY <3>1, <2>2, <1>1, <1>3
  <2> QED BY <2>1, <2>2, <1>0, <1>3, <1>4
<1> QED BY <1>0, <1>1, <1>3, <1>4 DEF ReqInv

LEMMA ReqInitInv == reqInit => ReqInv
BY DEF reqInit, ReqInv, Entries

LEMMA ReqStepInv == ReqInv /\ [reqNext]_reqVars => ReqInv'
<1> SUFFICES ASSUME ReqInv, [reqNext]_reqVars PROVE ReqInv' OBVIOUS
<1>0. /\ loaded \in [Names -> Entries] /\ calls \in Seq(Names) /\ Len(calls) \in Nat
      /\ \A x, y \in 1 .. Len(calls) : calls[x] = calls[y] => x = y
      /\ \A x \in 1 .. Len(calls) : toboolean(loaded[calls[x]]) /\ calls[x] \in Names
      /\ returned = <<>> \/ \E n \in Names : returned = <<n, loaded[n]>> /\ loaded[n] # "sentinel"
      /\ \A n \in Names : loaded[n] = "sentinel" => n \in failed \/ \E x \in 1 .. Len(calls) : calls[x] = n
  BY DEF ReqInv
<1>l. calls # <<>> => Last(calls) \in Names /\ Len(calls) \in 1 .. Len(calls) /\ Last(calls) = calls[Len(calls)]
  BY <1>0 DEF Last
<1>e. Len(calls) \in 0 .. Len(calls) BY <1>0
<1>1. CASE UNCHANGED reqVars BY <1>1 DEF reqVars, ReqInv
<1>2. ASSUME NEW n \in Names, ll_require(n) PROVE ReqInv'
  <2>1. CASE require_loaded(n)
    <3>1. CASE loaded[n] = "sentinel" BY <2>1, <3>1, <1>e, ErrorStep DEF require_loaded
    <3>2. CASE loaded[n] # "sentinel"
      BY <2>1, <3>2, <1>0 DEF require_loaded, ReqInv
    <3> QED BY <3>1, <3>2
  <2>2. CASE ~toboolean(loaded[n]) /\ require_run(n)
    <3>1. /\ loaded' = [loaded EXCEPT ![n] = "sentinel"] /\ calls' = Append(calls, n)
          /\ returned' = <<>> /\ failed' = failed \ {n}
      BY <2>2 DEF require_run
    <3>2. calls' \in Seq(Names) /\ Len(calls') = Len(calls) + 1 /\ calls'[Len(calls) + 1] = n
          /\ \A x \in 1 .. Len(calls) : calls'[x] = calls[x] /\ x \in 1 .. Len(calls')
      BY <3>1, <1>0
    <3>3. \A x \in 1 .. Len(calls') : x \in 1 .. Len(calls) \/ x = Len(calls) + 1 BY <3>2, <1>0
    <3>4. \A x \in 1 .. Len(calls) : calls[x] # n BY <1>0, <2>2
    <3>5. loaded' \in [Names -> Entries] /\ \A x \in Names : loaded'[x] = IF x = n THEN "sentinel" ELSE loaded[x]
      BY <3>1, <1>0 DEF Entries
    <3>6. \A x, y \in 1 .. Len(calls') : calls'[x] = calls'[y] => x = y BY <3>2, <3>3, <3>4, <1>0
    <3>7. \A x \in 1 .. Len(calls') : toboolean(loaded'[calls'[x]])
      BY <3>2, <3>3, <3>5, <1>0 DEF toboolean
    <3>8. \A x \in Names : loaded'[x] = "sentinel" => x \in failed' \/ \E y \in 1 .. Len(calls') : calls'[y] = x
      <4> SUFFICES ASSUME NEW x \in Names, loaded'[x] = "sentinel"
                   PROVE  x \in failed' \/ \E y \in 1 .. Len(calls') : calls'[y] = x
        OBVIOUS
      <4>1. CASE x = n
        <5>1. Len(calls) + 1 \in 1 .. Len(calls') BY <3>2, <1>0
        <5> QED BY <5>1, <4>1, <3>2
      <4>2. CASE x # n BY <4>2, <3>1, <3>2, <3>5, <1>0
      <4> QED BY <4>1, <4>2
    <3> QED BY <3>1, <3>2, <3>5, <3>6, <3>7, <3>8 DEF ReqInv
  <2>3. CASE Error(Len(calls)) /\ UNCHANGED loaded BY <2>3, <1>e, ErrorStep
  <2> QED BY <1>2, <2>1, <2>2, <2>3 DEF ll_require
<1>3. CASE ReturnChunk
  <2> DEFINE n == Last(calls)
  <2>1. PICK v \in {"nil", "false", "value", loaded[n]} :
             loaded' = [loaded EXCEPT ![n] = Final(n, v)] /\ returned' = <<n, Final(n, v)>>
    BY <1>3 DEF ReturnChunk, require_end
  <2>2. calls # <<>> /\ calls' = Front(calls) /\ failed' = failed BY <1>3 DEF ReturnChunk, require_end, Running
  <2>3. n \in Names /\ Len(calls) >= 1 /\ n = calls[Len(calls)] BY <2>2, <1>l, <1>0
  <2>4. Final(n, v) \in Entries /\ Final(n, v) # "sentinel" BY <2>3, <1>0 DEF Final, Entries
  <2> HIDE DEF n
  <2>5. calls' = SubSeq(calls, 1, Len(calls) - 1) BY <2>2 DEF Front
  <2>6. calls' \in Seq(Names) /\ Len(calls') = Len(calls) - 1
        /\ \A x \in 1 .. Len(calls') : calls'[x] = calls[x] /\ x \in 1 .. Len(calls) /\ x # Len(calls)
    <3> DEFINE m == Len(calls) - 1
    <3>1. m \in Nat /\ m < Len(calls) BY <2>3, <1>0
    <3>2. \A x \in 1 .. m : x \in 1 .. Len(calls) /\ x # Len(calls) BY <3>1, <1>0
    <3>3. calls' = SubSeq(calls, 1, m) BY <2>5
    <3> HIDE DEF m
    <3>4. calls' \in Seq(Names) /\ Len(calls') = m /\ \A x \in 1 .. m : calls'[x] = calls[x]
      BY <3>1, <3>2, <3>3, <1>0
    <3> QED BY <3>2, <3>4 DEF m
  <2>7. \A x \in 1 .. Len(calls') : calls'[x] # n BY <2>3, <2>6, <1>0
  <2>8. loaded' \in [Names -> Entries] /\ \A x \in Names : loaded'[x] = IF x = n THEN Final(n, v) ELSE loaded[x]
    BY <2>1, <2>3, <2>4, <1>0
  <2>9. \A x \in Names : loaded'[x] = "sentinel" => x \in failed' \/ \E y \in 1 .. Len(calls') : calls'[y] = x
    <3> SUFFICES ASSUME NEW x \in Names, loaded'[x] = "sentinel", x \notin failed
                 PROVE  \E y \in 1 .. Len(calls') : calls'[y] = x
      BY <2>2
    <3>1. x # n /\ loaded[x] = "sentinel" BY <2>8, <2>4
    <3>2. PICK y \in 1 .. Len(calls) : calls[y] = x BY <3>1, <1>0
    <3>3. y \in 1 .. Len(calls') BY <3>1, <3>2, <2>3, <2>6, <1>0
    <3> QED BY <3>2, <3>3, <2>6
  <2>10. \A x \in 1 .. Len(calls') : toboolean(loaded'[calls'[x]]) BY <2>6, <2>7, <2>8, <1>0
  <2>11. \A x, y \in 1 .. Len(calls') : calls'[x] = calls'[y] => x = y
    <3> SUFFICES ASSUME NEW x \in 1 .. Len(calls'), NEW y \in 1 .. Len(calls'), calls'[x] = calls'[y] PROVE x = y
      OBVIOUS
    <3>1. x \in 1 .. Len(calls) /\ y \in 1 .. Len(calls) /\ calls[x] = calls[y] BY <2>6
    <3> QED BY <3>1, <1>0
  <2>12. returned' = <<n, loaded'[n]>> /\ loaded'[n] # "sentinel" BY <2>1, <2>3, <2>4, <2>8
  <2> QED BY <2>3, <2>6, <2>8, <2>9, <2>10, <2>11, <2>12 DEF ReqInv
<1>4. CASE ChunkError
  <2>1. Len(calls) - 1 \in 0 .. Len(calls) BY <1>4, <1>l, <1>0 DEF ChunkError, Running
  <2> QED BY <2>1, <1>4, ErrorStep DEF ChunkError
<1>5. CASE Module
  <2> DEFINE n == Last(calls)
  <2>1. n \in Names BY <1>5, <1>l DEF Module, Running
  <2>2. CASE Error(Len(calls)) /\ UNCHANGED loaded BY <2>2, <1>e, ErrorStep
  <2>3. CASE loaded' = [loaded EXCEPT ![n] = "table"] /\ returned' = <<>> /\ UNCHANGED <<calls, failed>>
    BY <2>1, <2>3, <1>0 DEF ReqInv, toboolean, Entries
  <2> QED BY <1>5, <2>2, <2>3 DEF Module, ll_module
<1>6. CASE Assign
  <2>1. ASSUME NEW n \in Names, loaded' = [loaded EXCEPT ![n] = "value"], returned' = <<>>,
               UNCHANGED <<failed, calls>>
        PROVE  ReqInv'
    BY <2>1, <1>0 DEF ReqInv, toboolean, Entries
  <2>2. ASSUME NEW n \in Names \ ToSet(calls), loaded' = [loaded EXCEPT ![n] = "nil"], returned' = <<>>,
               failed' = failed \ {n}, calls' = calls
        PROVE  ReqInv'
    <3>1. \A x \in 1 .. Len(calls) : calls[x] # n BY <1>0, <2>2 DEF ToSet
    <3> QED BY <2>2, <3>1, <1>0 DEF ReqInv, toboolean, Entries
  <2> QED BY <1>6, <2>1, <2>2, <1>l DEF Assign, Running
<1> QED BY <1>1, <1>2, <1>3, <1>4, <1>5, <1>6 DEF reqNext, Require

LEMMA ReqInvRight == ReqInv => RequireRight
<1> SUFFICES ASSUME ReqInv PROVE RequireRight OBVIOUS
<1>0. calls \in Seq(Names) /\ DOMAIN calls = 1 .. Len(calls) BY DEF ReqInv
<1>1. NoLoop BY <1>0 DEF ReqInv, NoLoop, IsInjective
<1>2. ReturnsLoaded BY DEF ReqInv, ReturnsLoaded
<1>3. SentinelMeans BY <1>0 DEF ReqInv, SentinelMeans, ToSet
<1> QED BY <1>1, <1>2, <1>3 DEF RequireRight

\* Modules that require one another, that fail, or that write to package.loaded
\* themselves never run twice at once, and require returns the entry of the
\* module and not the sentinel (ll_require, ll_module).
THEOREM RequireCorrect == reqSpec => []RequireRight
BY ReqInitInv, ReqStepInv, ReqInvRight, PTL DEF reqSpec

-----------------------------------------------------------------------------
(* References.                                                             *)

\* The references up to n are in use or in the free list f, which is linked in
\* the table from FREELIST_REF; no other place of the table is used.
FreeList(n, f) ==
  /\ f \in Seq(1 .. n)
  /\ \A x, y \in 1 .. Len(f) : f[x] = f[y] => x = y
  /\ \A r \in 1 .. n : (\E p \in live : p[1] = r) <=> ~ \E x \in 1 .. Len(f) : f[x] = r
  /\ \A p \in live : p[1] \in 1 .. n
  /\ t[0] = IF f = <<>> THEN nilvalue ELSE f[1]
  /\ \A x \in 1 .. Len(f) : t[f[x]] = IF x = Len(f) THEN nilvalue ELSE f[x + 1]
  /\ \A r \in n + 1 .. MaxRef : t[r] = nilvalue

RefInv ==
  /\ t \in [0 .. MaxRef -> Objects \cup {nilvalue} \cup 1 .. MaxRef]
  /\ live \subseteq (1 .. MaxRef) \X Objects
  /\ \A p \in live : t[p[1]] = p[2]
  /\ \E n \in 0 .. MaxRef, f \in Seq(Nat) : FreeList(n, f)

LEMMA RefInitInv == refInit => RefInv
<1> SUFFICES ASSUME refInit PROVE RefInv OBVIOUS
<1>1. FreeList(0, <<>>) BY RefAssumption DEF refInit, FreeList
<1>2. 0 \in 0 .. MaxRef /\ <<>> \in Seq(Nat) BY RefAssumption
<1> QED BY <1>1, <1>2, RefAssumption DEF refInit, RefInv

\* The head of the list tells whether a reference is free.
LEMMA FreeHead ==
  ASSUME NEW n \in 0 .. MaxRef, NEW f, FreeList(n, f)
  PROVE  /\ f = <<>> <=> tointeger(t[FREELIST_REF]) = 0
         /\ f # <<>> => tointeger(t[FREELIST_REF]) = f[1] /\ f[1] \in 1 .. n /\ t[0] = f[1]
<1>1. f \in Seq(1 .. n) /\ t[0] = IF f = <<>> THEN nilvalue ELSE f[1] BY DEF FreeList
<1>2. f # <<>> => f[1] \in 1 .. n BY <1>1
<1>3. \A x \in 1 .. n : x \in 1 .. MaxRef /\ x # 0 BY RefAssumption
<1> QED BY <1>1, <1>2, <1>3, RefAssumption DEF tointeger, FREELIST_REF

\* luaL_ref takes the head of the list.
LEMMA TakeFree ==
  ASSUME RefInv, NEW n \in 0 .. MaxRef, NEW f, FreeList(n, f), f # <<>>, NEW v \in Objects,
         t' = [t EXCEPT ![FREELIST_REF] = t[f[1]], ![f[1]] = v], live' = live \cup {<<f[1], v>>}
  PROVE  RefInv'
<1> DEFINE r == f[1]
           g == Tail(f)
<1>0. /\ f \in Seq(1 .. n) /\ Len(f) \in Nat /\ Len(f) >= 1 /\ r \in 1 .. n /\ n \in Nat /\ MaxRef \in Nat
      /\ \A x \in 1 .. Len(f) : f[x] \in 1 .. n
  BY RefAssumption DEF FreeList
<1>t. t \in [0 .. MaxRef -> Objects \cup {nilvalue} \cup 1 .. MaxRef] BY DEF RefInv
<1>m. \A x \in 1 .. n : x \in 0 .. MaxRef /\ x \in 1 .. MaxRef /\ x # 0 BY <1>0
<1>1. /\ t' \in [0 .. MaxRef -> Objects \cup {nilvalue} \cup 1 .. MaxRef]
      /\ t'[0] = t[r] /\ t'[r] = v /\ \A x \in 1 .. MaxRef : x # r => t'[x] = t[x]
  BY <1>0, <1>t, <1>m DEF FREELIST_REF
<1>2. /\ g \in Seq(1 .. n) /\ Len(g) = Len(f) - 1
      /\ \A x \in 1 .. Len(g) : g[x] = f[x + 1] /\ x + 1 \in 1 .. Len(f) /\ x + 1 # 1
  <2>1. g \in Seq(1 .. n) /\ Len(g) = Len(f) - 1 /\ \A x \in 1 .. Len(g) : g[x] = f[x + 1]
    BY <1>0, HeadTailProperties
  <2>2. ASSUME NEW x \in 1 .. Len(g) PROVE x + 1 \in 1 .. Len(f) /\ x + 1 # 1 BY <2>1, <1>0
  <2> QED BY <2>1, <2>2
<1>3. 1 \in 1 .. Len(f) BY <1>0
<1>4. ASSUME NEW x \in 1 .. Len(g) PROVE g[x] # r /\ g[x] \in 1 .. n
  <2>1. g[x] = f[x + 1] /\ x + 1 \in 1 .. Len(f) /\ x + 1 # 1 BY <1>2
  <2>2. f[x + 1] = f[1] => x + 1 = 1 BY <2>1, <1>3 DEF FreeList
  <2> QED BY <2>1, <2>2, <1>0
<1>5. \A p \in live : p[1] # r
  <2>1. \E x \in 1 .. Len(f) : f[x] = r BY <1>3
  <2> QED BY <2>1, <1>0 DEF FreeList
<1>6. FreeList(n, g)'
  <2>1. g \in Seq(1 .. n) BY <1>2
  <2>2. \A x, y \in 1 .. Len(g) : g[x] = g[y] => x = y
    <3> SUFFICES ASSUME NEW x \in 1 .. Len(g), NEW y \in 1 .. Len(g), g[x] = g[y] PROVE x = y OBVIOUS
    <3>1. x + 1 = y + 1 BY <1>2 DEF FreeList
    <3> QED BY <3>1
  <2>3. ASSUME NEW x \in 1 .. n PROVE (\E p \in live' : p[1] = x) <=> ~ \E y \in 1 .. Len(g) : g[y] = x
    <3>1. CASE x = r
      <4>1. <<r, v>> \in live' OBVIOUS
      <4>2. <<r, v>>[1] = x BY <3>1
      <4>3. \E p \in live' : p[1] = x BY <4>1, <4>2
      <4> HIDE DEF r, g
      <4> QED BY <4>3, <1>4, <3>1
    <3>2. CASE x # r
      <4>1. (\E p \in live' : p[1] = x) <=> \E p \in live : p[1] = x BY <3>2
      <4>2. ASSUME NEW y \in 1 .. Len(f), f[y] = x PROVE \E z \in 1 .. Len(g) : g[z] = x
        <5>1. y # 1 BY <3>2, <4>2
        <5>2. y - 1 \in 1 .. Len(g) /\ (y - 1) + 1 = y BY <5>1, <1>2, <1>0
        <5> QED BY <5>2, <1>2, <4>2
      <4>3. (\E y \in 1 .. Len(g) : g[y] = x) <=> \E y \in 1 .. Len(f) : f[y] = x BY <4>2, <1>2
      <4> QED BY <4>1, <4>3 DEF FreeList
    <3> QED BY <3>1, <3>2
  <2>4. \A p \in live' : p[1] \in 1 .. n BY <1>0 DEF FreeList
  <2>5. t'[0] = IF g = <<>> THEN nilvalue ELSE g[1]
    <3>1. t'[0] = IF 1 = Len(f) THEN nilvalue ELSE f[1 + 1] BY <1>1, <1>3 DEF FreeList
    <3>2. g = <<>> <=> Len(f) = 1
      <4>1. Len(g) = 0 <=> Len(f) = 1 BY <1>2, <1>0
      <4>2. g \in Seq(1 .. n) BY <1>2
      <4>3. g = <<>> <=> Len(g) = 0 BY <4>2, EmptySeq
      <4> QED BY <4>1, <4>3
    <3>3. g # <<>> => g[1] = f[1 + 1] BY <1>2, <3>2, <1>0
    <3> QED BY <3>1, <3>2, <3>3
  <2>6. ASSUME NEW x \in 1 .. Len(g) PROVE t'[g[x]] = IF x = Len(g) THEN nilvalue ELSE g[x + 1]
    <3>1. t'[g[x]] = t[f[x + 1]] BY <1>1, <1>2, <1>4, <1>m
    <3>2. t[f[x + 1]] = IF x + 1 = Len(f) THEN nilvalue ELSE f[(x + 1) + 1] BY <1>2 DEF FreeList
    <3>3. x = Len(g) <=> x + 1 = Len(f) BY <1>2, <1>0
    <3>4. x # Len(g) => g[x + 1] = f[(x + 1) + 1]
      <4> HIDE DEF g, r
      <4>1. x \in Nat /\ x >= 1 /\ x <= Len(g) /\ Len(g) \in Nat BY <1>2, <1>0
      <4>2. x # Len(g) => x + 1 \in 1 .. Len(g) BY <4>1
      <4> QED BY <4>2, <1>2
    <3> QED BY <3>1, <3>2, <3>3, <3>4
  <2>7. \A x \in n + 1 .. MaxRef : t'[x] = nilvalue
    <3>1. \A x \in n + 1 .. MaxRef : x \in 1 .. MaxRef /\ x # r BY <1>0
    <3> QED BY <3>1, <1>1 DEF FreeList
  <2> HIDE DEF r, g
  <2> QED BY <2>1, <2>2, <2>3, <2>4, <2>5, <2>6, <2>7 DEF FreeList
<1>7. g \in Seq(Nat) BY <1>2, <1>0
<1>8. live' \subseteq (1 .. MaxRef) \X Objects BY <1>0, <1>m DEF RefInv
<1>9. \A p \in live' : t'[p[1]] = p[2]
  <2>1. \A p \in live : p[1] \in 1 .. MaxRef /\ t[p[1]] = p[2] BY DEF RefInv
  <2> QED BY <2>1, <1>1, <1>5
<1> HIDE DEF r, g
<1> QED BY <1>1, <1>6, <1>7, <1>8, <1>9 DEF RefInv

\* With no free reference the only border is the last one in use.
LEMMA GrowRefs ==
  ASSUME RefInv, NEW n \in 0 .. MaxRef, FreeList(n, <<>>), NEW v \in Objects, NewRef(v)
  PROVE  RefInv'
<1>0. n \in Nat /\ MaxRef \in Nat /\ n <= MaxRef BY RefAssumption
<1>t. t \in [0 .. MaxRef -> Objects \cup {nilvalue} \cup 1 .. MaxRef] BY DEF RefInv
<1>1. PICK b \in Borders \ {MaxRef} : t' = [t EXCEPT ![b + 1] = v] /\ live' = live \cup {<<b + 1, v>>}
  BY DEF NewRef, Refer
<1>2. b \in 0 .. MaxRef /\ b # MaxRef /\ (b = 0 \/ t[b] # nilvalue) /\ t[b + 1] = nilvalue
  BY <1>1 DEF Borders
<1>3. \A r \in 1 .. n : t[r] # nilvalue
  <2> SUFFICES ASSUME NEW r \in 1 .. n PROVE t[r] # nilvalue OBVIOUS
  <2>1. ~ \E x \in 1 .. Len(<<>>) : <<>>[x] = r OBVIOUS
  <2>2. PICK p \in live : p[1] = r BY <2>1 DEF FreeList
  <2>3. t[r] = p[2] /\ p[2] \in Objects BY <2>2 DEF RefInv
  <2> QED BY <2>3, RefAssumption
<1>4. \A r \in n + 1 .. MaxRef : t[r] = nilvalue BY DEF FreeList
<1>5. b = n
  <2>1. CASE b < n
    <3>1. b + 1 \in 1 .. n BY <2>1, <1>0, <1>2
    <3> QED BY <3>1, <1>2, <1>3
  <2>2. CASE b > n
    <3>1. b \in n + 1 .. MaxRef /\ b # 0 BY <2>2, <1>0, <1>2
    <3> QED BY <3>1, <1>2, <1>4
  <2> QED BY <2>1, <2>2, <1>0, <1>2
<1>6. n + 1 \in 1 .. MaxRef /\ n + 1 \in 0 .. MaxRef BY <1>0, <1>2, <1>5
<1>7. /\ t' \in [0 .. MaxRef -> Objects \cup {nilvalue} \cup 1 .. MaxRef]
      /\ t'[n + 1] = v /\ \A x \in 0 .. MaxRef : x # n + 1 => t'[x] = t[x]
  BY <1>1, <1>5, <1>6, <1>t
<1>8. \A p \in live : p[1] \in 1 .. n /\ p[1] \in 0 .. MaxRef /\ p[1] # n + 1 /\ t[p[1]] = p[2]
  BY <1>0 DEF FreeList, RefInv
<1>9. FreeList(n + 1, <<>>)'
  <2>1. ASSUME NEW x \in 1 .. n + 1 PROVE \E p \in live' : p[1] = x
    <3>1. CASE x = n + 1
      <4>1. <<n + 1, v>> \in live' /\ <<n + 1, v>>[1] = x BY <3>1, <1>1, <1>5
      <4> QED BY <4>1
    <3>2. CASE x # n + 1
      <4>1. x \in 1 .. n BY <3>2, <1>0
      <4>2. ~ \E y \in 1 .. Len(<<>>) : <<>>[y] = x OBVIOUS
      <4>3. PICK p \in live : p[1] = x BY <4>1, <4>2 DEF FreeList
      <4> QED BY <4>3, <1>1
    <3> QED BY <3>1, <3>2
  <2>2. \A p \in live' : p[1] \in 1 .. n + 1 BY <1>1, <1>5, <1>8, <1>0
  <2>3. t'[0] = nilvalue
    <3>1. t[0] = nilvalue /\ 0 \in 0 .. MaxRef /\ 0 # n + 1 BY <1>0 DEF FreeList
    <3> QED BY <3>1, <1>7
  <2>4. \A x \in (n + 1) + 1 .. MaxRef : t'[x] = nilvalue
    <3>1. \A x \in (n + 1) + 1 .. MaxRef : x \in n + 1 .. MaxRef /\ x # n + 1 /\ x \in 0 .. MaxRef BY <1>0
    <3> QED BY <3>1, <1>4, <1>7
  <2>5. <<>> \in Seq(1 .. n + 1) /\ 1 .. Len(<<>>) = {} OBVIOUS
  <2> QED BY <2>1, <2>2, <2>3, <2>4, <2>5 DEF FreeList
<1>10. live' \subseteq (1 .. MaxRef) \X Objects BY <1>1, <1>5, <1>6 DEF RefInv
<1>11. \A p \in live' : t'[p[1]] = p[2] BY <1>1, <1>5, <1>7, <1>8
<1>12. <<>> \in Seq(Nat) OBVIOUS
<1> QED BY <1>6, <1>7, <1>9, <1>10, <1>11, <1>12 DEF RefInv

\* luaL_unref puts the reference at the head of the list.
LEMMA GiveBack ==
  ASSUME RefInv, NEW n \in 0 .. MaxRef, NEW f, FreeList(n, f), NEW q \in live,
         t' = [t EXCEPT ![q[1]] = t[FREELIST_REF], ![FREELIST_REF] = q[1]], live' = live \ {q}
  PROVE  RefInv'
<1> DEFINE r == q[1]
           g == <<r>> \o f
<1>0. /\ f \in Seq(1 .. n) /\ Len(f) \in Nat /\ n \in Nat /\ MaxRef \in Nat /\ r \in 1 .. n /\ n <= MaxRef
      /\ \A x \in 1 .. Len(f) : f[x] \in 1 .. n
  BY RefAssumption DEF FreeList
<1>t. t \in [0 .. MaxRef -> Objects \cup {nilvalue} \cup 1 .. MaxRef] BY DEF RefInv
<1>m. \A x \in 1 .. n : x \in 0 .. MaxRef /\ x \in 1 .. MaxRef /\ x # 0 BY <1>0
<1>v. t[0] = IF f = <<>> THEN nilvalue ELSE f[1] BY DEF FreeList
<1>w. f = <<>> <=> Len(f) = 0 BY <1>0
<1>x. t[0] \in Objects \cup {nilvalue} \cup 1 .. MaxRef
  <2>1. 0 \in 0 .. MaxRef BY <1>0
  <2> QED BY <2>1, <1>t
<1>1. /\ t' \in [0 .. MaxRef -> Objects \cup {nilvalue} \cup 1 .. MaxRef]
      /\ t'[0] = r /\ t'[r] = t[0] /\ \A x \in 1 .. MaxRef : x # r => t'[x] = t[x]
  <2>1. t' = [t EXCEPT ![r] = t[0], ![0] = r] BY DEF FREELIST_REF
  <2>2. r \in 0 .. MaxRef /\ r \in 1 .. MaxRef /\ r # 0 /\ 0 \in 0 .. MaxRef BY <1>0, <1>m
  <2> HIDE DEF r
  <2>3. t' \in [0 .. MaxRef -> Objects \cup {nilvalue} \cup 1 .. MaxRef] BY <2>1, <2>2, <1>t, <1>x
  <2>4. t'[0] = r /\ t'[r] = t[0] BY <2>1, <2>2, <1>t
  <2>5. \A x \in 1 .. MaxRef : x \in 0 .. MaxRef /\ x # 0 BY <1>0
  <2>6. \A x \in 1 .. MaxRef : x # r => t'[x] = t[x] BY <2>1, <2>5, <1>t
  <2> QED BY <2>3, <2>4, <2>6
<1>2. /\ g \in Seq(1 .. n) /\ Len(g) = Len(f) + 1 /\ g[1] = r
      /\ \A x \in 1 .. Len(g) : x = 1 \/ (x - 1 \in 1 .. Len(f) /\ g[x] = f[x - 1])
  <2>1. <<r>> \in Seq(1 .. n) /\ Len(<<r>>) = 1 /\ <<r>>[1] = r BY <1>0
  <2> HIDE DEF r
  <2>2. g \in Seq(1 .. n) /\ Len(g) = Len(<<r>>) + Len(f)
        /\ \A x \in 1 .. Len(<<r>>) + Len(f) : g[x] = IF x <= Len(<<r>>) THEN <<r>>[x] ELSE f[x - Len(<<r>>)]
    BY <2>1, <1>0, ConcatProperties
  <2> HIDE DEF g
  <2>3. Len(g) = Len(f) + 1 /\ \A x \in 1 .. Len(f) + 1 : g[x] = IF x <= 1 THEN <<r>>[x] ELSE f[x - 1]
    BY <2>1, <2>2, <1>0
  <2>4. 1 \in 1 .. Len(f) + 1 BY <1>0
  <2>5. g[1] = r BY <2>1, <2>3, <2>4
  <2>6. \A x \in 1 .. Len(f) + 1 : x = 1 \/ (x - 1 \in 1 .. Len(f) /\ ~(x <= 1)) BY <1>0
  <2> QED BY <2>2, <2>3, <2>5, <2>6
<1>3. \A x \in 1 .. Len(f) : f[x] # r BY <1>0 DEF FreeList
<1>4. \A p \in live' : p[1] # r
  <2>1. \A p \in live : p \in (1 .. MaxRef) \X Objects /\ t[p[1]] = p[2] BY DEF RefInv
  <2>2. \A p \in live : p[1] = r => p = q BY <2>1
  <2> QED BY <2>2
<1>5. FreeList(n, g)'
  <2> HIDE DEF g, r
  <2>1. g \in Seq(1 .. n) BY <1>2
  <2>2. \A x, y \in 1 .. Len(g) : g[x] = g[y] => x = y
    <3> SUFFICES ASSUME NEW x \in 1 .. Len(g), NEW y \in 1 .. Len(g), g[x] = g[y] PROVE x = y OBVIOUS
    <3>1. CASE x = 1 /\ y = 1 BY <3>1
    <3>2. CASE x # 1 /\ y # 1
      <4>1. f[x - 1] = f[y - 1] /\ x - 1 \in 1 .. Len(f) /\ y - 1 \in 1 .. Len(f) BY <3>2, <1>2
      <4>2. x - 1 = y - 1 BY <4>1 DEF FreeList
      <4> QED BY <4>2
    <3>3. CASE x = 1 /\ y # 1 BY <3>3, <1>2, <1>3
    <3>4. CASE x # 1 /\ y = 1 BY <3>4, <1>2, <1>3
    <3> QED BY <3>1, <3>2, <3>3, <3>4
  <2>3. ASSUME NEW x \in 1 .. n PROVE (\E p \in live' : p[1] = x) <=> ~ \E y \in 1 .. Len(g) : g[y] = x
    <3>1. CASE x = r
      <4>1. 1 \in 1 .. Len(g) /\ g[1] = x BY <3>1, <1>2, <1>0
      <4> QED BY <4>1, <1>4, <3>1
    <3>2. CASE x # r
      <4>1. (\E p \in live' : p[1] = x) <=> \E p \in live : p[1] = x BY <3>2 DEF r
      <4>2. ASSUME NEW y \in 1 .. Len(f), f[y] = x PROVE \E z \in 1 .. Len(g) : g[z] = x
        <5>0. Len(g) = Len(f) + 1 /\ Len(f) \in Nat BY <1>2, <1>0
        <5>1. y + 1 \in 1 .. Len(g) /\ y + 1 # 1 /\ (y + 1) - 1 = y BY <5>0
        <5> QED BY <5>1, <1>2, <4>2
      <4>3. ASSUME NEW z \in 1 .. Len(g), g[z] = x PROVE \E y \in 1 .. Len(f) : f[y] = x
        BY <4>3, <3>2, <1>2
      <4> QED BY <4>1, <4>2, <4>3 DEF FreeList
    <3> QED BY <3>1, <3>2
  <2>4. \A p \in live' : p[1] \in 1 .. n BY DEF FreeList
  <2>5. g # <<>> /\ t'[0] = g[1]
    <3>1. Len(g) # 0 BY <1>2, <1>0
    <3> QED BY <3>1, <1>1, <1>2
  <2>6. ASSUME NEW x \in 1 .. Len(g) PROVE t'[g[x]] = IF x = Len(g) THEN nilvalue ELSE g[x + 1]
    <3>1. CASE x = 1
      <4>1. t'[g[x]] = t[0] BY <3>1, <1>1, <1>2
      <4>2. x = Len(g) <=> f = <<>> BY <3>1, <1>2, <1>0, <1>w
      <4>3. x # Len(g) => g[x + 1] = f[1]
        <5>1. x # Len(g) => x + 1 \in 1 .. Len(g) /\ x + 1 # 1 /\ (x + 1) - 1 = 1 BY <3>1, <1>2, <1>0
        <5> QED BY <5>1, <1>2
      <4> QED BY <4>1, <4>2, <4>3, <1>v
    <3>2. CASE x # 1
      <4>1. x - 1 \in 1 .. Len(f) /\ g[x] = f[x - 1] BY <3>2, <1>2
      <4>2. t'[g[x]] = t[f[x - 1]] BY <4>1, <1>0, <1>1, <1>3, <1>m
      <4>3. t[f[x - 1]] = IF x - 1 = Len(f) THEN nilvalue ELSE f[(x - 1) + 1] BY <4>1 DEF FreeList
      <4>4. x = Len(g) <=> x - 1 = Len(f) BY <1>2, <1>0
      <4>5. x # Len(g) => g[x + 1] = f[(x - 1) + 1]
        <5>1. x \in Nat /\ x >= 1 /\ x <= Len(g) /\ Len(g) \in Nat BY <1>2, <1>0
        <5>2. x # Len(g) => x + 1 \in 1 .. Len(g) /\ x + 1 # 1 BY <5>1
        <5>3. (x + 1) - 1 = (x - 1) + 1 BY <5>1
        <5> QED BY <5>2, <5>3, <1>2
      <4> QED BY <4>2, <4>3, <4>4, <4>5
    <3> QED BY <3>1, <3>2
  <2>7. \A x \in n + 1 .. MaxRef : t'[x] = nilvalue
    <3>1. \A x \in n + 1 .. MaxRef : x \in 1 .. MaxRef /\ x # r BY <1>0
    <3> QED BY <3>1, <1>1 DEF FreeList
  <2> QED BY <2>1, <2>2, <2>3, <2>4, <2>5, <2>6, <2>7 DEF FreeList
<1>7. g \in Seq(Nat) BY <1>2, <1>0
<1>8. live' \subseteq (1 .. MaxRef) \X Objects BY DEF RefInv
<1>9. \A p \in live' : t'[p[1]] = p[2]
  <2>1. \A p \in live : p[1] \in 1 .. MaxRef /\ t[p[1]] = p[2] BY DEF RefInv
  <2> QED BY <2>1, <1>1, <1>4
<1> HIDE DEF r, g
<1> QED BY <1>1, <1>5, <1>7, <1>8, <1>9 DEF RefInv

LEMMA RefStepInv == RefInv /\ [refNext]_refVars => RefInv'
<1> SUFFICES ASSUME RefInv, [refNext]_refVars PROVE RefInv' OBVIOUS
<1>0. PICK n \in 0 .. MaxRef, f \in Seq(Nat) : FreeList(n, f) BY DEF RefInv
<1>1. CASE UNCHANGED refVars
  <2>1. FreeList(n, f)' BY <1>0, <1>1 DEF refVars, FreeList
  <2> QED BY <2>1, <1>1 DEF refVars, RefInv
<1>2. ASSUME NEW v \in Objects \cup {nilvalue}, luaL_ref(v) PROVE RefInv'
  <2>1. CASE v = nilvalue BY <2>1, <1>1, <1>2 DEF luaL_ref
  <2>2. CASE v # nilvalue /\ f = <<>>
    <3>1. tointeger(t[FREELIST_REF]) = 0 BY <1>0, <2>2, FreeHead
    <3>2. NewRef(v) /\ v \in Objects BY <1>2, <2>2, <3>1 DEF luaL_ref
    <3> QED BY <3>2, <2>2, <1>0, GrowRefs
  <2>3. CASE v # nilvalue /\ f # <<>>
    <3>1. tointeger(t[FREELIST_REF]) = f[1] /\ f[1] # 0 BY <1>0, <2>3, FreeHead, RefAssumption
    <3>2. t' = [t EXCEPT ![FREELIST_REF] = t[f[1]], ![f[1]] = v] /\ live' = live \cup {<<f[1], v>>}
          /\ v \in Objects
      BY <1>2, <2>3, <3>1 DEF luaL_ref, Refer
    <3> QED BY <3>2, <2>3, <1>0, TakeFree
  <2> QED BY <2>1, <2>2, <2>3
<1>3. CASE Unref
  <2>1. ASSUME NEW q \in live, luaL_unref(q[1]), live' = live \ {q} PROVE RefInv'
    <3>1. q[1] >= 0 BY RefAssumption DEF RefInv
    <3> QED BY <3>1, <2>1, <1>0, GiveBack DEF luaL_unref
  <2>2. ASSUME NEW r \in {LUA_REFNIL, LUA_NOREF}, luaL_unref(r), live' = live PROVE RefInv'
    <3>1. ~(r >= 0) BY DEF LUA_REFNIL, LUA_NOREF
    <3> QED BY <3>1, <2>2, <1>1 DEF luaL_unref, refVars
  <2> QED BY <2>1, <2>2, <1>3 DEF Unref
<1> QED BY <1>1, <1>2, <1>3 DEF refNext

LEMMA RefInvRight == RefInv => RefsRight
<1> SUFFICES ASSUME RefInv PROVE RefsRight OBVIOUS
<1>1. RefsDistinct BY RefAssumption DEF RefInv, RefsDistinct, FREELIST_REF
<1>2. RefsReused
  <2> SUFFICES ASSUME tointeger(t[FREELIST_REF]) = 0
               PROVE  \E n \in 0 .. MaxRef : {p[1] : p \in live} = 1 .. n
    BY DEF RefsReused
  <2>1. PICK n \in 0 .. MaxRef, f \in Seq(Nat) : FreeList(n, f) BY DEF RefInv
  <2>2. f = <<>> BY <2>1, FreeHead
  <2>3. \A r \in 1 .. n : \E p \in live : p[1] = r
    <3>1. 1 .. Len(f) = {} BY <2>2
    <3> QED BY <3>1, <2>1 DEF FreeList
  <2>4. \A p \in live : p[1] \in 1 .. n BY <2>1 DEF FreeList
  <2>5. {p[1] : p \in live} = 1 .. n BY <2>3, <2>4
  <2> QED BY <2>5
<1> QED BY <1>1, <1>2 DEF RefsRight

\* A reference in use is never handed out again and one that was freed is, for
\* any border of the table that lua_objlen finds (luaL_ref, luaL_unref).
THEOREM RefsCorrect == refSpec => []RefsRight
BY RefInitInv, RefStepInv, RefInvRight, PTL DEF refSpec

-----------------------------------------------------------------------------
(* The string table.                                                       *)

TString == [c : Contents, b : Nat, color : {0, 1, Black}]
Distinct(S) == \A s, r \in S : s.c = r.c => s = r

\* What the program refers to is not dead, and the buckets that the sweep has
\* passed hold only strings of the current white.
StrInv ==
  /\ strs \in SUBSET TString /\ IsFiniteSet(strs) /\ nuse = Cardinality(strs) /\ Distinct(strs)
  /\ size \in Nat \ {0} /\ currentwhite \in {0, 1}
  /\ gcstate \in {"pause", "sweepstring", "sweep"}
  /\ \A s \in strs : s.b = lmod(HashOf(s.c), size)
  /\ \A c \in refs : \E s \in strs : s.c = c /\ ~isdead(s)
  /\ gcstate = "sweepstring" =>
       sweepstrgc \in 0 .. size - 1 /\ \A s \in strs : s.b < sweepstrgc => s.color = currentwhite
  /\ gcstate # "sweepstring" => \A s \in strs : s.color = currentwhite

\* The strings stay as many and distinct when each gets another color or bucket.
LEMMA SameStrings ==
  ASSUME NEW S \in SUBSET TString, IsFiniteSet(S), Distinct(S),
         NEW f \in [S -> TString], \A s \in S : f[s].c = s.c,
         NEW T, T = {f[s] : s \in S}
  PROVE  T \in SUBSET TString /\ IsFiniteSet(T) /\ Cardinality(T) = Cardinality(S) /\ Distinct(T)
<1>1. f \in Surjection(S, T) BY DEF Surjection
<1>2. f \in Injection(S, T)
  <2>1. \A s, r \in S : f[s] = f[r] => s = r
    <3> SUFFICES ASSUME NEW s \in S, NEW r \in S, f[s] = f[r] PROVE s = r OBVIOUS
    <3>1. s.c = r.c OBVIOUS
    <3> QED BY <3>1 DEF Distinct
  <2>2. f \in [S -> T] /\ DOMAIN f = S OBVIOUS
  <2> QED BY <2>1, <2>2 DEF Injection, IsInjective
<1>3. IsFiniteSet(T) /\ Cardinality(T) = Cardinality(S) BY <1>1, <1>2, FS_Surjection
<1>4. T \in SUBSET TString OBVIOUS
<1>5. Distinct(T)
  <2> SUFFICES ASSUME NEW s \in S, NEW r \in S, f[s].c = f[r].c PROVE f[s] = f[r] BY DEF Distinct
  <2>1. s.c = r.c OBVIOUS
  <2> QED BY <2>1 DEF Distinct
<1> QED BY <1>3, <1>4, <1>5

LEMMA Bucket ==
  ASSUME NEW c \in Contents, NEW n \in Nat \ {0}
  PROVE  lmod(HashOf(c), n) \in 0 .. n - 1
<1>1. HashOf(c) \in Nat BY StringsAssumption
<1>2. \A m \in Nat : m % n \in 0 .. n - 1 OBVIOUS
<1> QED BY <1>1, <1>2 DEF lmod

\* luaS_resize, of a set of strings S.
LEMMA ResizeRight ==
  ASSUME NEW S \in SUBSET TString, IsFiniteSet(S), Distinct(S), NEW n \in Nat \ {0}
  PROVE  /\ Rehashed(S, n) \in SUBSET TString /\ IsFiniteSet(Rehashed(S, n))
         /\ Cardinality(Rehashed(S, n)) = Cardinality(S) /\ Distinct(Rehashed(S, n))
         /\ \A s \in Rehashed(S, n) : s.b = lmod(HashOf(s.c), n)
         /\ \A s \in Rehashed(S, n) : \E r \in S : r.c = s.c /\ r.color = s.color
         /\ \A r \in S : \E s \in Rehashed(S, n) : r.c = s.c /\ r.color = s.color
<1> DEFINE f == [s \in S |-> [s EXCEPT !.b = lmod(HashOf(s.c), n)]]
<1>1. ASSUME NEW s \in S
      PROVE  f[s] \in TString /\ f[s].c = s.c /\ f[s].color = s.color /\ f[s].b = lmod(HashOf(s.c), n)
  <2>1. s \in TString /\ s.c \in Contents BY DEF TString
  <2>2. lmod(HashOf(s.c), n) \in Nat BY <2>1, Bucket
  <2> QED BY <2>1, <2>2 DEF TString
<1>2. Rehashed(S, n) = {f[s] : s \in S} BY DEF Rehashed
<1>3. f \in [S -> TString] BY <1>1
<1> HIDE DEF f
<1>4. /\ Rehashed(S, n) \in SUBSET TString /\ IsFiniteSet(Rehashed(S, n))
      /\ Cardinality(Rehashed(S, n)) = Cardinality(S) /\ Distinct(Rehashed(S, n))
  BY <1>1, <1>2, <1>3, SameStrings
<1> QED BY <1>1, <1>2, <1>4

LEMMA StrInitInv == strInit => StrInv
BY StringsAssumption, FS_EmptySet DEF strInit, StrInv, Distinct

\* A string that is not found is not in the table, in any bucket.
LEMMA NewString ==
  ASSUME StrInv, NEW c \in Contents, Lookup(c) = {}, NEW S,
         S = strs \cup {[c |-> c, b |-> lmod(HashOf(c), size), color |-> currentwhite]}
  PROVE  /\ S \in SUBSET TString /\ IsFiniteSet(S) /\ Cardinality(S) = Cardinality(strs) + 1 /\ Distinct(S)
         /\ \A s \in S : s.b = lmod(HashOf(s.c), size)
         /\ \A s \in S : s \in strs \/ s.color = currentwhite
         /\ \E s \in S : s.c = c /\ ~isdead(s)
<1> DEFINE s0 == [c |-> c, b |-> lmod(HashOf(c), size), color |-> currentwhite]
<1>0. strs \in SUBSET TString /\ IsFiniteSet(strs) /\ Distinct(strs) /\ size \in Nat \ {0} /\ currentwhite \in {0, 1}
      /\ \A s \in strs : s.b = lmod(HashOf(s.c), size)
  BY DEF StrInv
<1>1. \A s \in strs : s.c # c BY <1>0 DEF Lookup
<1>2. s0 \in TString /\ s0.c = c /\ s0.color = currentwhite /\ s0.b = lmod(HashOf(c), size)
  BY <1>0, Bucket DEF TString, Black
<1>3. ~isdead(s0) BY <1>0, <1>2 DEF isdead, otherwhite
<1> HIDE DEF s0
<1>4. S = strs \cup {s0} BY DEF s0
<1>5. s0 \notin strs BY <1>1, <1>2
<1>6. IsFiniteSet(S) /\ Cardinality(S) = Cardinality(strs) + 1
  <2>1. IsFiniteSet(strs) BY <1>0
  <2> QED BY <2>1, <1>4, <1>5, FS_AddElement
<1>7. Distinct(S) BY <1>0, <1>1, <1>2, <1>4 DEF Distinct
<1> QED BY <1>0, <1>2, <1>3, <1>4, <1>6, <1>7

\* The sweep of one bucket.
LEMMA SweepRight ==
  ASSUME StrInv, gcstate = "sweepstring", SweepBucket(sweepstrgc), UNCHANGED <<size, currentwhite, refs>>
  PROVE  /\ strs' \in SUBSET TString /\ IsFiniteSet(strs') /\ nuse' = Cardinality(strs') /\ Distinct(strs')
         /\ \A s \in strs' : s.b = lmod(HashOf(s.c), size)
         /\ \A c \in refs : \E s \in strs' : s.c = c /\ ~isdead(s)
         /\ \A s \in strs' : s.b < sweepstrgc + 1 => s.color = currentwhite
<1> DEFINE gone == {s \in strs : s.b = sweepstrgc /\ isdead(s)}
           S == strs \ gone
           f == [s \in S |-> IF s.b = sweepstrgc THEN [s EXCEPT !.color = currentwhite] ELSE s]
<1>0. /\ strs \in SUBSET TString /\ IsFiniteSet(strs) /\ nuse = Cardinality(strs) /\ Distinct(strs)
      /\ size \in Nat \ {0} /\ currentwhite \in {0, 1} /\ sweepstrgc \in 0 .. size - 1
      /\ \A s \in strs : s.b = lmod(HashOf(s.c), size)
      /\ \A c \in refs : \E s \in strs : s.c = c /\ ~isdead(s)
      /\ \A s \in strs : s.b < sweepstrgc => s.color = currentwhite
  BY DEF StrInv
<1>1. strs' = {f[s] : s \in S} /\ nuse' = nuse - Cardinality(gone) BY DEF SweepBucket
<1>2. ASSUME NEW s \in S
      PROVE  /\ f[s] \in TString /\ f[s].c = s.c /\ f[s].b = s.b
             /\ f[s].color = IF s.b = sweepstrgc THEN currentwhite ELSE s.color
  BY <1>0 DEF TString
<1>3. f \in [S -> TString] BY <1>2
<1>4. gone \in SUBSET strs /\ IsFiniteSet(gone) BY <1>0, FS_Subset
<1>5. S \in SUBSET TString /\ Distinct(S) /\ S \in SUBSET strs BY <1>0 DEF Distinct
<1>6. IsFiniteSet(S) /\ Cardinality(S) = Cardinality(strs) - Cardinality(gone)
  <2> HIDE DEF gone
  <2>1. strs \cap gone = gone BY <1>4
  <2> QED BY <1>0, <2>1, FS_Difference
<1>7. \A c \in refs : \E s \in S : s.c = c /\ ~isdead(s) BY <1>0
<1> HIDE DEF f, S, gone
<1>8. strs' \in SUBSET TString /\ IsFiniteSet(strs') /\ Cardinality(strs') = Cardinality(S) /\ Distinct(strs')
  BY <1>1, <1>2, <1>3, <1>5, <1>6, SameStrings
<1>9. \A s \in strs' : s.b = lmod(HashOf(s.c), size) BY <1>0, <1>1, <1>2, <1>5
<1>10. \A s \in strs' : s.b < sweepstrgc + 1 => s.color = currentwhite
  <2> SUFFICES ASSUME NEW s \in S, f[s].b < sweepstrgc + 1 PROVE f[s].color = currentwhite BY <1>1
  <2>1. s \in strs /\ s.b \in Nat /\ sweepstrgc \in Nat BY <1>0, <1>5 DEF TString
  <2>2. s.b < sweepstrgc \/ s.b = sweepstrgc BY <1>2, <2>1
  <2> QED BY <2>1, <2>2, <1>0, <1>2
<1>11. \A c \in refs : \E s \in strs' : s.c = c /\ ~isdead(s)
  <2> SUFFICES ASSUME NEW c \in refs PROVE \E s \in strs' : s.c = c /\ ~isdead(s) OBVIOUS
  <2>1. PICK s \in S : s.c = c /\ ~isdead(s) BY <1>7
  <2>2. f[s] \in strs' /\ f[s].c = c /\ ~isdead(f[s]) BY <1>0, <1>1, <1>2, <2>1 DEF isdead, otherwhite
  <2> QED BY <2>2
<1> QED BY <1>0, <1>1, <1>6, <1>8, <1>9, <1>10, <1>11

LEMMA StrStepInv == StrInv /\ [strNext]_strVars => StrInv'
<1> SUFFICES ASSUME StrInv, [strNext]_strVars PROVE StrInv' OBVIOUS
<1>0. /\ strs \in SUBSET TString /\ IsFiniteSet(strs) /\ nuse = Cardinality(strs) /\ Distinct(strs)
      /\ size \in Nat \ {0} /\ currentwhite \in {0, 1} /\ gcstate \in {"pause", "sweepstring", "sweep"}
      /\ \A s \in strs : s.b = lmod(HashOf(s.c), size)
      /\ \A c \in refs : \E s \in strs : s.c = c /\ ~isdead(s)
      /\ gcstate = "sweepstring" =>
           sweepstrgc \in 0 .. size - 1 /\ \A s \in strs : s.b < sweepstrgc => s.color = currentwhite
      /\ gcstate # "sweepstring" => \A s \in strs : s.color = currentwhite
  BY DEF StrInv
<1>u. ASSUME currentwhite' = currentwhite, NEW s PROVE isdead(s)' <=> isdead(s)
  BY <1>u DEF isdead, otherwhite
<1>1. CASE UNCHANGED strVars BY <1>1 DEF strVars, StrInv, isdead, otherwhite
<1>2. ASSUME NEW c \in Contents, FindString(c), UNCHANGED <<gcstate, sweepstrgc, currentwhite>> PROVE StrInv'
  <2> DEFINE f == [s \in strs |-> IF s \in Lookup(c) /\ isdead(s) THEN [s EXCEPT !.color = currentwhite] ELSE s]
  <2>1. strs' = {f[s] : s \in strs} /\ refs' = refs \cup {c} /\ UNCHANGED <<size, nuse>> /\ Lookup(c) # {}
    BY <1>2 DEF FindString
  <2>2. ASSUME NEW s \in strs
        PROVE  /\ f[s] \in TString /\ f[s].c = s.c /\ f[s].b = s.b
               /\ f[s].color = IF s \in Lookup(c) /\ isdead(s) THEN currentwhite ELSE s.color
    BY <1>0 DEF TString
  <2>3. f \in [strs -> TString] BY <2>2
  <2> HIDE DEF f
  <2>4. strs' \in SUBSET TString /\ IsFiniteSet(strs') /\ Cardinality(strs') = Cardinality(strs) /\ Distinct(strs')
    BY <1>0, <2>1, <2>2, <2>3, SameStrings
  <2>5. ASSUME NEW d \in refs' PROVE \E s \in strs' : s.c = d /\ ~isdead(s)
    <3>1. CASE d \in refs
      <4>1. PICK s \in strs : s.c = d /\ ~isdead(s) BY <3>1, <1>0
      <4>2. f[s] \in strs' /\ f[s].c = d /\ ~isdead(f[s]) BY <2>1, <2>2, <4>1 DEF isdead
      <4> QED BY <4>2
    <3>2. CASE d = c
      <4>1. PICK s \in strs : s \in Lookup(c) /\ s.c = c BY <2>1 DEF Lookup
      <4>2. f[s] \in strs' /\ f[s].c = d /\ ~isdead(f[s])
        BY <1>0, <2>1, <2>2, <4>1, <3>2 DEF isdead, otherwhite
      <4> QED BY <4>2
    <3> QED BY <3>1, <3>2, <2>1
  <2>6. \A s \in strs' : s.b = lmod(HashOf(s.c), size) BY <1>0, <2>1, <2>2
  <2>7. \A s \in strs : s.color = currentwhite => f[s].color = currentwhite BY <2>2
  <2>8. \A s \in strs' : \E r \in strs : s = f[r] /\ s.b = r.b BY <2>1, <2>2
  <2>9. gcstate = "sweepstring" => \A s \in strs' : s.b < sweepstrgc => s.color = currentwhite
    BY <1>0, <2>7, <2>8
  <2>10. gcstate # "sweepstring" => \A s \in strs' : s.color = currentwhite BY <1>0, <2>7, <2>8
  <2>11. \A d \in refs' : \E s \in strs' : s.c = d /\ ~isdead(s)' BY <2>5, <1>2, <1>u
  <2> QED BY <1>0, <1>2, <2>1, <2>4, <2>6, <2>9, <2>10, <2>11 DEF StrInv
<1>3. ASSUME NEW c \in Contents, newlstr(c), UNCHANGED <<gcstate, sweepstrgc, currentwhite>> PROVE StrInv'
  <2> DEFINE S == strs \cup {[c |-> c, b |-> lmod(HashOf(c), size), color |-> currentwhite]}
  <2>1. Lookup(c) = {} /\ nuse' = nuse + 1
        /\ \/ strs' = S /\ size' = size
           \/ gcstate # "sweepstring" /\ strs' = Rehashed(S, size * 2) /\ size' = size * 2
    BY <1>3 DEF newlstr, luaS_resize, NoMemory
  <2>r. refs' \subseteq refs \cup {c} BY <1>3 DEF newlstr
  <2>2. /\ S \in SUBSET TString /\ IsFiniteSet(S) /\ Cardinality(S) = Cardinality(strs) + 1 /\ Distinct(S)
        /\ \A s \in S : s.b = lmod(HashOf(s.c), size)
        /\ \A s \in S : s \in strs \/ s.color = currentwhite
        /\ \E s \in S : s.c = c /\ ~isdead(s)
    BY <2>1, NewString
  <2>3. \A d \in refs' : \E s \in S : s.c = d /\ ~isdead(s) BY <2>r, <2>2, <1>0
  <2>4. \A d \in refs' : \E s \in S : s.c = d /\ ~isdead(s)' BY <2>3, <1>3, <1>u
  <2>5. gcstate = "sweepstring" => \A s \in S : s.b < sweepstrgc => s.color = currentwhite BY <2>2, <1>0
  <2>6. gcstate # "sweepstring" => \A s \in S : s.color = currentwhite BY <2>2, <1>0
  <2> HIDE DEF S
  <2>7. CASE strs' = S /\ size' = size BY <1>0, <1>3, <2>1, <2>2, <2>4, <2>5, <2>6, <2>7 DEF StrInv
  <2>8. CASE gcstate # "sweepstring" /\ strs' = Rehashed(S, size * 2) /\ size' = size * 2
    <3>1. size * 2 \in Nat \ {0} BY <1>0
    <3>2. /\ Rehashed(S, size * 2) \in SUBSET TString /\ IsFiniteSet(Rehashed(S, size * 2))
          /\ Cardinality(Rehashed(S, size * 2)) = Cardinality(S) /\ Distinct(Rehashed(S, size * 2))
          /\ \A s \in Rehashed(S, size * 2) : s.b = lmod(HashOf(s.c), size * 2)
          /\ \A s \in Rehashed(S, size * 2) : \E r \in S : r.c = s.c /\ r.color = s.color
          /\ \A r \in S : \E s \in Rehashed(S, size * 2) : r.c = s.c /\ r.color = s.color
      BY <2>2, <3>1, ResizeRight
    <3>3. \A s \in strs' : s.color = currentwhite BY <2>6, <2>8, <3>2
    <3>4. \A d \in refs' : \E s \in strs' : s.c = d /\ ~isdead(s)' BY <2>4, <2>8, <3>2 DEF isdead
    <3> QED BY <1>0, <1>3, <2>1, <2>2, <2>8, <3>1, <3>2, <3>3, <3>4 DEF StrInv
  <2> QED BY <2>1, <2>7, <2>8
<1>4. CASE DropRef BY <1>0, <1>4 DEF DropRef, StrInv, isdead, otherwhite
<1>5. CASE MarkAndFlip
  <2> DEFINE f == [s \in strs |-> IF s.c \in refs THEN [s EXCEPT !.color = Black] ELSE s]
  <2>1. /\ strs' = {f[s] : s \in strs} /\ currentwhite' = otherwhite /\ gcstate = "pause"
        /\ gcstate' = "sweepstring" /\ sweepstrgc' = 0 /\ UNCHANGED <<size, nuse, refs>>
    BY <1>5 DEF MarkAndFlip
  <2>2. ASSUME NEW s \in strs
        PROVE  f[s] \in TString /\ f[s].c = s.c /\ f[s].b = s.b /\ (s.c \in refs => f[s].color = Black)
    BY <1>0 DEF TString
  <2>3. f \in [strs -> TString] BY <2>2
  <2> HIDE DEF f
  <2>4. strs' \in SUBSET TString /\ IsFiniteSet(strs') /\ Cardinality(strs') = Cardinality(strs) /\ Distinct(strs')
    BY <1>0, <2>1, <2>2, <2>3, SameStrings
  <2>5. \A s \in strs' : s.b = lmod(HashOf(s.c), size) BY <1>0, <2>1, <2>2
  <2>6. currentwhite' \in {0, 1} /\ otherwhite' # Black BY <1>0, <2>1 DEF otherwhite, Black
  <2>7. \A c \in refs' : \E s \in strs' : s.c = c /\ ~isdead(s)'
    <3> SUFFICES ASSUME NEW c \in refs PROVE \E s \in strs' : s.c = c /\ s.color = Black
      BY <2>1, <2>6 DEF isdead
    <3>1. PICK s \in strs : s.c = c BY <1>0
    <3> QED BY <3>1, <2>1, <2>2
  <2>8. \A s \in strs' : ~(s.b < 0) BY <2>4 DEF TString
  <2>9. 0 \in 0 .. size - 1 BY <1>0
  <2> QED BY <1>0, <2>1, <2>4, <2>5, <2>6, <2>7, <2>8, <2>9 DEF StrInv
<1>6. CASE luaC_fullgc
  <2>1. 0 \in 0 .. size - 1 BY <1>0
  <2> QED BY <1>0, <1>6, <2>1 DEF luaC_fullgc, StrInv, isdead, otherwhite
<1>7. CASE sweepstring
  <2>0. gcstate = "sweepstring" /\ SweepBucket(sweepstrgc) /\ sweepstrgc' = sweepstrgc + 1
        /\ gcstate' = (IF sweepstrgc + 1 >= size THEN "sweep" ELSE gcstate)
        /\ UNCHANGED <<size, currentwhite, refs>>
    BY <1>7 DEF sweepstring
  <2>1. /\ strs' \in SUBSET TString /\ IsFiniteSet(strs') /\ nuse' = Cardinality(strs') /\ Distinct(strs')
        /\ \A s \in strs' : s.b = lmod(HashOf(s.c), size)
        /\ \A c \in refs : \E s \in strs' : s.c = c /\ ~isdead(s)
        /\ \A s \in strs' : s.b < sweepstrgc + 1 => s.color = currentwhite
    BY <2>0, SweepRight
  <2>2. sweepstrgc \in 0 .. size - 1 BY <1>0, <2>0
  <2>3. \A c \in refs' : \E s \in strs' : s.c = c /\ ~isdead(s)' BY <2>0, <2>1, <1>u
  <2>4. CASE sweepstrgc + 1 >= size
    <3>1. \A s \in strs' : s.b < sweepstrgc + 1
      <4> SUFFICES ASSUME NEW s \in strs' PROVE s.b < sweepstrgc + 1 OBVIOUS
      <4>1. s.c \in Contents BY <2>1 DEF TString
      <4>2. s.b \in 0 .. size - 1 BY <4>1, <2>1, <1>0, Bucket
      <4> QED BY <4>2, <2>2, <2>4, <1>0
    <3>2. \A s \in strs' : s.color = currentwhite BY <3>1, <2>1
    <3> QED BY <1>0, <2>0, <2>1, <2>3, <2>4, <3>2 DEF StrInv
  <2>5. CASE ~(sweepstrgc + 1 >= size)
    <3>1. sweepstrgc + 1 \in 0 .. size - 1 BY <2>2, <2>5, <1>0
    <3> QED BY <1>0, <2>0, <2>1, <2>3, <2>5, <3>1 DEF StrInv
  <2> QED BY <2>4, <2>5
<1>8. CASE checkSizes
  <2>0. gcstate = "sweep" /\ UNCHANGED <<nuse, sweepstrgc, currentwhite, refs>> /\ gcstate' \in {"pause", "sweep"}
        /\ \/ strs' = strs /\ size' = size
           \/ size > MINSTRTABSIZE * 2 /\ strs' = Rehashed(strs, size \div 2) /\ size' = size \div 2
    BY <1>8 DEF checkSizes, luaS_resize, NoMemory
  <2>1. CASE strs' = strs /\ size' = size BY <1>0, <2>0, <2>1 DEF StrInv, isdead, otherwhite
  <2>2. CASE size > MINSTRTABSIZE * 2 /\ strs' = Rehashed(strs, size \div 2) /\ size' = size \div 2
    <3>0. size \div 2 \in Nat \ {0} BY <1>0, <2>2, StringsAssumption
    <3>1. /\ Rehashed(strs, size \div 2) \in SUBSET TString /\ IsFiniteSet(Rehashed(strs, size \div 2))
          /\ Cardinality(Rehashed(strs, size \div 2)) = Cardinality(strs) /\ Distinct(Rehashed(strs, size \div 2))
          /\ \A s \in Rehashed(strs, size \div 2) : s.b = lmod(HashOf(s.c), size \div 2)
          /\ \A s \in Rehashed(strs, size \div 2) : \E r \in strs : r.c = s.c /\ r.color = s.color
          /\ \A r \in strs : \E s \in Rehashed(strs, size \div 2) : r.c = s.c /\ r.color = s.color
      BY <1>0, <3>0, ResizeRight
    <3>2. \A s \in strs' : s.color = currentwhite BY <1>0, <2>0, <2>2, <3>1
    <3>3. \A c \in refs : \E s \in strs' : s.c = c /\ ~isdead(s) BY <1>0, <2>2, <3>1 DEF isdead
    <3>4. \A c \in refs' : \E s \in strs' : s.c = c /\ ~isdead(s)' BY <2>0, <3>3, <1>u
    <3> QED BY <1>0, <2>0, <2>2, <3>0, <3>1, <3>2, <3>4 DEF StrInv
  <2> QED BY <2>0, <2>1, <2>2
<1> QED BY <1>1, <1>2, <1>3, <1>4, <1>5, <1>6, <1>7, <1>8 DEF strNext, luaS_newlstr

LEMMA StrInvRight == StrInv => StringsUnique
BY DEF StrInv, StringsUnique, Interned, AllSwept, Distinct

\* Equal strings are one object, in the bucket where a lookup searches for it,
\* and no bucket escapes the sweep, for every hash function and every size the
\* table takes between its steps (luaS_newlstr, luaS_resize, sweepstring).
THEOREM StringsInterned == strSpec => []StringsUnique
BY StrInitInv, StrStepInv, StrInvRight, PTL DEF strSpec

-----------------------------------------------------------------------------
(* Files.                                                                  *)

Handles == [file : Nat, close : {"io_noclose", "io_fclose", "io_pclose"}]
Modes == {"std", "fopen", "popen", "closed"}

\* Sequences of anything: an element replaced, and one more.
LEMMA SeqUpdate ==
  ASSUME NEW S, NEW s \in Seq(S), NEW i \in DOMAIN s, NEW v \in S
  PROVE  /\ s[i] \in S /\ [s EXCEPT ![i] = v] \in Seq(S) /\ Len([s EXCEPT ![i] = v]) = Len(s)
         /\ DOMAIN [s EXCEPT ![i] = v] = DOMAIN s /\ [s EXCEPT ![i] = v][i] = v
         /\ \A k \in DOMAIN s \ {i} : [s EXCEPT ![i] = v][k] = s[k]
OBVIOUS
LEMMA SeqAppend ==
  ASSUME NEW S, NEW s \in Seq(S), NEW v \in S
  PROVE  /\ Append(s, v) \in Seq(S) /\ Len(Append(s, v)) = Len(s) + 1
         /\ DOMAIN Append(s, v) = DOMAIN s \cup {Len(s) + 1} /\ Append(s, v)[Len(s) + 1] = v
         /\ Len(s) \in Nat /\ Len(s) + 1 \notin DOMAIN s
         /\ \A k \in DOMAIN s : Append(s, v)[k] = s[k]
OBVIOUS

\* A handle is one of the standard files, or closed, or has a file that was
\* opened in the manner its close function is for, and is still to be finalized.
HandleOK(h) ==
  \/ h <= 2 /\ handles[h] = Handle(h, "io_noclose")
  \/ h > 2 /\ handles[h].file = NULL /\ Closes(h)
  \/ /\ h > 2 /\ h \notin fin /\ handles[h].file \in DOMAIN files
     /\ files[handles[h].file] \in {"fopen", "popen"}
     /\ handles[h].close = closeof(files[handles[h].file])

\* No two handles have one file, and every file that is open has a handle.
FilesInv ==
  /\ handles \in Seq(Handles)
  /\ files \in Seq(Modes)
  /\ Len(handles) >= 2 /\ Len(files) >= 2 /\ files[1] = "std" /\ files[2] = "std"
  /\ fin \subseteq DOMAIN handles
  /\ \A h \in DOMAIN handles : HandleOK(h)
  /\ \A g, h \in DOMAIN handles : handles[g].file = handles[h].file /\ handles[g].file # NULL => g = h
  /\ \A f \in DOMAIN files : files[f] \in {"fopen", "popen"} =>
       \E h \in DOMAIN handles : handles[h].file = f /\ h \notin fin
  /\ misuse = FALSE
KnownHandles ==
  /\ default \in [{"input", "output"} -> DOMAIN handles]
  /\ held \subseteq DOMAIN handles
  /\ \A it \in iters : it[1] \in DOMAIN handles
IOInv == FilesInv /\ KnownHandles

LEMMA IOInitInv == ioInit => IOInv
<1> SUFFICES ASSUME ioInit PROVE IOInv OBVIOUS
<1>1. Len(handles) = 2 /\ DOMAIN handles = {1, 2} /\ handles[1] = Handle(1, "io_noclose")
      /\ handles[2] = Handle(2, "io_noclose")
      /\ handles \in Seq(Handles)
  BY DEF ioInit, Handle, Handles
<1>2. Len(files) = 2 /\ DOMAIN files = {1, 2} /\ files[1] = "std" /\ files[2] = "std"
      /\ files \in Seq(Modes)
  BY DEF ioInit, Modes
<1>3. \A h \in DOMAIN handles : HandleOK(h) BY <1>1 DEF HandleOK
<1>4. \A g, h \in DOMAIN handles : handles[g].file = handles[h].file => g = h BY <1>1 DEF Handle
<1>5. fin = {} /\ misuse = FALSE /\ FilesInv BY <1>1, <1>2, <1>3, <1>4 DEF ioInit, FilesInv
<1>6. KnownHandles BY <1>1 DEF ioInit, KnownHandles
<1> QED BY <1>5, <1>6 DEF IOInv

\* A file that is open is closed by the function for it, and by no other
\* handle (aux_close).
LEMMA CloseRight ==
  ASSUME FilesInv, NEW h \in DOMAIN handles, tofile(h), aux_close(h), fin' \in {fin, fin \cup {h}}
  PROVE  FilesInv' /\ DOMAIN handles' = DOMAIN handles
<1>0. /\ handles \in Seq(Handles)
      /\ files \in Seq(Modes)
      /\ Len(handles) >= 2 /\ Len(files) >= 2 /\ files[1] = "std" /\ files[2] = "std"
      /\ fin \subseteq DOMAIN handles
      /\ \A g \in DOMAIN handles : HandleOK(g)
      /\ \A x, g \in DOMAIN handles : handles[x].file = handles[g].file /\ handles[x].file # NULL => x = g
      /\ \A f \in DOMAIN files : files[f] \in {"fopen", "popen"} =>
           \E g \in DOMAIN handles : handles[g].file = f /\ g \notin fin
      /\ misuse = FALSE
  BY DEF FilesInv
<1>1. CASE ~Closes(h)
  <2>1. UNCHANGED <<handles, files, misuse>> BY <1>1 DEF aux_close
  <2>2. h <= 2 /\ handles[h] = Handle(h, "io_noclose")
    BY <1>0, <1>1 DEF HandleOK, Closes, closeof, Handle
  <2>3. \A g \in DOMAIN handles : HandleOK(g)' BY <1>0, <2>1, <2>2 DEF HandleOK, Closes
  <2>4. \A f \in DOMAIN files : files[f] \in {"fopen", "popen"} =>
           \E g \in DOMAIN handles : handles[g].file = f /\ g \notin fin'
    <3> SUFFICES ASSUME NEW f \in DOMAIN files, files[f] \in {"fopen", "popen"}
                 PROVE  \E g \in DOMAIN handles : handles[g].file = f /\ g \notin fin'
      OBVIOUS
    <3>1. PICK g \in DOMAIN handles : handles[g].file = f /\ g \notin fin BY <1>0
    <3>2. h \in {1, 2} /\ handles[h].file = h BY <1>0, <2>2 DEF Handle
    <3>3. g # h BY <3>1, <3>2, <1>0
    <3> QED BY <3>1, <3>3
  <2> QED BY <1>0, <2>1, <2>3, <2>4 DEF FilesInv
<1>2. CASE Closes(h)
  <2> DEFINE f == handles[h].file
  <2>1. /\ handles' = [handles EXCEPT ![h].file = NULL] /\ files' = [files EXCEPT ![f] = "closed"]
        /\ misuse' = (misuse \/ files[f] # (IF handles[h].close = "io_pclose" THEN "popen" ELSE "fopen"))
    BY <1>2 DEF aux_close
  <2>2. h > 2 /\ f \in DOMAIN files /\ files[f] \in {"fopen", "popen"} /\ handles[h].close = closeof(files[f])
    BY <1>0, <1>2 DEF HandleOK, Closes, closeof, Handle, tofile
  <2>3. misuse' = FALSE BY <1>0, <2>1, <2>2 DEF closeof
  <2>4. f # 1 /\ f # 2 /\ f # NULL BY <1>0, <2>2 DEF tofile
  <2> DEFINE closed == [handles[h] EXCEPT !.file = NULL]
  <2>e. handles[h] \in Handles BY <1>0, SeqUpdate
  <2>c. closed \in Handles /\ closed.file = NULL /\ closed.close = handles[h].close BY <2>e DEF Handles, NULL
  <2>h. handles' = [handles EXCEPT ![h] = closed] BY <2>1
  <2> HIDE DEF closed, f
  <2>5. /\ handles' \in Seq(Handles) /\ Len(handles') = Len(handles) /\ DOMAIN handles' = DOMAIN handles
        /\ handles'[h].file = NULL /\ handles'[h].close = handles[h].close
        /\ \A g \in DOMAIN handles \ {h} : handles'[g] = handles[g]
    BY <1>0, <2>c, <2>h, SeqUpdate
  <2>6. /\ files' \in Seq(Modes) /\ Len(files') = Len(files) /\ DOMAIN files' = DOMAIN files
        /\ files'[f] = "closed" /\ \A e \in DOMAIN files \ {f} : files'[e] = files[e]
    <3>1. "closed" \in Modes BY DEF Modes
    <3> QED BY <1>0, <2>1, <2>2, <3>1, SeqUpdate
  <2>8. \A g \in DOMAIN handles : g # h => handles[g].file # f BY <1>0, <2>4 DEF f
  <2>9. ASSUME NEW g \in DOMAIN handles PROVE HandleOK(g)'
    <3>1. CASE g = h BY <3>1, <2>2, <2>5, <1>2 DEF HandleOK, Closes
    <3>2. CASE g # h
      <4>1. HandleOK(g) /\ handles'[g] = handles[g] /\ handles[g].file # f /\ (g \notin fin => g \notin fin')
        BY <1>0, <2>5, <2>8, <3>2
      <4>2. handles[g].file \in DOMAIN files => files'[handles[g].file] = files[handles[g].file] BY <4>1, <2>6
      <4> QED BY <4>1, <4>2, <2>6 DEF HandleOK, Closes
    <3> QED BY <3>1, <3>2
  <2>10. ASSUME NEW e \in DOMAIN files', files'[e] \in {"fopen", "popen"}
         PROVE  \E g \in DOMAIN handles' : handles'[g].file = e /\ g \notin fin'
    <3>1. e # f /\ files'[e] = files[e] /\ e \in DOMAIN files BY <2>6, <2>10
    <3>2. PICK g \in DOMAIN handles : handles[g].file = e /\ g \notin fin BY <1>0, <2>10, <3>1
    <3>3. g # h BY <3>1, <3>2 DEF f
    <3> QED BY <3>2, <3>3, <2>5
  <2>11. \A x, g \in DOMAIN handles' : handles'[x].file = handles'[g].file /\ handles'[x].file # NULL => x = g
    <3> SUFFICES ASSUME NEW x \in DOMAIN handles, NEW g \in DOMAIN handles,
                        handles'[x].file = handles'[g].file, handles'[x].file # NULL
                 PROVE  x = g
      BY <2>5
    <3>1. x # h /\ g # h BY <2>5
    <3> QED BY <3>1, <2>5, <1>0
  <2>12. files'[1] = "std" /\ files'[2] = "std" BY <1>0, <2>4, <2>6
  <2>13. fin' \subseteq DOMAIN handles' BY <1>0, <2>5
  <2> QED BY <1>0, <2>3, <2>5, <2>6, <2>9, <2>10, <2>11, <2>12, <2>13 DEF FilesInv
<1> QED BY <1>1, <1>2

\* A handle is made before its file is opened, so that no error loses it (newfile).
LEMMA NewFileRight ==
  ASSUME FilesInv, NEW how \in {"fopen", "popen"}, newfile(how), UNCHANGED <<fin, misuse>>
  PROVE  FilesInv' /\ DOMAIN handles' = DOMAIN handles \cup {New} /\ New \notin DOMAIN handles
<1>0. /\ handles \in Seq(Handles)
      /\ files \in Seq(Modes)
      /\ Len(handles) >= 2 /\ Len(files) >= 2 /\ files[1] = "std" /\ files[2] = "std"
      /\ fin \subseteq DOMAIN handles
      /\ \A g \in DOMAIN handles : HandleOK(g)
      /\ \A x, g \in DOMAIN handles : handles[x].file = handles[g].file /\ handles[x].file # NULL => x = g
      /\ \A f \in DOMAIN files : files[f] \in {"fopen", "popen"} =>
           \E g \in DOMAIN handles : handles[g].file = f /\ g \notin fin
      /\ misuse = FALSE
  BY DEF FilesInv
<1>n. New = Len(handles) + 1 /\ New \in Nat /\ New > 2 /\ New \notin DOMAIN handles /\ New \notin fin
  BY <1>0 DEF New
<1> DEFINE F == Len(files) + 1
<1>f. F \in Nat /\ F > 2 /\ F \notin DOMAIN files BY <1>0
<1>1. PICK v \in {NULL, F} :
        /\ handles' = Append(handles, Handle(v, closeof(how)))
        /\ files' = IF v = NULL THEN files ELSE Append(files, how)
  BY <1>f DEF newfile, NULL
<1>2. Handle(v, closeof(how)) \in Handles
      /\ Handle(v, closeof(how)).close = closeof(how) /\ Handle(v, closeof(how)).file = v
      /\ closeof(how) # "io_noclose"
  BY <1>f DEF Handle, Handles, closeof, NULL
<1>3. /\ handles' \in Seq(Handles)
      /\ DOMAIN handles' = DOMAIN handles \cup {New} /\ Len(handles') = Len(handles) + 1
      /\ handles'[New].file = v /\ handles'[New].close = closeof(how)
      /\ \A g \in DOMAIN handles : handles'[g] = handles[g]
  BY <1>0, <1>1, <1>2, <1>n, SeqAppend
<1>4. /\ files' \in Seq(Modes) /\ Len(files') >= 2
      /\ DOMAIN files' = IF v = NULL THEN DOMAIN files ELSE DOMAIN files \cup {F}
      /\ v # NULL => files'[F] = how
      /\ \A e \in DOMAIN files : files'[e] = files[e]
  <2>1. how \in Modes BY DEF Modes
  <2>2. CASE v = NULL BY <1>0, <1>1, <2>2
  <2>3. CASE v # NULL
    <3>1. /\ Append(files, how) \in Seq(Modes) /\ Len(Append(files, how)) = Len(files) + 1 /\ Len(files) \in Nat
          /\ DOMAIN Append(files, how) = DOMAIN files \cup {F} /\ Append(files, how)[F] = how
          /\ \A e \in DOMAIN files : Append(files, how)[e] = files[e]
      BY <1>0, <2>1, SeqAppend
    <3>2. files' = Append(files, how) BY <1>1, <2>3
    <3> HIDE DEF F
    <3> QED BY ONLY <3>1, <3>2, <2>3, <1>0
  <2> QED BY <2>2, <2>3
<1> HIDE DEF F
<1>5. ASSUME NEW g \in DOMAIN handles' PROVE HandleOK(g)'
  <2>1. CASE g = New BY <2>1, <1>n, <1>2, <1>3, <1>4 DEF HandleOK, Closes
  <2>2. CASE g \in DOMAIN handles
    <3>1. HandleOK(g) /\ handles'[g] = handles[g] BY <1>0, <1>3, <2>2
    <3>2. handles[g].file \in DOMAIN files => handles[g].file \in DOMAIN files'
                                              /\ files'[handles[g].file] = files[handles[g].file]
      BY <1>4
    <3> QED BY <3>1, <3>2 DEF HandleOK, Closes
  <2> QED BY <2>1, <2>2, <1>3
<1>6. \A g \in DOMAIN handles : handles[g].file # F
  <2> SUFFICES ASSUME NEW g \in DOMAIN handles, handles[g].file = F PROVE FALSE OBVIOUS
  <2>1. HandleOK(g) /\ g \in Nat BY <1>0
  <2>2. CASE g <= 2 /\ handles[g] = Handle(g, "io_noclose") BY <2>1, <2>2, <1>f DEF Handle
  <2> QED BY <2>1, <2>2, <1>f DEF HandleOK, NULL
<1>7. \A x, g \in DOMAIN handles' : handles'[x].file = handles'[g].file /\ handles'[x].file # NULL => x = g
  <2> SUFFICES ASSUME NEW x \in DOMAIN handles', NEW g \in DOMAIN handles',
                      handles'[x].file = handles'[g].file, handles'[x].file # NULL
               PROVE  x = g
    OBVIOUS
  <2>1. CASE x = New /\ g # New BY <2>1, <1>1, <1>3, <1>6
  <2>2. CASE g = New /\ x # New BY <2>2, <1>1, <1>3, <1>6
  <2>3. CASE g # New /\ x # New BY <2>3, <1>3, <1>0
  <2> QED BY <2>1, <2>2, <2>3
<1>8. ASSUME NEW e \in DOMAIN files', files'[e] \in {"fopen", "popen"}
      PROVE  \E g \in DOMAIN handles' : handles'[g].file = e /\ g \notin fin'
  <2>1. CASE e \in DOMAIN files
    <3>1. PICK g \in DOMAIN handles : handles[g].file = e /\ g \notin fin BY <2>1, <1>0, <1>4, <1>8
    <3> QED BY <3>1, <1>3
  <2>2. CASE e \notin DOMAIN files
    <3>1. e = F /\ v = F BY <2>2, <1>1, <1>4
    <3> QED BY <3>1, <1>3, <1>n
  <2> QED BY <2>1, <2>2
<1>9. files'[1] = "std" /\ files'[2] = "std" BY <1>0, <1>4
<1> QED BY <1>0, <1>n, <1>3, <1>4, <1>5, <1>7, <1>8, <1>9 DEF FilesInv

\* Steps that leave the handles and the files alone.
LEMMA SameFiles == FilesInv /\ UNCHANGED <<handles, files, fin, misuse>> => FilesInv'
BY DEF FilesInv, HandleOK, Closes

LEMMA IOStepInv == IOInv /\ [ioNext]_ioVars => IOInv'
<1> SUFFICES ASSUME IOInv, [ioNext]_ioVars PROVE IOInv' OBVIOUS
<1>0. FilesInv /\ KnownHandles BY DEF IOInv
<1>k. /\ default \in [{"input", "output"} -> DOMAIN handles] /\ held \subseteq DOMAIN handles
      /\ \A it \in iters : it[1] \in DOMAIN handles
      /\ default.input \in DOMAIN handles /\ default.output \in DOMAIN handles
  BY <1>0 DEF KnownHandles
<1>r. Reached \subseteq DOMAIN handles BY <1>k DEF Reached
<1>1. CASE UNCHANGED ioVars BY <1>0, <1>1, SameFiles DEF ioVars, KnownHandles, IOInv
<1>2. ASSUME NEW how \in {"fopen", "popen"}, newfile(how), UNCHANGED <<fin, misuse>>,
             default' = default \/ \E k \in {"input", "output"} : default' = [default EXCEPT ![k] = New],
             held' \subseteq held \cup {New}, \A it \in iters' : it \in iters \/ it[1] = New
      PROVE  IOInv'
  <2>1. FilesInv' /\ DOMAIN handles' = DOMAIN handles \cup {New} BY <1>0, <1>2, NewFileRight
  <2>2. KnownHandles' BY <1>k, <1>2, <2>1 DEF KnownHandles
  <2> QED BY <2>1, <2>2 DEF IOInv
<1>3. ASSUME NEW h \in DOMAIN handles, tofile(h), aux_close(h), fin' \in {fin, fin \cup {h}},
             UNCHANGED <<default, iters>>, held' \subseteq held \cup {h}
      PROVE  IOInv'
  <2>1. FilesInv' /\ DOMAIN handles' = DOMAIN handles BY <1>0, <1>3, CloseRight
  <2>2. KnownHandles' BY <1>k, <1>3, <2>1 DEF KnownHandles
  <2> QED BY <2>1, <2>2 DEF IOInv
<1>4. ASSUME NEW how \in {"fopen", "popen"}, io_open(how), UNCHANGED <<fin, closing>> PROVE IOInv'
  <2>1. newfile(how) /\ held' \subseteq held \cup {New} /\ UNCHANGED <<default, iters, misuse, fin>>
    BY <1>4 DEF io_open
  <2> QED BY <2>1, <1>2
<1>5. ASSUME NEW k \in {"input", "output"}, g_iofile(k), UNCHANGED <<fin, closing>> PROVE IOInv'
  <2>1. CASE newfile("fopen") /\ default' = (IF Opened THEN [default EXCEPT ![k] = New] ELSE default)
             /\ UNCHANGED <<iters, held, misuse>>
    <3>1. \/ default' = default
          \/ \E m \in {"input", "output"} : default' = [default EXCEPT ![m] = New]
      BY <2>1
    <3>2. UNCHANGED <<fin, misuse>> BY <2>1, <1>5
    <3>3. held' \subseteq held \cup {New} /\ \A it \in iters' : it \in iters \/ it[1] = New BY <2>1
    <3> QED BY <2>1, <3>1, <3>2, <3>3, <1>2
  <2>2. CASE /\ \E h \in held : tofile(h) /\ default' = [default EXCEPT ![k] = h]
             /\ UNCHANGED <<handles, files, iters, held, misuse>>
    BY <2>2, <1>0, <1>k, <1>5, SameFiles DEF KnownHandles, IOInv
  <2> QED BY <1>5, <2>1, <2>2 DEF g_iofile
<1>6. CASE io_lines /\ UNCHANGED <<fin, closing>>
  <2>1. CASE newfile("fopen") /\ iters' = (IF Opened THEN iters \cup {<<New, TRUE>>} ELSE iters)
             /\ UNCHANGED <<default, held, misuse>>
    <3>1. UNCHANGED <<fin, misuse>> /\ held' \subseteq held \cup {New} /\ default' = default BY <2>1, <1>6
    <3>2. \A it \in iters' : it \in iters \/ it[1] = New
      <4>1. iters' \subseteq iters \cup {<<New, TRUE>>} BY <2>1
      <4>2. <<New, TRUE>>[1] = New OBVIOUS
      <4> QED BY <4>1, <4>2
    <3> QED BY <2>1, <3>1, <3>2, <1>2
  <2>2. CASE /\ \E h \in held \cup {default.input} : tofile(h) /\ iters' = iters \cup {<<h, FALSE>>}
             /\ UNCHANGED <<handles, files, default, held, misuse>>
    <3>1. PICK h \in DOMAIN handles : iters' = iters \cup {<<h, FALSE>>} BY <2>2, <1>k
    <3>2. \A it \in iters' : it[1] \in DOMAIN handles'
      <4>1. <<h, FALSE>>[1] = h OBVIOUS
      <4> QED BY <4>1, <3>1, <1>k, <2>2
    <3>3. KnownHandles' BY <3>2, <2>2, <1>k DEF KnownHandles
    <3>4. FilesInv' BY <2>2, <1>0, <1>6, SameFiles
    <3> QED BY <3>3, <3>4 DEF IOInv
  <2> QED BY <1>6, <2>1, <2>2 DEF io_lines
<1>7. ASSUME NEW h \in held \cup {default.output}, io_close(h), UNCHANGED <<fin, closing>> PROVE IOInv'
  <2>1. h \in DOMAIN handles BY <1>k
  <2> QED BY <2>1, <1>3, <1>7 DEF io_close
<1>8. ASSUME NEW it \in iters, io_readline(it), UNCHANGED <<fin, closing>> PROVE IOInv'
  <2>1. it[1] \in DOMAIN handles BY <1>k
  <2> QED BY <2>1, <1>3, <1>8 DEF io_readline
<1>9. ASSUME NEW h \in Reached, Use(h), UNCHANGED <<fin, closing>> PROVE IOInv'
  <2>1. h \in DOMAIN handles /\ HandleOK(h) /\ tofile(h) BY <1>0, <1>r, <1>9 DEF FilesInv, Use
  <2>2. files[handles[h].file] # "closed"
    <3>1. CASE h <= 2 /\ handles[h] = Handle(h, "io_noclose")
      <4>1. handles[h].file = h /\ h \in {1, 2} BY <3>1, <2>1, <1>0 DEF Handle, FilesInv
      <4> QED BY <4>1, <1>0 DEF FilesInv
    <3> QED BY <3>1, <2>1 DEF HandleOK, tofile
  <2>3. misuse' = (misuse \/ FALSE) /\ misuse = FALSE BY <2>2, <1>9, <1>0 DEF Use, FilesInv
  <2>4. misuse' = misuse BY <2>3
  <2>5. UNCHANGED <<handles, files, fin, misuse, default, iters, held>> BY <2>4, <1>9 DEF Use
  <2> QED BY <2>5, <1>0, SameFiles DEF KnownHandles, IOInv
<1>10. CASE Finalize
  <2>1. PICK h \in DOMAIN handles \ fin : io_gc(h) /\ fin' = fin \cup {h} /\ held' \in {held, held \cup {h}}
    BY <1>10 DEF Finalize
  <2>2. UNCHANGED <<default, iters>> BY <1>10 DEF Finalize
  <2>3. CASE handles[h].file # NULL
    <3>1. aux_close(h) /\ tofile(h) BY <2>1, <2>3 DEF io_gc, tofile
    <3> QED BY <3>1, <2>1, <2>2, <1>3
  <2>4. CASE handles[h].file = NULL
    <3>1. UNCHANGED <<handles, files, misuse>> BY <2>1, <2>4 DEF io_gc
    <3>2. h > 2 /\ HandleOK(h) BY <2>1, <2>4, <1>0 DEF FilesInv, HandleOK, Handle, NULL
    <3>3. FilesInv'
      <4>1. \A g \in DOMAIN handles : HandleOK(g)'
        BY <1>0, <2>1, <2>4, <3>1, <3>2 DEF FilesInv, HandleOK, Closes, NULL
      <4>2. \A f \in DOMAIN files : f # NULL BY <1>0 DEF FilesInv, NULL
      <4>3. \A f \in DOMAIN files : files[f] \in {"fopen", "popen"} =>
              \E g \in DOMAIN handles : handles[g].file = f /\ g \notin fin'
        BY <1>0, <2>1, <2>4, <4>2 DEF FilesInv
      <4> QED BY <1>0, <2>1, <3>1, <4>1, <4>3 DEF FilesInv
    <3>4. KnownHandles' BY <1>k, <2>1, <2>2, <3>1 DEF KnownHandles
    <3> QED BY <3>3, <3>4 DEF IOInv
  <2> QED BY <2>3, <2>4
<1>11. CASE Forget
  <2>1. held' \subseteq held /\ iters' \subseteq iters /\ UNCHANGED <<handles, fin, files, default, misuse>>
    BY <1>11 DEF Forget
  <2> QED BY <2>1, <1>0, <1>k, SameFiles DEF KnownHandles, IOInv
<1>12. CASE StartClose BY <1>12, <1>0, SameFiles DEF StartClose, KnownHandles, IOInv
<1> QED BY <1>1, <1>4, <1>5, <1>6, <1>7, <1>8, <1>9, <1>10, <1>11, <1>12 DEF ioNext, Operation

LEMMA IOInvRight == IOInv => FilesRight
<1> SUFFICES ASSUME FilesInv PROVE FilesRight BY DEF IOInv
<1>1. ASSUME NEW f \in DOMAIN files, files[f] \in {"fopen", "popen"}
      PROVE  Cardinality({h \in DOMAIN handles : handles[h].file = f /\ h \notin fin}) = 1
  <2>1. PICK h \in DOMAIN handles : handles[h].file = f /\ h \notin fin BY <1>1 DEF FilesInv
  <2>2. f # NULL BY DEF FilesInv, NULL
  <2>3. {g \in DOMAIN handles : handles[g].file = f /\ g \notin fin} = {h} BY <2>1, <2>2 DEF FilesInv
  <2> QED BY <2>3, FS_Singleton
<1> QED BY <1>1 DEF FilesInv, FilesRight, NoMisuse, NoLeak

\* No file is used or closed twice, each is closed by the function for it, and
\* each that is open has one handle that a finalizer will close, for any number
\* of handles and whatever fails (newfile, aux_close, io_gc).
THEOREM FilesCorrect == ioSpec => []FilesRight
BY IOInitInv, IOStepInv, IOInvRight, PTL DEF ioSpec

-----------------------------------------------------------------------------
(* Sorting.                                                                *)

\* The rank of the element at x, for an order.
Rk(b, x) == rank[b[x]]
PartType == (Nat \ {0}) \X Int
Within(p, x) == p[1] <= x /\ x <= p[2]

\* The parts that are not sorted yet: those that wait, and that of the call.
Waiting == IF pc = "done" THEN frames ELSE Append(frames, <<l, u>>)
Fits(p, k, n) == (p[2] - p[1] + 1) * 2 ^ k <= n

\* Every element is at one index, on the sides of the array too.
Kept(b, n) ==
  /\ b \in [0 .. n + 1 -> 0 .. n]
  /\ \A v \in 1 .. n : \E k \in 0 .. n + 1 : b[k] = v /\ \A m \in 0 .. n + 1 : b[m] = v => m = k
Disjoint(ps, n) ==
  \A k, m \in DOMAIN ps : k # m => \A x \in 1 .. n : ~(Within(ps[k], x) /\ Within(ps[m], x))
\* Two elements are in order unless one part has both.
Apart(b, ps, n) ==
  \A x, y \in 1 .. n : x < y =>
    Rk(b, x) <= Rk(b, y) \/ \E k \in DOMAIN ps : Within(ps[k], x) /\ Within(ps[k], y)
Lawful(b, ps, n) ==
  /\ rank \in [1 .. n -> 1 .. n]
  /\ \A k \in 1 .. n : b[k] # NilItem
  /\ Disjoint(ps, n) /\ Apart(b, ps, n)

\* What holds for any function: the indices stay in the array and its two sides.
Bounds(n) ==
  /\ l \in Nat \ {0} /\ u \in Int /\ u <= n /\ up \in Nat /\ down \in Int
  /\ Fits(<<l, u>>, Len(frames), n)
  /\ frames \in Seq(PartType)
  /\ \A k \in DOMAIN frames : frames[k][2] <= n /\ Fits(frames[k], k - 1, n)
  /\ pc \in {"middle", "middle2"} => l < up /\ up < u
  /\ pc \in {"up", "down"} => l <= down /\ down <= u - 1 /\ u - l > 2
  /\ pc = "up" => l <= up /\ up <= u
  /\ pc = "down" => l + 1 <= up /\ up <= u + 1

\* What holds for an order: the pivot P stays at u - 1, where the loop on i stops,
\* and a[l], where the loop on j stops, is not above it; the elements that were
\* passed are on their side of it.
Partitioned ==
  /\ pc \in {"middle", "middle2"} => Rk(a, l) <= Rk(a, u)
  /\ pc = "middle2" => Rk(a, l) <= Rk(a, up)
  /\ pc \in {"up", "down"} => P = a[u - 1] /\ l < down /\ \A x \in down .. u : rank[P] <= Rk(a, x)
  /\ pc = "up" => up < u - 1 /\ \A x \in l .. up : Rk(a, x) <= rank[P]
  /\ pc = "down" => up < u /\ rank[P] <= Rk(a, up) /\ \A x \in l .. up - 1 : Rk(a, x) <= rank[P]

SortInvN(n) ==
  /\ Kept(a, n) /\ Bounds(n)
  /\ rank # Lawless => Lawful(a, Waiting, n) /\ pc # "error" /\ Partitioned
  /\ pc \in {"loop", "middle", "middle2", "up", "down", "done", "error"}
  /\ pc = "done" => frames = <<>>
SortInv == \E n \in 0 .. MaxN : SortInvN(n)

LEMMA SizeOfArray == MaxN \in Nat /\ \A n \in 0 .. MaxN : n \in Nat
BY SortAssumption

\* An exchange keeps every element, at one index.
LEMMA SwapKept ==
  ASSUME NEW n \in Nat, NEW b, Kept(b, n), NEW p \in 0 .. n + 1, NEW q \in 0 .. n + 1
  PROVE  Kept(Swap(b, p, q), n)
<1> DEFINE c == Swap(b, p, q)
<1>0. b \in [0 .. n + 1 -> 0 .. n] BY DEF Kept
<1>1. /\ c \in [0 .. n + 1 -> 0 .. n] /\ c[p] = b[q] /\ c[q] = b[p]
      /\ \A k \in 0 .. n + 1 : k # p /\ k # q => c[k] = b[k]
  BY <1>0 DEF Swap
<1> HIDE DEF c
<1>2. ASSUME NEW v \in 1 .. n
      PROVE  \E k \in 0 .. n + 1 : c[k] = v /\ \A m \in 0 .. n + 1 : c[m] = v => m = k
  <2>1. PICK k \in 0 .. n + 1 : b[k] = v /\ \A m \in 0 .. n + 1 : b[m] = v => m = k BY DEF Kept
  <2>2. CASE k = p BY <2>1, <2>2, <1>1
  <2>3. CASE k = q BY <2>1, <2>3, <1>1
  <2>4. CASE k # p /\ k # q BY <2>1, <2>4, <1>1
  <2> QED BY <2>2, <2>3, <2>4
<1>3. Kept(c, n) BY <1>1, <1>2 DEF Kept
<1> QED BY <1>3 DEF c

LEMMA RankType ==
  ASSUME NEW n \in Nat, NEW b, NEW ps, Kept(b, n), Lawful(b, ps, n), NEW x \in 1 .. n
  PROVE  Rk(b, x) \in Nat /\ b[x] \in 1 .. n
<1>1. b[x] \in 0 .. n /\ b[x] # NilItem
  <2>1. x \in 0 .. n + 1 OBVIOUS
  <2>2. b \in [0 .. n + 1 -> 0 .. n] BY DEF Kept
  <2> QED BY <2>1, <2>2 DEF Lawful
<1>2. b[x] \in 1 .. n BY <1>1 DEF NilItem
<1> QED BY <1>2 DEF Rk, Lawful

\* The elements of a part may change places: one outside it is above or below
\* all of them.
LEMMA WithinPart ==
  ASSUME NEW n \in Nat, NEW b, NEW ps, Kept(b, n), Lawful(b, ps, n), NEW k \in DOMAIN ps,
         ps[k][1] \in Int, ps[k][2] \in Int, NEW p \in 1 .. n, NEW q \in 1 .. n,
         Within(ps[k], p), Within(ps[k], q)
  PROVE  /\ Lawful(Swap(b, p, q), ps, n)
         /\ Rk(Swap(b, p, q), p) = Rk(b, q) /\ Rk(Swap(b, p, q), q) = Rk(b, p)
         /\ \A x \in 1 .. n : x # p /\ x # q => Rk(Swap(b, p, q), x) = Rk(b, x)
<1> DEFINE c == Swap(b, p, q)
           In(x) == Within(ps[k], x)
<1>0. p \in 0 .. n + 1 /\ q \in 0 .. n + 1 /\ \A x \in 1 .. n : x \in 0 .. n + 1 OBVIOUS
<1>1. c[p] = b[q] /\ c[q] = b[p] /\ \A x \in 1 .. n : x # p /\ x # q => c[x] = b[x]
  <2>1. b \in [0 .. n + 1 -> 0 .. n] BY DEF Kept
  <2> QED BY <2>1, <1>0 DEF Swap
<1>r. \A x \in 1 .. n : Rk(b, x) \in Nat BY RankType
<1> HIDE DEF c
<1>2. /\ Rk(c, p) = Rk(b, q) /\ Rk(c, q) = Rk(b, p)
      /\ \A x \in 1 .. n : x # p /\ x # q => Rk(c, x) = Rk(b, x)
  BY <1>1 DEF Rk
<1>3. \A x \in 1 .. n : c[x] # NilItem BY <1>1 DEF Lawful
<1>4. \A x, y \in 1 .. n : x < y /\ In(y) /\ ~In(x) => \A z \in 1 .. n : In(z) => x < z BY DEF Within
<1>5. \A x, y \in 1 .. n : x < y /\ In(x) /\ ~In(y) => \A z \in 1 .. n : In(z) => z < y BY DEF Within
<1>6. \A x, y \in 1 .. n : x < y =>
        Rk(b, x) <= Rk(b, y) \/ \E m \in DOMAIN ps : Within(ps[m], x) /\ Within(ps[m], y)
  BY DEF Lawful, Apart
<1>7. \A m \in DOMAIN ps : m # k => \A x \in 1 .. n : In(x) => ~Within(ps[m], x)
  BY DEF Lawful, Disjoint
<1>8. \A x \in 1 .. n : In(x) => \E z \in 1 .. n : In(z) /\ Rk(c, x) = Rk(b, z) BY <1>2
<1>9. \A x \in 1 .. n : ~In(x) => Rk(c, x) = Rk(b, x) BY <1>2
<1> HIDE DEF In
<1>10. ASSUME NEW x \in 1 .. n, NEW y \in 1 .. n, x < y
       PROVE  Rk(c, x) <= Rk(c, y) \/ \E m \in DOMAIN ps : Within(ps[m], x) /\ Within(ps[m], y)
  <2>1. CASE In(x) /\ In(y) BY <2>1 DEF In
  <2>2. CASE In(x) /\ ~In(y)
    <3>1. PICK z \in 1 .. n : In(z) /\ Rk(c, x) = Rk(b, z) BY <2>2, <1>8
    <3>2. z < y BY <3>1, <2>2, <1>10, <1>5
    <3>3. ~\E m \in DOMAIN ps : Within(ps[m], z) /\ Within(ps[m], y) BY <3>1, <2>2, <1>7 DEF In
    <3>4. Rk(b, z) <= Rk(b, y) BY <1>6, <3>2, <3>3
    <3> QED BY <3>1, <3>4, <1>9, <2>2
  <2>3. CASE ~In(x) /\ In(y)
    <3>1. PICK z \in 1 .. n : In(z) /\ Rk(c, y) = Rk(b, z) BY <2>3, <1>8
    <3>2. x < z BY <3>1, <2>3, <1>10, <1>4
    <3>3. ~\E m \in DOMAIN ps : Within(ps[m], x) /\ Within(ps[m], z) BY <3>1, <2>3, <1>7 DEF In
    <3>4. Rk(b, x) <= Rk(b, z) BY <1>6, <3>2, <3>3
    <3> QED BY <3>1, <3>4, <1>9, <2>3
  <2>4. CASE ~In(x) /\ ~In(y) BY <2>4, <1>6, <1>9, <1>10
  <2> QED BY <2>1, <2>2, <2>3, <2>4
<1>11. Apart(c, ps, n) BY <1>10 DEF Apart
<1>12. Lawful(c, ps, n) BY <1>3, <1>11 DEF Lawful
<1> QED BY <1>2, <1>12 DEF c

\* A part is at most half of the one it was cut from, at each level.
LEMMA FitsSmaller ==
  ASSUME NEW k \in Nat, NEW n \in Nat, NEW s \in Int, NEW r \in Int, s * 2 ^ k <= n, r <= s
  PROVE  r * 2 ^ k <= n
<1>1. 2 ^ k \in Nat BY PowerType
<1>2. \A w \in Nat : r * w <= s * w
  <2> SUFFICES ASSUME NEW w \in Nat PROVE r * w <= s * w OBVIOUS
  <2>1. s * w - r * w = (s - r) * w OBVIOUS
  <2>2. (s - r) * w >= 0 OBVIOUS
  <2>3. s * w \in Int /\ r * w \in Int OBVIOUS
  <2> QED BY <2>1, <2>2, <2>3
<1>3. \A w \in Nat : s * w <= n => r * w <= n
  <2> SUFFICES ASSUME NEW w \in Nat, s * w <= n PROVE r * w <= n OBVIOUS
  <2>1. r * w <= s * w /\ s * w \in Int /\ r * w \in Int BY <1>2
  <2> QED BY <2>1
<1> QED BY <1>1, <1>3

LEMMA FitsHalf ==
  ASSUME NEW k \in Nat, NEW n \in Nat, NEW s \in Int, NEW r \in Int, s * 2 ^ k <= n, 2 * r <= s
  PROVE  r * 2 ^ (k + 1) <= n
<1>1. 2 ^ k \in Nat /\ 2 ^ (k + 1) = 2 * 2 ^ k BY PowerType, PowerSucc
<1>2. PICK d \in Int : d = 2 * r OBVIOUS
<1>3. d * 2 ^ k <= n BY <1>2, FitsSmaller
<1>4. \A w \in Nat : r * (2 * w) = (2 * r) * w OBVIOUS
<1> QED BY <1>1, <1>2, <1>3, <1>4

LEMMA WaitingIs ==
  ASSUME frames \in Seq(PartType), pc # "done"
  PROVE  /\ Len(frames) \in Nat /\ DOMAIN frames = 1 .. Len(frames)
         /\ DOMAIN Waiting = 1 .. Len(frames) + 1
         /\ Waiting[Len(frames) + 1] = <<l, u>>
         /\ \A k \in 1 .. Len(frames) : Waiting[k] = frames[k] /\ frames[k] \in PartType
BY DEF Waiting

LEMMA ShorterSeq ==
  ASSUME NEW S, NEW s \in Seq(S), Len(s) # 0
  PROVE  /\ SubSeq(s, 1, Len(s) - 1) \in Seq(S) /\ Len(SubSeq(s, 1, Len(s) - 1)) = Len(s) - 1
         /\ DOMAIN SubSeq(s, 1, Len(s) - 1) = 1 .. Len(s) - 1
         /\ \A k \in 1 .. Len(s) - 1 : SubSeq(s, 1, Len(s) - 1)[k] = s[k]
<1>1. PICK m \in Nat : m = Len(s) - 1 /\ m <= Len(s)
  <2>1. Len(s) \in Nat /\ Len(s) # 0 OBVIOUS
  <2>2. Len(s) - 1 \in Nat /\ Len(s) - 1 <= Len(s) BY <2>1
  <2> QED BY <2>2, Zenon
<1>2. SubSeq(s, 1, m) \in Seq(S) /\ Len(SubSeq(s, 1, m)) = m /\ DOMAIN SubSeq(s, 1, m) = 1 .. m BY <1>1
<1>3. \A k \in 1 .. m : SubSeq(s, 1, m)[k] = s[k] BY <1>1
<1> QED BY <1>1, <1>2, <1>3

\* The call that waits last goes on with its part, or all is sorted (the end of
\* auxsort).
LEMMA ReturnRight ==
  ASSUME NEW n \in Nat, Bounds(n), pc \in {"loop", "middle", "middle2"}, Return, rank' = rank, Kept(a', n),
         rank # Lawless => /\ Lawful(a', Waiting, n)
                           /\ \A x, y \in 1 .. n : l <= x /\ x < y /\ y <= u => Rk(a', x) <= Rk(a', y)
  PROVE  SortInvN(n)'
<1>0. /\ l \in Nat \ {0} /\ u \in Int /\ u <= n /\ up \in Nat /\ down \in Int
      /\ Fits(<<l, u>>, Len(frames), n) /\ frames \in Seq(PartType)
      /\ \A k \in DOMAIN frames : frames[k][2] <= n /\ Fits(frames[k], k - 1, n)
  BY DEF Bounds
<1>w. /\ Len(frames) \in Nat /\ DOMAIN frames = 1 .. Len(frames)
      /\ DOMAIN Waiting = 1 .. Len(frames) + 1
      /\ Waiting[Len(frames) + 1] = <<l, u>>
      /\ \A k \in 1 .. Len(frames) : Waiting[k] = frames[k] /\ frames[k] \in PartType
  BY <1>0, WaitingIs
<1>r. ASSUME rank # Lawless,
             DOMAIN Waiting' = 1 .. Len(frames), \A k \in 1 .. Len(frames) : Waiting'[k] = frames[k]
      PROVE  Lawful(a', Waiting', n)
  <2>0. /\ rank \in [1 .. n -> 1 .. n] /\ \A k \in 1 .. n : a'[k] # NilItem
        /\ Disjoint(Waiting, n) /\ Apart(a', Waiting, n)
        /\ \A x, y \in 1 .. n : l <= x /\ x < y /\ y <= u => Rk(a', x) <= Rk(a', y)
    BY <1>r DEF Lawful
  <2>1. \A k \in DOMAIN Waiting' : k \in DOMAIN Waiting /\ Waiting'[k] = Waiting[k] BY <1>r, <1>w
  <2>2. Disjoint(Waiting', n) BY <2>0, <2>1 DEF Disjoint
  <2>3. ASSUME NEW x \in 1 .. n, NEW y \in 1 .. n, x < y, ~(Rk(a', x) <= Rk(a', y))
        PROVE  \E k \in DOMAIN Waiting' : Within(Waiting'[k], x) /\ Within(Waiting'[k], y)
    <3>1. PICK k \in DOMAIN Waiting : Within(Waiting[k], x) /\ Within(Waiting[k], y) BY <2>0, <2>3 DEF Apart
    <3>2. k # Len(frames) + 1
      <4>1. SUFFICES ASSUME Within(<<l, u>>, x), Within(<<l, u>>, y) PROVE FALSE BY <3>1, <1>w
      <4>2. l <= x /\ y <= u BY <4>1 DEF Within
      <4> QED BY <4>2, <2>0, <2>3
    <3>3. k \in 1 .. Len(frames) BY <3>1, <3>2, <1>w
    <3> QED BY <3>1, <3>3, <1>r, <1>w
  <2>4. Apart(a', Waiting', n) BY <2>3 DEF Apart
  <2> QED BY <2>0, <2>2, <2>4 DEF Lawful
<1>k. Kept(a, n)' BY DEF Kept
<1>1. CASE frames = <<>>
  <2>1. pc' = "done" /\ UNCHANGED <<l, u, frames, up, down, P>> BY <1>1 DEF Return
  <2>2. Waiting' = <<>> /\ Len(frames) = 0 BY <1>1, <2>1 DEF Waiting
  <2>3. rank # Lawless => Lawful(a', Waiting', n) BY <2>2, <1>r
  <2>4. rank' # Lawless => Lawful(a, Waiting, n)' BY <2>3 DEF Lawful, Disjoint, Apart, Rk
  <2>5. Bounds(n)' BY <1>0, <2>1 DEF Bounds, Fits
  <2>6. Partitioned' BY <2>1 DEF Partitioned
  <2> QED BY <1>k, <1>1, <2>1, <2>4, <2>5, <2>6 DEF SortInvN, Lawless
<1>2. CASE frames # <<>>
  <2> DEFINE m == Len(frames)
             last == frames[m]
  <2>0. m \in Nat \ {0} /\ m \in DOMAIN frames BY <1>0, <1>2
  <2>1. /\ l' = last[1] /\ u' = last[2] /\ frames' = SubSeq(frames, 1, m - 1)
        /\ pc' = "loop" /\ UNCHANGED <<up, down, P>>
    BY <1>2 DEF Return, Last, Front
  <2>2. last \in PartType /\ last[2] <= n /\ Fits(last, m - 1, n) BY <1>0, <1>w, <2>0
  <2>3. l' \in Nat \ {0} /\ u' \in Int /\ u' <= n /\ last = <<l', u'>> BY <2>1, <2>2 DEF PartType
  <2>4. /\ frames' \in Seq(PartType) /\ Len(frames') = m - 1 /\ DOMAIN frames' = 1 .. m - 1
        /\ \A k \in 1 .. m - 1 : frames'[k] = frames[k]
    BY <1>0, <2>0, <2>1, ShorterSeq
  <2> HIDE DEF last, m
  <2>5. Waiting' = Append(frames', <<l', u'>>) BY <2>1 DEF Waiting
  <2>6. DOMAIN Waiting' = 1 .. m /\ \A k \in 1 .. m : Waiting'[k] = frames[k]
    <3>1. DOMAIN Waiting' = 1 .. m BY <2>0, <2>4, <2>5
    <3>2. \A k \in 1 .. m - 1 : Waiting'[k] = frames[k] BY <2>0, <2>4, <2>5
    <3>3. Waiting'[m] = <<l', u'>> BY <2>0, <2>4, <2>5
    <3>4. Waiting'[m] = frames[m] BY <3>3, <2>3 DEF last
    <3>5. \A k \in 1 .. m : k = m \/ k \in 1 .. m - 1 BY <2>0
    <3> QED BY <3>1, <3>2, <3>4, <3>5
  <2>7. rank # Lawless => Lawful(a', Waiting', n) BY <2>6, <1>r DEF m
  <2>8. rank' # Lawless => Lawful(a, Waiting, n)' BY <2>7 DEF Lawful, Disjoint, Apart, Rk
  <2>9. Bounds(n)'
    <3>1. Fits(<<l', u'>>, Len(frames'), n) BY <2>2, <2>3, <2>4
    <3>2. \A k \in DOMAIN frames' : frames'[k][2] <= n /\ Fits(frames'[k], k - 1, n)
      <4> SUFFICES ASSUME NEW k \in 1 .. m - 1 PROVE frames[k][2] <= n /\ Fits(frames[k], k - 1, n) BY <2>4
      <4>1. k \in DOMAIN frames BY <2>0, <1>w DEF m
      <4> QED BY <4>1, <1>0
    <3>3. up' \in Nat /\ down' \in Int BY <1>0, <2>1
    <3> QED BY <3>1, <3>2, <3>3, <2>1, <2>3, <2>4 DEF Bounds, Fits
  <2>10. Partitioned' BY <2>1 DEF Partitioned
  <2> QED BY <1>k, <2>1, <2>8, <2>9, <2>10 DEF SortInvN, Lawless
<1> QED BY <1>1, <1>2

Busy == {"loop", "middle", "middle2", "up", "down"}

\* A step that stays in its part.
LEMMA SamePart ==
  ASSUME NEW n \in Nat, Bounds(n), pc \in Busy, UNCHANGED <<l, u, frames, rank>>,
         pc' \in {"middle", "middle2", "up", "down", "error"}, Kept(a', n), up' \in Nat, down' \in Int,
         pc' \in {"middle", "middle2"} => l < up' /\ up' < u,
         pc' \in {"up", "down"} => l <= down' /\ down' <= u - 1 /\ u - l > 2,
         pc' = "up" => l <= up' /\ up' <= u,
         pc' = "down" => l + 1 <= up' /\ up' <= u + 1,
         rank # Lawless => Lawful(a', Waiting, n) /\ pc' # "error" /\ Partitioned'
  PROVE  SortInvN(n)'
<1>1. pc # "done" /\ pc' # "done" BY DEF Busy
<1>2. Waiting' = Waiting BY <1>1 DEF Waiting
<1>3. rank' # Lawless => Lawful(a, Waiting, n)' BY <1>2 DEF Lawful, Disjoint, Apart, Rk, Lawless
<1>4. Bounds(n)' BY DEF Bounds, Fits
<1>5. Kept(a, n)' BY DEF Kept
<1> QED BY <1>1, <1>3, <1>4, <1>5 DEF SortInvN, Lawless

\* Two elements of the part change places.
LEMMA SwapStep ==
  ASSUME NEW n \in Nat, Bounds(n), pc \in Busy, NEW b, Kept(b, n), Lawful(b, Waiting, n),
         NEW p \in Int, NEW q \in Int, l <= p, p <= u, l <= q, q <= u
  PROVE  /\ p \in 1 .. n /\ q \in 1 .. n
         /\ Kept(Swap(b, p, q), n) /\ Lawful(Swap(b, p, q), Waiting, n)
         /\ Rk(Swap(b, p, q), p) = Rk(b, q) /\ Rk(Swap(b, p, q), q) = Rk(b, p)
         /\ \A x \in 1 .. n : x # p /\ x # q => Rk(Swap(b, p, q), x) = Rk(b, x)
<1>0. frames \in Seq(PartType) /\ l \in Nat \ {0} /\ u \in Int /\ u <= n /\ pc # "done" BY DEF Bounds, Busy
<1>1. p \in 1 .. n /\ q \in 1 .. n /\ p \in 0 .. n + 1 /\ q \in 0 .. n + 1 BY <1>0
<1>2. PICK k \in DOMAIN Waiting : Waiting[k] = <<l, u>>
  <2>1. /\ Len(frames) \in Nat /\ DOMAIN Waiting = 1 .. Len(frames) + 1
        /\ Waiting[Len(frames) + 1] = <<l, u>>
    BY <1>0, WaitingIs
  <2>2. Len(frames) + 1 \in DOMAIN Waiting BY <2>1
  <2> QED BY <2>1, <2>2
<1>3. Waiting[k][1] = l /\ Waiting[k][2] = u BY <1>2
<1>4. Within(Waiting[k], p) /\ Within(Waiting[k], q) BY <1>3 DEF Within
<1>5. Kept(Swap(b, p, q), n) BY <1>1, SwapKept
<1>6. Waiting[k][1] \in Int /\ Waiting[k][2] \in Int BY <1>0, <1>3
<1> HIDE DEF Within
<1>7. /\ Lawful(Swap(b, p, q), Waiting, n)
      /\ Rk(Swap(b, p, q), p) = Rk(b, q) /\ Rk(Swap(b, p, q), q) = Rk(b, p)
      /\ \A x \in 1 .. n : x # p /\ x # q => Rk(Swap(b, p, q), x) = Rk(b, x)
  BY <1>1, <1>2, <1>4, <1>6, WithinPart
<1> QED BY <1>1, <1>5, <1>7

LEMMA Compare ==
  ASSUME NEW n \in Nat, rank # Lawless, NEW v \in 1 .. n, NEW w \in 1 .. n, NEW c \in sort_comp(v, w)
  PROVE  c <=> rank[v] < rank[w]
<1>1. NilItem \notin {v, w} BY DEF NilItem
<1>2. sort_comp(v, w) = {rank[v] < rank[w]} BY <1>1 DEF sort_comp
<1>3. c = (rank[v] < rank[w]) BY <1>2
<1> QED BY <1>3

LEMMA EndsRight == ASSUME NEW n \in Nat, SortInvN(n), Ends PROVE SortInvN(n)'
<1>0. /\ Kept(a, n) /\ Bounds(n)
      /\ rank # Lawless => Lawful(a, Waiting, n)
      /\ pc = "loop" /\ rank' = rank
  BY DEF SortInvN, Ends
<1>b. l \in Nat \ {0} /\ u \in Int /\ u <= n /\ pc \in Busy /\ up \in Nat /\ down \in Int
  BY <1>0 DEF Bounds, Busy
<1>1. CASE l >= u
  <2>1. Return /\ a' = a BY <1>1, <1>b DEF Ends
  <2>2. \A x, y \in 1 .. n : ~(l <= x /\ x < y /\ y <= u) BY <1>1, <1>b
  <2> QED BY <2>1, <2>2, <1>0, ReturnRight
<1>2. CASE l < u
  <2>1. PICK c \in sort_comp(a[u], a[l]) : a' = SwapIf(c, a, l, u) BY <1>2, <1>b DEF Ends
  <2>2. \/ u - l = 1 /\ Return
        \/ u - l > 1 /\ up' = (l + u) \div 2 /\ pc' = "middle" /\ UNCHANGED <<l, u, down, P, frames>>
    BY <1>2, <1>b DEF Ends
  <2>4. l \in 1 .. n /\ u \in 1 .. n /\ l \in 0 .. n + 1 /\ u \in 0 .. n + 1 BY <1>2, <1>b
  <2>5. Kept(a', n) BY <2>1, <2>4, <1>0, SwapKept DEF SwapIf
  <2>6. ASSUME rank # Lawless
        PROVE  Lawful(a', Waiting, n) /\ Rk(a', l) <= Rk(a', u)
    <3>1. Lawful(a, Waiting, n) BY <2>6, <1>0
    <3>2. Rk(a, l) \in Nat /\ Rk(a, u) \in Nat /\ a[l] \in 1 .. n /\ a[u] \in 1 .. n
      BY <3>1, <2>4, <1>0, RankType
    <3>3. c <=> Rk(a, u) < Rk(a, l) BY <2>6, <3>2, <2>1, Compare DEF Rk
    <3>4. CASE c
      <4>1. a' = Swap(a, l, u) BY <2>1, <3>4 DEF SwapIf
      <4>2. /\ Lawful(Swap(a, l, u), Waiting, n)
            /\ Rk(Swap(a, l, u), l) = Rk(a, u) /\ Rk(Swap(a, l, u), u) = Rk(a, l)
        BY <3>1, <1>0, <1>b, <1>2, SwapStep
      <4>3. Rk(Swap(a, l, u), l) <= Rk(Swap(a, l, u), u) BY <4>2, <3>2, <3>3, <3>4
      <4> QED BY <4>1, <4>2, <4>3
    <3>5. CASE ~c
      <4>1. a' = a BY <2>1, <3>5 DEF SwapIf
      <4>2. Rk(a, l) <= Rk(a, u) BY <3>2, <3>3, <3>5
      <4> QED BY <4>1, <4>2, <3>1
    <3> QED BY <3>4, <3>5
  <2>7. CASE u - l = 1 /\ Return
    <3>1. \A x, y \in 1 .. n : l <= x /\ x < y /\ y <= u => x = l /\ y = u BY <2>7, <1>b
    <3>2. rank # Lawless =>
            \A x, y \in 1 .. n : l <= x /\ x < y /\ y <= u => Rk(a', x) <= Rk(a', y)
      BY <3>1, <2>6
    <3> QED BY <2>5, <2>6, <2>7, <3>2, <1>0, ReturnRight
  <2>8. CASE u - l > 1 /\ up' = (l + u) \div 2 /\ pc' = "middle" /\ UNCHANGED <<l, u, down, P, frames>>
    <3>1. up' \in Nat /\ l < up' /\ up' < u BY <2>8, <1>b
    <3>2. rank # Lawless => Partitioned' BY <2>6, <2>8, <1>0 DEF Partitioned, Rk
    <3> QED BY <3>1, <3>2, <2>5, <2>6, <2>8, <1>0, <1>b, SamePart
  <2> QED BY <2>2, <2>7, <2>8
<1> QED BY <1>1, <1>2, <1>b

\* The pivot is the middle one of three elements (the end of their exchanges).
LEMMA PartitionRight ==
  ASSUME NEW n \in Nat, Bounds(n), pc \in {"middle", "middle2"}, rank' = rank, NEW b, Kept(b, n), Partition(b),
         rank # Lawless => /\ Lawful(b, Waiting, n)
                           /\ Rk(b, l) <= Rk(b, up) /\ Rk(b, up) <= Rk(b, u)
  PROVE  SortInvN(n)'
<1>b. /\ l \in Nat \ {0} /\ u \in Int /\ u <= n /\ pc \in Busy /\ up \in Nat /\ down \in Int
      /\ l < up /\ up < u
  BY DEF Bounds, Busy
<1>1. CASE u - l = 2 /\ a' = b /\ Return
  <2>1. ASSUME rank # Lawless, NEW x \in 1 .. n, NEW y \in 1 .. n, l <= x, x < y, y <= u
        PROVE  Rk(a', x) <= Rk(a', y)
    <3>1. up = l + 1 /\ u = l + 2 BY <1>1, <1>b
    <3>2. x = l \/ x = up BY <2>1, <3>1, <1>b
    <3>3. y = up \/ y = u BY <2>1, <3>1, <1>b
    <3>4. l \in 1 .. n /\ up \in 1 .. n /\ u \in 1 .. n BY <1>b
    <3>5. Rk(b, l) \in Nat /\ Rk(b, up) \in Nat /\ Rk(b, u) \in Nat BY <2>1, <3>4, RankType
    <3> QED BY <2>1, <3>2, <3>3, <3>5, <1>1
  <2> QED BY <2>1, <1>1, ReturnRight
<1>2. CASE /\ u - l > 2
           /\ P' = b[up] /\ a' = Swap(b, up, u - 1)
           /\ up' = l /\ down' = u - 1 /\ pc' = "up" /\ UNCHANGED <<l, u, frames>>
  <2>1. u - 1 \in Int /\ l <= u - 1 /\ u - 1 <= u /\ l < u - 1 /\ up \in 0 .. n + 1 /\ u - 1 \in 0 .. n + 1 BY <1>2, <1>b
  <2>2. Kept(a', n) BY <2>1, <1>2, SwapKept
  <2>3. ASSUME rank # Lawless PROVE Lawful(a', Waiting, n) /\ Partitioned'
    <3>1. /\ Lawful(a', Waiting, n) /\ Rk(a', u - 1) = Rk(b, up)
          /\ \A x \in 1 .. n : x # up /\ x # u - 1 => Rk(a', x) = Rk(b, x)
      BY <2>1, <2>3, <1>2, <1>b, SwapStep
    <3>2. l \in 1 .. n /\ u \in 1 .. n /\ up \in 1 .. n BY <1>b
    <3>3. Rk(a', l) = Rk(b, l) /\ Rk(a', u) = Rk(b, u) BY <3>1, <3>2, <2>1, <1>b
    <3>4. P' = a'[u - 1]
      <4>1. b \in [0 .. n + 1 -> 0 .. n] BY DEF Kept
      <4> QED BY <4>1, <1>2, <2>1 DEF Swap
    <3>5. rank[P'] = Rk(b, up) BY <1>2 DEF Rk
    <3>6. Rk(b, up) \in Nat BY <2>3, <3>2, RankType
    <3>7. \A x \in u - 1 .. u : rank[P'] <= Rk(a', x)
      <4>1. \A x \in u - 1 .. u : x = u - 1 \/ x = u BY <1>b
      <4> QED BY <4>1, <3>1, <3>3, <3>5, <3>6, <2>3
    <3>8. \A x \in l .. l : Rk(a', x) <= rank[P']
      <4>1. \A x \in l .. l : x = l BY <1>b
      <4> QED BY <4>1, <3>3, <3>5, <2>3
    <3>9. Partitioned' BY <3>4, <3>7, <3>8, <2>1, <1>2 DEF Partitioned, Rk
    <3> QED BY <3>1, <3>9
  <2>4. up' \in Nat /\ down' \in Int /\ l <= down' /\ down' <= u - 1 /\ l <= up' /\ up' <= u BY <1>2, <1>b, <2>1
  <2> QED BY <2>2, <2>3, <2>4, <1>2, <1>b, SamePart
<1> QED BY <1>1, <1>2 DEF Partition

LEMMA MiddleRight == ASSUME NEW n \in Nat, SortInvN(n), Middle PROVE SortInvN(n)'
<1>0. /\ Kept(a, n) /\ Bounds(n)
      /\ rank # Lawless => Lawful(a, Waiting, n) /\ Partitioned
      /\ pc = "middle" /\ rank' = rank
  BY DEF SortInvN, Middle
<1>b. /\ l \in Nat \ {0} /\ u \in Int /\ u <= n /\ pc \in Busy /\ up \in Nat /\ down \in Int
      /\ l < up /\ up < u
  BY <1>0 DEF Bounds, Busy
<1>i. l \in 1 .. n /\ u \in 1 .. n /\ up \in 1 .. n /\ l \in 0 .. n + 1 /\ up \in 0 .. n + 1 BY <1>b
<1>1. PICK c \in sort_comp(a[up], a[l]) :
         \/ c /\ Partition(Swap(a, up, l))
         \/ ~c /\ pc' = "middle2" /\ UNCHANGED <<a, l, u, up, down, P, frames>>
  BY DEF Middle
<1>2. ASSUME rank # Lawless
      PROVE  /\ Lawful(a, Waiting, n) /\ Partitioned
             /\ Rk(a, l) \in Nat /\ Rk(a, up) \in Nat /\ Rk(a, u) \in Nat
             /\ c <=> Rk(a, up) < Rk(a, l)
  <2>1. Lawful(a, Waiting, n) /\ Partitioned BY <1>0, <1>2
  <2>2. /\ Rk(a, l) \in Nat /\ Rk(a, up) \in Nat /\ Rk(a, u) \in Nat
        /\ a[l] \in 1 .. n /\ a[up] \in 1 .. n
    BY <2>1, <1>0, <1>i, RankType
  <2> QED BY <2>1, <2>2, <1>1, <1>2, Compare DEF Rk
<1>3. CASE c /\ Partition(Swap(a, up, l))
  <2>1. Kept(Swap(a, up, l), n) BY <1>0, <1>i, SwapKept
  <2>2. ASSUME rank # Lawless
        PROVE  /\ Lawful(Swap(a, up, l), Waiting, n)
               /\ Rk(Swap(a, up, l), l) <= Rk(Swap(a, up, l), up)
               /\ Rk(Swap(a, up, l), up) <= Rk(Swap(a, up, l), u)
    <3>1. /\ Lawful(Swap(a, up, l), Waiting, n)
          /\ Rk(Swap(a, up, l), up) = Rk(a, l) /\ Rk(Swap(a, up, l), l) = Rk(a, up)
          /\ \A x \in 1 .. n : x # up /\ x # l => Rk(Swap(a, up, l), x) = Rk(a, x)
      BY <2>2, <1>0, <1>2, <1>b, SwapStep
    <3>2. Rk(Swap(a, up, l), u) = Rk(a, u) BY <3>1, <1>b, <1>i
    <3>3. Rk(a, l) <= Rk(a, u) BY <2>2, <1>0, <1>2 DEF Partitioned
    <3> QED BY <3>1, <3>2, <3>3, <2>2, <1>2, <1>3
  <2> QED BY <2>1, <2>2, <1>0, <1>3, PartitionRight
<1>4. CASE ~c /\ pc' = "middle2" /\ UNCHANGED <<a, l, u, up, down, P, frames>>
  <2>1. rank # Lawless => Partitioned'
    <3> SUFFICES ASSUME rank # Lawless PROVE Partitioned' OBVIOUS
    <3>1. Rk(a, l) <= Rk(a, up) BY <1>2, <1>4
    <3>2. Rk(a, l) <= Rk(a, u) BY <1>0 DEF Partitioned
    <3> QED BY <3>1, <3>2, <1>0, <1>4 DEF Partitioned, Rk
  <2> QED BY <2>1, <1>0, <1>b, <1>4, SamePart
<1> QED BY <1>1, <1>3, <1>4

LEMMA Middle2Right == ASSUME NEW n \in Nat, SortInvN(n), Middle2 PROVE SortInvN(n)'
<1>0. /\ Kept(a, n) /\ Bounds(n)
      /\ rank # Lawless => Lawful(a, Waiting, n) /\ Partitioned
      /\ pc = "middle2" /\ rank' = rank
  BY DEF SortInvN, Middle2
<1>b. /\ l \in Nat \ {0} /\ u \in Int /\ u <= n /\ pc \in Busy /\ up \in Nat /\ down \in Int
      /\ l < up /\ up < u
  BY <1>0 DEF Bounds, Busy
<1>i. l \in 1 .. n /\ u \in 1 .. n /\ up \in 1 .. n /\ u \in 0 .. n + 1 /\ up \in 0 .. n + 1 BY <1>b
<1>1. PICK c \in sort_comp(a[u], a[up]) : Partition(SwapIf(c, a, up, u)) BY DEF Middle2
<1>2. ASSUME rank # Lawless
      PROVE  /\ Lawful(a, Waiting, n) /\ Rk(a, l) <= Rk(a, u) /\ Rk(a, l) <= Rk(a, up)
             /\ Rk(a, l) \in Nat /\ Rk(a, up) \in Nat /\ Rk(a, u) \in Nat
             /\ c <=> Rk(a, u) < Rk(a, up)
  <2>1. Lawful(a, Waiting, n) /\ Partitioned BY <1>0, <1>2
  <2>2. /\ Rk(a, l) \in Nat /\ Rk(a, up) \in Nat /\ Rk(a, u) \in Nat
        /\ a[u] \in 1 .. n /\ a[up] \in 1 .. n
    BY <2>1, <1>0, <1>i, RankType
  <2>3. Rk(a, l) <= Rk(a, u) /\ Rk(a, l) <= Rk(a, up) BY <2>1, <1>0 DEF Partitioned
  <2> QED BY <2>1, <2>2, <2>3, <1>1, <1>2, Compare DEF Rk
<1>3. CASE c
  <2>0. Partition(Swap(a, up, u)) BY <1>1, <1>3 DEF SwapIf
  <2>1. Kept(Swap(a, up, u), n) BY <1>0, <1>i, SwapKept
  <2>2. ASSUME rank # Lawless
        PROVE  /\ Lawful(Swap(a, up, u), Waiting, n)
               /\ Rk(Swap(a, up, u), l) <= Rk(Swap(a, up, u), up)
               /\ Rk(Swap(a, up, u), up) <= Rk(Swap(a, up, u), u)
    <3>1. /\ Lawful(Swap(a, up, u), Waiting, n)
          /\ Rk(Swap(a, up, u), up) = Rk(a, u) /\ Rk(Swap(a, up, u), u) = Rk(a, up)
          /\ \A x \in 1 .. n : x # up /\ x # u => Rk(Swap(a, up, u), x) = Rk(a, x)
      BY <2>2, <1>0, <1>2, <1>b, SwapStep
    <3>2. Rk(Swap(a, up, u), l) = Rk(a, l) BY <3>1, <1>b, <1>i
    <3> QED BY <3>1, <3>2, <2>2, <1>2, <1>3
  <2> QED BY <2>0, <2>1, <2>2, <1>0, PartitionRight
<1>4. CASE ~c
  <2>1. Partition(a) BY <1>1, <1>4 DEF SwapIf
  <2>2. rank # Lawless => Lawful(a, Waiting, n) /\ Rk(a, l) <= Rk(a, up) /\ Rk(a, up) <= Rk(a, u)
    BY <1>2, <1>4
  <2> QED BY <2>1, <2>2, <1>0, PartitionRight
<1> QED BY <1>3, <1>4

LEMMA UpRight == ASSUME NEW n \in Nat, SortInvN(n), Up PROVE SortInvN(n)'
<1>0. /\ Kept(a, n) /\ Bounds(n)
      /\ rank # Lawless => Lawful(a, Waiting, n) /\ Partitioned
      /\ pc = "up" /\ rank' = rank /\ up' = up + 1 /\ UNCHANGED <<a, l, u, down, P, frames>>
  BY DEF SortInvN, Up
<1>b. /\ l \in Nat \ {0} /\ u \in Int /\ u <= n /\ pc \in Busy /\ up \in Nat /\ down \in Int
      /\ l <= down /\ down <= u - 1 /\ u - l > 2 /\ l <= up /\ up <= u
  BY <1>0 DEF Bounds, Busy
<1>1. PICK c \in sort_comp(a[up + 1], P) :
         pc' = IF ~c THEN "down" ELSE IF up + 1 > u THEN "error" ELSE pc
  BY DEF Up
<1>2. pc' = "up" => up + 1 <= u BY <1>1, <1>b, <1>0
<1>3. ASSUME rank # Lawless PROVE Lawful(a', Waiting, n) /\ pc' # "error" /\ Partitioned'
  <2>0. Lawful(a, Waiting, n) /\ Partitioned BY <1>0, <1>3
  <2>1. /\ P = a[u - 1] /\ l < down /\ \A x \in down .. u : rank[P] <= Rk(a, x)
        /\ up < u - 1 /\ \A x \in l .. up : Rk(a, x) <= rank[P]
    BY <2>0, <1>0 DEF Partitioned
  <2>2. up + 1 \in 1 .. n /\ u - 1 \in 1 .. n /\ up + 1 <= u - 1 BY <2>1, <1>b
  <2>3. /\ a[up + 1] \in 1 .. n /\ P \in 1 .. n /\ Rk(a, up + 1) \in Nat /\ rank[P] \in Nat
        /\ Rk(a, u - 1) = rank[P]
    BY <2>0, <2>1, <2>2, <1>0, RankType DEF Rk
  <2>4. c <=> Rk(a, up + 1) < rank[P] BY <2>3, <1>1, <1>3, Compare DEF Rk
  <2>5. CASE c
    <3>1. up + 1 # u - 1 BY <2>3, <2>4, <2>5
    <3>2. up + 1 < u - 1 /\ ~(up + 1 > u) BY <3>1, <2>2, <1>b
    <3>3. pc' = "up" BY <3>2, <2>5, <1>1, <1>0
    <3>4. \A x \in l .. up + 1 : Rk(a, x) <= rank[P]
      <4>1. \A x \in l .. up + 1 : x = up + 1 \/ x \in l .. up BY <1>b
      <4> QED BY <4>1, <2>1, <2>3, <2>4, <2>5
    <3> QED BY <3>2, <3>3, <3>4, <2>0, <2>1, <1>0 DEF Partitioned, Rk
  <2>6. CASE ~c
    <3>1. pc' = "down" BY <2>6, <1>1
    <3>2. rank[P] <= Rk(a, up + 1) BY <2>3, <2>4, <2>6
    <3>3. up + 1 < u /\ \A x \in l .. (up + 1) - 1 : x \in l .. up BY <2>2, <1>b
    <3> QED BY <3>1, <3>2, <3>3, <2>0, <2>1, <1>0 DEF Partitioned, Rk
  <2> QED BY <2>5, <2>6
<1>4. pc' \in {"up", "down", "error"} BY <1>1, <1>0
<1>5. up' \in Nat /\ l <= up' /\ l + 1 <= up' /\ up' <= u + 1 /\ (pc' = "up" => up' <= u) BY <1>0, <1>b, <1>2
<1> QED BY <1>0, <1>b, <1>3, <1>4, <1>5, SamePart

\* What is left and right of the pivot becomes a part each (Recurse).
LEMMA CutPart ==
  ASSUME NEW n \in Nat, Bounds(n), pc \in Busy, NEW c, Kept(c, n), Lawful(c, Waiting, n),
         NEW m \in 1 .. n, l <= m, m <= u,
         \A x \in l .. m : Rk(c, x) <= Rk(c, m), \A x \in m .. u : Rk(c, m) <= Rk(c, x),
         NEW big, NEW small,
         (big = <<l, m - 1>> /\ small = <<m + 1, u>>) \/ (big = <<m + 1, u>> /\ small = <<l, m - 1>>),
         NEW ps, DOMAIN ps = 1 .. Len(frames) + 2,
         ps[Len(frames) + 1] = big, ps[Len(frames) + 2] = small,
         \A k \in 1 .. Len(frames) : ps[k] = frames[k]
  PROVE  Lawful(c, ps, n)
<1>0. frames \in Seq(PartType) /\ l \in Nat \ {0} /\ u \in Int /\ u <= n /\ pc # "done" BY DEF Bounds, Busy
<1> DEFINE N == Len(frames)
<1>w. /\ N \in Nat /\ DOMAIN frames = 1 .. N
      /\ DOMAIN Waiting = 1 .. N + 1 /\ Waiting[N + 1] = <<l, u>>
      /\ \A k \in 1 .. N : Waiting[k] = frames[k]
  BY <1>0, WaitingIs
<1> HIDE DEF N
<1>p. /\ DOMAIN ps = 1 .. N + 2 /\ ps[N + 1] = big /\ ps[N + 2] = small
      /\ \A k \in 1 .. N : ps[k] = frames[k]
  BY DEF N
<1> DEFINE L(x) == l <= x /\ x <= m - 1
           H(x) == m + 1 <= x /\ x <= u
<1>1. \A x \in 1 .. n : /\ Within(big, x) \/ Within(small, x) <=> L(x) \/ H(x)
                        /\ ~(Within(big, x) /\ Within(small, x))
                        /\ Within(<<l, u>>, x) <=> L(x) \/ H(x) \/ x = m
                        /\ Within(<<l, u>>, x) <=> l <= x /\ x <= u
  <2>1. \A v, w, x : Within(<<v, w>>, x) <=> v <= x /\ x <= w BY DEF Within
  <2>2. CASE big = <<l, m - 1>> /\ small = <<m + 1, u>> BY <2>1, <2>2, <1>0
  <2>3. CASE big = <<m + 1, u>> /\ small = <<l, m - 1>> BY <2>1, <2>3, <1>0
  <2> QED BY <2>2, <2>3
<1>2. \A x, y \in 1 .. n : L(x) /\ L(y) => \E k \in DOMAIN ps : Within(ps[k], x) /\ Within(ps[k], y)
  <2>1. \A v, w, x : Within(<<v, w>>, x) <=> v <= x /\ x <= w BY DEF Within
  <2>2. N + 1 \in DOMAIN ps /\ N + 2 \in DOMAIN ps BY <1>p, <1>w
  <2>3. PICK k \in DOMAIN ps : ps[k] = <<l, m - 1>> BY <2>2, <1>p
  <2>4. \A x : L(x) => Within(ps[k], x) BY <2>1, <2>3
  <2> QED BY <2>3, <2>4, Zenon
<1>3. \A x, y \in 1 .. n : H(x) /\ H(y) => \E k \in DOMAIN ps : Within(ps[k], x) /\ Within(ps[k], y)
  <2>1. \A v, w, x : Within(<<v, w>>, x) <=> v <= x /\ x <= w BY DEF Within
  <2>2. N + 1 \in DOMAIN ps /\ N + 2 \in DOMAIN ps BY <1>p, <1>w
  <2>3. PICK k \in DOMAIN ps : ps[k] = <<m + 1, u>> BY <2>2, <1>p
  <2> QED BY <2>1, <2>3
<1>r. \A x \in 1 .. n : Rk(c, x) \in Nat BY RankType
<1>4. Apart(c, ps, n)
  <2> SUFFICES ASSUME NEW x \in 1 .. n, NEW y \in 1 .. n, x < y, ~(Rk(c, x) <= Rk(c, y))
               PROVE  \E k \in DOMAIN ps : Within(ps[k], x) /\ Within(ps[k], y)
    BY DEF Apart
  <2>1. PICK k \in DOMAIN Waiting : Within(Waiting[k], x) /\ Within(Waiting[k], y) BY DEF Lawful, Apart
  <2>2. CASE k \in 1 .. N
    <3>1. k \in DOMAIN ps /\ ps[k] = Waiting[k] BY <2>2, <1>w, <1>p
    <3> QED BY <3>1, <2>1
  <2>3. CASE k = N + 1
    <3>1. Within(<<l, u>>, x) /\ Within(<<l, u>>, y) BY <2>1, <2>3, <1>w
    <3>2. (L(x) \/ H(x) \/ x = m) /\ (L(y) \/ H(y) \/ y = m) /\ l <= x /\ x <= u /\ l <= y /\ y <= u
      BY <3>1, <1>1
    <3>3. ~(x <= m /\ m <= y)
      <4> SUFFICES ASSUME x <= m, m <= y PROVE FALSE OBVIOUS
      <4>1. x \in l .. m /\ y \in m .. u BY <3>2, <1>0
      <4>2. Rk(c, x) <= Rk(c, m) /\ Rk(c, m) <= Rk(c, y) BY <4>1
      <4>3. Rk(c, x) \in Nat /\ Rk(c, m) \in Nat /\ Rk(c, y) \in Nat BY <1>r
      <4> QED BY <4>2, <4>3
    <3>4. (L(x) /\ L(y)) \/ (H(x) /\ H(y)) BY <3>2, <3>3, <1>0
    <3> HIDE DEF L, H
    <3> QED BY <3>4, <1>2, <1>3
  <2>4. k \in 1 .. N \/ k = N + 1 BY <2>1, <1>w
  <2> QED BY <2>2, <2>3, <2>4
<1> HIDE DEF L, H
<1>5. Disjoint(ps, n)
  <2> SUFFICES ASSUME NEW k \in DOMAIN ps, NEW j \in DOMAIN ps, k # j, NEW x \in 1 .. n,
                      Within(ps[k], x), Within(ps[j], x)
               PROVE  FALSE
    BY DEF Disjoint
  <2>0. (k \in 1 .. N \/ k = N + 1 \/ k = N + 2) /\ (j \in 1 .. N \/ j = N + 1 \/ j = N + 2)
        /\ N + 1 \in DOMAIN Waiting /\ N + 1 \notin 1 .. N
    BY <1>p, <1>w
  <2>d. \A v, w \in DOMAIN Waiting : v # w => ~(Within(Waiting[v], x) /\ Within(Waiting[w], x))
    BY DEF Lawful, Disjoint
  <2>1. CASE k \in 1 .. N /\ j \in 1 .. N
    <3>1. k \in DOMAIN Waiting /\ j \in DOMAIN Waiting /\ ps[k] = Waiting[k] /\ ps[j] = Waiting[j]
      BY <2>1, <1>w, <1>p
    <3> QED BY <3>1, <2>d
  <2>2. ASSUME NEW v \in 1 .. N, NEW w, w = N + 1 \/ w = N + 2, Within(ps[v], x), Within(ps[w], x) PROVE FALSE
    <3>1. v \in DOMAIN Waiting /\ ps[v] = Waiting[v] /\ v # N + 1 BY <2>0, <1>w, <1>p
    <3>2. Within(big, x) \/ Within(small, x) BY <2>2, <1>p
    <3>3. Within(Waiting[N + 1], x) BY <3>2, <1>1, <1>w
    <3> QED BY <3>1, <3>3, <2>d, <2>0, <2>2
  <2>3. CASE k \in 1 .. N /\ (j = N + 1 \/ j = N + 2) BY <2>2, <2>3
  <2>4. CASE j \in 1 .. N /\ (k = N + 1 \/ k = N + 2) BY <2>2, <2>4
  <2>5. CASE (k = N + 1 \/ k = N + 2) /\ (j = N + 1 \/ j = N + 2) BY <2>5, <1>1, <1>p
  <2> QED BY <2>0, <2>1, <2>3, <2>4, <2>5
<1> QED BY <1>4, <1>5 DEF Lawful

\* The smaller side of the pivot is sorted first, in another call.
LEMMA RecurseRight ==
  ASSUME NEW n \in Nat, Bounds(n), pc = "down", Recurse, rank' = rank, up' = up, down' = down - 1, Kept(a', n),
         rank # Lawless =>
           /\ Lawful(a', Waiting, n) /\ up < u
           /\ \A x \in l .. up : Rk(a', x) <= Rk(a', up)
           /\ \A x \in up .. u : Rk(a', up) <= Rk(a', x)
  PROVE  SortInvN(n)'
<1>b. /\ l \in Nat \ {0} /\ u \in Int /\ u <= n /\ pc \in Busy /\ up \in Nat /\ down \in Int
      /\ l + 1 <= up /\ up <= u + 1 /\ frames \in Seq(PartType) /\ Len(frames) \in Nat /\ DOMAIN frames = 1 .. Len(frames)
      /\ Fits(<<l, u>>, Len(frames), n)
      /\ \A k \in DOMAIN frames : frames[k][2] <= n /\ Fits(frames[k], k - 1, n)
  BY DEF Bounds, Busy
<1>1. PICK big \in PartType, small \in PartType :
        /\ (big = <<l, up - 1>> /\ small = <<up + 1, u>>) \/ (big = <<up + 1, u>> /\ small = <<l, up - 1>>)
        /\ frames' = Append(frames, big) /\ l' = small[1] /\ u' = small[2] /\ pc' = "loop"
        /\ 2 * (small[2] - small[1] + 1) <= u - l + 1 /\ big[2] - big[1] <= u - l
  <2>1. <<l, up - 1>> \in PartType /\ <<up + 1, u>> \in PartType BY <1>b DEF PartType
  <2>2. CASE up - l < u - up
    <3>1. frames' = Append(frames, <<up + 1, u>>) /\ l' = l /\ u' = up - 1 /\ pc' = "loop" BY <2>2 DEF Recurse
    <3>2. 2 * ((up - 1) - l + 1) <= u - l + 1 /\ u - (up + 1) <= u - l BY <2>2, <1>b
    <3> QED BY <2>1, <3>1, <3>2
  <2>3. CASE ~(up - l < u - up)
    <3>1. frames' = Append(frames, <<l, up - 1>>) /\ l' = up + 1 /\ u' = u /\ pc' = "loop" BY <2>3 DEF Recurse
    <3>2. 2 * (u - (up + 1) + 1) <= u - l + 1 /\ (up - 1) - l <= u - l BY <2>3, <1>b
    <3> QED BY <2>1, <3>1, <3>2
  <2> QED BY <2>2, <2>3
<1>2. small[1] \in Nat \ {0} /\ small[2] \in Int /\ big[1] \in Nat \ {0} /\ big[2] \in Int
      /\ small[2] <= n /\ big[2] <= n /\ small = <<l', u'>>
  <2>1. \A p \in PartType : p[1] \in Nat \ {0} /\ p[2] \in Int /\ p = <<p[1], p[2]>> BY DEF PartType
  <2>2. \A v, w : <<v, w>>[2] = w OBVIOUS
  <2>3. small[2] <= n /\ big[2] <= n BY <2>2, <1>1, <1>b
  <2> QED BY <2>1, <2>3, <1>1
<1>3. /\ frames' \in Seq(PartType) /\ Len(frames') = Len(frames) + 1
      /\ DOMAIN frames' = DOMAIN frames \cup {Len(frames) + 1} /\ frames'[Len(frames) + 1] = big
      /\ \A k \in DOMAIN frames : frames'[k] = frames[k]
  BY <1>1, <1>b, SeqAppend
<1>4. Fits(<<l', u'>>, Len(frames'), n) /\ Fits(big, Len(frames), n)
  <2>1. (u - l + 1) * 2 ^ Len(frames) <= n BY <1>b DEF Fits
  <2>2. PICK s \in Int, r \in Int, v \in Int : s = u - l + 1 /\ r = small[2] - small[1] + 1 /\ v = big[2] - big[1] + 1
    <3>0. /\ u \in Int /\ l \in Int /\ small[1] \in Int /\ small[2] \in Int
          /\ big[1] \in Int /\ big[2] \in Int
      BY <1>b, <1>2
    <3>1. \A x, y \in Int : x - y + 1 \in Int OBVIOUS
    <3>2. u - l + 1 \in Int /\ small[2] - small[1] + 1 \in Int /\ big[2] - big[1] + 1 \in Int
      BY <3>0, <3>1, Zenon
    <3> QED BY <3>2, Zenon
  <2>3. s * 2 ^ Len(frames) <= n /\ 2 * r <= s /\ v <= s BY <2>1, <2>2, <1>1, <1>2, <1>b
  <2>4. r * 2 ^ (Len(frames) + 1) <= n BY <2>3, <1>b, FitsHalf
  <2>5. v * 2 ^ Len(frames) <= n BY <2>3, <1>b, FitsSmaller
  <2> QED BY <2>2, <2>4, <2>5, <1>2, <1>3 DEF Fits
<1>5. Bounds(n)'
  <2>1. \A k \in DOMAIN frames' : frames'[k][2] <= n /\ Fits(frames'[k], k - 1, n)
    <3> SUFFICES ASSUME NEW k \in DOMAIN frames' PROVE frames'[k][2] <= n /\ Fits(frames'[k], k - 1, n) OBVIOUS
    <3>1. CASE k \in DOMAIN frames BY <3>1, <1>b, <1>3
    <3>2. CASE k = Len(frames) + 1
      <4>1. k - 1 = Len(frames) BY <3>2, <1>b
      <4> QED BY <4>1, <3>2, <1>2, <1>3, <1>4
    <3> QED BY <3>1, <3>2, <1>3
  <2>2. up' \in Nat /\ down' \in Int BY <1>b
  <2> QED BY <2>1, <2>2, <1>1, <1>2, <1>3, <1>4 DEF Bounds, Fits
<1>6. rank # Lawless => Lawful(a', Waiting', n)
  <2> SUFFICES ASSUME rank # Lawless PROVE Lawful(a', Waiting', n) OBVIOUS
  <2>1. Waiting' = Append(frames', small) BY <1>1, <1>2 DEF Waiting
  <2>2. /\ DOMAIN Waiting' = DOMAIN frames' \cup {Len(frames') + 1} /\ Waiting'[Len(frames') + 1] = small
        /\ \A k \in DOMAIN frames' : Waiting'[k] = frames'[k]
    BY <2>1, <1>1, <1>3, SeqAppend
  <2>3. DOMAIN Waiting' = 1 .. Len(frames) + 2 BY <2>2, <1>3, <1>b
  <2>4. Waiting'[Len(frames) + 1] = big /\ Waiting'[Len(frames) + 2] = small
    <3>1. Len(frames') + 1 = Len(frames) + 2 BY <1>3, <1>b
    <3> QED BY <3>1, <2>2, <1>3
  <2>5. \A k \in 1 .. Len(frames) : Waiting'[k] = frames[k] BY <2>2, <1>3, <1>b
  <2>6. up \in 1 .. n /\ l <= up /\ up <= u /\ pc \in Busy BY <1>b
  <2> QED BY <2>3, <2>4, <2>5, <2>6, <1>1, CutPart
<1>7. rank' # Lawless => Lawful(a, Waiting, n)' BY <1>6 DEF Lawful, Disjoint, Apart, Rk, Lawless
<1>8. Kept(a, n)' BY DEF Kept
<1>9. Partitioned' BY <1>1 DEF Partitioned
<1> QED BY <1>1, <1>5, <1>7, <1>8, <1>9 DEF SortInvN, Lawless

LEMMA DownRight == ASSUME NEW n \in Nat, SortInvN(n), Down PROVE SortInvN(n)'
<1>0. /\ Kept(a, n) /\ Bounds(n)
      /\ rank # Lawless => Lawful(a, Waiting, n) /\ Partitioned
      /\ pc = "down" /\ rank' = rank /\ down' = down - 1 /\ UNCHANGED <<up, P>>
  BY DEF SortInvN, Down
<1>b. /\ l \in Nat \ {0} /\ u \in Int /\ u <= n /\ pc \in Busy /\ up \in Nat /\ down \in Int
      /\ l <= down /\ down <= u - 1 /\ u - l > 2 /\ l + 1 <= up /\ up <= u + 1
  BY <1>0 DEF Bounds, Busy
<1>1. PICK c \in sort_comp(P, a[down - 1]) :
         \/ c /\ pc' = (IF down - 1 < l THEN "error" ELSE pc) /\ UNCHANGED <<a, l, u, frames>>
         \/ ~c /\ down - 1 < up /\ a' = Swap(a, u - 1, up) /\ Recurse
         \/ ~c /\ down - 1 >= up /\ a' = Swap(a, up, down - 1) /\ pc' = "up" /\ UNCHANGED <<l, u, frames>>
  BY DEF Down
<1>2. ASSUME rank # Lawless
      PROVE  /\ Lawful(a, Waiting, n) /\ P = a[u - 1] /\ l < down
             /\ \A x \in down .. u : rank[P] <= Rk(a, x)
             /\ up < u /\ rank[P] <= Rk(a, up) /\ \A x \in l .. up - 1 : Rk(a, x) <= rank[P]
             /\ rank[P] \in Nat /\ Rk(a, u - 1) = rank[P]
             /\ \A x \in 1 .. n : Rk(a, x) \in Nat
             /\ c <=> rank[P] < Rk(a, down - 1)
             /\ down - 1 \in 1 .. n /\ up \in 1 .. n /\ u - 1 \in 1 .. n
  <2>0. Lawful(a, Waiting, n) /\ Partitioned BY <1>0, <1>2
  <2>1. /\ P = a[u - 1] /\ l < down
        /\ \A x \in down .. u : rank[P] <= Rk(a, x)
        /\ up < u /\ rank[P] <= Rk(a, up) /\ \A x \in l .. up - 1 : Rk(a, x) <= rank[P]
    BY <2>0, <1>0 DEF Partitioned
  <2>2. down - 1 \in 1 .. n /\ up \in 1 .. n /\ u - 1 \in 1 .. n BY <2>1, <1>b
  <2>3. /\ a[down - 1] \in 1 .. n /\ P \in 1 .. n /\ \A x \in 1 .. n : Rk(a, x) \in Nat
        /\ Rk(a, u - 1) = rank[P]
    BY <2>0, <2>1, <2>2, <1>0, RankType DEF Rk
  <2>4. rank[P] \in Nat BY <2>2, <2>3
  <2>5. c <=> rank[P] < Rk(a, down - 1) BY <2>3, <1>1, <1>2, Compare DEF Rk
  <2> QED BY <2>0, <2>1, <2>2, <2>3, <2>4, <2>5
<1>3. CASE c /\ pc' = (IF down - 1 < l THEN "error" ELSE pc) /\ UNCHANGED <<a, l, u, frames>>
  <2>1. ASSUME rank # Lawless PROVE Lawful(a', Waiting, n) /\ pc' # "error" /\ Partitioned'
    <3>1. down - 1 # l
      <4> SUFFICES ASSUME down - 1 = l PROVE FALSE OBVIOUS
      <4>1. l \in l .. up - 1 BY <1>b
      <4>2. Rk(a, l) <= rank[P] /\ rank[P] < Rk(a, l) BY <4>1, <2>1, <1>2, <1>3
      <4>3. Rk(a, l) \in Nat /\ rank[P] \in Nat BY <2>1, <1>2
      <4> QED BY <4>2, <4>3
    <3>2. l < down - 1 BY <3>1, <2>1, <1>2, <1>b
    <3>3. pc' = "down" BY <3>2, <1>0, <1>3, <1>b
    <3>4. \A x \in down - 1 .. u : rank[P] <= Rk(a, x)
      <4>1. \A x \in down - 1 .. u : x = down - 1 \/ x \in down .. u BY <1>b
      <4>2. rank[P] <= Rk(a, down - 1)
        <5>1. rank[P] < Rk(a, down - 1) /\ rank[P] \in Nat /\ Rk(a, down - 1) \in Nat BY <2>1, <1>2, <1>3
        <5> QED BY <5>1
      <4> QED BY <4>1, <4>2, <2>1, <1>2
    <3> QED BY <3>2, <3>3, <3>4, <2>1, <1>0, <1>2, <1>3 DEF Partitioned, Rk
  <2>2. pc' \in {"down", "error"} /\ (pc' = "down" => l <= down - 1) BY <1>0, <1>3, <1>b
  <2>3. down' \in Int /\ down' <= u - 1 BY <1>0, <1>b
  <2> QED BY <2>1, <2>2, <2>3, <1>0, <1>b, <1>3, SamePart
<1>4. CASE ~c /\ down - 1 < up /\ a' = Swap(a, u - 1, up) /\ Recurse
  <2>1. u - 1 \in 0 .. n + 1 /\ up \in 0 .. n + 1 BY <1>b
  <2>2. Kept(a', n) BY <2>1, <1>0, <1>4, SwapKept
  <2>3. ASSUME rank # Lawless
        PROVE  /\ Lawful(a', Waiting, n) /\ up < u
               /\ \A x \in l .. up : Rk(a', x) <= Rk(a', up)
               /\ \A x \in up .. u : Rk(a', up) <= Rk(a', x)
    <3>0. up < u /\ l <= u - 1 /\ u - 1 <= u /\ l <= up /\ up <= u /\ u - 1 \in Int /\ up \in Int BY <2>3, <1>2, <1>b
    <3>1. /\ Lawful(a', Waiting, n) /\ Rk(a', up) = Rk(a, u - 1) /\ Rk(a', u - 1) = Rk(a, up)
          /\ \A x \in 1 .. n : x # up /\ x # u - 1 => Rk(a', x) = Rk(a, x)
      BY <3>0, <2>3, <1>0, <1>2, <1>4, <1>b, SwapStep
    <3>2. Rk(a', up) = rank[P] /\ rank[P] \in Nat BY <3>1, <2>3, <1>2
    <3>3. ASSUME NEW x \in l .. up PROVE Rk(a', x) <= Rk(a', up)
      <4>1. CASE x = up BY <4>1, <3>2
      <4>2. CASE x # up
        <5>1. x \in l .. up - 1 /\ x \in 1 .. n /\ x # u - 1 BY <4>2, <3>0, <1>b
        <5> QED BY <5>1, <4>2, <3>1, <3>2, <2>3, <1>2
      <4> QED BY <4>1, <4>2
    <3>4. ASSUME NEW x \in up .. u PROVE Rk(a', up) <= Rk(a', x)
      <4>1. CASE x = up BY <4>1, <3>2
      <4>2. CASE x # up /\ x = u - 1 BY <4>2, <3>1, <3>2, <2>3, <1>2
      <4>3. CASE x # up /\ x # u - 1
        <5>1. x \in down .. u /\ x \in 1 .. n BY <4>3, <1>4, <1>b
        <5> QED BY <5>1, <4>3, <3>1, <3>2, <2>3, <1>2
      <4> QED BY <4>1, <4>2, <4>3
    <3> QED BY <3>0, <3>1, <3>3, <3>4
  <2> QED BY <2>2, <2>3, <1>0, <1>4, RecurseRight
<1>5. CASE ~c /\ down - 1 >= up /\ a' = Swap(a, up, down - 1) /\ pc' = "up" /\ UNCHANGED <<l, u, frames>>
  <2>1. up \in 0 .. n + 1 /\ down - 1 \in 0 .. n + 1 BY <1>5, <1>b
  <2>2. Kept(a', n) BY <2>1, <1>0, <1>5, SwapKept
  <2>3. ASSUME rank # Lawless PROVE Lawful(a', Waiting, n) /\ pc' # "error" /\ Partitioned'
    <3>0. /\ l <= up /\ up <= u /\ l <= down - 1 /\ down - 1 <= u /\ down - 1 \in Int /\ up \in Int
          /\ down - 1 < u - 1 /\ up < u - 1 /\ l < down - 1
      BY <1>5, <1>b
    <3>1. /\ Lawful(a', Waiting, n) /\ Rk(a', up) = Rk(a, down - 1) /\ Rk(a', down - 1) = Rk(a, up)
          /\ \A x \in 1 .. n : x # up /\ x # down - 1 => Rk(a', x) = Rk(a, x)
      BY <3>0, <2>3, <1>0, <1>2, <1>5, <1>b, SwapStep
    <3>2. Rk(a, down - 1) <= rank[P]
      <4>1. Rk(a, down - 1) \in Nat /\ rank[P] \in Nat /\ ~(rank[P] < Rk(a, down - 1)) BY <2>3, <1>2, <1>5
      <4> QED BY <4>1
    <3>3. P' = a'[u - 1]
      <4>1. P' = a[u - 1] BY <2>3, <1>0, <1>2
      <4>2. u - 1 \in 0 .. n + 1 /\ u - 1 # up /\ u - 1 # down - 1 BY <1>b, <3>0
      <4>3. a \in [0 .. n + 1 -> 0 .. n] BY <1>0 DEF Kept
      <4> QED BY <4>1, <4>2, <4>3, <1>5 DEF Swap
    <3>4. ASSUME NEW x \in down - 1 .. u PROVE rank[P] <= Rk(a', x)
      <4>1. CASE x = down - 1 BY <4>1, <3>1, <2>3, <1>2
      <4>2. CASE x # down - 1
        <5>1. x \in down .. u /\ x \in 1 .. n /\ x # up BY <4>2, <1>5, <1>b
        <5> QED BY <5>1, <4>2, <3>1, <2>3, <1>2
      <4> QED BY <4>1, <4>2
    <3>5. ASSUME NEW x \in l .. up PROVE Rk(a', x) <= rank[P]
      <4>1. CASE x = up BY <4>1, <3>1, <3>2
      <4>2. CASE x # up
        <5>1. x \in l .. up - 1 /\ x \in 1 .. n /\ x # down - 1 BY <4>2, <1>5, <1>b
        <5> QED BY <5>1, <4>2, <3>1, <2>3, <1>2
      <4> QED BY <4>1, <4>2
    <3>6. Partitioned' BY <3>0, <3>3, <3>4, <3>5, <1>0, <1>5 DEF Partitioned, Rk
    <3> QED BY <3>1, <3>6, <1>5
  <2>4. /\ up' \in Nat /\ down' \in Int /\ l <= down' /\ down' <= u - 1 /\ u - l > 2 /\ l <= up' /\ up' <= u
    BY <1>0, <1>5, <1>b
  <2> QED BY <2>2, <2>3, <2>4, <1>0, <1>5, <1>b, SamePart
<1> QED BY <1>1, <1>3, <1>4, <1>5

LEMMA SortInitInv == sort => SortInv
<1> SUFFICES ASSUME sort PROVE SortInv OBVIOUS
<1>1. PICK n \in 0 .. MaxN :
      /\ a = [k \in 0 .. n + 1 |-> IF k = n + 1 THEN NilItem ELSE k]
      /\ rank \in [1 .. n -> 1 .. n] \/ (n <= MaxLawlessN /\ rank = Lawless)
      /\ l = 1 /\ u = n /\ up = 0 /\ down = 0 /\ P = NilItem /\ frames = <<>> /\ pc = "loop"
  BY DEF sort
<1>2. n \in Nat BY SizeOfArray
<1>3. \A k \in 1 .. n : k \in 0 .. n + 1 /\ a[k] = k BY <1>1, <1>2
<1>4. Kept(a, n)
  <2>1. a \in [0 .. n + 1 -> 0 .. n] BY <1>1, <1>2 DEF NilItem
  <2>2. \A k \in 0 .. n + 1 : a[k] = k \/ a[k] = NilItem BY <1>1, <1>2
  <2>3. ASSUME NEW v \in 1 .. n PROVE \E k \in 0 .. n + 1 : a[k] = v /\ \A m \in 0 .. n + 1 : a[m] = v => m = k
    <3>1. v # NilItem BY DEF NilItem
    <3> QED BY <3>1, <2>2, <1>3
  <2> QED BY <2>1, <2>3 DEF Kept
<1>5. Bounds(n)
  <2>1. 2 ^ Len(frames) = 1 /\ frames \in Seq(PartType) /\ DOMAIN frames = {} BY <1>1, PowerZero
  <2>2. Fits(<<l, u>>, Len(frames), n) BY <1>1, <1>2, <2>1 DEF Fits
  <2> QED BY <1>1, <1>2, <2>1, <2>2 DEF Bounds
<1>6. ASSUME rank # Lawless PROVE Lawful(a, Waiting, n)
  <2>1. Waiting = Append(<<>>, <<1, n>>) BY <1>1 DEF Waiting
  <2>2. DOMAIN Waiting = {1} /\ Waiting[1] = <<1, n>> BY <2>1
  <2>3. \A x \in 1 .. n : Within(Waiting[1], x) BY <2>2, <1>2 DEF Within
  <2>4. Disjoint(Waiting, n) /\ Apart(a, Waiting, n) BY <2>2, <2>3 DEF Disjoint, Apart
  <2>5. \A k \in 1 .. n : a[k] # NilItem BY <1>3 DEF NilItem
  <2> QED BY <2>4, <2>5, <1>1, <1>6 DEF Lawful
<1>7. SortInvN(n) BY <1>1, <1>4, <1>5, <1>6 DEF SortInvN, Partitioned
<1> QED BY <1>7 DEF SortInv

LEMMA SortStepInv == SortInv /\ [auxsort]_sortVars => SortInv'
<1> SUFFICES ASSUME SortInv, [auxsort]_sortVars PROVE SortInv' OBVIOUS
<1>1. PICK n \in 0 .. MaxN : SortInvN(n) BY DEF SortInv
<1>2. n \in Nat BY SizeOfArray
<1>3. CASE UNCHANGED sortVars
  <2>1. UNCHANGED <<a, rank, l, u, up, down, P, frames, pc>> BY <1>3 DEF sortVars
  <2>2. Waiting' = Waiting BY <2>1 DEF Waiting
  <2>3. Kept(a, n)' /\ Bounds(n)' BY <1>1, <2>1 DEF SortInvN, Kept, Bounds, Fits
  <2>4. rank # Lawless => Lawful(a, Waiting, n)'
    BY <1>1, <2>1, <2>2 DEF SortInvN, Lawful, Disjoint, Apart, Rk
  <2>5. rank # Lawless => Partitioned' BY <1>1, <2>1 DEF SortInvN, Partitioned, Rk
  <2>6. SortInvN(n)' BY <1>1, <2>1, <2>3, <2>4, <2>5 DEF SortInvN, Lawless
  <2> QED BY <2>6 DEF SortInv
<1>4. CASE auxsort
  <2>1. SortInvN(n)'
    BY <1>1, <1>2, <1>4, EndsRight, MiddleRight, Middle2Right, UpRight, DownRight DEF auxsort
  <2> QED BY <2>1 DEF SortInv
<1> QED BY <1>3, <1>4

LEMMA SortInvRight == SortInv => SortRight
<1> SUFFICES ASSUME SortInv PROVE SortRight OBVIOUS
<1>1. PICK n \in 0 .. MaxN : SortInvN(n) BY DEF SortInv
<1>2. n \in Nat BY SizeOfArray
<1>3. Kept(a, n) /\ Bounds(n) /\ DOMAIN a = 0 .. n + 1 BY <1>1 DEF SortInvN, Kept
<1>4. Elements = 1 .. n
  <2>1. ASSUME NEW k \in Elements PROVE k \in 1 .. n BY <1>2, <1>3 DEF Elements
  <2>2. ASSUME NEW k \in 1 .. n PROVE k \in Elements BY <1>2, <1>3 DEF Elements
  <2> QED BY <2>1, <2>2
<1>5. ValuesKept BY <1>3, <1>4 DEF ValuesKept, Kept
<1>6. LogDepth
  <2>1. Cardinality(1 .. n) = n
    <3>1. 1 \in Int /\ n \in Int BY <1>2
    <3> QED BY <3>1, <1>2, FS_Interval
  <2>2. Fits(<<l, u>>, Len(frames), n) BY <1>3 DEF Bounds
  <2> QED BY <2>1, <2>2, <1>4 DEF LogDepth, Fits
<1>7. ASSUME rank # Lawless PROVE Lawful(a, Waiting, n) /\ pc # "error" /\ Partitioned BY <1>1, <1>7 DEF SortInvN
<1>8. Sorted
  <2> SUFFICES ASSUME pc = "done", rank # Lawless, NEW x \in 1 .. n, NEW y \in 1 .. n, x < y
               PROVE  ~(rank[a[y]] < rank[a[x]])
    BY <1>4 DEF Sorted
  <2>1. DOMAIN Waiting = {} BY <1>1 DEF SortInvN, Waiting
  <2>2. Rk(a, x) <= Rk(a, y) BY <2>1, <1>7 DEF Lawful, Apart
  <2>3. Rk(a, x) \in Nat /\ Rk(a, y) \in Nat BY <1>2, <1>3, <1>7, RankType
  <2>4. ~(Rk(a, y) < Rk(a, x)) BY <2>2, <2>3
  <2> QED BY <2>4 DEF Rk
<1>9. InRange
  <2> SUFFICES ASSUME rank # Lawless PROVE pc # "error" /\ (pc \in {"up", "down"} => up <= u /\ down >= l)
    BY DEF InRange
  <2>1. l \in Nat /\ u \in Int /\ up \in Nat /\ down \in Int BY <1>3 DEF Bounds
  <2> QED BY <2>1, <1>3, <1>7 DEF Partitioned, Bounds
<1> QED BY <1>5, <1>6, <1>8, <1>9 DEF SortRight

\* For arrays of any size: an order leaves them sorted, is called only with their
\* elements and never taken for an invalid one; any other function loses and
\* copies no element; and no call is deeper than the logarithm of the size (auxsort).
THEOREM SortCorrect == sortSpec => []SortRight
BY SortInitInv, SortStepInv, SortInvRight, PTL DEF sortSpec

-----------------------------------------------------------------------------
\* A set of numbers has a least one.
LEMMA LeastMember ==
  ASSUME NEW S \in SUBSET Nat, S # {}
  PROVE  \E x \in S : \A y \in S : x <= y
<1> DEFINE R == OpToRel(<, Nat)
<1>1. \E x \in S : \A y \in S : ~(<<y, x>> \in R)
  <2>1. IsWellFoundedOn(R, Nat) BY NatLessThanWellFounded
  <2> HIDE DEF R
  <2> QED BY <2>1, WFMin
<1>2. \A x, y \in Nat : <<y, x>> \in R <=> y < x BY DEF OpToRel
<1> HIDE DEF R
<1>3. PICK x \in S : \A y \in S : ~(<<y, x>> \in R) BY <1>1
<1>4. \A y \in S : ~(y < x) BY <1>2, <1>3, Zenon
<1> QED BY <1>4

-----------------------------------------------------------------------------
(* Buffers.                                                                *)

\* What has characters in it, first and last.
Intervals == {p \in Nat \X Nat : 1 <= p[1] /\ p[1] <= p[2]}

\* The pieces hold the characters 1, 2, ..., e in their order.
RunsTo(ps, e) ==
  /\ ps \in Seq(Intervals) /\ e \in Nat
  /\ \A x, y \in 1 .. Len(ps) : x < y => ps[x][2] < ps[y][1]
  /\ \A x \in 1 .. Len(ps) : x # Len(ps) => ps[x + 1][1] = ps[x][2] + 1
  /\ IF ps = <<>> THEN e = 0 ELSE ps[1][1] = 1 /\ ps[Len(ps)][2] = e

\* The array goes on where the pieces end; joining leaves less than LIMIT of them.
BufInv ==
  /\ added \in Nat /\ peak \in Nat /\ peak <= LIMIT + 1 /\ lvl = Len(pieces)
  /\ result = Empty =>
       /\ Len(pieces) < LIMIT
       /\ \/ buff = Empty /\ RunsTo(pieces, added)
          \/ \E e \in Nat : /\ RunsTo(pieces, e) /\ buff = <<e + 1, added>>
                            /\ e < added /\ added - e <= LUAL_BUFFERSIZE
  /\ result # Empty => pieces = <<result>> /\ result = <<1, added>>

LEMMA IntervalFacts ==
  /\ Empty \notin Intervals
  /\ \A p \in Intervals : /\ p[1] \in Nat /\ p[2] \in Nat /\ 1 <= p[1] /\ p[1] <= p[2]
                          /\ p = <<p[1], p[2]>>
  /\ \A x, y \in Nat : 1 <= x /\ x <= y => <<x, y>> \in Intervals
BY DEF Intervals, Empty

\* One more piece, with the characters that follow.
LEMMA AppendRuns ==
  ASSUME NEW ps, NEW e, RunsTo(ps, e), NEW f \in Nat, e < f
  PROVE  /\ RunsTo(Append(ps, <<e + 1, f>>), f)
         /\ Len(Append(ps, <<e + 1, f>>)) = Len(ps) + 1 /\ Len(ps) \in Nat
<1> DEFINE p == <<e + 1, f>>
           q == Append(ps, p)
<1>1. /\ ps \in Seq(Intervals) /\ e \in Nat /\ p \in Intervals /\ p[1] = e + 1 /\ p[2] = f
      /\ Len(ps) \in Nat
  <2>1. ps \in Seq(Intervals) /\ e \in Nat /\ Len(ps) \in Nat BY DEF RunsTo
  <2>2. e + 1 \in Nat /\ 1 <= e + 1 /\ e + 1 <= f BY <2>1
  <2> QED BY <2>1, <2>2, IntervalFacts
<1>2. /\ q \in Seq(Intervals) /\ q # <<>> /\ Len(q) = Len(ps) + 1
      /\ \A x \in 1 .. Len(ps) : q[x] = ps[x]
      /\ q[Len(q)] = p
  BY <1>1, AppendProperties
<1> HIDE DEF p, q
<1>3. \A x \in 1 .. Len(ps) : ps[x] \in Intervals /\ ps[x][1] \in Nat /\ ps[x][2] \in Nat /\ ps[x][1] <= ps[x][2]
  BY <1>1, IntervalFacts, ElementOfSeq
<1>4. ps # <<>> => Len(ps) >= 1 /\ ps[1][1] = 1 /\ ps[Len(ps)][2] = e
  BY <1>1, EmptySeq DEF RunsTo
<1>5. ps = <<>> => Len(ps) = 0 /\ e = 0
  BY <1>1, EmptySeq DEF RunsTo
<1>6. ASSUME NEW x \in 1 .. Len(ps) PROVE ps[x][2] <= e
  <2>1. ps # <<>> /\ Len(ps) \in 1 .. Len(ps) BY <1>1, <1>5
  <2>2. x < Len(ps) => ps[x][2] < ps[Len(ps)][1] BY <2>1 DEF RunsTo
  <2> QED BY <2>1, <2>2, <1>3, <1>4, <1>1
<1>7. ASSUME NEW x \in 1 .. Len(q), NEW y \in 1 .. Len(q), x < y PROVE q[x][2] < q[y][1]
  <2>1. x \in 1 .. Len(ps) /\ q[x] = ps[x] BY <1>1, <1>2, <1>7
  <2>2. CASE y = Len(q) BY <2>1, <2>2, <1>1, <1>2, <1>3, <1>6
  <2>3. CASE y # Len(q)
    <3>1. y \in 1 .. Len(ps) /\ q[y] = ps[y] BY <2>3, <1>1, <1>2
    <3> QED BY <3>1, <2>1, <1>7 DEF RunsTo
  <2> QED BY <2>2, <2>3
<1>8. ASSUME NEW x \in 1 .. Len(q), x # Len(q) PROVE q[x + 1][1] = q[x][2] + 1
  <2>1. x \in 1 .. Len(ps) /\ q[x] = ps[x] BY <1>1, <1>2, <1>8
  <2>2. CASE x = Len(ps)
    <3>1. ps # <<>> BY <2>1, <1>5, <1>1
    <3> QED BY <3>1, <2>1, <2>2, <1>1, <1>2, <1>4
  <2>3. CASE x # Len(ps)
    <3>1. x + 1 \in 1 .. Len(ps) /\ q[x + 1] = ps[x + 1] BY <2>1, <2>3, <1>1, <1>2
    <3> QED BY <3>1, <2>1, <2>3 DEF RunsTo
  <2> QED BY <2>2, <2>3
<1>9. q[1][1] = 1
  <2>1. CASE ps = <<>> BY <2>1, <1>1, <1>2, <1>5
  <2>2. CASE ps # <<>> BY <2>2, <1>1, <1>2, <1>4
  <2> QED BY <2>1, <2>2
<1>10. RunsTo(q, f) BY <1>1, <1>2, <1>7, <1>8, <1>9 DEF RunsTo
<1> QED BY <1>10, <1>1, <1>2 DEF q, p

\* lua_concat of the last m pieces.
LEMMA TopRuns ==
  ASSUME NEW ps, NEW e, RunsTo(ps, e), NEW m \in 1 .. Len(ps)
  PROVE  LET first == Len(ps) - m + 1
         IN  /\ lua_concat(SubSeq(ps, first, Len(ps))) = <<ps[first][1], e>>
             /\ <<ps[first][1], e>> \in Intervals
<1> DEFINE n == Len(ps)
           first == n - m + 1
           q == SubSeq(ps, first, n)
<1>1. ps \in Seq(Intervals) /\ n \in Nat /\ m \in Nat /\ 1 <= m /\ m <= n /\ first \in 1 .. n /\ first \in Nat
  BY DEF RunsTo
<1>2. \A x \in 1 .. n : ps[x] \in Intervals /\ ps[x][1] \in Nat /\ ps[x][2] \in Nat /\ 1 <= ps[x][1] /\ ps[x][1] <= ps[x][2]
  BY <1>1, IntervalFacts, ElementOfSeq
<1>3. q \in Seq(Intervals) /\ Len(q) = m /\ \A x \in 1 .. m : q[x] = ps[first + x - 1]
  <2>1. \A x \in first .. n : ps[x] \in Intervals BY <1>1, <1>2
  <2>2. /\ q \in Seq(Intervals) /\ Len(q) = IF first <= n THEN n - first + 1 ELSE 0
        /\ \A x \in 1 .. n - first + 1 : q[x] = ps[first + x - 1]
    BY <2>1, <1>1, SubSeqProperties
  <2>3. n - first + 1 = m /\ first <= n BY <1>1
  <2> HIDE DEF first, q
  <2> QED BY <2>2, <2>3
<1> HIDE DEF q
<1>4. q[1] = ps[first] /\ q[m] = ps[n]
  <2>1. first + 1 - 1 = first /\ first + m - 1 = n /\ 1 \in 1 .. m /\ m \in 1 .. m BY <1>1
  <2>2. q[1] = ps[first + 1 - 1] /\ q[m] = ps[first + m - 1] BY <2>1, <1>3
  <2> HIDE DEF first, n
  <2> QED BY <2>1, <2>2
<1>5. ps[n][2] = e /\ ps # <<>>
  BY <1>1, EmptySeq DEF RunsTo
<1>6. \A x \in 1 .. m - 1 : q[x + 1][1] = q[x][2] + 1
  <2> SUFFICES ASSUME NEW x \in 1 .. m - 1 PROVE q[x + 1][1] = q[x][2] + 1 OBVIOUS
  <2>1. q[x] = ps[first + x - 1] /\ q[x + 1] = ps[(first + x - 1) + 1] BY <1>1, <1>3
  <2>2. first + x - 1 \in 1 .. n /\ first + x - 1 # n BY <1>1
  <2> QED BY <2>1, <2>2 DEF RunsTo
<1>7. q # <<>> BY <1>1, <1>3, EmptySeq
<1>8. lua_concat(q) = <<ps[first][1], e>>
  BY <1>3, <1>4, <1>5, <1>6, <1>7 DEF lua_concat, InSequence
<1>9. ps[first][1] <= e
  <2>1. n \in 1 .. n /\ (first = n \/ first < n) BY <1>1
  <2>2. first = n \/ ps[first][2] < ps[n][1] BY <2>1, <1>1 DEF RunsTo
  <2>3. ps[first][1] \in Nat /\ ps[first][2] \in Nat /\ ps[first][1] <= ps[first][2]
        /\ ps[n][1] \in Nat /\ ps[n][1] <= ps[n][2]
    BY <2>1, <1>1, <1>2
  <2>4. e \in Nat BY DEF RunsTo
  <2> HIDE DEF first, n
  <2> QED BY <2>2, <2>3, <2>4, <1>5
<1>10. <<ps[first][1], e>> \in Intervals
  BY <1>1, <1>2, <1>9, IntervalFacts DEF RunsTo
<1> QED BY <1>8, <1>10 DEF q

\* Joining the last m pieces loses nothing.
LEMMA AdjustedRuns ==
  ASSUME NEW ps, NEW e, RunsTo(ps, e), NEW m \in 1 .. Len(ps)
  PROVE  /\ RunsTo(Adjusted(ps, Len(ps), m), e)
         /\ Len(Adjusted(ps, Len(ps), m)) = Len(ps) - m + 1
<1> DEFINE n == Len(ps)
           k == n - m
           front == SubSeq(ps, 1, k)
           top == <<ps[k + 1][1], e>>
           q == Append(front, top)
<1>1. ps \in Seq(Intervals) /\ n \in Nat /\ m \in 1 .. n /\ k \in Nat /\ k + 1 \in 1 .. n /\ e \in Nat
  BY DEF RunsTo
<1>2. \A x \in 1 .. n : ps[x] \in Intervals /\ ps[x][1] \in Nat /\ ps[x][2] \in Nat /\ 1 <= ps[x][1] /\ ps[x][1] <= ps[x][2]
  BY <1>1, IntervalFacts, ElementOfSeq
<1>3. /\ Adjusted(ps, n, m) = q /\ top \in Intervals
  BY TopRuns DEF Adjusted
<1>4. front \in Seq(Intervals) /\ Len(front) = k /\ \A x \in 1 .. k : front[x] = ps[x]
  <2>1. \A x \in 1 .. k : ps[x] \in Intervals /\ 1 + x - 1 = x BY <1>1, <1>2
  <2>2. /\ front \in Seq(Intervals) /\ Len(front) = IF 1 <= k THEN k - 1 + 1 ELSE 0
        /\ \A x \in 1 .. k - 1 + 1 : front[x] = ps[1 + x - 1]
    BY <2>1, <1>1, SubSeqProperties
  <2> HIDE DEF k, front
  <2> QED BY <2>1, <2>2, <1>1
<1>5. /\ q \in Seq(Intervals) /\ q # <<>> /\ Len(q) = k + 1
      /\ \A x \in 1 .. k : q[x] = ps[x]
      /\ q[k + 1] = top
  <2>1. front \in Seq(Intervals) /\ top \in Intervals BY <1>3, <1>4
  <2> HIDE DEF front, top
  <2>2. /\ Append(front, top) \in Seq(Intervals) /\ Append(front, top) # <<>>
        /\ Len(Append(front, top)) = Len(front) + 1
        /\ \A x \in 1 .. Len(front) : Append(front, top)[x] = front[x]
        /\ Append(front, top)[Len(front) + 1] = top
    BY <2>1, AppendProperties
  <2> QED BY <2>2, <1>4
<1>6. top[1] = ps[k + 1][1] /\ top[2] = e OBVIOUS
<1> HIDE DEF k, front, top, q
<1>7. ASSUME NEW x \in 1 .. k + 1, NEW y \in 1 .. k + 1, x < y PROVE q[x][2] < q[y][1]
  <2>1. q[x] = ps[x] /\ x \in 1 .. n /\ y \in 1 .. n BY <1>1, <1>5, <1>7
  <2>2. q[y][1] = ps[y][1] BY <1>1, <1>5, <1>6
  <2> QED BY <2>1, <2>2, <1>7 DEF RunsTo
<1>8. ASSUME NEW x \in 1 .. k + 1, x # k + 1 PROVE q[x + 1][1] = q[x][2] + 1
  <2>1. q[x] = ps[x] /\ x \in 1 .. n /\ x # n /\ x + 1 \in 1 .. k + 1 BY <1>1, <1>5, <1>8
  <2>2. q[x + 1][1] = ps[x + 1][1]
    <3>1. CASE x + 1 = k + 1 BY <3>1, <1>5, <1>6
    <3>2. CASE x + 1 # k + 1 BY <3>2, <2>1, <1>1, <1>5
    <3> QED BY <3>1, <3>2
  <2> QED BY <2>1, <2>2 DEF RunsTo
<1>9. q[1][1] = 1
  <2>1. ps # <<>> /\ ps[1][1] = 1 BY <1>1, EmptySeq DEF RunsTo
  <2>2. CASE k = 0 BY <2>1, <2>2, <1>5, <1>6
  <2>3. CASE k # 0 BY <2>1, <2>3, <1>1, <1>5
  <2> QED BY <2>2, <2>3
<1>10. RunsTo(q, e)
  BY <1>1, <1>5, <1>6, <1>7, <1>8, <1>9 DEF RunsTo
<1> QED BY <1>3, <1>5, <1>10 DEF k

\* adjuststack leaves less than LIMIT pieces.
LEMMA AdjustRight ==
  ASSUME NEW ps, NEW e, RunsTo(ps, e), adjuststack(ps, Len(ps)), ps # <<>>
  PROVE  RunsTo(pieces', e) /\ lvl' = Len(pieces') /\ Len(pieces') < LIMIT
<1> DEFINE n == Len(ps)
           m == toget(ps, n)
           S == {x \in 1 .. n : ~Goes(ps, n, x)}
<1>1. ps \in Seq(Intervals) /\ n \in Nat /\ n >= 1 /\ LIMIT \in Nat /\ LIMIT > 1
  BY EmptySeq, BufferAssumption DEF RunsTo
<1>2. CASE n = 1
  BY <1>1, <1>2 DEF adjuststack
<1>3. CASE n > 1
  <2>1. n \in S /\ S \in SUBSET Nat BY <1>1 DEF Goes
  <2>2. PICK x \in S : \A y \in S : x <= y BY <2>1, LeastMember
  <2>3. ~Goes(ps, n, x) /\ x \in 1 .. n /\ \A k \in 1 .. x - 1 : Goes(ps, n, k)
    <3>1. \A k \in 1 .. x - 1 : k \in 1 .. n /\ ~(x <= k) BY <2>2, <1>1
    <3> QED BY <3>1, <2>2
  <2>4. m \in 1 .. n /\ ~Goes(ps, n, m) BY <2>3 DEF toget
  <2> HIDE DEF m
  <2>5. m >= n \/ n - m + 1 < LIMIT BY <2>4, <1>1 DEF Goes
  <2>6. pieces' = Adjusted(ps, n, m) /\ lvl' = n - m + 1 BY <1>3 DEF adjuststack, m
  <2>7. RunsTo(pieces', e) /\ Len(pieces') = n - m + 1 BY <2>4, <2>6, AdjustedRuns
  <2> QED BY <2>4, <2>5, <2>6, <2>7, <1>1
<1>4. n \in Nat /\ n >= 1 BY <1>1
<1> HIDE DEF n
<1>5. n = 1 \/ n > 1 BY <1>4
<1> QED BY <1>2, <1>3, <1>5

LEMMA JoinFacts ==
  /\ \A p : Join(p, Empty) = p
  /\ \A q : Join(Empty, q) = q
  /\ \A p, q : p # Empty /\ q # Empty /\ q[1] = p[2] + 1 => Join(p, q) = <<p[1], q[2]>>
<1>1. ASSUME NEW p PROVE Join(p, Empty) = p BY DEF Join
<1>2. ASSUME NEW q PROVE Join(Empty, q) = q BY DEF Join
<1>3. ASSUME NEW p, NEW q, p # Empty, q # Empty, q[1] = p[2] + 1 PROVE Join(p, q) = <<p[1], q[2]>>
  <2>1. Len(<<p, q>>) = 2 /\ <<p, q>>[1] = p /\ <<p, q>>[2] = q /\ <<p, q>> # <<>> OBVIOUS
  <2>2. InSequence(<<p, q>>) BY <2>1, <1>3 DEF InSequence
  <2>3. lua_concat(<<p, q>>) = <<p[1], q[2]>> BY <2>1, <2>2 DEF lua_concat
  <2> QED BY <1>3, <2>3 DEF Join
<1> QED BY <1>1, <1>2, <1>3

LEMMA BufInitInv == bufInit => BufInv
<1> SUFFICES ASSUME bufInit PROVE BufInv OBVIOUS
<1>1. /\ pieces = <<>> /\ lvl = 0 /\ buff = Empty /\ added = 0 /\ peak = 0 /\ result = Empty
      /\ Len(pieces) = 0 /\ LIMIT \in Nat /\ LIMIT > 1
  BY BufferAssumption DEF bufInit
<1>2. RunsTo(pieces, 0) BY <1>1 DEF RunsTo
<1> QED BY <1>1, <1>2 DEF BufInv

\* The pieces that the stack has after emptybuffer.
LEMMA FlushedRuns ==
  ASSUME BufInv, result = Empty
  PROVE  /\ RunsTo(Flushed(pieces, buff), added)
         /\ Len(Flushed(pieces, buff)) = lvl + Flushes(buff)
         /\ Flushes(buff) \in 0 .. 1 /\ Len(pieces) \in Nat /\ Len(pieces) < LIMIT
         /\ buff # Empty => Flushed(pieces, buff) = Append(pieces, buff) /\ Flushes(buff) = 1
<1>1. CASE buff = Empty
  <2>1. RunsTo(pieces, added)
    BY <1>1, IntervalFacts DEF BufInv, Empty
  <2>2. Len(pieces) \in Nat BY <2>1 DEF RunsTo
  <2> QED BY <1>1, <2>1, <2>2 DEF Flushed, Flushes, BufInv
<1>2. ASSUME NEW e \in Nat, RunsTo(pieces, e), buff = <<e + 1, added>>, e < added PROVE buff # Empty
  BY <1>2 DEF Empty, BufInv
<1>3. CASE buff # Empty
  <2>1. PICK e \in Nat : RunsTo(pieces, e) /\ buff = <<e + 1, added>> /\ e < added
    BY <1>3 DEF BufInv
  <2>2. added \in Nat BY DEF BufInv
  <2>3. RunsTo(Append(pieces, buff), added) /\ Len(Append(pieces, buff)) = Len(pieces) + 1 /\ Len(pieces) \in Nat
    BY <2>1, <2>2, AppendRuns
  <2> QED BY <1>3, <2>3 DEF Flushed, Flushes, BufInv
<1> QED BY <1>1, <1>3

\* luaL_prepbuffer leaves everything on the stack.
LEMMA PrepareRight ==
  ASSUME BufInv, result = Empty, Prepare
  PROVE  /\ RunsTo(pieces', added) /\ lvl' = Len(pieces') /\ Len(pieces') < LIMIT
         /\ peak' \in Nat /\ peak' <= LIMIT + 1
<1>1. CASE buff = Empty
  <2>1. pieces' = pieces /\ lvl' = lvl /\ peak' = peak /\ Flushed(pieces, buff) = pieces
    BY <1>1 DEF Prepare, Flushed
  <2> QED BY <2>1, FlushedRuns DEF BufInv
<1>2. CASE buff # Empty
  <2> DEFINE ps == Append(pieces, buff)
  <2>1. RunsTo(ps, added) /\ Len(ps) = lvl + 1 /\ Len(pieces) \in Nat /\ Len(pieces) < LIMIT
    BY <1>2, FlushedRuns
  <2>2. adjuststack(ps, Len(ps)) /\ peak' = Highest(Len(pieces) + 1)
    BY <1>2, <2>1 DEF Prepare
  <2>3. ps # <<>>
    <3>1. ps \in Seq(Intervals) /\ Len(ps) # 0 BY <2>1 DEF RunsTo, BufInv
    <3> QED BY <3>1, EmptySeq
  <2>4. peak' \in Nat /\ peak' <= LIMIT + 1
    BY <2>1, <2>2, BufferAssumption DEF Highest, BufInv
  <2> HIDE DEF ps
  <2> QED BY <2>1, <2>2, <2>3, <2>4, AdjustRight
<1> QED BY <1>1, <1>2

\* What the array holds when it holds something.
LEMMA BuffIs ==
  ASSUME BufInv, result = Empty
  PROVE  /\ added \in Nat
         /\ \/ buff = Empty /\ RunsTo(pieces, added) /\ bufffree = LUAL_BUFFERSIZE
            \/ \E e \in Nat : /\ RunsTo(pieces, e) /\ buff = <<e + 1, added>> /\ buff # Empty
                              /\ e < added /\ added - e <= LUAL_BUFFERSIZE
                              /\ bufffree = LUAL_BUFFERSIZE - (added - e)
<1>1. added \in Nat /\ LUAL_BUFFERSIZE \in Nat BY BufferAssumption DEF BufInv
<1>2. CASE buff = Empty /\ RunsTo(pieces, added)
  BY <1>1, <1>2 DEF bufffree, Size, Empty
<1>3. ASSUME NEW e \in Nat, buff = <<e + 1, added>>, e < added
      PROVE  buff # Empty /\ bufffree = LUAL_BUFFERSIZE - (added - e)
  <2>1. buff[1] = e + 1 /\ buff[2] = added BY <1>3
  <2> QED BY <1>1, <1>3, <2>1 DEF bufffree, Size, Empty
<1> QED BY <1>1, <1>2, <1>3 DEF BufInv

\* Characters that fit in the array: they go on where it ends.
LEMMA FitsRight ==
  ASSUME BufInv, result = Empty, NEW n \in Nat, n <= bufffree,
         buff' = Join(buff, IF n = 0 THEN Empty ELSE <<added + 1, added + n>>), added' = added + n,
         UNCHANGED <<pieces, lvl, result>>, peak' = peak \/ peak' = Highest(Len(pieces) + 1)
  PROVE  BufInv'
<1>1. added \in Nat /\ LUAL_BUFFERSIZE \in Nat /\ LIMIT \in Nat BY BufferAssumption DEF BufInv
<1>2. Len(pieces) \in Nat /\ Len(pieces) < LIMIT BY FlushedRuns
<1>3. peak' \in Nat /\ peak' <= LIMIT + 1 /\ lvl' = Len(pieces') /\ added' \in Nat /\ Len(pieces') < LIMIT
  BY <1>1, <1>2 DEF BufInv, Highest
<1>4. CASE n = 0
  <2>1. buff' = buff /\ added' = added BY <1>1, <1>4, JoinFacts
  <2> QED BY <2>1, <1>3 DEF BufInv
<1>5. CASE n # 0
  <2> DEFINE v == <<added + 1, added + n>>
  <2>1. v # Empty /\ v[1] = added + 1 /\ v[2] = added + n BY <1>1, <1>5 DEF Empty
  <2>2. CASE buff = Empty /\ RunsTo(pieces, added) /\ bufffree = LUAL_BUFFERSIZE
    <3>1. buff' = v BY <2>1, <2>2, <1>5, JoinFacts
    <3>2. added < added' /\ added' - added <= LUAL_BUFFERSIZE /\ buff' = <<added + 1, added'>>
      BY <3>1, <2>2, <1>1, <1>5
    <3> QED BY <3>2, <2>2, <1>1, <1>3 DEF BufInv
  <2>3. ASSUME NEW e \in Nat, RunsTo(pieces, e), buff = <<e + 1, added>>, buff # Empty,
               e < added, added - e <= LUAL_BUFFERSIZE, bufffree = LUAL_BUFFERSIZE - (added - e)
        PROVE  BufInv'
    <3>1. buff[1] = e + 1 /\ buff[2] = added BY <2>3
    <3>2. buff' = <<e + 1, added + n>> BY <2>1, <2>3, <3>1, <1>5, JoinFacts
    <3>3. e < added' /\ added' - e <= LUAL_BUFFERSIZE /\ buff' = <<e + 1, added'>>
      BY <3>2, <2>3, <1>1, <1>5
    <3> QED BY <3>3, <2>3, <1>3 DEF BufInv
  <2> QED BY <2>2, <2>3, BuffIs
<1> QED BY <1>4, <1>5

\* Characters that go into the array once it was emptied.
LEMMA RefillRight ==
  ASSUME BufInv, result = Empty, NEW n \in Nat, n <= LUAL_BUFFERSIZE, Prepare,
         buff' = IF n = 0 THEN Empty ELSE <<added + 1, added + n>>, added' = added + n,
         result' = result
  PROVE  BufInv'
<1>1. added \in Nat /\ LUAL_BUFFERSIZE \in Nat BY BufferAssumption DEF BufInv
<1>2. RunsTo(pieces', added) /\ lvl' = Len(pieces') /\ Len(pieces') < LIMIT /\ peak' \in Nat /\ peak' <= LIMIT + 1
  BY PrepareRight
<1>3. CASE n = 0
  <2>1. buff' = Empty /\ added' = added BY <1>1, <1>3
  <2> QED BY <2>1, <1>1, <1>2 DEF BufInv
<1>4. CASE n # 0
  <2>1. buff' = <<added + 1, added'>> /\ added < added' /\ added' - added <= LUAL_BUFFERSIZE /\ added' \in Nat
    BY <1>1, <1>4
  <2> QED BY <2>1, <1>1, <1>2 DEF BufInv
<1> QED BY <1>3, <1>4

\* luaL_addvalue of a string too long for the array.
LEMMA LongRight ==
  ASSUME BufInv, result = Empty, NEW n \in Nat, ~(n <= bufffree), added' = added + n,
         adjuststack(Append(Flushed(pieces, buff), <<added + 1, added + n>>), lvl + Flushes(buff) + 1),
         peak' = Highest(Len(pieces) + 1 + Flushes(buff)), buff' = Empty, result' = result
  PROVE  BufInv'
<1> DEFINE ps == Flushed(pieces, buff)
           qs == Append(ps, <<added + 1, added + n>>)
<1>1. added \in Nat /\ LUAL_BUFFERSIZE \in Nat /\ LIMIT \in Nat BY BufferAssumption DEF BufInv
<1>2. added < added + n /\ added + n \in Nat BY <1>1, BuffIs
<1>3. RunsTo(ps, added) /\ Len(ps) = lvl + Flushes(buff) /\ Flushes(buff) \in 0 .. 1 /\ Len(pieces) \in Nat
      /\ Len(pieces) < LIMIT
  BY FlushedRuns
<1>4. RunsTo(qs, added + n) /\ Len(qs) = Len(ps) + 1 /\ Len(ps) \in Nat
  BY <1>2, <1>3, AppendRuns
<1>5. adjuststack(qs, Len(qs)) BY <1>3, <1>4
<1>6. qs # <<>>
  <2>1. qs \in Seq(Intervals) /\ Len(qs) # 0 BY <1>4 DEF RunsTo
  <2> QED BY <2>1, EmptySeq
<1>7. peak' \in Nat /\ peak' <= LIMIT + 1
  <2>1. Len(pieces) + 1 + Flushes(buff) \in Nat /\ Len(pieces) + 1 + Flushes(buff) <= LIMIT + 1
    <3> HIDE DEF ps, qs
    <3> QED BY <1>1, <1>3
  <2> QED BY <2>1 DEF Highest, BufInv
<1> HIDE DEF qs
<1>8. RunsTo(pieces', added + n) /\ lvl' = Len(pieces') /\ Len(pieces') < LIMIT
  BY <1>4, <1>5, <1>6, AdjustRight
<1> QED BY <1>2, <1>7, <1>8 DEF BufInv

LEMMA BufStepInv == BufInv /\ [bufNext]_bufVars => BufInv'
<1> SUFFICES ASSUME BufInv, [bufNext]_bufVars PROVE BufInv' OBVIOUS
<1>0. added \in Nat /\ LUAL_BUFFERSIZE \in Nat /\ LUAL_BUFFERSIZE >= 1 /\ MaxAdded \in Nat
  BY BufferAssumption DEF BufInv
<1>1. CASE luaL_addchar
  <2>1. result = Empty /\ added' = added + 1 /\ result' = result BY <1>1 DEF luaL_addchar
  <2>2. CASE bufffree > 0 /\ buff' = Join(buff, <<added + 1, added + 1>>) /\ UNCHANGED <<pieces, lvl, peak>>
    <3>1. 1 <= bufffree BY <2>1, <2>2, <1>0, BuffIs
    <3>2. buff' = Join(buff, IF 1 = 0 THEN Empty ELSE <<added + 1, added + 1>>) BY <2>2
    <3> QED BY <2>1, <2>2, <3>1, <3>2, FitsRight
  <2>3. CASE Prepare /\ buff' = <<added + 1, added + 1>>
    <3>1. buff' = IF 1 = 0 THEN Empty ELSE <<added + 1, added + 1>> BY <2>3
    <3> QED BY <2>1, <2>3, <3>1, <1>0, RefillRight
  <2> QED BY <1>1, <2>2, <2>3 DEF luaL_addchar
<1>2. ASSUME NEW n \in 0 .. LUAL_BUFFERSIZE, luaL_addsize(n) PROVE BufInv'
  <2>1. n \in Nat /\ n <= LUAL_BUFFERSIZE BY <1>0
  <2> QED BY <1>2, <2>1, RefillRight DEF luaL_addsize
<1>3. ASSUME NEW n \in 0 .. MaxAdded, luaL_addvalue(n) PROVE BufInv'
  <2>1. n \in Nat /\ result = Empty /\ added' = added + n /\ result' = result
    BY <1>0, <1>3 DEF luaL_addvalue
  <2>2. CASE n <= bufffree
    BY <1>3, <2>1, <2>2, FitsRight DEF luaL_addvalue
  <2>3. CASE ~(n <= bufffree)
    <3>1. n # 0 BY <2>1, <2>3, <1>0, BuffIs
    <3>2. /\ adjuststack(Append(Flushed(pieces, buff), <<added + 1, added + n>>), lvl + Flushes(buff) + 1)
          /\ peak' = Highest(Len(pieces) + 1 + Flushes(buff)) /\ buff' = Empty
      BY <1>3, <2>3, <3>1 DEF luaL_addvalue
    <3> QED BY <2>1, <2>3, <3>2, LongRight
  <2> QED BY <2>2, <2>3
<1>4. CASE luaL_pushresult
  <2> DEFINE ps == Flushed(pieces, buff)
             n == lvl + Flushes(buff)
             all == lua_concat(SubSeq(ps, Len(ps) - n + 1, Len(ps)))
  <2>1. /\ result = Empty /\ added > 0 /\ pieces' = Append(SubSeq(ps, 1, Len(ps) - n), all)
        /\ result' = all /\ lvl' = 1 /\ peak' = Highest(Len(ps)) /\ added' = added
    BY <1>4 DEF luaL_pushresult
  <2>2. RunsTo(ps, added) /\ Len(ps) = n /\ Flushes(buff) \in 0 .. 1 /\ Len(pieces) \in Nat /\ Len(pieces) < LIMIT
    BY <2>1, FlushedRuns
  <2>3. ps # <<>> /\ ps[1][1] = 1 /\ n \in Nat /\ ps \in Seq(Intervals)
    BY <2>1, <2>2 DEF RunsTo
  <2>4. n >= 1 /\ n \in 1 .. Len(ps) /\ Len(ps) - n + 1 = 1 /\ Len(ps) - n = 0
    <3>1. Len(ps) # 0 BY <2>3, EmptySeq
    <3> QED BY <3>1, <2>2, <2>3
  <2>5. all = <<1, added>>
    <3>1. lua_concat(SubSeq(ps, Len(ps) - n + 1, Len(ps))) = <<ps[Len(ps) - n + 1][1], added>>
      BY <2>2, <2>4, TopRuns
    <3> QED BY <3>1, <2>3, <2>4
  <2>6. pieces' = <<<<1, added>>>>
    <3>1. SubSeq(ps, 1, 0) = <<>> BY SubSeqEmpty
    <3>2. pieces' = Append(SubSeq(ps, 1, 0), <<1, added>>) BY <2>1, <2>4, <2>5
    <3>3. pieces' = Append(<<>>, <<1, added>>) BY <3>1, <3>2
    <3> QED BY <3>3
  <2>7. peak' \in Nat /\ peak' <= LIMIT + 1
    <3>1. Len(ps) \in Nat /\ Len(ps) <= LIMIT
      <4>1. n = Len(pieces) + Flushes(buff) BY DEF BufInv
      <4> HIDE DEF n
      <4> QED BY <4>1, <2>2, <2>3, BufferAssumption
    <3> QED BY <3>1, <2>1, BufferAssumption DEF Highest, BufInv
  <2>8. result' # Empty BY <2>1, <2>5, <1>0 DEF Empty
  <2>9. lvl' = Len(pieces') BY <2>1, <2>6
  <2> QED BY <2>1, <2>5, <2>6, <2>7, <2>8, <2>9, <1>0 DEF BufInv
<1>5. CASE UNCHANGED bufVars
  BY <1>5 DEF bufVars, BufInv, RunsTo
<1> QED BY <1>1, <1>2, <1>3, <1>4, <1>5 DEF bufNext

LEMMA BufInvRight == BufInv => BufferRight
<1> SUFFICES ASSUME BufInv PROVE BufferRight OBVIOUS
<1>1. CASE result = Empty
  <2> DEFINE ps == Flushed(pieces, buff)
  <2>1. RunsTo(ps, added) BY <1>1, FlushedRuns
  <2>2. CASE ps = <<>>
    <3>1. added = 0 BY <2>1, <2>2 DEF RunsTo
    <3>2. lua_concat(ps) = Empty
      <4>1. lua_concat(<<>>) = Empty BY DEF lua_concat
      <4> QED BY <4>1, <2>2
    <3> QED BY <3>1, <3>2, <1>1 DEF BufferRight, InOrder, StackFits, BufInv
  <2>3. CASE ps # <<>>
    <3>1. ps \in Seq(Intervals) /\ Len(ps) \in Nat /\ Len(ps) \in 1 .. Len(ps) /\ ps[1][1] = 1
      BY <2>1, <2>3, EmptySeq DEF RunsTo
    <3>2. lua_concat(SubSeq(ps, Len(ps) - Len(ps) + 1, Len(ps))) = <<ps[Len(ps) - Len(ps) + 1][1], added>>
          /\ <<ps[Len(ps) - Len(ps) + 1][1], added>> \in Intervals
      BY <2>1, <3>1, TopRuns
    <3>3. Len(ps) - Len(ps) + 1 = 1 BY <3>1
    <3>4. SubSeq(ps, 1, Len(ps)) = ps BY <3>1, SubSeqFull
    <3>5. lua_concat(ps) = <<1, added>> /\ added # 0
      <4>1. lua_concat(ps) = <<1, added>> /\ <<1, added>> \in Intervals BY <3>1, <3>2, <3>3, <3>4
      <4> QED BY <4>1, IntervalFacts DEF Empty
    <3> QED BY <3>5, <1>1 DEF BufferRight, InOrder, StackFits, BufInv
  <2> QED BY <2>2, <2>3
<1>2. CASE result # Empty
  BY <1>2 DEF BufInv, BufferRight, InOrder, StackFits
<1> QED BY <1>1, <1>2

\* A luaL_Buffer gives back what was put in it, however much of it went through
\* the Lua stack, and never takes more than LIMIT + 1 slots.
THEOREM BufferCorrect == bufSpec => []BufferRight
<1>1. bufSpec => []BufInv BY BufInitInv, BufStepInv, PTL DEF bufSpec
<1> QED BY <1>1, BufInvRight, PTL

-----------------------------------------------------------------------------
(* Finalizers.                                                             *)

\* The elements of s, from the first to the last, are pairwise in the relation r.
Pairwise(s, r) == \A m, n \in 1 .. Len(s) : m < n => <<s[m], s[n]>> \in r

LEMMA PickedIs ==
  ASSUME NEW s, NEW S
  PROVE  Picked(s, S) = CHOOSE F : F = [n \in 0 .. Len(s) |->
           IF n = 0 THEN <<>> ELSE IF s[n] \in S THEN Append(F[n - 1], s[n]) ELSE F[n - 1]]
BY DEF Picked

\* The recursion of Picked has a solution: a shortest stretch without one would
\* come after one with a solution, which can be extended.
LEMMA PickedStep ==
  ASSUME NEW U, NEW s \in Seq(U), NEW S
  PROVE  /\ Picked(s, S)[0] = <<>>
         /\ \A n \in 1 .. Len(s) : Picked(s, S)[n] =
              IF s[n] \in S THEN Append(Picked(s, S)[n - 1], s[n]) ELSE Picked(s, S)[n - 1]
<1> DEFINE L == Len(s)
           Next1(x, n) == IF s[n] \in S THEN Append(x, s[n]) ELSE x
           Solves(G, n) == G[0] = <<>> /\ \A k \in 1 .. n : G[k] = Next1(G[k - 1], k)
           Solvable(n) == \E G : Solves(G, n)
           Bad == {n \in 0 .. L : ~Solvable(n)}
           Rec(F) == [n \in 0 .. L |-> IF n = 0 THEN <<>> ELSE Next1(F[n - 1], n)]
<1>1. L \in Nat OBVIOUS
<1>2. Solvable(0)
  <2>1. Solves([k \in 0 .. 0 |-> <<>>], 0) OBVIOUS
  <2> HIDE DEF Solves
  <2> QED BY <2>1
<1>3. ASSUME NEW n \in 1 .. L, Solvable(n - 1) PROVE Solvable(n)
  <2>1. PICK G : Solves(G, n - 1) BY <1>3
  <2> DEFINE H == [k \in 0 .. n |-> IF k = n THEN Next1(G[n - 1], n) ELSE G[k]]
  <2>2. H[0] = <<>> BY <2>1, <1>1
  <2>3. ASSUME NEW k \in 1 .. n PROVE H[k] = Next1(H[k - 1], k)
    <3>1. k \in 0 .. n /\ k - 1 \in 0 .. n /\ k - 1 # n /\ H[k - 1] = G[k - 1] BY <1>1
    <3>2. CASE k = n BY <3>1, <3>2
    <3>3. CASE k # n
      <4>1. k \in 1 .. n - 1 BY <3>3, <1>1
      <4> QED BY <4>1, <3>1, <3>3, <2>1
    <3> QED BY <3>2, <3>3
  <2> HIDE DEF H, Next1
  <2> QED BY <2>2, <2>3
<1>4. Bad = {}
  <2> HIDE DEF Solvable, L
  <2>1. SUFFICES ASSUME Bad # {} PROVE FALSE OBVIOUS
  <2>2. Bad \in SUBSET Nat BY <1>1
  <2>3. PICK m \in Bad : \A y \in Bad : m <= y BY <2>1, <2>2, LeastMember
  <2>4. m # 0 /\ m \in 1 .. L BY <1>1, <1>2, <2>3
  <2>5. m - 1 \in 0 .. L /\ m - 1 \notin Bad BY <1>1, <2>3, <2>4
  <2> QED BY <1>3, <2>3, <2>4, <2>5
<1>5. PICK G : Solves(G, L) BY <1>1, <1>4
<1>6. \E F : F = Rec(F)
  <2> DEFINE F == [n \in 0 .. L |-> G[n]]
  <2>1. ASSUME NEW n \in 0 .. L PROVE F[n] = IF n = 0 THEN <<>> ELSE Next1(F[n - 1], n)
    <3>1. CASE n = 0 BY <3>1, <1>1, <1>5
    <3>2. CASE n # 0
      <4>1. n \in 1 .. L /\ n - 1 \in 0 .. L BY <3>2, <1>1
      <4> QED BY <4>1, <3>2, <1>5
    <3> QED BY <3>1, <3>2
  <2>2. F = Rec(F)
    <3> DEFINE g(n) == IF n = 0 THEN <<>> ELSE Next1(F[n - 1], n)
    <3>1. \A n \in 0 .. L : F[n] = g(n) BY <2>1
    <3>2. F = [n \in 0 .. L |-> F[n]] OBVIOUS
    <3> HIDE DEF F, g, L
    <3>3. F = [n \in 0 .. L |-> g(n)] BY <3>1, <3>2
    <3> QED BY <3>3 DEF g
  <2> QED BY <2>2
<1>7. Picked(s, S) = Rec(Picked(s, S))
  <2>1. Picked(s, S) = CHOOSE F : F = Rec(F) BY PickedIs
  <2> HIDE DEF Rec
  <2> QED BY <1>6, <2>1
<1> DEFINE Pk == Picked(s, S)
<1>8. \A n \in 0 .. L : Pk[n] = IF n = 0 THEN <<>> ELSE Next1(Pk[n - 1], n)
  <2>1. Pk = [n \in 0 .. L |-> IF n = 0 THEN <<>> ELSE Next1(Pk[n - 1], n)] BY <1>7
  <2> HIDE DEF Pk, Next1, L
  <2> QED BY <2>1
<1> QED BY <1>8, <1>1

\* Among keeps the elements that are in S, in their order.
LEMMA AmongRight ==
  ASSUME NEW U, NEW s \in Seq(U), NEW S, NEW r, Pairwise(s, r)
  PROVE  /\ Among(s, S) \in Seq(U)
         /\ ToSet(Among(s, S)) = ToSet(s) \cap S
         /\ Pairwise(Among(s, S), r)
<1> DEFINE L == Len(s)
           Pk == Picked(s, S)
           From(n) == {s[k] : k \in 1 .. n} \cap S
           Good(n) == Pk[n] \in Seq(U) /\ ToSet(Pk[n]) = From(n) /\ Pairwise(Pk[n], r)
           Bad == {n \in 0 .. L : ~Good(n)}
<1>1. L \in Nat /\ DOMAIN s = 1 .. L OBVIOUS
<1>2. Pk[0] = <<>> /\ \A n \in 1 .. L : Pk[n] = IF s[n] \in S THEN Append(Pk[n - 1], s[n]) ELSE Pk[n - 1]
  BY PickedStep
<1> HIDE DEF Pk
<1>3. Good(0)
  BY <1>2 DEF ToSet, Pairwise
<1>4. ASSUME NEW n \in 1 .. L, Good(n - 1) PROVE Good(n)
  <2> DEFINE q == Pk[n - 1]
  <2>0. n \in Nat /\ n >= 1 /\ n <= L /\ s[n] \in U BY <1>1
  <2>1. 1 .. n = (1 .. n - 1) \cup {n} BY <2>0
  <2>2. From(n) = IF s[n] \in S THEN From(n - 1) \cup {s[n]} ELSE From(n - 1) BY <2>1
  <2>3. CASE s[n] \notin S
    <3>1. Pk[n] = Pk[n - 1] BY <1>2, <2>3
    <3>2. From(n) = From(n - 1) BY <2>2, <2>3
    <3> HIDE DEF From
    <3> QED BY <3>1, <3>2, <1>4
  <2>4. CASE s[n] \in S
    <3>1. Pk[n] = Append(q, s[n]) /\ q \in Seq(U) BY <1>2, <2>4, <1>4
    <3>2. /\ Pk[n] \in Seq(U) /\ Len(Pk[n]) = Len(q) + 1 /\ Len(q) \in Nat
          /\ (\A k \in 1 .. Len(q) : Pk[n][k] = q[k]) /\ Pk[n][Len(q) + 1] = s[n]
          /\ DOMAIN Pk[n] = 1 .. Len(q) + 1 /\ DOMAIN q = 1 .. Len(q)
      <4> HIDE DEF q
      <4> QED BY <3>1, <2>0, AppendProperties
    <3>3. ToSet(Pk[n]) = ToSet(q) \cup {s[n]}
      <4>1. ToSet(Pk[n]) = {Pk[n][k] : k \in 1 .. Len(q) + 1} /\ ToSet(q) = {q[k] : k \in 1 .. Len(q)}
        BY <3>2 DEF ToSet
      <4>2. 1 .. Len(q) + 1 = (1 .. Len(q)) \cup {Len(q) + 1} BY <3>2
      <4> HIDE DEF q
      <4> QED BY <4>1, <4>2, <3>2
    <3>4. ASSUME NEW k \in 1 .. Len(q) PROVE <<q[k], s[n]>> \in r
      <4>1. q[k] \in From(n - 1) BY <1>4, <3>2 DEF ToSet
      <4>2. PICK x \in 1 .. n - 1 : q[k] = s[x] BY <4>1
      <4>3. x \in 1 .. L /\ n \in 1 .. L /\ x < n BY <2>0, <1>1
      <4> QED BY <4>2, <4>3 DEF Pairwise
    <3>5. Pairwise(Pk[n], r)
      <4> SUFFICES ASSUME NEW x \in 1 .. Len(Pk[n]), NEW y \in 1 .. Len(Pk[n]), x < y
                   PROVE  <<Pk[n][x], Pk[n][y]>> \in r
        BY DEF Pairwise
      <4>1. x \in 1 .. Len(q) /\ Pk[n][x] = q[x] BY <3>2
      <4>2. CASE y = Len(q) + 1 BY <4>1, <4>2, <3>2, <3>4
      <4>3. CASE y # Len(q) + 1
        <5>1. y \in 1 .. Len(q) /\ Pk[n][y] = q[y] BY <4>3, <3>2
        <5> QED BY <5>1, <4>1, <1>4 DEF Pairwise
      <4> QED BY <4>2, <4>3
    <3>6. From(n) = ToSet(q) \cup {s[n]} BY <2>2, <2>4, <1>4
    <3> HIDE DEF From
    <3> QED BY <3>2, <3>3, <3>5, <3>6
  <2> QED BY <2>3, <2>4
<1>5. Bad = {}
  <2> HIDE DEF Good, L
  <2>1. SUFFICES ASSUME Bad # {} PROVE FALSE OBVIOUS
  <2>2. Bad \in SUBSET Nat BY <1>1
  <2>3. PICK m \in Bad : \A y \in Bad : m <= y BY <2>1, <2>2, LeastMember
  <2>4. m # 0 /\ m \in 1 .. L BY <1>1, <1>3, <2>3
  <2>5. m - 1 \in 0 .. L /\ m - 1 \notin Bad BY <1>1, <2>3, <2>4
  <2> QED BY <1>4, <2>3, <2>4, <2>5
<1>6. Good(L)
  <2> HIDE DEF Good
  <2> QED BY <1>1, <1>5
<1>7. From(L) = ToSet(s) \cap S BY <1>1 DEF ToSet
<1> QED BY <1>6, <1>7 DEF Among, Pk

\* Pairs of a sequence put after another.
LEMMA ConcatPairwise ==
  ASSUME NEW U, NEW s \in Seq(U), NEW q \in Seq(U), NEW r
  PROVE  /\ s \o q \in Seq(U) /\ ToSet(s \o q) = ToSet(s) \cup ToSet(q)
         /\ Pairwise(s \o q, r) <=> /\ Pairwise(s, r) /\ Pairwise(q, r)
                                    /\ \A x \in ToSet(s), y \in ToSet(q) : <<x, y>> \in r
<1> DEFINE c == s \o q
           ls == Len(s)
           lq == Len(q)
<1>1. /\ c \in Seq(U) /\ Len(c) = ls + lq /\ ls \in Nat /\ lq \in Nat
      /\ \A i \in 1 .. ls + lq : c[i] = IF i <= ls THEN s[i] ELSE q[i - ls]
  BY ConcatProperties
<1>2. DOMAIN s = 1 .. ls /\ DOMAIN q = 1 .. lq /\ DOMAIN c = 1 .. ls + lq BY <1>1
<1> HIDE DEF c, ls, lq
<1>3. (\A i \in 1 .. ls : i \in 1 .. ls + lq /\ c[i] = s[i])
      /\ \A i \in 1 .. lq : ls + i \in 1 .. ls + lq /\ c[ls + i] = q[i]
  <2>1. ASSUME NEW i \in 1 .. ls PROVE i \in 1 .. ls + lq /\ c[i] = s[i] BY <1>1
  <2>2. ASSUME NEW i \in 1 .. lq PROVE ls + i \in 1 .. ls + lq /\ c[ls + i] = q[i]
    <3>1. ls + i \in 1 .. ls + lq /\ ~(ls + i <= ls) /\ (ls + i) - ls = i BY <1>1
    <3> QED BY <3>1, <1>1
  <2> QED BY <2>1, <2>2
<1>4. \A i \in 1 .. ls + lq : i \in 1 .. ls \/ (i - ls \in 1 .. lq /\ ls + (i - ls) = i)
  BY <1>1
<1>5. ToSet(c) = ToSet(s) \cup ToSet(q)
  <2>1. ASSUME NEW i \in 1 .. ls + lq PROVE c[i] \in ToSet(s) \cup ToSet(q)
    BY <1>1, <1>2, <1>4 DEF ToSet
  <2>2. \A i \in 1 .. ls : s[i] \in ToSet(c) BY <1>2, <1>3 DEF ToSet
  <2>3. \A i \in 1 .. lq : q[i] \in ToSet(c) BY <1>2, <1>3 DEF ToSet
  <2> QED BY <2>1, <2>2, <2>3, <1>2 DEF ToSet
<1>6. ASSUME Pairwise(c, r)
      PROVE  Pairwise(s, r) /\ Pairwise(q, r) /\ \A x \in ToSet(s), y \in ToSet(q) : <<x, y>> \in r
  <2>1. Pairwise(s, r) BY <1>1, <1>3, <1>6 DEF Pairwise, ls
  <2>2. Pairwise(q, r)
    <3> SUFFICES ASSUME NEW m \in 1 .. lq, NEW n \in 1 .. lq, m < n PROVE <<q[m], q[n]>> \in r
      BY DEF Pairwise, lq
    <3>1. ls + m < ls + n BY <1>1
    <3> QED BY <3>1, <1>1, <1>3, <1>6 DEF Pairwise
  <2>3. ASSUME NEW m \in 1 .. ls, NEW n \in 1 .. lq PROVE <<s[m], q[n]>> \in r
    <3>1. m < ls + n BY <1>1
    <3> QED BY <3>1, <1>1, <1>3, <1>6 DEF Pairwise
  <2> QED BY <2>1, <2>2, <2>3, <1>2 DEF ToSet
<1>7. ASSUME Pairwise(s, r), Pairwise(q, r), \A x \in ToSet(s), y \in ToSet(q) : <<x, y>> \in r
      PROVE  Pairwise(c, r)
  <2> SUFFICES ASSUME NEW m \in 1 .. ls + lq, NEW n \in 1 .. ls + lq, m < n PROVE <<c[m], c[n]>> \in r
    BY <1>1 DEF Pairwise
  <2>1. CASE m \in 1 .. ls /\ n \in 1 .. ls BY <2>1, <1>3, <1>7 DEF Pairwise, ls
  <2>2. CASE m \in 1 .. ls /\ n \notin 1 .. ls
    <3>1. n - ls \in 1 .. lq /\ c[n] = q[n - ls]
      <4>1. n - ls \in 1 .. lq /\ ~(n <= ls) BY <2>2, <1>1
      <4> QED BY <4>1, <1>1
    <3>2. s[m] \in ToSet(s) /\ q[n - ls] \in ToSet(q) BY <2>2, <3>1, <1>2 DEF ToSet
    <3> QED BY <2>2, <3>1, <3>2, <1>3, <1>7
  <2>3. CASE m \notin 1 .. ls
    <3>1. m - ls \in 1 .. lq /\ n - ls \in 1 .. lq /\ m - ls < n - ls /\ c[m] = q[m - ls] /\ c[n] = q[n - ls]
      BY <2>3, <1>1, <1>4
    <3> QED BY <3>1, <1>7 DEF Pairwise, lq
  <2> QED BY <2>1, <2>2, <2>3
<1> QED BY <1>1, <1>5, <1>6, <1>7 DEF c

\* A relation that holds wherever another one does.
LEMMA PairwiseWeaker ==
  ASSUME NEW U, NEW s \in Seq(U), NEW r, NEW q, Pairwise(s, r),
         \A x, y \in ToSet(s) : <<x, y>> \in r => <<x, y>> \in q
  PROVE  Pairwise(s, q)
<1>1. DOMAIN s = 1 .. Len(s) OBVIOUS
<1>2. \A m \in 1 .. Len(s) : s[m] \in ToSet(s) BY <1>1 DEF ToSet
<1> QED BY <1>2 DEF Pairwise

\* Of one element, and of one put after, or before, the others.
LEMMA OnePairwise ==
  ASSUME NEW U, NEW w \in U, NEW r
  PROVE  <<w>> \in Seq(U) /\ ToSet(<<w>>) = {w} /\ Pairwise(<<w>>, r)
BY DEF ToSet, Pairwise
LEMMA AppendToSet ==
  ASSUME NEW s \in Seq(Nat), NEW w \in Nat
  PROVE  /\ Append(s, w) = s \o <<w>> /\ Append(s, w) \in Seq(Nat) /\ ToSet(Append(s, w)) = ToSet(s) \cup {w}
<1>1. Append(s, w) = s \o <<w>> BY AppendIsConcat
<1>2. <<w>> \in Seq(Nat) /\ ToSet(<<w>>) = {w} BY OnePairwise
<1>3. ToSet(s \o <<w>>) = ToSet(s) \cup ToSet(<<w>>) /\ s \o <<w>> \in Seq(Nat) BY <1>2, ConcatPairwise
<1> QED BY <1>1, <1>2, <1>3
LEMMA HeadAndTail ==
  ASSUME NEW U, NEW s \in Seq(U), s # <<>>
  PROVE  /\ Head(s) \in U /\ Tail(s) \in Seq(U) /\ s = <<Head(s)>> \o Tail(s)
         /\ ToSet(s) = {Head(s)} \cup ToSet(Tail(s))
<1>1. Head(s) \in U /\ Tail(s) \in Seq(U) /\ Len(Tail(s)) = Len(s) - 1 /\ Len(s) \in Nat /\ Len(s) >= 1
      /\ Head(s) = s[1] /\ \A i \in 1 .. Len(Tail(s)) : Tail(s)[i] = s[i + 1]
  BY HeadTailProperties, EmptySeq
<1>2. <<Head(s)>> \in Seq(U) /\ ToSet(<<Head(s)>>) = {Head(s)} BY <1>1, OnePairwise
<1> DEFINE c == <<Head(s)>> \o Tail(s)
<1>3. c \in Seq(U) /\ Len(c) = 1 + Len(Tail(s))
      /\ \A i \in 1 .. 1 + Len(Tail(s)) : c[i] = IF i <= 1 THEN <<Head(s)>>[i] ELSE Tail(s)[i - 1]
  BY <1>1, <1>2, ConcatProperties
<1>4. Len(c) = Len(s) BY <1>1, <1>3
<1>5. ASSUME NEW i \in 1 .. Len(s) PROVE c[i] = s[i]
  <2>1. CASE i = 1 BY <2>1, <1>1, <1>3
  <2>2. CASE i # 1
    <3>1. i - 1 \in 1 .. Len(Tail(s)) /\ (i - 1) + 1 = i /\ ~(i <= 1) /\ i \in 1 .. 1 + Len(Tail(s)) BY <2>2, <1>1
    <3> QED BY <3>1, <1>1, <1>3
  <2> QED BY <2>1, <2>2
<1>6. c = s BY <1>3, <1>4, <1>5, SeqEqual
<1> HIDE DEF c
<1>7. ToSet(c) = {Head(s)} \cup ToSet(Tail(s)) BY <1>1, <1>2, ConcatPairwise DEF c
<1> QED BY <1>1, <1>6, <1>7 DEF c

\* Userdata not finalized yet are in the root list from the newest to the oldest.
RootOrder == {p \in Nat \X Nat :
  p[1] # p[2] /\ (p[1] \notin finalized /\ p[2] \notin finalized => p[1] > p[2])}
\* So are those of one separation among those called, or to be called.
CallOrder == {p \in Nat \X Nat : p[1] # p[2] /\ (batch[p[1]] = batch[p[2]] => p[1] > p[2])}

\* Separations are numbered without gaps, so the next one has a new number.
Numbered == /\ batch \in Seq(Nat) /\ \E k \in Nat : ToSet(batch) \ {0} = 1 .. k
            /\ \A w \in DOMAIN batch : w \notin finalized => batch[w] = 0
Lists == /\ root \in Seq(Nat) /\ tmudata \in Seq(Nat) /\ called \in Seq(Nat)
         /\ ToSet(root) \cup finalized \subseteq DOMAIN batch
         /\ ToSet(called) \cup ToSet(tmudata) \subseteq finalized
         /\ ToSet(root) \cap ToSet(tmudata) = {}
         /\ Pairwise(root, RootOrder) /\ Pairwise(called \o tmudata, CallOrder)
Due == /\ mode = "open" => owed = {}
       /\ mode = "closing" => owed \subseteq ToSet(called) \cup ToSet(tmudata)
       /\ mode = "closed" => owed \subseteq ToSet(called)
Held == /\ running \in Seq(Nat)
        /\ mode # "closed" => Live \subseteq ToSet(root) \cup ToSet(tmudata)
FinInv == Numbered /\ Lists /\ Due /\ Held /\ mode \in {"open", "closing", "closed"}

LEMMA FinInitInv == finInit => FinInv
<1> SUFFICES ASSUME finInit PROVE FinInv OBVIOUS
<1>1. /\ root = <<>> /\ tmudata = <<>> /\ finalized = {} /\ reached = {} /\ running = <<>>
      /\ mode = "open" /\ called = <<>> /\ batch = <<>> /\ owed = {}
      /\ ToSet(<<>>) = {} /\ <<>> \in Seq(Nat) /\ <<>> \o <<>> = <<>> /\ Len(<<>>) = 0
  BY DEF finInit, ToSet
<1>2. \A r : Pairwise(<<>>, r) BY DEF Pairwise
<1>3. 1 .. 0 = {} /\ DOMAIN <<>> = {} OBVIOUS
<1>4. Numbered
  <2>1. ToSet(batch) \ {0} = 1 .. 0 BY <1>1, <1>3
  <2> QED BY <2>1, <1>1, <1>3 DEF Numbered
<1>5. Lists BY <1>1, <1>2 DEF Lists
<1> QED BY <1>1, <1>4, <1>5 DEF FinInv, Due, Held, Live

\* luaC_separateudata, over userdata of the root list.
LEMMA SeparateRight ==
  ASSUME FinInv, NEW white \in SUBSET ToSet(root), luaC_separateudata(white), called' = called
  PROVE  LET moved == {w \in white : MustCall(w)}
         IN  /\ Numbered' /\ tmudata' \in Seq(Nat) /\ ToSet(tmudata') = ToSet(tmudata) \cup moved
             /\ finalized' = finalized \cup white /\ finalized' \subseteq DOMAIN batch'
             /\ ToSet(called') \cup ToSet(tmudata') \subseteq finalized'
             /\ DOMAIN batch' = DOMAIN batch
             /\ Pairwise(called' \o tmudata', CallOrder')
<1> DEFINE moved == {w \in white : MustCall(w)}
           A == Among(root, moved)
           s == called \o tmudata
<1>1. /\ tmudata' = tmudata \o A /\ finalized' = finalized \cup white
      /\ batch' = [w \in DOMAIN batch |-> IF w \in moved THEN NextBatch ELSE batch[w]]
  BY DEF luaC_separateudata
<1>2. /\ root \in Seq(Nat) /\ tmudata \in Seq(Nat) /\ called \in Seq(Nat) /\ batch \in Seq(Nat)
      /\ ToSet(root) \subseteq DOMAIN batch /\ finalized \subseteq DOMAIN batch
      /\ ToSet(called) \subseteq finalized /\ ToSet(tmudata) \subseteq finalized
      /\ Pairwise(root, RootOrder) /\ Pairwise(s, CallOrder)
      /\ \A w \in DOMAIN batch : w \notin finalized => batch[w] = 0
  BY DEF FinInv, Lists, Numbered
<1>3. moved \subseteq ToSet(root) /\ moved \cap finalized = {} /\ moved \subseteq white BY DEF MustCall
<1>4. A \in Seq(Nat) /\ ToSet(A) = moved /\ Pairwise(A, RootOrder)
  <2>1. A \in Seq(Nat) /\ ToSet(A) = ToSet(root) \cap moved /\ Pairwise(A, RootOrder)
    BY <1>2, AmongRight
  <2> QED BY <2>1, <1>3
<1>5. s \in Seq(Nat) /\ ToSet(s) = ToSet(called) \cup ToSet(tmudata) /\ ToSet(s) \subseteq finalized
  BY <1>2, ConcatPairwise
<1> HIDE DEF moved, A
<1>6. tmudata' \in Seq(Nat) /\ ToSet(tmudata') = ToSet(tmudata) \cup moved
  <2>1. tmudata \o A \in Seq(Nat) /\ ToSet(tmudata \o A) = ToSet(tmudata) \cup ToSet(A)
    BY <1>2, <1>4, ConcatPairwise
  <2> QED BY <2>1, <1>1, <1>4
<1>7. called' \o tmudata' = s \o A
  <2>1. called \in Seq(Nat) /\ tmudata \in Seq(Nat) /\ A \in Seq(Nat) BY <1>2, <1>4
  <2>2. (called \o tmudata) \o A = called \o (tmudata \o A) BY <2>1, ConcatAssociative
  <2> QED BY <2>2, <1>1
<1>8. PICK k \in Nat : ToSet(batch) \ {0} = 1 .. k BY DEF FinInv, Numbered
<1>9. NextBatch = k + 1 /\ NextBatch \in Nat
  <2>1. Cardinality(1 .. k) = k
    <3>1. Cardinality(1 .. k) = IF 1 > k THEN 0 ELSE k - 1 + 1 BY FS_Interval
    <3> QED BY <3>1
  <2>2. NextBatch = 1 + Cardinality(1 .. k) BY <1>8 DEF NextBatch
  <2> HIDE DEF NextBatch
  <2> QED BY <2>1, <2>2
<1> HIDE DEF s
<1>10. \A w \in DOMAIN batch : batch[w] \in Nat /\ batch[w] \in ToSet(batch) /\ batch[w] # NextBatch
  <2>1. \A w \in DOMAIN batch : batch[w] \in Nat /\ batch[w] \in ToSet(batch) BY <1>2 DEF ToSet
  <2>2. NextBatch # 0 /\ NextBatch \notin 1 .. k BY <1>9
  <2> QED BY <2>1, <2>2, <1>8
<1>11. /\ DOMAIN batch' = DOMAIN batch
       /\ \A w \in DOMAIN batch : batch'[w] = IF w \in moved THEN NextBatch ELSE batch[w]
  BY <1>1
<1>12. batch' \in Seq(Nat)
  <2>1. DOMAIN batch = 1 .. Len(batch) /\ Len(batch) \in Nat BY <1>2
  <2>2. batch' \in [1 .. Len(batch) -> Nat] BY <2>1, <1>1, <1>9, <1>10
  <2> QED BY <2>1, <2>2, IsASeq
<1>13. \E n \in Nat : ToSet(batch') \ {0} = 1 .. n
  <2>1. CASE moved = {}
    <3>1. ToSet(batch') = ToSet(batch) BY <2>1, <1>11 DEF ToSet
    <3> QED BY <3>1, <1>8
  <2>2. CASE moved # {}
    <3>1. \A x \in ToSet(batch') \ {0} : x \in ToSet(batch) \ {0} \/ x = k + 1
      BY <1>9, <1>10, <1>11 DEF ToSet
    <3>2. k + 1 \in ToSet(batch')
      <4>1. PICK w \in moved : w \in DOMAIN batch BY <2>2, <1>2, <1>3
      <4> QED BY <4>1, <1>9, <1>11 DEF ToSet
    <3>3. ASSUME NEW x \in ToSet(batch) \ {0} PROVE x \in ToSet(batch')
      <4>1. PICK w \in DOMAIN batch : batch[w] = x BY DEF ToSet
      <4>2. w \notin moved BY <4>1, <1>2, <1>3
      <4> QED BY <4>1, <4>2, <1>11 DEF ToSet
    <3>4. ToSet(batch') \ {0} = (1 .. k) \cup {k + 1} BY <3>1, <3>2, <3>3, <1>8
    <3>5. (1 .. k) \cup {k + 1} = 1 .. k + 1 /\ k + 1 \in Nat OBVIOUS
    <3> QED BY <3>4, <3>5
  <2> QED BY <2>1, <2>2
<1>14. Numbered'
  <2>1. \A w \in DOMAIN batch' : w \notin finalized' => batch'[w] = 0
    BY <1>1, <1>2, <1>3, <1>11
  <2> QED BY <2>1, <1>12, <1>13 DEF Numbered
<1>15. Pairwise(s \o A, CallOrder')
  <2>1. CallOrder' = {p \in Nat \X Nat : p[1] # p[2] /\ (batch'[p[1]] = batch'[p[2]] => p[1] > p[2])}
    BY DEF CallOrder
  <2>2. \A x \in ToSet(s) : x \in DOMAIN batch /\ x \notin moved /\ batch'[x] = batch[x] /\ x \in Nat
    <3>1. \A x \in DOMAIN batch : x \in Nat BY <1>2
    <3> QED BY <3>1, <1>2, <1>3, <1>5, <1>11
  <2>3. \A x \in moved : x \in DOMAIN batch /\ batch'[x] = NextBatch /\ x \in Nat
    <3>1. \A x \in DOMAIN batch : x \in Nat BY <1>2
    <3> QED BY <3>1, <1>2, <1>3, <1>11
  <2>4. Pairwise(s, CallOrder')
    <3>1. ASSUME NEW x \in ToSet(s), NEW y \in ToSet(s), <<x, y>> \in CallOrder PROVE <<x, y>> \in CallOrder'
      <4>1. <<x, y>>[1] = x /\ <<x, y>>[2] = y /\ <<x, y>> \in Nat \X Nat BY <2>2
      <4> QED BY <4>1, <3>1, <2>1, <2>2 DEF CallOrder
    <3> QED BY <3>1, <1>2, <1>5, PairwiseWeaker
  <2>5. Pairwise(A, CallOrder')
    <3>1. ASSUME NEW x \in ToSet(A), NEW y \in ToSet(A), <<x, y>> \in RootOrder PROVE <<x, y>> \in CallOrder'
      <4>1. <<x, y>>[1] = x /\ <<x, y>>[2] = y /\ <<x, y>> \in Nat \X Nat BY <1>4, <2>3
      <4>2. x \notin finalized /\ y \notin finalized BY <1>3, <1>4
      <4> QED BY <4>1, <4>2, <3>1, <2>1 DEF RootOrder
    <3> QED BY <3>1, <1>4, PairwiseWeaker
  <2>6. ASSUME NEW x \in ToSet(s), NEW y \in ToSet(A) PROVE <<x, y>> \in CallOrder'
    <3>1. <<x, y>>[1] = x /\ <<x, y>>[2] = y /\ <<x, y>> \in Nat \X Nat BY <1>4, <2>2, <2>3
    <3>2. x # y /\ batch'[x] # batch'[y] BY <1>4, <1>10, <2>2, <2>3
    <3> QED BY <3>1, <3>2, <2>1
  <2> QED BY <2>4, <2>5, <2>6, <1>4, <1>5, ConcatPairwise
<1>16. finalized' \subseteq DOMAIN batch' BY <1>1, <1>2, <1>11
<1>17. ToSet(called') \cup ToSet(tmudata') \subseteq finalized'
  BY <1>1, <1>2, <1>3, <1>6
<1> QED BY <1>1, <1>6, <1>7, <1>11, <1>14, <1>15, <1>16, <1>17 DEF moved

\* What stays in the root list stays in its order.
LEMMA RootKept ==
  ASSUME Lists, NEW S, root' = Among(root, S), finalized \subseteq finalized'
  PROVE  /\ root' \in Seq(Nat) /\ ToSet(root') = ToSet(root) \cap S
         /\ Pairwise(root', RootOrder')
<1>1. root' \in Seq(Nat) /\ ToSet(root') = ToSet(root) \cap S /\ Pairwise(root', RootOrder)
  BY AmongRight DEF Lists
<1>2. ASSUME NEW x, NEW y, <<x, y>> \in RootOrder PROVE <<x, y>> \in RootOrder'
  BY <1>2 DEF RootOrder
<1>3. Pairwise(root', RootOrder') BY <1>1, <1>2, PairwiseWeaker
<1> QED BY <1>1, <1>3

\* GCTM: the first of tmudata goes to the head of the root list.
LEMMA GCTMRight ==
  ASSUME FinInv, GCTM, mode # "closed"
  PROVE  FinInv'
<1> DEFINE h == Head(tmudata)
           tl == Tail(tmudata)
<1>1. /\ tmudata # <<>> /\ tmudata' = tl /\ root' = <<h>> \o root
      /\ finalized' = finalized /\ batch' = batch /\ mode' = mode /\ reached' = reached
      /\ \/ running' = Append(running, h) /\ called' = Append(called, h) /\ owed' = owed
         \/ running' = running /\ called' = called /\ owed' = owed \ {h}
  BY DEF GCTM
<1>2. /\ root \in Seq(Nat) /\ tmudata \in Seq(Nat) /\ called \in Seq(Nat) /\ running \in Seq(Nat)
      /\ ToSet(root) \cup finalized \subseteq DOMAIN batch
      /\ ToSet(called) \subseteq finalized /\ ToSet(tmudata) \subseteq finalized
      /\ ToSet(root) \cap ToSet(tmudata) = {}
      /\ Pairwise(root, RootOrder) /\ Pairwise(called \o tmudata, CallOrder)
  BY DEF FinInv, Lists, Held
<1>3. h \in Nat /\ tl \in Seq(Nat) /\ tmudata = <<h>> \o tl /\ ToSet(tmudata) = {h} \cup ToSet(tl)
  BY <1>1, <1>2, HeadAndTail
<1> HIDE DEF h, tl
<1>4. <<h>> \in Seq(Nat) /\ ToSet(<<h>>) = {h} /\ Pairwise(<<h>>, RootOrder)
  BY <1>3, OnePairwise
<1>5. h \in finalized /\ h \in ToSet(tmudata) /\ h \notin ToSet(root) BY <1>2, <1>3
<1>6. Pairwise(called, CallOrder) /\ Pairwise(tmudata, CallOrder)
      /\ \A x \in ToSet(called), y \in ToSet(tmudata) : <<x, y>> \in CallOrder
  BY <1>2, ConcatPairwise
<1>7. Pairwise(tl, CallOrder) /\ \A y \in ToSet(tl) : <<h, y>> \in CallOrder
  <2>1. Pairwise(<<h>> \o tl, CallOrder) BY <1>3, <1>6
  <2> QED BY <2>1, <1>3, <1>4, ConcatPairwise
<1>8. h \notin ToSet(tl)
  <2>1. <<h, h>> \notin CallOrder BY DEF CallOrder
  <2> QED BY <2>1, <1>7
<1>9. \A x \in ToSet(root) : <<h, x>> \in RootOrder
  <2>1. \A x \in DOMAIN batch : x \in Nat BY DEF FinInv, Numbered
  <2>2. \A x \in ToSet(root) : x \in Nat /\ x # h BY <2>1, <1>2, <1>5
  <2> QED BY <2>2, <1>3, <1>5 DEF RootOrder
<1>10. root' \in Seq(Nat) /\ ToSet(root') = {h} \cup ToSet(root) /\ Pairwise(root', RootOrder)
  BY <1>1, <1>2, <1>4, <1>9, ConcatPairwise
<1>11. RootOrder' = RootOrder /\ CallOrder' = CallOrder BY <1>1 DEF RootOrder, CallOrder
<1>12. CASE running' = Append(running, h) /\ called' = Append(called, h) /\ owed' = owed
  <2>1. /\ running' \in Seq(Nat) /\ ToSet(running') = ToSet(running) \cup {h}
        /\ called' \in Seq(Nat) /\ ToSet(called') = ToSet(called) \cup {h} /\ called' = called \o <<h>>
    <3>1. running \in Seq(Nat) /\ called \in Seq(Nat) /\ h \in Nat BY <1>2, <1>3
    <3> HIDE DEF h
    <3>2. running' \in Seq(Nat) /\ ToSet(running') = ToSet(running) \cup {h} BY <3>1, <1>12, AppendToSet
    <3>3. called' \in Seq(Nat) /\ ToSet(called') = ToSet(called) \cup {h} BY <3>1, <1>12, AppendToSet
    <3>4. called' = called \o <<h>>
      <4>1. Append(called, h) = called \o <<h>> BY <3>1, AppendToSet
      <4> QED BY <4>1, <1>12
    <3> QED BY <3>2, <3>3, <3>4
  <2>2. called' \o tl = called \o tmudata
    <3>1. called \in Seq(Nat) /\ <<h>> \in Seq(Nat) /\ tl \in Seq(Nat) BY <1>2, <1>3, <1>4
    <3> HIDE DEF h, tl
    <3>2. (called \o <<h>>) \o tl = called \o (<<h>> \o tl) BY <3>1, ConcatAssociative
    <3> QED BY <3>2, <2>1, <1>3
  <2>3. Lists' BY <2>1, <2>2, <1>1, <1>2, <1>3, <1>5, <1>8, <1>10, <1>11 DEF Lists
  <2>4. Due' BY <2>1, <1>1, <1>3, <1>12 DEF FinInv, Due
  <2>5. Held' BY <2>1, <1>1, <1>3, <1>10 DEF FinInv, Held, Live
  <2>6. Numbered' BY <1>1 DEF FinInv, Numbered
  <2> QED BY <2>3, <2>4, <2>5, <2>6, <1>1 DEF FinInv
<1>13. CASE running' = running /\ called' = called /\ owed' = owed \ {h}
  <2>1. Pairwise(called' \o tl, CallOrder) BY <1>2, <1>3, <1>6, <1>7, <1>13, ConcatPairwise
  <2>2. Lists' BY <2>1, <1>1, <1>2, <1>3, <1>5, <1>8, <1>10, <1>11, <1>13 DEF Lists
  <2>3. Due' BY <1>1, <1>3, <1>13 DEF FinInv, Due
  <2>4. Held' BY <1>1, <1>2, <1>3, <1>10, <1>13 DEF FinInv, Held, Live
  <2>5. Numbered' BY <1>1 DEF FinInv, Numbered
  <2> QED BY <2>2, <2>3, <2>4, <2>5, <1>1 DEF FinInv
<1> QED BY <1>1, <1>12, <1>13

LEMMA FinStepInv == FinInv /\ [finNext]_finVars => FinInv'
<1> SUFFICES ASSUME FinInv, [finNext]_finVars PROVE FinInv' OBVIOUS
<1>0. /\ root \in Seq(Nat) /\ tmudata \in Seq(Nat) /\ called \in Seq(Nat) /\ running \in Seq(Nat)
      /\ batch \in Seq(Nat) /\ DOMAIN batch = 1 .. Len(batch) /\ Len(batch) \in Nat
      /\ ToSet(root) \subseteq DOMAIN batch /\ finalized \subseteq DOMAIN batch
      /\ ToSet(called) \subseteq finalized /\ ToSet(tmudata) \subseteq finalized
      /\ ToSet(root) \cap ToSet(tmudata) = {} /\ Pairwise(root, RootOrder)
      /\ mode # "closed" => Live \subseteq ToSet(root) \cup ToSet(tmudata)
  BY DEF FinInv, Lists, Numbered, Held
<1>1. CASE luaS_newudata
  <2> DEFINE w == Len(batch) + 1
  <2>1. /\ batch' = Append(batch, 0) /\ root' = <<w>> \o root /\ reached' = reached \cup {w}
        /\ UNCHANGED <<tmudata, finalized, running, mode, called, owed>> /\ mode # "closed"
    BY <1>1 DEF luaS_newudata, Executing
  <2>2. w \in Nat /\ w \notin DOMAIN batch BY <1>0
  <2>3. /\ batch' \in Seq(Nat) /\ ToSet(batch') = ToSet(batch) \cup {0} /\ Len(batch') = w
        /\ DOMAIN batch' = DOMAIN batch \cup {w} /\ batch'[w] = 0
        /\ \A x \in DOMAIN batch : batch'[x] = batch[x]
    <3>1. 0 \in Nat OBVIOUS
    <3>2. Append(batch, 0) \in Seq(Nat) /\ ToSet(Append(batch, 0)) = ToSet(batch) \cup {0}
      <4>1. batch \in Seq(Nat) BY <1>0
      <4>2. Append(batch, 0) \in Seq(Nat) BY <4>1, <3>1, AppendToSet
      <4>3. ToSet(Append(batch, 0)) = ToSet(batch) \cup {0} BY <4>1, <3>1, AppendToSet
      <4> QED BY <4>2, <4>3
    <3>3. Len(Append(batch, 0)) = Len(batch) + 1 /\ Append(batch, 0)[Len(batch) + 1] = 0
          /\ \A x \in 1 .. Len(batch) : Append(batch, 0)[x] = batch[x]
      BY <1>0, <3>1, AppendProperties
    <3>4. DOMAIN Append(batch, 0) = 1 .. Len(batch) + 1 BY <3>2, <3>3
    <3>5. 1 .. Len(batch) + 1 = (1 .. Len(batch)) \cup {Len(batch) + 1} BY <1>0
    <3> QED BY <3>2, <3>3, <3>4, <3>5, <2>1, <1>0
  <2> HIDE DEF w
  <2>4. Numbered'
    <3>1. ToSet(batch') \ {0} = ToSet(batch) \ {0} BY <2>3
    <3> QED BY <3>1, <2>1, <2>3 DEF FinInv, Numbered
  <2>5. <<w>> \in Seq(Nat) /\ ToSet(<<w>>) = {w} /\ Pairwise(<<w>>, RootOrder) BY <2>2, OnePairwise
  <2>6. \A x \in ToSet(root) : <<w, x>> \in RootOrder
    <3>1. \A x \in ToSet(root) : x \in Nat /\ w > x BY <1>0 DEF w
    <3> QED BY <3>1, <2>2 DEF RootOrder
  <2>7. root' \in Seq(Nat) /\ ToSet(root') = {w} \cup ToSet(root) /\ Pairwise(root', RootOrder)
    BY <2>1, <2>5, <2>6, <1>0, ConcatPairwise
  <2>8. RootOrder' = RootOrder BY <2>1 DEF RootOrder
  <2>9. Pairwise(called \o tmudata, CallOrder')
    <3>1. called \o tmudata \in Seq(Nat) /\ ToSet(called \o tmudata) \subseteq DOMAIN batch
      <4>1. called \o tmudata \in Seq(Nat) /\ ToSet(called \o tmudata) = ToSet(called) \cup ToSet(tmudata)
        BY <1>0, ConcatPairwise
      <4> QED BY <4>1, <1>0
    <3>2. ASSUME NEW x \in DOMAIN batch, NEW y \in DOMAIN batch, <<x, y>> \in CallOrder
          PROVE  <<x, y>> \in CallOrder'
      BY <3>2, <2>3 DEF CallOrder
    <3>3. \A x, y \in ToSet(called \o tmudata) : <<x, y>> \in CallOrder => <<x, y>> \in CallOrder'
      BY <3>1, <3>2
    <3>4. Pairwise(called \o tmudata, CallOrder) BY DEF FinInv, Lists
    <3> QED BY <3>1, <3>3, <3>4, PairwiseWeaker
  <2>10. Lists'
    <3>1. finalized' \subseteq DOMAIN batch' BY <2>1, <2>3, <1>0
    <3>2. tmudata' \in Seq(Nat) /\ called' \in Seq(Nat) /\ running' \in Seq(Nat) BY <2>1, <1>0
    <3>3. ToSet(root') \cap ToSet(tmudata') = {} BY <2>1, <2>2, <2>7, <1>0
    <3>4. ToSet(called') \subseteq finalized' /\ ToSet(tmudata') \subseteq finalized' BY <2>1, <1>0
    <3>5. ToSet(root') \subseteq DOMAIN batch' BY <2>3, <2>7, <1>0
    <3>6. Pairwise(root', RootOrder') BY <2>7, <2>8
    <3>7. Pairwise(called' \o tmudata', CallOrder') BY <2>1, <2>9
    <3>8. ToSet(root') \cup finalized' \subseteq DOMAIN batch'
          /\ ToSet(called') \cup ToSet(tmudata') \subseteq finalized'
      BY <3>1, <3>4, <3>5
    <3> QED BY <2>7, <3>2, <3>3, <3>6, <3>7, <3>8 DEF Lists
  <2>11. Due' BY <2>1 DEF FinInv, Due
  <2>12. Held' BY <2>1, <2>7, <1>0 DEF Held, Live
  <2> QED BY <2>1, <2>4, <2>10, <2>11, <2>12 DEF FinInv
<1>2. CASE lua_setmetatable
  BY <1>2 DEF lua_setmetatable, FinInv, Numbered, Lists, Due, Held, Live, RootOrder, CallOrder
<1>3. CASE Release
  <2>1. Live' \subseteq Live /\ UNCHANGED <<root, tmudata, finalized, running, mode, called, batch, owed>>
    BY <1>3 DEF Release, Live
  <2>2. RootOrder' = RootOrder /\ CallOrder' = CallOrder BY <2>1 DEF RootOrder, CallOrder
  <2> QED BY <2>1, <2>2 DEF FinInv, Numbered, Lists, Due, Held
<1>4. CASE Collect
  <2> DEFINE white == ToSet(root) \ Live
             moved == {w \in white : MustCall(w)}
  <2>1. /\ luaC_separateudata(white) /\ root' = Among(root, Live) /\ mode # "closed"
        /\ UNCHANGED <<reached, running, mode, called, owed>>
    BY <1>4 DEF Collect, Executing
  <2>2. /\ Numbered' /\ tmudata' \in Seq(Nat) /\ ToSet(tmudata') = ToSet(tmudata) \cup moved
        /\ finalized' = finalized \cup white /\ finalized' \subseteq DOMAIN batch'
        /\ ToSet(called') \cup ToSet(tmudata') \subseteq finalized' /\ DOMAIN batch' = DOMAIN batch
        /\ Pairwise(called' \o tmudata', CallOrder')
    BY <2>1, SeparateRight
  <2>3. root' \in Seq(Nat) /\ ToSet(root') = ToSet(root) \cap Live /\ Pairwise(root', RootOrder')
    BY <2>1, <2>2, RootKept DEF FinInv
  <2>4. Lists' BY <2>1, <2>2, <2>3, <1>0 DEF Lists
  <2>5. Due' BY <2>1, <2>2 DEF FinInv, Due
  <2>6. Held'
    <3>1. Live' = Live BY <2>1 DEF Live
    <3> QED BY <3>1, <2>1, <2>2, <2>3, <1>0 DEF Held
  <2> QED BY <2>1, <2>2, <2>4, <2>5, <2>6 DEF FinInv
<1>5. CASE StepFinalize
  <2>1. CASE GCTM BY <2>1, <1>5, GCTMRight DEF StepFinalize, Executing
  <2>2. CASE UNCHANGED <<root, tmudata, finalized, gc, reached, running, mode, called, batch, owed>>
    BY <2>2 DEF FinInv, Numbered, Lists, Due, Held, Live, RootOrder, CallOrder
  <2> QED BY <1>5, <2>1, <2>2 DEF StepFinalize
<1>6. CASE EndFinalizer
  <2>1. PICK n \in 0 .. Len(running) - 1 : running' = SubSeq(running, 1, n) BY <1>6 DEF EndFinalizer
  <2>2. UNCHANGED <<root, tmudata, finalized, gc, reached, mode, called, batch, owed>> BY <1>6 DEF EndFinalizer
  <2>3. running' \in Seq(Nat) /\ ToSet(running') \subseteq ToSet(running)
    <3>1. n \in Nat /\ Len(running) \in Nat /\ n <= Len(running) /\ DOMAIN running = 1 .. Len(running) BY <1>0
    <3>2. \A i \in 1 .. n : running[i] \in Nat /\ running[i] \in ToSet(running) /\ 1 + i - 1 = i
      <4>1. \A i \in 1 .. n : i \in 1 .. Len(running) /\ 1 + i - 1 = i BY <3>1
      <4>2. \A i \in 1 .. Len(running) : running[i] \in Nat BY <1>0
      <4>3. \A i \in 1 .. Len(running) : running[i] \in ToSet(running) BY <3>1 DEF ToSet
      <4> QED BY <4>1, <4>2, <4>3
    <3>3. /\ running' \in Seq(Nat) /\ Len(running') = IF 1 <= n THEN n - 1 + 1 ELSE 0
          /\ \A i \in 1 .. n - 1 + 1 : running'[i] = running[1 + i - 1]
      BY <2>1, <3>1, <3>2, SubSeqProperties
    <3>4. DOMAIN running' = 1 .. n
      <4>1. Len(running') = n BY <3>1, <3>3
      <4> QED BY <4>1, <3>3
    <3>5. n - 1 + 1 = n BY <3>1
    <3> QED BY <3>2, <3>3, <3>4, <3>5 DEF ToSet
  <2>4. RootOrder' = RootOrder /\ CallOrder' = CallOrder BY <2>2 DEF RootOrder, CallOrder
  <2> QED BY <2>2, <2>3, <2>4 DEF FinInv, Numbered, Lists, Due, Held, Live
<1>7. CASE lua_close
  <2> DEFINE white == ToSet(root)
             moved == {w \in white : MustCall(w)}
             stay == {w \in ToSet(root) : ~MustCall(w)}
  <2>1. /\ luaC_separateudata(white) /\ root' = Among(root, stay) /\ mode = "open" /\ mode' = "closing"
        /\ owed' = ToSet(tmudata') /\ UNCHANGED <<reached, running, called>>
    BY <1>7 DEF lua_close
  <2>2. /\ Numbered' /\ tmudata' \in Seq(Nat) /\ ToSet(tmudata') = ToSet(tmudata) \cup moved
        /\ finalized' = finalized \cup white /\ finalized' \subseteq DOMAIN batch'
        /\ ToSet(called') \cup ToSet(tmudata') \subseteq finalized' /\ DOMAIN batch' = DOMAIN batch
        /\ Pairwise(called' \o tmudata', CallOrder')
    BY <2>1, SeparateRight
  <2>3. root' \in Seq(Nat) /\ ToSet(root') = ToSet(root) \cap stay /\ Pairwise(root', RootOrder')
    BY <2>1, <2>2, RootKept DEF FinInv
  <2>4. Lists' BY <2>1, <2>2, <2>3, <1>0 DEF Lists
  <2>5. Due' BY <2>1 DEF Due
  <2>6. Held'
    <3>1. Live' = Live BY <2>1 DEF Live
    <3> QED BY <3>1, <2>1, <2>2, <2>3, <1>0 DEF Held
  <2> QED BY <2>1, <2>2, <2>4, <2>5, <2>6 DEF FinInv
<1>8. CASE callallgcTM
  BY <1>8, GCTMRight DEF callallgcTM
<1>9. CASE close_state
  <2>1. /\ tmudata = <<>> /\ mode = "closing" /\ mode' = "closed" /\ root' = <<>>
        /\ UNCHANGED <<tmudata, finalized, running, called, batch, owed>>
    BY <1>9 DEF close_state
  <2>2. ToSet(<<>>) = {} /\ <<>> \in Seq(Nat) /\ Pairwise(<<>>, RootOrder) BY DEF ToSet, Pairwise
  <2>3. RootOrder' = RootOrder /\ CallOrder' = CallOrder BY <2>1 DEF RootOrder, CallOrder
  <2>4. Lists' BY <2>1, <2>2, <2>3 DEF FinInv, Lists
  <2>5. Due' BY <2>1, <2>2 DEF FinInv, Due
  <2>6. Held' /\ Numbered' BY <2>1, <1>0 DEF FinInv, Held, Numbered
  <2> QED BY <2>1, <2>4, <2>5, <2>6 DEF FinInv
<1>10. CASE UNCHANGED finVars
  BY <1>10 DEF finVars, FinInv, Numbered, Lists, Due, Held, Live, RootOrder, CallOrder
<1> QED BY <1>1, <1>2, <1>3, <1>4, <1>5, <1>6, <1>7, <1>8, <1>9, <1>10 DEF finNext

LEMMA FinInvRight == FinInv => FinalizersRight
<1> SUFFICES ASSUME FinInv PROVE FinalizersRight OBVIOUS
<1> DEFINE s == called \o tmudata
<1>1. s \in Seq(Nat) /\ Pairwise(s, CallOrder)
  <2>1. called \in Seq(Nat) /\ tmudata \in Seq(Nat) /\ Pairwise(s, CallOrder) BY DEF FinInv, Lists
  <2> QED BY <2>1, ConcatProperties
<1>2. DOMAIN s = 1 .. Len(s) /\ Len(s) \in Nat BY <1>1
<1> HIDE DEF s
<1>3. \A m, n \in DOMAIN s : m < n => s[m] # s[n] /\ (batch[s[m]] = batch[s[n]] => s[m] > s[n])
  BY <1>1, <1>2 DEF Pairwise, CallOrder
<1>4. ReverseOrder BY <1>3 DEF ReverseOrder, s
<1>5. IsInjective(s)
  <2> SUFFICES ASSUME NEW m \in DOMAIN s, NEW n \in DOMAIN s, s[m] = s[n] PROVE m = n BY DEF IsInjective
  <2>1. m < n \/ n < m \/ m = n BY <1>2
  <2> QED BY <2>1, <1>3
<1>6. CalledOnce BY <1>5 DEF FinInv, Held, Live, CalledOnce, s
<1>7. ClosedFinalized BY DEF FinInv, Due, ClosedFinalized
<1> QED BY <1>4, <1>6, <1>7 DEF FinalizersRight

\* The userdata of one separation are finalized in reverse order of creation, none
\* twice, none is freed that waits or runs its finalizer, and lua_close leaves
\* none that it owes, whatever the finalizers do.
THEOREM FinalizersCorrect == finSpec => []FinalizersRight
<1>1. finSpec => []FinInv BY FinInitInv, FinStepInv, PTL DEF finSpec
<1> QED BY <1>1, FinInvRight, PTL
=============================================================================
