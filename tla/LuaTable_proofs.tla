--------------------------- MODULE LuaTable_proofs ---------------------------
(***************************************************************************)
(* The node vector of a table stays well formed under every operation.     *)
(* The three ways in which newkey stores a key are lemmas about a vector   *)
(* given by its nodes N, keys kf, links nx and main positions M; the steps *)
(* of the specification only instantiate them.                             *)
(*                                                                         *)
(* A traversal with luaH_next never fails, returns no key twice and passes *)
(* over none that kept its value.  Two things make it so: the live node of *)
(* a key comes before its dead ones in the chain, which newkey keeps in    *)
(* its three ways to store a key, and no step between two calls of         *)
(* luaH_next moves a key.                                                  *)
(***************************************************************************)
EXTENDS LuaTableMap, LuaNext, FiniteSetTheorems, TLAPS

\* A node vector whose chains are complete, acyclic and headed by a key in its
\* main position.
Chained(N, kf, nx, M) ==
  /\ \A n \in N : kf[n] = nil => nx[n] = nil /\ \A m \in N : nx[m] # n
  /\ \A m, n \in N : nx[m] = nx[n] /\ nx[n] # nil => m = n
  /\ \A n \in N : kf[n] # nil => n \in Reach(N, nx, M[kf[n]])
  /\ \A n \in N : kf[n] # nil => kf[M[kf[n]]] # nil /\ M[kf[M[kf[n]]]] = M[kf[n]]
  /\ \A n \in N : nx[n] # nil => \E S \in SUBSET N : nx[n] \in S /\ Closed(nx, S) /\ n \notin S

LEMMA ReachStart ==
  ASSUME NEW N, NEW nx, NEW p \in N
  PROVE  p \in Reach(N, nx, p)
BY DEF Reach

\* newkey, main position without a value: the chains do not change.
LEMMA ChainedMain ==
  ASSUME NEW N, nil \notin N, nil \notin Key,
         NEW kf \in [N -> KeyN], NEW nx \in [N -> N \cup {nil}], NEW M \in [Key -> N],
         NEW k \in Key, Chained(N, kf, nx, M)
  PROVE  Chained(N, [kf EXCEPT ![M[k]] = k], nx, M)
<1> DEFINE mp == M[k]
           kf2 == [kf EXCEPT ![mp] = k]
<1>m. mp \in N /\ mp \in Reach(N, nx, mp) BY ReachStart
<1>k. k # nil /\ kf2 \in [N -> KeyN] /\ kf2[mp] = k /\ \A n \in N : n # mp => kf2[n] = kf[n]
  BY DEF KeyN
<1> HIDE DEF mp, kf2
<1>e. mp = M[k] BY DEF mp
<1>t. \A n \in N : kf[n] # nil => kf[n] \in Key /\ M[kf[n]] \in N BY DEF KeyN
<1>1. \A n \in N : kf2[n] = nil => nx[n] = nil /\ \A m \in N : nx[m] # n
  BY <1>k, <1>m DEF Chained
<1>2. \A m, n \in N : nx[m] = nx[n] /\ nx[n] # nil => m = n BY DEF Chained
<1>3. \A n \in N : kf2[n] # nil => n \in Reach(N, nx, M[kf2[n]])
  BY <1>k, <1>m, <1>e DEF Chained
<1>4. \A n \in N : kf2[n] # nil => kf2[M[kf2[n]]] # nil /\ M[kf2[M[kf2[n]]]] = M[kf2[n]]
  BY <1>k, <1>m, <1>e, <1>t DEF Chained
<1>5. \A n \in N : nx[n] # nil => \E S \in SUBSET N : nx[n] \in S /\ Closed(nx, S) /\ n \notin S
  BY DEF Chained
<1>6. Chained(N, kf2, nx, M) BY <1>1, <1>2, <1>3, <1>4, <1>5 DEF Chained
<1> QED BY <1>6 DEF kf2, mp

\* newkey, colliding node in its main position: the new key enters its chain
\* right after the head.
LEMMA ChainedFree ==
  ASSUME NEW N, nil \notin N, nil \notin Key,
         NEW kf \in [N -> KeyN], NEW nx \in [N -> N \cup {nil}], NEW M \in [Key -> N],
         NEW k \in Key, NEW f \in N, Chained(N, kf, nx, M),
         kf[f] = nil, kf[M[k]] # nil, M[kf[M[k]]] = M[k]
  PROVE  Chained(N, [kf EXCEPT ![f] = k], [nx EXCEPT ![f] = nx[M[k]], ![M[k]] = f], M)
<1> DEFINE mp == M[k]
           kf2 == [kf EXCEPT ![f] = k]
           nx2 == [nx EXCEPT ![f] = nx[mp], ![mp] = f]
<1>m. mp \in N /\ mp # f OBVIOUS
<1>k. k # nil /\ kf2 \in [N -> KeyN] /\ kf2[f] = k /\ \A n \in N : n # f => kf2[n] = kf[n]
  BY DEF KeyN
<1>n. /\ nx2 \in [N -> N \cup {nil}] /\ nx2[mp] = f /\ nx2[f] = nx[mp]
      /\ \A n \in N : n # f /\ n # mp => nx2[n] = nx[n]
  OBVIOUS
<1>e. mp = M[k] /\ kf[mp] # nil /\ M[kf[mp]] = mp OBVIOUS
<1> HIDE DEF mp, kf2, nx2
<1>t. \A n \in N : kf[n] # nil => kf[n] \in Key /\ M[kf[n]] \in N BY DEF KeyN
<1>f. nx[f] = nil /\ \A m \in N : nx[m] # f BY DEF Chained
<1>1. \A n \in N : kf2[n] = nil => nx2[n] = nil /\ \A m \in N : nx2[m] # n
  BY <1>k, <1>m, <1>n, <1>e DEF Chained
<1>2. \A m, n \in N : nx2[m] = nx2[n] /\ nx2[n] # nil => m = n
  <2>1. \A m, n \in N : nx[m] = nx[n] /\ nx[n] # nil => m = n BY DEF Chained
  <2> QED BY <2>1, <1>m, <1>n, <1>f
<1>c. ASSUME NEW S \in SUBSET N, Closed(nx2, S) PROVE Closed(nx, S) /\ (mp \in S => f \in S)
  BY <1>c, <1>m, <1>n, <1>f DEF Closed
<1>3. ASSUME NEW n \in N, kf2[n] # nil PROVE n \in Reach(N, nx2, M[kf2[n]])
  <2>1. CASE n = f
    <3>1. ASSUME NEW S \in SUBSET N, mp \in S, Closed(nx2, S) PROVE f \in S BY <3>1, <1>c
    <3> QED BY <2>1, <3>1, <1>k, <1>e DEF Reach
  <2>2. CASE n # f
    <3>1. n \in Reach(N, nx, M[kf[n]]) /\ kf2[n] = kf[n] BY <1>3, <2>2, <1>k DEF Chained
    <3>2. ASSUME NEW S \in SUBSET N, M[kf[n]] \in S, Closed(nx2, S) PROVE n \in S
      BY <3>1, <3>2, <1>c DEF Reach
    <3> QED BY <3>1, <3>2 DEF Reach
  <2> QED BY <2>1, <2>2
<1>4. \A n \in N : kf2[n] # nil => kf2[M[kf2[n]]] # nil /\ M[kf2[M[kf2[n]]]] = M[kf2[n]]
  <2>1. \A n \in N : kf[n] # nil => kf[M[kf[n]]] # nil /\ M[kf[M[kf[n]]]] = M[kf[n]] BY DEF Chained
  <2> QED BY <2>1, <1>k, <1>m, <1>e, <1>t
<1>5. ASSUME NEW n \in N, nx2[n] # nil
      PROVE  \E S \in SUBSET N : nx2[n] \in S /\ Closed(nx2, S) /\ n \notin S
  <2>a. \A x \in N : nx[x] # nil => \E S \in SUBSET N : nx[x] \in S /\ Closed(nx, S) /\ x \notin S
    BY DEF Chained
  <2>1. CASE n = f
    <3>1. PICK S \in SUBSET N : nx[mp] \in S /\ Closed(nx, S) /\ mp \notin S BY <2>a, <2>1, <1>5, <1>n, <1>m
    <3>2. Closed(nx2, S \ {f}) BY <3>1, <1>n, <1>f, <1>m DEF Closed
    <3>3. nx2[f] \in S \ {f} BY <3>1, <1>n, <1>f, <1>m
    <3> QED BY <2>1, <3>2, <3>3
  <2>2. CASE n = mp /\ nx[mp] = nil
    <3>1. Closed(nx2, {f}) BY <2>2, <1>n, <1>f DEF Closed
    <3> QED BY <2>2, <3>1, <1>n, <1>m
  <2>3. CASE n = mp /\ nx[mp] # nil
    <3>1. PICK S \in SUBSET N : nx[mp] \in S /\ Closed(nx, S) /\ mp \notin S BY <2>a, <2>3, <1>m
    <3>2. Closed(nx2, S \cup {f}) BY <3>1, <1>n, <1>f, <1>m DEF Closed
    <3> QED BY <2>3, <3>1, <3>2, <1>n, <1>m
  <2>4. CASE n # f /\ n # mp
    <3>1. PICK S \in SUBSET N : nx[n] \in S /\ Closed(nx, S) /\ n \notin S BY <2>a, <2>4, <1>5, <1>n
    <3> DEFINE T == (S \ {f}) \cup (IF mp \in S THEN {f} ELSE {})
    <3>2. Closed(nx2, T)
      <4>1. ASSUME NEW x \in T, nx2[x] # nil PROVE nx2[x] \in T
        <5>1. CASE x = f BY <5>1, <4>1, <3>1, <1>n, <1>f, <1>m DEF Closed
        <5>2. CASE x = mp BY <5>2, <4>1, <3>1, <1>n, <1>f, <1>m DEF Closed
        <5>3. CASE x # f /\ x # mp BY <5>3, <4>1, <3>1, <1>n, <1>f, <1>m DEF Closed
        <5> QED BY <5>1, <5>2, <5>3
      <4> QED BY <4>1 DEF Closed
    <3>3. nx2[n] \in T /\ n \notin T BY <3>1, <2>4, <1>n, <1>f
    <3> QED BY <3>2, <3>3, <1>m
  <2> QED BY <2>1, <2>2, <2>3, <2>4
<1>6. Chained(N, kf2, nx2, M) BY <1>1, <1>2, <1>3, <1>4, <1>5 DEF Chained
<1> QED BY <1>6 DEF kf2, nx2, mp

\* newkey, colliding node out of its main position: it moves to the free node f
\* and keeps its place in its chain; its old node starts a chain of its own.
LEMMA ChainedMove ==
  ASSUME NEW N, nil \notin N, nil \notin Key,
         NEW kf \in [N -> KeyN], NEW nx \in [N -> N \cup {nil}], NEW M \in [Key -> N],
         NEW k \in Key, NEW f \in N, NEW prev \in N, Chained(N, kf, nx, M),
         kf[f] = nil, kf[M[k]] # nil, M[kf[M[k]]] # M[k], nx[prev] = M[k]
  PROVE  Chained(N, [kf EXCEPT ![f] = kf[M[k]], ![M[k]] = k],
                    [nx EXCEPT ![prev] = f, ![f] = nx[M[k]], ![M[k]] = nil], M)
<1> DEFINE mp == M[k]
           kf2 == [kf EXCEPT ![f] = kf[mp], ![mp] = k]
           nx2 == [nx EXCEPT ![prev] = f, ![f] = nx[mp], ![mp] = nil]
<1>e. mp = M[k] /\ kf[mp] # nil /\ M[kf[mp]] # mp /\ nx[prev] = mp /\ mp \in N /\ mp # f OBVIOUS
<1>a. \A x \in N : nx[x] # nil => \E S \in SUBSET N : nx[x] \in S /\ Closed(nx, S) /\ x \notin S
  BY DEF Chained
<1>i. \A m, n \in N : nx[m] = nx[n] /\ nx[n] # nil => m = n BY DEF Chained
<1>f. nx[f] = nil /\ \A m \in N : nx[m] # f BY DEF Chained
<1>p. prev # mp /\ prev # f /\ nx[mp] # mp
  <2>1. \A x \in N : nx[x] # x BY <1>a
  <2> QED BY <2>1, <1>e, <1>f
<1>k. /\ k # nil /\ kf2 \in [N -> KeyN] /\ kf2[f] = kf[mp] /\ kf2[mp] = k
      /\ \A n \in N : n # f /\ n # mp => kf2[n] = kf[n]
  BY <1>e DEF KeyN
<1>n. /\ nx2 \in [N -> N \cup {nil}] /\ nx2[prev] = f /\ nx2[f] = nx[mp] /\ nx2[mp] = nil
      /\ \A n \in N : n # f /\ n # mp /\ n # prev => nx2[n] = nx[n]
  BY <1>e, <1>p
<1> HIDE DEF mp, kf2, nx2
<1>t. \A n \in N : kf[n] # nil => kf[n] \in Key /\ M[kf[n]] \in N BY DEF KeyN
<1>h. \A n \in N : kf[n] # nil => kf[M[kf[n]]] # nil /\ M[kf[M[kf[n]]]] = M[kf[n]] BY DEF Chained
\* No key has mp as its main position: the node there is not in its own.
<1>o. \A n \in N : kf[n] # nil => M[kf[n]] # mp BY <1>h, <1>e
<1>1. \A n \in N : kf2[n] = nil => nx2[n] = nil /\ \A m \in N : nx2[m] # n
  <2>1. \A n \in N : kf[n] = nil => nx[n] = nil /\ \A m \in N : nx[m] # n BY DEF Chained
  <2>2. ASSUME NEW n \in N, kf2[n] = nil PROVE n # f /\ n # mp /\ n # prev /\ kf[n] = nil
    BY <2>1, <2>2, <1>k, <1>e
  <2> QED BY <2>1, <2>2, <1>n, <1>e
<1>2. \A m, n \in N : nx2[m] = nx2[n] /\ nx2[n] # nil => m = n
  <2>1. \A m \in N : nx2[m] = f => m = prev BY <1>n, <1>f, <1>e
  <2>2. \A m \in N : nx2[m] = nx[mp] /\ nx[mp] # nil => m = f BY <1>n, <1>f, <1>i, <1>e
  <2>3. ASSUME NEW m \in N, NEW n \in N, nx2[m] = nx2[n], nx2[n] # nil PROVE m = n
    <3>1. CASE n = prev BY <3>1, <2>1, <2>3, <1>n
    <3>2. CASE n = f BY <3>2, <2>2, <2>3, <1>n
    <3>3. CASE n # prev /\ n # f /\ n # mp
      <4>1. m # prev /\ m # f /\ m # mp BY <3>3, <2>1, <2>2, <2>3, <1>n
      <4> QED BY <4>1, <3>3, <2>3, <1>n, <1>i
    <3> QED BY <3>1, <3>2, <3>3, <2>3, <1>n
  <2> QED BY <2>3
\* A set closed under the new links, with f renamed to mp, is closed under the old ones.
<1> DEFINE Old(S) == (S \ {mp}) \cup (IF f \in S THEN {mp} ELSE {})
<1>c. ASSUME NEW S \in SUBSET N, Closed(nx2, S) PROVE Closed(nx, Old(S)) /\ Old(S) \in SUBSET N
  <2>1. ASSUME NEW x \in Old(S), nx[x] # nil PROVE nx[x] \in Old(S)
    <3>1. CASE x = mp
      <4>1. f \in S /\ nx2[f] = nx[mp] BY <3>1, <1>n
      <4>2. nx[mp] \in S BY <4>1, <1>c, <2>1, <3>1 DEF Closed
      <4> QED BY <4>2, <3>1, <1>p
    <3>2. CASE x = prev
      <4>1. f \in S BY <3>2, <2>1, <1>c, <1>n, <1>p DEF Closed
      <4> QED BY <4>1, <3>2, <1>e
    <3>3. CASE x # mp /\ x # prev
      <4>1. x \in S /\ x \in N /\ x # f BY <3>3, <2>1, <1>f
      <4>2. nx[x] \in S BY <4>1, <3>3, <1>n, <1>c, <2>1 DEF Closed
      <4>3. nx[x] # mp BY <4>1, <3>3, <1>i, <1>e, <2>1
      <4> QED BY <4>2, <4>3
    <3> QED BY <3>1, <3>2, <3>3
  <2> QED BY <2>1, <1>e DEF Closed
<1>3. ASSUME NEW n \in N, kf2[n] # nil PROVE n \in Reach(N, nx2, M[kf2[n]])
  <2>1. CASE n = mp BY <2>1, <1>k, <1>e, ReachStart
  <2>2. CASE n # mp
    <3> DEFINE o == IF n = f THEN mp ELSE n
    <3>1. o \in N /\ kf[o] = kf2[n] /\ kf[o] # nil BY <2>2, <1>3, <1>k, <1>e
    <3>2. o \in Reach(N, nx, M[kf[o]]) BY <3>1 DEF Chained
    <3>3. ASSUME NEW S \in SUBSET N, M[kf[o]] \in S, Closed(nx2, S) PROVE n \in S
      <4>1. M[kf[o]] \in Old(S) BY <3>1, <3>3, <1>o
      <4>2. o \in Old(S) BY <3>2, <4>1, <1>c, <3>3 DEF Reach
      <4> QED BY <4>2, <2>2, <1>e
    <3> QED BY <3>1, <3>3 DEF Reach
  <2> QED BY <2>1, <2>2
<1>4. \A n \in N : kf2[n] # nil => kf2[M[kf2[n]]] # nil /\ M[kf2[M[kf2[n]]]] = M[kf2[n]]
  <2>1. ASSUME NEW n \in N, kf2[n] # nil PROVE kf2[M[kf2[n]]] # nil /\ M[kf2[M[kf2[n]]]] = M[kf2[n]]
    <3>1. CASE n = mp BY <3>1, <1>k, <1>e
    <3>2. CASE n # mp
      <4> DEFINE o == IF n = f THEN mp ELSE n
      <4>1. o \in N /\ kf[o] = kf2[n] /\ kf[o] # nil BY <3>2, <2>1, <1>k, <1>e
      <4> HIDE DEF o
      <4>2. M[kf[o]] \in N /\ M[kf[o]] # mp /\ M[kf[o]] # f BY <4>1, <1>o, <1>t, <1>h
      <4>3. kf2[M[kf[o]]] = kf[M[kf[o]]] BY <4>2, <1>k
      <4> QED BY <4>1, <4>3, <1>h
    <3> QED BY <3>1, <3>2
  <2> QED BY <2>1
<1> DEFINE New(S) == (S \ {mp, f}) \cup (IF mp \in S THEN {f} ELSE {})
<1>d. ASSUME NEW S \in SUBSET N, Closed(nx, S) PROVE Closed(nx2, New(S)) /\ New(S) \in SUBSET N
  <2>1. ASSUME NEW x \in New(S), nx2[x] # nil PROVE nx2[x] \in New(S)
    <3>1. CASE x = f
      <4>1. mp \in S /\ nx2[f] = nx[mp] /\ nx[mp] # nil BY <3>1, <2>1, <1>n
      <4>2. nx[mp] \in S BY <4>1, <1>d DEF Closed
      <4> QED BY <4>1, <4>2, <3>1, <1>p, <1>f, <1>e
    <3>2. CASE x = prev
      <4>1. mp \in S BY <3>2, <2>1, <1>d, <1>e, <1>p DEF Closed
      <4> QED BY <4>1, <3>2, <1>n
    <3>3. CASE x # f /\ x # prev
      <4>1. x \in S /\ x \in N /\ x # mp BY <3>3, <2>1, <1>e
      <4>2. nx2[x] = nx[x] /\ nx[x] \in S BY <4>1, <3>3, <1>n, <1>d, <2>1 DEF Closed
      <4>3. nx[x] # mp /\ nx[x] # f BY <4>1, <4>2, <3>3, <1>i, <1>e, <1>f, <2>1
      <4> QED BY <4>2, <4>3
    <3> QED BY <3>1, <3>2, <3>3
  <2> QED BY <2>1 DEF Closed
<1>5. ASSUME NEW n \in N, nx2[n] # nil
      PROVE  \E S \in SUBSET N : nx2[n] \in S /\ Closed(nx2, S) /\ n \notin S
  <2>0. n # mp BY <1>5, <1>n
  <2> DEFINE o == IF n = f THEN mp ELSE n
  <2>1. o \in N /\ nx[o] # nil BY <1>5, <2>0, <1>n, <1>e
  <2>2. PICK S \in SUBSET N : nx[o] \in S /\ Closed(nx, S) /\ o \notin S BY <2>1, <1>a
  <2>3. n \notin New(S) BY <2>2, <2>0
  <2>4. nx2[n] \in New(S)
    <3>1. CASE n = f BY <3>1, <2>2, <1>n, <1>p, <1>f, <1>e
    <3>2. CASE n = prev BY <3>2, <2>2, <1>n, <1>p, <1>e
    <3>3. CASE n # f /\ n # prev
      <4>1. nx2[n] = nx[n] /\ nx[n] \in S BY <3>3, <2>0, <2>2, <1>n
      <4>2. nx[n] # mp /\ nx[n] # f BY <3>3, <4>1, <1>i, <1>e, <1>f, <1>5
      <4> QED BY <4>1, <4>2
    <3> QED BY <3>1, <3>2, <3>3
  <2> QED BY <2>2, <2>3, <2>4, <1>d
<1>6. Chained(N, kf2, nx2, M) BY <1>1, <1>2, <1>3, <1>4, <1>5 DEF Chained
<1> QED BY <1>6 DEF kf2, nx2, mp

-----------------------------------------------------------------------------
(* The state of a table, and searching it.                                  *)

Main == [k \in Key |-> mainposition(k)]
Get == [k \in Key |-> luaH_get(k)]

TableType ==
  /\ hash \in [Key -> Nat]
  /\ asize \in Nat /\ arr \in [1 .. asize -> ValN]
  /\ hsize \in Nat /\ key \in [Nodes -> KeyN] /\ val \in [Nodes -> ValN]
  /\ dead \in [Nodes -> BOOLEAN] /\ next \in [Nodes -> Nodes \cup {nil}]
  /\ lastfree \in 0 .. hsize
ValInv ==
  \A n \in Nodes : (key[n] = nil => val[n] = nil /\ ~dead[n]) /\ (dead[n] => val[n] = nil)
ArrayKeys == \A j \in 1 .. asize : arr[j] # nil => j \in IntKey

\* What every operation keeps of a table, also while resize fills it.
Core == /\ TableType /\ Chained(Nodes, key, next, Main)
        /\ ValInv /\ OneNode /\ FreeBefore /\ ArrayKeys

LEMMA Constants ==
  /\ \A k \in Key : k \in Nat \ {0} => k \in IntKey
  /\ IntKey \subseteq Nat \ {0} /\ IntKey \subseteq Key /\ Collectable \subseteq Key
  /\ HashFunctions \subseteq [Key -> Nat] /\ NewSizes \subseteq Nat \X Nat
  /\ nil \notin Key /\ nil \notin Val /\ nil \notin Int
BY TableAssumption DEF Key

LEMMA MainType == TableType /\ hsize # 0 => Main \in [Key -> Nodes]
<1> SUFFICES ASSUME TableType, hsize # 0, NEW k \in Key PROVE mainposition(k) \in Nodes
  BY DEF Main
<1>1. hash[k] \in Nat /\ hsize \in Nat \ {0} BY DEF TableType
<1>2. \A x \in Nat, y \in Nat \ {0} : x % y \in 0 .. y - 1 OBVIOUS
<1>3. hash[k] % hsize \in 0 .. hsize - 1 BY <1>1, <1>2
<1>4. hash[k] % (IF hsize = 1 THEN 1 ELSE hsize - 1) \in 0 .. hsize - 1
  <2>1. CASE hsize = 1 BY <2>1, <1>1, <1>2
  <2>2. CASE hsize # 1
    <3>1. hsize - 1 \in Nat \ {0} BY <1>1, <2>2
    <3>2. hash[k] % (hsize - 1) \in 0 .. (hsize - 1) - 1 BY <3>1, <1>1, <1>2
    <3> QED BY <3>2, <1>1, <2>2
  <2> QED BY <2>1, <2>2
<1> QED BY <1>3, <1>4 DEF mainposition, Nodes

\* A search finds exactly the live node of its key.
LEMMA FoundLive ==
  ASSUME Core, NEW k \in Key
  PROVE  Found(k) = {n \in Nodes : key[n] = k /\ ~dead[n]}
<1>1. CASE hsize = 0 BY <1>1 DEF Found, Nodes
<1>2. CASE hsize # 0
  <2>1. Main[k] = mainposition(k) BY DEF Main
  <2>2. \A n \in Nodes : key[n] = k => n \in Chain(mainposition(k))
    BY <2>1, Constants DEF Core, Chained, Chain
  <2>3. Chain(mainposition(k)) \subseteq Nodes BY DEF Chain, Reach
  <2> QED BY <1>2, <2>2, <2>3 DEF Found
<1> QED BY <1>1, <1>2

GetSpec ==
  \A k \in Key :
    /\ InArray(k) => Get[k] = arr[k]
    /\ \A n \in Nodes : key[n] = k /\ ~dead[n] => Get[k] = val[n]
    /\ ~InArray(k) /\ (\A n \in Nodes : key[n] = k => dead[n]) => Get[k] = nil

LEMMA GetCorrect == Core => GetSpec
<1> SUFFICES ASSUME Core, NEW k \in Key
             PROVE  /\ InArray(k) => Get[k] = arr[k]
                    /\ \A n \in Nodes : key[n] = k /\ ~dead[n] => Get[k] = val[n]
                    /\ ~InArray(k) /\ (\A n \in Nodes : key[n] = k => dead[n]) => Get[k] = nil
  BY DEF GetSpec
<1>1. Get[k] = luaH_get(k) BY DEF Get
<1>2. InArray(k) => Get[k] = arr[k] BY <1>1 DEF luaH_get
<1>3. ASSUME NEW n \in Nodes, key[n] = k, ~dead[n] PROVE Get[k] = val[n]
  <2>1. ~InArray(k) BY <1>3, Constants DEF Core, OneNode
  <2>2. Found(k) = {n}
    <3>1. \A m \in Nodes : key[m] = k /\ ~dead[m] => m = n BY <1>3, Constants DEF Core, OneNode
    <3> QED BY <3>1, <1>3, FoundLive
  <2> QED BY <2>1, <2>2, <1>1 DEF luaH_get
<1>4. ASSUME ~InArray(k), \A n \in Nodes : key[n] = k => dead[n] PROVE Get[k] = nil
  <2>1. Found(k) = {} BY <1>4, FoundLive
  <2> QED BY <2>1, <1>1, <1>4 DEF luaH_get
<1> QED BY <1>2, <1>3, <1>4

LEMMA GetCorrectNext == Core' => GetSpec'
BY GetCorrect, PTL

-----------------------------------------------------------------------------
(* Storing a value.                                                        *)

LEMMA MainUnchanged ==
  ASSUME hash' = hash, hsize' = hsize
  PROVE  Main' = Main /\ Nodes' = Nodes
BY DEF Main, mainposition, Nodes

\* The store in a slot that exists.
LEMMA StoreCore ==
  ASSUME Core, NEW k \in Key, NEW v \in ValN, hash' = hash,
         \/ /\ InArray(k)
            /\ arr' = [arr EXCEPT ![k] = v]
            /\ UNCHANGED <<asize, hashVars>>
         \/ /\ ~InArray(k)
            /\ \E n \in Found(k) : val' = [val EXCEPT ![n] = v]
            /\ UNCHANGED <<asize, arr, hsize, key, dead, next, lastfree>>
  PROVE  Core'
<1>0. hsize' = hsize /\ asize' = asize /\ key' = key /\ dead' = dead /\ next' = next /\ lastfree' = lastfree
  BY DEF hashVars
<1>1. Main' = Main /\ Nodes' = Nodes BY <1>0, MainUnchanged
<1>2. Chained(Nodes, key, next, Main)' BY <1>0, <1>1 DEF Core, Chained, Reach, Closed
<1>3. OneNode' /\ FreeBefore' BY <1>0, <1>1 DEF Core, OneNode, FreeBefore, InArray
<1>4. TableType' /\ ValInv' /\ ArrayKeys'
  <2>1. CASE InArray(k) /\ arr' = [arr EXCEPT ![k] = v] /\ UNCHANGED <<asize, hashVars>>
    <3>1. val' = val BY <2>1 DEF hashVars
    <3>2. k \in IntKey BY <2>1 DEF InArray
    <3> QED BY <2>1, <3>1, <3>2, <1>0, <1>1 DEF Core, TableType, ValInv, ArrayKeys
  <2>2. CASE \E n \in Found(k) : val' = [val EXCEPT ![n] = v] /\ UNCHANGED arr
    <3>0. PICK n \in Found(k) : val' = [val EXCEPT ![n] = v] BY <2>2
    <3>1. n \in Nodes /\ key[n] = k /\ ~dead[n] BY <3>0, FoundLive
    <3>2. TableType /\ ValInv /\ ArrayKeys /\ arr' = arr BY <2>2 DEF Core
    <3>3. k # nil BY Constants
    <3>4. val' \in [Nodes -> ValN] BY <3>0, <3>1, <3>2 DEF TableType, ValN
    <3>5. TableType' BY <3>2, <3>4, <1>0, <1>1 DEF TableType
    <3>6. ValInv' BY <3>0, <3>1, <3>2, <3>3, <1>0, <1>1 DEF ValInv, TableType
    <3>7. ArrayKeys' BY <3>2, <1>0 DEF ArrayKeys
    <3> QED BY <3>5, <3>6, <3>7
  <2> QED BY <2>1, <2>2
<1> QED BY <1>2, <1>3, <1>4 DEF Core

\* newkey, for a key that the table does not hold.
LEMMA NewkeyCore ==
  ASSUME Core, NEW k \in Key, NEW v \in ValN, hash' = hash,
         ~InArray(k), Found(k) = {}, hsize # 0,
         newkey(k, v), UNCHANGED <<asize, arr, hsize>>
  PROVE  Core'
<1> DEFINE mp == mainposition(k)
<1>0. Main' = Main /\ Nodes' = Nodes BY MainUnchanged
<1>t. TableType /\ Chained(Nodes, key, next, Main) /\ ValInv /\ OneNode /\ FreeBefore /\ ArrayKeys
  BY DEF Core
<1>m. Main \in [Key -> Nodes] /\ mp = Main[k] /\ mp \in Nodes BY <1>t, MainType DEF Main
<1>n. nil \notin Nodes /\ nil \notin Key BY Constants DEF Nodes
<1>k. key \in [Nodes -> KeyN] /\ next \in [Nodes -> Nodes \cup {nil}] BY <1>t DEF TableType
<1>l. \A n \in Nodes : key[n] = k => dead[n] BY FoundLive
<1>a. ArrayKeys' BY <1>t DEF ArrayKeys
<1>1. CASE putMain(k, v)
  <2>1. /\ key' = [key EXCEPT ![mp] = k] /\ dead' = [dead EXCEPT ![mp] = FALSE]
        /\ val' = [val EXCEPT ![mp] = v] /\ next' = next /\ lastfree' = lastfree
    BY <1>1 DEF putMain
  <2>2. Chained(Nodes, key', next', Main) BY <2>1, <1>m, <1>n, <1>k, <1>t, ChainedMain
  <2>3. Chained(Nodes, key, next, Main)' BY <2>2, <1>0
  <2>4. TableType'
    <3>1. key' \in [Nodes -> KeyN] BY <2>1, <1>m, <1>k DEF KeyN
    <3>2. val' \in [Nodes -> ValN] /\ dead' \in [Nodes -> BOOLEAN] BY <2>1, <1>m, <1>t DEF TableType
    <3> QED BY <3>1, <3>2, <2>1, <1>t, <1>0 DEF TableType
  <2>5. ValInv' BY <2>1, <1>t, <1>m, <1>0, <1>n, <1>k DEF ValInv, TableType
  <2>6. OneNode' BY <2>1, <1>t, <1>m, <1>0, <1>n, <1>k, <1>l DEF OneNode, InArray, TableType
  <2>7. FreeBefore' BY <2>1, <1>t, <1>m, <1>0, <1>n, <1>k DEF FreeBefore
  <2> QED BY <2>3, <2>4, <2>5, <2>6, <2>7, <1>a DEF Core
<1>2. ASSUME NEW n \in Nodes, putFree(k, v, n) PROVE Core'
  <2>1. /\ key' = [key EXCEPT ![n] = k] /\ dead' = [dead EXCEPT ![n] = FALSE]
        /\ val' = [val EXCEPT ![n] = v] /\ lastfree' = n
        /\ next' = [next EXCEPT ![n] = next[mp], ![mp] = n]
        /\ val[mp] # nil /\ getfreepos(n) /\ mainposition(key[mp]) = mp
    BY <1>2 DEF putFree
  <2>2. key[n] = nil /\ key[mp] # nil /\ key[mp] \in Key
    BY <2>1, <1>m, <1>t, <1>k DEF getfreepos, Free, ValInv, KeyN
  <2>3. Main[key[mp]] = mp BY <2>1, <2>2 DEF Main
  <2>4. Chained(Nodes, key', next', Main) BY <2>1, <2>2, <2>3, <1>m, <1>n, <1>k, <1>t, ChainedFree
  <2>5. Chained(Nodes, key, next, Main)' BY <2>4, <1>0
  <2>6. TableType'
    <3>1. key' \in [Nodes -> KeyN] BY <2>1, <1>m, <1>k DEF KeyN
    <3>2. val' \in [Nodes -> ValN] /\ dead' \in [Nodes -> BOOLEAN] BY <2>1, <1>m, <1>t DEF TableType
    <3>3. next' \in [Nodes -> Nodes \cup {nil}] BY <2>1, <1>m, <1>k
    <3>4. lastfree' \in 0 .. hsize BY <2>1, <1>t DEF TableType, Nodes
    <3> QED BY <3>1, <3>2, <3>3, <3>4, <1>t, <1>0 DEF TableType
  <2>7. ValInv' BY <2>1, <1>t, <1>0, <1>n, <1>k DEF ValInv, TableType
  <2>8. OneNode'
    <3>1. key' = [key EXCEPT ![n] = k] /\ dead' = [dead EXCEPT ![n] = FALSE] BY <2>1
    <3>2. dead \in [Nodes -> BOOLEAN] /\ asize' = asize /\ OneNode BY <1>t DEF TableType
    <3> QED BY <3>1, <3>2, <1>0, <1>n, <1>k, <1>l DEF OneNode, InArray
  <2>9. FreeBefore'
    <3>1. \A f \in Nodes : key[f] = nil => f <= n BY <2>1, <1>t DEF getfreepos, Free, FreeBefore
    <3> QED BY <3>1, <2>1, <1>0, <1>n, <1>k DEF FreeBefore, Nodes
  <2> QED BY <2>5, <2>6, <2>7, <2>8, <2>9, <1>a DEF Core
<1>3. ASSUME NEW n \in Nodes, NEW prev \in Nodes, moveColliding(k, v, n, prev) PROVE Core'
  <2>1. /\ key' = [key EXCEPT ![n] = key[mp], ![mp] = k]
        /\ dead' = [dead EXCEPT ![n] = dead[mp], ![mp] = FALSE]
        /\ val' = [val EXCEPT ![n] = val[mp], ![mp] = v] /\ lastfree' = n
        /\ next' = [next EXCEPT ![prev] = n, ![n] = next[mp], ![mp] = nil]
        /\ val[mp] # nil /\ getfreepos(n) /\ mainposition(key[mp]) # mp /\ next[prev] = mp
    BY <1>3 DEF moveColliding
  <2>2. key[n] = nil /\ key[mp] # nil /\ key[mp] \in Key /\ n # mp
    BY <2>1, <1>m, <1>t, <1>k DEF getfreepos, Free, ValInv, KeyN
  <2>3. Main[key[mp]] # mp BY <2>1, <2>2 DEF Main
  <2>4. Chained(Nodes, key', next', Main) BY <2>1, <2>2, <2>3, <1>m, <1>n, <1>k, <1>t, ChainedMove
  <2>5. Chained(Nodes, key, next, Main)' BY <2>4, <1>0
  <2>6. TableType'
    <3>1. key' \in [Nodes -> KeyN] BY <2>1, <2>2, <1>m, <1>k DEF KeyN
    <3>2. val' \in [Nodes -> ValN] /\ dead' \in [Nodes -> BOOLEAN] BY <2>1, <1>m, <1>t DEF TableType
    <3>3. next' \in [Nodes -> Nodes \cup {nil}] BY <2>1, <1>m, <1>k
    <3>4. lastfree' \in 0 .. hsize BY <2>1, <1>t DEF TableType, Nodes
    <3> QED BY <3>1, <3>2, <3>3, <3>4, <1>t, <1>0 DEF TableType
  <2>7. ValInv' BY <2>1, <2>2, <1>t, <1>0, <1>n, <1>k, <1>m DEF ValInv, TableType
  <2>8. OneNode'
    <3>1. \A x \in Nodes : /\ key'[x] = IF x = mp THEN k ELSE IF x = n THEN key[mp] ELSE key[x]
                           /\ ~dead'[x] => x = mp \/ (x = n /\ ~dead[mp]) \/ (x # n /\ ~dead[x])
      BY <2>1, <2>2, <1>k, <1>m, <1>t DEF TableType
    <3>2. OneNode /\ asize' = asize BY <1>t, <1>0
    <3>3. \A x \in Nodes : x # mp /\ key'[x] # nil /\ ~dead'[x] => key'[x] # k
      BY <3>1, <2>2, <1>l, <1>m
    <3>4. ~InArray(k) /\ \A x \in Nodes : key[x] # nil /\ ~dead[x] => ~InArray(key[x])
      BY <3>2, <1>0, <1>t, <1>l DEF OneNode
    <3>5. ASSUME NEW x \in Nodes, NEW y \in Nodes, key'[x] # nil, ~dead'[x], key'[y] = key'[x], ~dead'[y]
          PROVE  y = x
      <4>1. CASE x = mp BY <3>3, <3>5, <4>1, <3>1
      <4>2. CASE x # mp
        <5>1. y # mp BY <3>3, <3>5, <4>2, <3>1
        <5>2. CASE x = n BY <5>1, <5>2, <4>2, <3>1, <3>2, <3>5, <2>2, <1>m DEF OneNode
        <5>3. CASE x # n BY <5>1, <5>3, <4>2, <3>1, <3>2, <3>5, <2>2, <1>m DEF OneNode
        <5> QED BY <5>2, <5>3
      <4> QED BY <4>1, <4>2
    <3>6. ASSUME NEW x \in Nodes, key'[x] # nil, ~dead'[x] PROVE ~InArray(key[x])'
      <4>1. ~InArray(key'[x]) BY <3>1, <3>4, <3>6, <1>m, <2>2 DEF InArray
      <4> QED BY <4>1, <3>2 DEF InArray
    <3>7. \A x \in Nodes : key'[x] # nil /\ ~dead'[x] =>
            ~InArray(key[x])' /\ \A y \in Nodes : key'[y] = key'[x] /\ ~dead'[y] => y = x
      BY <3>5, <3>6
    <3> QED BY <3>7, <1>0 DEF OneNode
  <2>9. FreeBefore'
    <3>1. \A f \in Nodes : key[f] = nil => f <= n BY <2>1, <1>t DEF getfreepos, Free, FreeBefore
    <3> QED BY <3>1, <2>1, <2>2, <1>0, <1>n, <1>k, <1>m DEF FreeBefore, Nodes
  <2> QED BY <2>5, <2>6, <2>7, <2>8, <2>9, <1>a DEF Core
<1> QED BY <1>1, <1>2, <1>3 DEF newkey

\* luaH_set and the store keep the table well formed.
LEMMA PutCore ==
  ASSUME Core, NEW k \in Key, NEW v \in ValN, Put(k, v), hash' = hash
  PROVE  Core' /\ asize' = asize /\ hsize' = hsize
<1>1. asize' = asize /\ hsize' = hsize BY DEF Put, hashVars
<1> QED BY <1>1, StoreCore, NewkeyCore DEF Put

\* luaH_set and the store change what the table holds for that key only.
LEMMA PutGet ==
  ASSUME Core, NEW k \in Key, NEW v \in ValN, Put(k, v), hash' = hash
  PROVE  Get' = [Get EXCEPT ![k] = v]
<1>1. Core' /\ asize' = asize /\ hsize' = hsize BY PutCore
<1>2. GetSpec /\ GetSpec' BY <1>1, GetCorrect, GetCorrectNext
<1>3. Nodes' = Nodes BY <1>1 DEF Nodes
<1>4. \A x \in Key : InArray(x)' <=> InArray(x) BY <1>1 DEF InArray
<1>t. TableType /\ ValInv /\ OneNode BY DEF Core
<1>u. \A n, m \in Nodes : key[n] \in Key /\ key[n] = key[m] /\ ~dead[n] /\ ~dead[m] => m = n
  BY <1>t, Constants DEF OneNode
<1> SUFFICES ASSUME NEW x \in Key PROVE Get'[x] = IF x = k THEN v ELSE Get[x]
  BY DEF Get
<1>5. CASE InArray(k) /\ arr' = [arr EXCEPT ![k] = v] /\ UNCHANGED <<asize, hashVars>>
  <2>1. key' = key /\ val' = val /\ dead' = dead BY <1>5 DEF hashVars
  <2>2. k \in 1 .. asize BY <1>5, <1>t, Constants DEF InArray, TableType
  <2> QED BY <1>5, <2>1, <2>2, <1>2, <1>3, <1>4, <1>t DEF GetSpec, InArray, TableType
<1>6. ASSUME ~InArray(k), NEW n \in Found(k), val' = [val EXCEPT ![n] = v],
             UNCHANGED <<asize, arr, hsize, key, dead, next, lastfree>>
      PROVE  Get'[x] = IF x = k THEN v ELSE Get[x]
  <2>1. n \in Nodes /\ key[n] = k /\ ~dead[n] BY FoundLive
  <2>2. CASE x = k BY <1>6, <2>1, <2>2, <1>2, <1>3, <1>t DEF GetSpec, TableType
  <2>3. CASE x # k
    <3>1. \A m \in Nodes : key[m] = x => val'[m] = val[m] BY <1>6, <2>1, <2>3, <1>t DEF TableType
    <3> QED BY <1>6, <2>3, <3>1, <1>2, <1>3, <1>4 DEF GetSpec
  <2> QED BY <2>2, <2>3
<1>7. ASSUME ~InArray(k), Found(k) = {}, hsize # 0, newkey(k, v), UNCHANGED <<asize, arr, hsize>>
      PROVE  Get'[x] = IF x = k THEN v ELSE Get[x]
  <2> DEFINE mp == mainposition(k)
  <2>m. mp \in Nodes BY <1>7, <1>t, MainType DEF Main
  <2>k. key \in [Nodes -> KeyN] /\ dead \in [Nodes -> BOOLEAN] /\ val \in [Nodes -> ValN]
    BY <1>t DEF TableType
  <2>a. InArray(x) => x # k /\ Get'[x] = Get[x] BY <1>7, <1>2, <1>4 DEF GetSpec
  <2>1. CASE putMain(k, v)
    <3>1. /\ key' = [key EXCEPT ![mp] = k] /\ dead' = [dead EXCEPT ![mp] = FALSE]
          /\ val' = [val EXCEPT ![mp] = v] /\ val[mp] = nil
      BY <2>1 DEF putMain
    <3>2. CASE x = k BY <3>1, <3>2, <1>2, <1>3, <2>m, <2>k DEF GetSpec
    <3>3. CASE x # k /\ ~InArray(x)
      <4>1. CASE \E n \in Nodes : n # mp /\ key[n] = x /\ ~dead[n]
        BY <4>1, <3>1, <1>2, <1>3, <2>m, <2>k DEF GetSpec
      <4>2. CASE key[mp] = x /\ ~dead[mp]
        <5>1. Get[x] = nil BY <4>2, <3>1, <1>2, <2>m DEF GetSpec
        <5>2. \A n \in Nodes : key'[n] = x => dead'[n]
          BY <4>2, <3>1, <3>3, <1>u, <2>m, <2>k
        <5>3. Get'[x] = nil BY <5>2, <3>3, <1>2, <1>3, <1>4 DEF GetSpec
        <5> QED BY <5>1, <5>3, <3>3
      <4>3. CASE \A n \in Nodes : key[n] = x => dead[n]
        <5>1. Get[x] = nil BY <4>3, <3>3, <1>2 DEF GetSpec
        <5>2. \A n \in Nodes : key'[n] = x => dead'[n] BY <4>3, <3>1, <3>3, <2>m, <2>k
        <5>3. Get'[x] = nil BY <5>2, <3>3, <1>2, <1>3, <1>4 DEF GetSpec
        <5> QED BY <5>1, <5>3, <3>3
      <4> QED BY <4>1, <4>2, <4>3
    <3> QED BY <3>2, <3>3, <2>a
  <2>2. ASSUME NEW n \in Nodes, putFree(k, v, n) PROVE Get'[x] = IF x = k THEN v ELSE Get[x]
    <3>1. /\ key' = [key EXCEPT ![n] = k] /\ dead' = [dead EXCEPT ![n] = FALSE]
          /\ val' = [val EXCEPT ![n] = v] /\ key[n] = nil
      BY <2>2 DEF putFree, getfreepos, Free
    <3>2. CASE x = k BY <3>1, <3>2, <1>2, <1>3, <2>k DEF GetSpec
    <3>3. CASE x # k /\ ~InArray(x)
      <4>0. \A m \in Nodes : key[m] = x => m # n BY <3>1, Constants
      <4>1. CASE \E m \in Nodes : key[m] = x /\ ~dead[m]
        BY <4>0, <4>1, <3>1, <3>3, <1>2, <1>3, <2>k DEF GetSpec
      <4>2. CASE \A m \in Nodes : key[m] = x => dead[m]
        <5>1. Get[x] = nil BY <4>2, <3>3, <1>2 DEF GetSpec
        <5>2. \A m \in Nodes : key'[m] = x => dead'[m] BY <4>2, <3>1, <3>3, <2>k
        <5>3. Get'[x] = nil BY <5>2, <3>3, <1>2, <1>3, <1>4 DEF GetSpec
        <5> QED BY <5>1, <5>3, <3>3
      <4> QED BY <4>1, <4>2
    <3> QED BY <3>2, <3>3, <2>a
  <2>3. ASSUME NEW n \in Nodes, NEW prev \in Nodes, moveColliding(k, v, n, prev)
        PROVE  Get'[x] = IF x = k THEN v ELSE Get[x]
    <3>1. /\ key' = [key EXCEPT ![n] = key[mp], ![mp] = k]
          /\ dead' = [dead EXCEPT ![n] = dead[mp], ![mp] = FALSE]
          /\ val' = [val EXCEPT ![n] = val[mp], ![mp] = v] /\ key[n] = nil /\ val[mp] # nil
      BY <2>3 DEF moveColliding, getfreepos, Free
    <3>n. n # mp /\ ~dead[mp] BY <3>1, <1>t, <2>m DEF ValInv
    <3>2. CASE x = k BY <3>1, <3>2, <1>2, <1>3, <2>m, <2>k, <3>n DEF GetSpec
    <3>3. CASE x # k /\ ~InArray(x)
      <4>0. \A m \in Nodes : key[m] = x => m # n BY <3>1, Constants
      <4>1. CASE \E m \in Nodes : m # mp /\ key[m] = x /\ ~dead[m]
        BY <4>0, <4>1, <3>1, <3>3, <3>n, <1>2, <1>3, <2>k, <2>m DEF GetSpec
      <4>2. CASE key[mp] = x
        <5>1. Get[x] = val[mp] BY <4>2, <3>n, <1>2, <2>m DEF GetSpec
        <5>2. key'[n] = x /\ ~dead'[n] /\ val'[n] = val[mp] BY <4>2, <3>1, <3>n, <2>k, <2>m
        <5>3. Get'[x] = val'[n] BY <5>2, <1>2, <1>3 DEF GetSpec
        <5> QED BY <5>1, <5>2, <5>3, <3>3
      <4>3. CASE key[mp] # x /\ \A m \in Nodes : key[m] = x => dead[m]
        <5>1. Get[x] = nil BY <4>3, <3>3, <1>2 DEF GetSpec
        <5>2. \A m \in Nodes : key'[m] = x => dead'[m] BY <4>3, <3>1, <3>3, <3>n, <2>k, <2>m
        <5>3. Get'[x] = nil BY <5>2, <3>3, <1>2, <1>3, <1>4 DEF GetSpec
        <5> QED BY <5>1, <5>3, <3>3
      <4> QED BY <4>1, <4>2, <4>3
    <3> QED BY <3>2, <3>3, <2>a
  <2> QED BY <1>7, <2>1, <2>2, <2>3 DEF newkey
<1> QED BY <1>5, <1>6, <1>7 DEF Put

-----------------------------------------------------------------------------
(* The inductive invariant.                                                *)

SysInv == TypeOK /\ Core /\ ResizeInv

LEMMA SysInvImplies == SysInv => TableInv
<1> SUFFICES ASSUME SysInv PROVE TableInv OBVIOUS
<1>1. TypeOK /\ Core /\ ResizeInv BY DEF SysInv
<1>2. \A n \in Nodes : key[n] # nil => key[n] \in Key BY <1>1 DEF TypeOK, KeyN
<1>3. \A n \in Nodes : key[n] # nil => Main[key[n]] = mainposition(key[n]) BY <1>2 DEF Main
<1>4. Associated BY <1>1, <1>3 DEF Core, Chained, Associated, Chain
<1>5. MainOccupied
  <2>1. ASSUME NEW n \in Nodes, key[n] # nil
        PROVE  LET mp == mainposition(key[n]) IN key[mp] # nil /\ mainposition(key[mp]) = mp
    <3>1. hsize # 0 BY <1>1 DEF Nodes, TypeOK
    <3>2. Main[key[n]] \in Nodes BY <3>1, <1>1, <1>2, <2>1, MainType DEF Core
    <3> QED BY <2>1, <3>2, <1>1, <1>3 DEF Core, Chained
  <2> QED BY <2>1 DEF MainOccupied
<1>6. Acyclic /\ Unlinked BY <1>1 DEF Core, Chained, Acyclic, Unlinked, ValInv
<1> QED BY <1>1, <1>4, <1>5, <1>6 DEF Core, TableInv

\* An empty node vector.
LEMMA EmptyCore ==
  ASSUME NEW nasize \in Nat, NEW nhsize \in Nat, TableType,
         asize = nasize, hsize = nhsize, lastfree = nhsize, ArrayKeys,
         key = [n \in 0 .. nhsize - 1 |-> nil], val = [n \in 0 .. nhsize - 1 |-> nil],
         dead = [n \in 0 .. nhsize - 1 |-> FALSE], next = [n \in 0 .. nhsize - 1 |-> nil]
  PROVE  Core
<1>1. \A n \in Nodes : key[n] = nil /\ val[n] = nil /\ ~dead[n] /\ next[n] = nil BY DEF Nodes
<1>2. nil \notin Nodes BY Constants DEF Nodes
<1>3. Chained(Nodes, key, next, Main) BY <1>1, <1>2 DEF Chained
<1>4. ValInv /\ OneNode /\ FreeBefore BY <1>1 DEF ValInv, OneNode, FreeBefore, Nodes
<1> QED BY <1>3, <1>4 DEF Core

LEMMA InitSys == Init => SysInv
<1> SUFFICES ASSUME Init PROVE SysInv OBVIOUS
<1>1. PICK s \in NewSizes : luaH_new(s[1], s[2]) BY DEF Init
<1>2. s[1] \in Nat /\ s[2] \in Nat BY Constants
<1>3. TypeOK BY <1>1, <1>2 DEF Init, luaH_new, TypeOK, Nodes, KeyN, ValN
<1>4. TableType BY <1>3, Constants DEF TypeOK, TableType
<1>5. ArrayKeys BY <1>1, <1>2 DEF luaH_new, ArrayKeys
<1>6. Core BY <1>1, <1>2, <1>4, <1>5, EmptyCore DEF luaH_new
<1>7. ResizeInv BY <1>5 DEF ResizeInv, ArrayKeys, Init
<1> QED BY <1>3, <1>6, <1>7 DEF SysInv

LEMMA EmptyCoreNext ==
  ASSUME NEW nasize \in Nat, NEW nhsize \in Nat, TableType',
         asize' = nasize, hsize' = nhsize, lastfree' = nhsize, ArrayKeys',
         key' = [n \in 0 .. nhsize - 1 |-> nil], val' = [n \in 0 .. nhsize - 1 |-> nil],
         dead' = [n \in 0 .. nhsize - 1 |-> FALSE], next' = [n \in 0 .. nhsize - 1 |-> nil]
  PROVE  Core'
<1>1. \A n \in Nodes' : key'[n] = nil /\ val'[n] = nil /\ ~dead'[n] /\ next'[n] = nil BY DEF Nodes
<1>2. nil \notin Nodes' BY Constants DEF Nodes
<1>3. Chained(Nodes, key, next, Main)' BY <1>1, <1>2 DEF Chained
<1>4. ValInv' /\ OneNode' /\ FreeBefore' BY <1>1 DEF ValInv, OneNode, FreeBefore, Nodes
<1> QED BY <1>3, <1>4 DEF Core

LEMMA ResizeSys ==
  ASSUME SysInv, NEW nasize \in Nat, NEW nhsize \in Nat, resize(nasize, nhsize),
         hash' = hash, pkey' \in KeyN, pval' \in ValN
  PROVE  SysInv'
<1>1. TypeOK /\ Core /\ ResizeInv BY DEF SysInv
<1>2. TypeOK' BY <1>1 DEF TypeOK, resize, Nodes, KeyN, ValN
<1>3. TableType' BY <1>2, Constants DEF TypeOK, TableType
<1>4. ArrayKeys' BY <1>1 DEF Core, ArrayKeys, resize, TypeOK
<1>5. Core' BY <1>3, <1>4, EmptyCoreNext DEF resize
<1>6. ResizeInv'
  <2>1. \A j \in 1 .. oasize' : oarr'[j] # nil => j \in IntKey BY <1>1 DEF resize, Core, ArrayKeys
  <2>2. \A n \in 0 .. ohsize' - 1 : oval'[n] # nil => okey'[n] # nil
    BY <1>1 DEF resize, Core, ValInv, Nodes
  <2> QED BY <2>1, <2>2, <1>4, <1>1 DEF ResizeInv, ArrayKeys, resize
<1> QED BY <1>2, <1>5, <1>6 DEF SysInv

LEMMA PutSys ==
  ASSUME SysInv, NEW k \in Key, NEW v \in ValN, Put(k, v), hash' = hash,
         oarr' = oarr, okey' = okey, oval' = oval, oasize' = oasize, ohsize' = ohsize,
         stage' \in {stage, "idle"}, i' \in Int, pkey' \in KeyN, pval' \in ValN,
         stage' = "shrink" => i' > asize, stage' = "reinsert" => i' < ohsize,
         stage' = "retry" => pkey' # nil
  PROVE  SysInv'
<1>1. TypeOK /\ Core /\ ResizeInv BY DEF SysInv
<1>2. Core' /\ asize' = asize /\ hsize' = hsize BY <1>1, PutCore
<1>3. TypeOK' BY <1>1, <1>2 DEF TypeOK, Core, TableType
<1>4. ResizeInv' BY <1>1, <1>2 DEF ResizeInv, Core, ArrayKeys
<1> QED BY <1>2, <1>3, <1>4 DEF SysInv

\* The collector's steps change values and dead marks only.
LEMMA ClearSys ==
  ASSUME SysInv, stage = "idle", NEW n \in Nodes, removeentry(n) \/ ClearNode(n)
  PROVE  SysInv'
<1>1. TypeOK /\ Core /\ ResizeInv BY DEF SysInv
<1>2. UNCHANGED <<hash, asize, arr, hsize, key, next, lastfree, stage, oarr, okey, oval, oasize, ohsize, i, pkey, pval>>
  BY DEF removeentry, ClearNode, resizeVars
<1>3. Main' = Main /\ Nodes' = Nodes BY <1>2, MainUnchanged
<1>4. \/ val' = val /\ dead' = [dead EXCEPT ![n] = TRUE] /\ val[n] = nil /\ key[n] \in Collectable
      \/ val' = [val EXCEPT ![n] = nil] /\ dead' = [dead EXCEPT ![n] = key[n] \in Collectable] /\ val[n] # nil
  BY DEF removeentry, ClearNode
<1>5. Chained(Nodes, key, next, Main)' BY <1>1, <1>2, <1>3 DEF Core, Chained, Reach, Closed
<1>6. val' \in [Nodes -> ValN] /\ dead' \in [Nodes -> BOOLEAN]
  <2>1. val \in [Nodes -> ValN] /\ dead \in [Nodes -> BOOLEAN] /\ nil \in ValN BY <1>1 DEF TypeOK, ValN
  <2>2. val' \in [Nodes -> ValN] BY <2>1, <1>4
  <2>3. dead' \in [Nodes -> BOOLEAN]
    <3>1. TRUE \in BOOLEAN /\ (key[n] \in Collectable) \in BOOLEAN OBVIOUS
    <3> QED BY <2>1, <3>1, <1>4, Zenon
  <2> QED BY <2>2, <2>3
<1>7. TypeOK' BY <1>1, <1>2, <1>3, <1>6 DEF TypeOK
<1>8. TableType' BY <1>7, Constants DEF TypeOK, TableType
<1>9. ValInv' BY <1>1, <1>2, <1>3, <1>4, Constants DEF Core, ValInv, TableType
<1>10. OneNode'
  <2>1. \A m \in Nodes : key[m] # nil /\ ~dead'[m] => ~dead[m] BY <1>1, <1>4 DEF Core, ValInv, TableType
  <2> QED BY <2>1, <1>1, <1>2, <1>3 DEF Core, OneNode, InArray
<1>11. FreeBefore' /\ ArrayKeys' /\ ResizeInv'
  BY <1>1, <1>2, <1>3 DEF Core, FreeBefore, ArrayKeys, ResizeInv
<1> QED BY <1>5, <1>7, <1>8, <1>9, <1>10, <1>11 DEF SysInv, Core

LEMMA ClearArraySys ==
  ASSUME SysInv, NEW j \in 1 .. asize, ClearArray(j)
  PROVE  SysInv'
<1>1. TypeOK /\ Core /\ ResizeInv BY DEF SysInv
<1>2. /\ arr' = [arr EXCEPT ![j] = nil]
      /\ UNCHANGED <<hash, asize, hsize, key, dead, val, next, lastfree, stage, oarr, okey, oval, oasize, ohsize, i, pkey, pval>>
  BY DEF ClearArray, hashVars, resizeVars
<1>3. Main' = Main /\ Nodes' = Nodes BY <1>2, MainUnchanged
<1>4. Chained(Nodes, key, next, Main)' BY <1>1, <1>2, <1>3 DEF Core, Chained, Reach, Closed
<1>5. TypeOK' BY <1>1, <1>2, <1>3 DEF TypeOK, ValN
<1>6. TableType' BY <1>5, Constants DEF TypeOK, TableType
<1>7. ValInv' /\ OneNode' /\ FreeBefore' /\ ArrayKeys' /\ ResizeInv'
  BY <1>1, <1>2, <1>3 DEF Core, ValInv, OneNode, InArray, FreeBefore, ArrayKeys, ResizeInv, TypeOK
<1> QED BY <1>4, <1>5, <1>6, <1>7 DEF SysInv, Core

LEMMA SkipSys ==
  ASSUME SysInv, UNCHANGED <<hash, tableVars>>,
         stage' \in {"idle", "shrink", "reinsert", "retry"}, i' \in Int,
         \/ UNCHANGED <<oarr, okey, oval, oasize, ohsize>>
         \/ /\ oasize' = 0 /\ oarr' = [j \in {} |-> nil] /\ ohsize' = 0
            /\ okey' = [n \in {} |-> nil] /\ oval' = [n \in {} |-> nil],
         pkey' = pkey, pval' = pval,
         stage' = "shrink" => i' > asize, stage' = "reinsert" => i' < ohsize',
         stage' = "retry" => pkey # nil
  PROVE  SysInv'
<1>1. TypeOK /\ Core /\ ResizeInv BY DEF SysInv
<1>2. UNCHANGED <<hash, asize, arr, hsize, key, dead, val, next, lastfree>> BY DEF tableVars, hashVars
<1>3. Main' = Main /\ Nodes' = Nodes BY <1>2, MainUnchanged
<1>4. Core'
  BY <1>1, <1>2, <1>3 DEF Core, Chained, Reach, Closed, TableType, ValInv, OneNode, InArray, FreeBefore, ArrayKeys
<1>5. TypeOK'
  <2>1. /\ oasize' \in Nat /\ oarr' \in [1 .. oasize' -> ValN] /\ ohsize' \in Nat
        /\ okey' \in [0 .. ohsize' - 1 -> KeyN] /\ oval' \in [0 .. ohsize' - 1 -> ValN]
    <3>1. CASE UNCHANGED <<oarr, okey, oval, oasize, ohsize>> BY <3>1, <1>1 DEF TypeOK
    <3>2. CASE /\ oasize' = 0 /\ oarr' = [j \in {} |-> nil] /\ ohsize' = 0
               /\ okey' = [n \in {} |-> nil] /\ oval' = [n \in {} |-> nil]
      <4>1. 1 .. 0 = {} /\ 0 .. 0 - 1 = {} OBVIOUS
      <4> QED BY <3>2, <4>1
    <3> QED BY <3>1, <3>2
  <2> QED BY <2>1, <1>1, <1>2, <1>3 DEF TypeOK
<1>6. ResizeInv' BY <1>1, <1>2 DEF ResizeInv
<1> QED BY <1>4, <1>5, <1>6 DEF SysInv

LEMMA SizesNat == {0} \cup PowersOf2 \subseteq Nat
BY DEF PowersOf2

LEMMA StepSys == SysInv /\ [Next]_vars => SysInv'
<1> SUFFICES ASSUME SysInv, [Next]_vars PROVE SysInv' OBVIOUS
<1>1. TypeOK /\ Core /\ ResizeInv BY DEF SysInv
<1>2. ASSUME NEW k \in Key, NEW v \in ValN, Set(k, v) PROVE SysInv'
  <2>1. CASE Put(k, v) /\ UNCHANGED resizeVars
    BY <2>1, <1>1, <1>2, PutSys DEF Set, resizeVars, TypeOK, ResizeInv
  <2>2. CASE rehash(k) /\ pkey' = k /\ pval' = v
    <3>1. PICK nasize, nhsize \in {0} \cup PowersOf2 : resize(nasize, nhsize) BY <2>2 DEF rehash
    <3>2. nasize \in Nat /\ nhsize \in Nat BY SizesNat
    <3> QED BY <3>1, <3>2, <2>2, <1>2, ResizeSys DEF Set, KeyN
  <2> QED BY <1>2, <2>1, <2>2 DEF Set
<1>3. ASSUME NEW n \in IntKey, luaH_resizearray(n) PROVE SysInv'
  <2>1. n \in Nat /\ hsize \in Nat /\ pkey \in KeyN /\ pval \in ValN BY <1>1, Constants DEF TypeOK
  <2> QED BY <1>3, <2>1, ResizeSys DEF luaH_resizearray
<1>4. CASE ShrinkArray
  <2>1. i \in 1 .. oasize /\ stage = "shrink" /\ i > asize /\ asize \in Nat
    BY <1>1, <1>4 DEF ShrinkArray, ResizeInv, TypeOK
  <2>2. CASE UNCHANGED tableVars BY <2>1, <2>2, <1>1, <1>4, SkipSys DEF ShrinkArray, TypeOK
  <2>3. CASE oarr[i] # nil /\ Put(i, oarr[i])
    <3>1. i \in Key /\ oarr[i] \in ValN BY <2>1, <2>3, <1>1, Constants DEF ResizeInv, TypeOK
    <3> QED BY <2>1, <2>3, <3>1, <1>1, <1>4, PutSys DEF ShrinkArray, TypeOK
  <2> QED BY <1>4, <2>2, <2>3 DEF ShrinkArray
<1>5. CASE EndShrink BY <1>1, <1>5, SkipSys DEF EndShrink, TypeOK
<1>6. CASE Reinsert
  <2>1. i \in 0 .. ohsize - 1 /\ stage = "reinsert" BY <1>1, <1>6 DEF Reinsert, ResizeInv, TypeOK
  <2>2. CASE UNCHANGED tableVars BY <2>1, <2>2, <1>1, <1>6, SkipSys DEF Reinsert, TypeOK
  <2>3. CASE oval[i] # nil /\ Put(okey[i], oval[i])
    <3>1. okey[i] \in Key /\ oval[i] \in ValN BY <2>1, <2>3, <1>1 DEF ResizeInv, TypeOK, KeyN
    <3> QED BY <2>1, <2>3, <3>1, <1>1, <1>6, PutSys DEF Reinsert, TypeOK
  <2> QED BY <1>6, <2>2, <2>3 DEF Reinsert
<1>7. CASE EndResize BY <1>1, <1>7, SkipSys DEF EndResize, TypeOK
<1>8. CASE Retry
  <2>1. pkey \in Key /\ pval \in ValN BY <1>1, <1>8 DEF Retry, ResizeInv, TypeOK, KeyN
  <2> QED BY <2>1, <1>1, <1>8, PutSys DEF Retry, TypeOK, KeyN, ValN
<1>9. CASE Collector
  BY <1>9, ClearSys, ClearArraySys DEF Collector, removeentry, ClearNode
<1>10. CASE UNCHANGED vars
  BY <1>1, <1>10, SkipSys DEF vars, resizeVars, TypeOK, ResizeInv
<1> QED BY <1>2, <1>3, <1>4, <1>5, <1>6, <1>7, <1>8, <1>9, <1>10 DEF Next, Resizing, ValN

\* Every sequence of assignments, rehashes and collections keeps the chains of
\* the node vector complete and acyclic, with one live node per key, and the
\* free nodes before lastfree (newkey, rehash, resize, removeentry).
THEOREM TableInvariant == Spec => []TableInv
BY InitSys, StepSys, SysInvImplies, PTL DEF Spec

\* A key is always reached from its main position.
THEOREM NoKeyLost == Spec => []Associated
<1>1. TableInv => Associated BY DEF TableInv
<1> QED BY <1>1, TableInvariant, PTL

\* The main invariant of ltable.c: a key out of its main position collides with
\* a key that is in its own.
THEOREM CollidingInMain == Spec => []MainOccupied
<1>1. TableInv => MainOccupied BY DEF TableInv
<1> QED BY <1>1, TableInvariant, PTL

\* Following gnext always ends.
THEOREM ChainsEnd == Spec => []Acyclic
<1>1. TableInv => Acyclic BY DEF TableInv
<1> QED BY <1>1, TableInvariant, PTL

-----------------------------------------------------------------------------
(* A table implements a map.                                                *)

Cont == [k \in Key |-> Contents(k)]

\* While resize works, the keys still to be inserted are all different, and
\* the new parts hold no value for any of them.
MapInv ==
  /\ \A n \in OldNodes : oval[n] # nil => ~(okey[n] \in IntKey /\ okey[n] <= oasize)
  /\ \A m, n \in OldNodes : okey[m] = okey[n] /\ oval[m] # nil /\ oval[n] # nil => m = n
  /\ \A k \in Key : OldArray(k) => Get[k] = nil
  /\ \A n \in OldNodes : oval[n] # nil => Get[okey[n]] = nil

ContSpec ==
  \A k \in Key :
    /\ OldArray(k) => Cont[k] = oarr[k]
    /\ \A n \in OldNodes : okey[n] = k /\ oval[n] # nil => Cont[k] = oval[n]
    /\ ~OldArray(k) /\ (\A n \in OldNodes : okey[n] = k => oval[n] = nil) => Cont[k] = Get[k]

LEMMA ContCorrect == MapInv => ContSpec
<1> SUFFICES ASSUME MapInv, NEW k \in Key
             PROVE  /\ OldArray(k) => Cont[k] = oarr[k]
                    /\ \A n \in OldNodes : okey[n] = k /\ oval[n] # nil => Cont[k] = oval[n]
                    /\ ~OldArray(k) /\ (\A n \in OldNodes : okey[n] = k => oval[n] = nil) => Cont[k] = Get[k]
  BY DEF ContSpec
<1>1. Cont[k] = Contents(k) /\ Get[k] = luaH_get(k) BY DEF Cont, Get
<1>2. OldArray(k) => Cont[k] = oarr[k] BY <1>1 DEF Contents
<1>3. ASSUME NEW n \in OldNodes, okey[n] = k, oval[n] # nil PROVE Cont[k] = oval[n]
  <2>1. ~OldArray(k) BY <1>3 DEF MapInv, OldArray
  <2>2. OldFound(k) = {n} BY <1>3 DEF MapInv, OldFound
  <2> QED BY <2>1, <2>2, <1>1 DEF Contents
<1>4. ASSUME ~OldArray(k), \A n \in OldNodes : okey[n] = k => oval[n] = nil PROVE Cont[k] = Get[k]
  <2>1. OldFound(k) = {} BY <1>4 DEF OldFound
  <2> QED BY <2>1, <1>4, <1>1 DEF Contents
<1> QED BY <1>2, <1>3, <1>4

LEMMA ContCorrectNext == MapInv' => ContSpec'
BY ContCorrect, PTL

\* Outside of resize the table holds what luaH_get finds.
LEMMA ContIdle == stage \in {"idle", "retry"} => MapInv /\ Cont = Get
<1> SUFFICES ASSUME stage \in {"idle", "retry"} PROVE MapInv /\ Cont = Get OBVIOUS
<1>1. OldNodes = {} /\ \A k \in Key : ~OldArray(k) BY DEF OldNodes, OldArray
<1>2. MapInv BY <1>1 DEF MapInv
<1>3. \A k \in Key : Cont[k] = Get[k] BY <1>1, <1>2, ContCorrect DEF ContSpec
<1> QED BY <1>2, <1>3 DEF Cont, Get

LEMMA ContIdleNext == (stage \in {"idle", "retry"})' => (MapInv /\ Cont = Get)'
BY ContIdle, PTL

\* Starting to resize changes nothing.
LEMMA ResizeCont ==
  ASSUME SysInv, stage = "idle", SysInv', NEW nasize \in Nat, NEW nhsize \in Nat,
         resize(nasize, nhsize)
  PROVE  MapInv' /\ Cont' = Cont
<1>0. TypeOK /\ Core BY DEF SysInv
<1>1. GetSpec /\ GetSpec' BY GetCorrect, GetCorrectNext DEF SysInv
<1>2. Cont = Get BY ContIdle
<1>3. /\ asize' = nasize /\ arr' = [j \in 1 .. nasize |-> IF j <= asize THEN arr[j] ELSE nil]
      /\ oarr' = arr /\ oasize' = asize /\ okey' = key /\ oval' = val /\ ohsize' = hsize
      /\ stage' = "shrink" /\ i' = nasize + 1 /\ hsize' = nhsize
      /\ key' = [n \in 0 .. nhsize - 1 |-> nil]
  BY DEF resize
<1>4. OldNodes' = Nodes BY <1>3 DEF OldNodes, Nodes
<1>5. \A k \in Key : OldArray(k)' <=> k \in IntKey /\ nasize < k /\ k <= asize
  BY <1>3, <1>0, Constants DEF OldArray, TypeOK
<1>6. \A n \in Nodes : val[n] # nil => key[n] \in Key /\ ~dead[n] /\ ~InArray(key[n]) /\ Get[key[n]] = val[n]
  <2>1. ASSUME NEW n \in Nodes, val[n] # nil
        PROVE  key[n] \in Key /\ ~dead[n] /\ ~InArray(key[n]) /\ Get[key[n]] = val[n]
    <3>1. key[n] # nil /\ ~dead[n] BY <2>1, <1>0 DEF Core, ValInv
    <3>2. key[n] \in Key BY <3>1, <1>0 DEF TypeOK, KeyN
    <3>3. ~InArray(key[n]) BY <3>1, <1>0 DEF Core, OneNode
    <3>4. Get[key[n]] = val[n] BY <3>1, <3>2, <1>1 DEF GetSpec
    <3> QED BY <3>1, <3>2, <3>3, <3>4
  <2> QED BY <2>1
\* What the new parts hold: the part of the array that is kept.
<1>7. \A k \in Key : Get'[k] = IF k \in IntKey /\ k <= nasize /\ k <= asize THEN arr[k] ELSE nil
  <2>1. ASSUME NEW k \in Key PROVE Get'[k] = IF k \in IntKey /\ k <= nasize /\ k <= asize THEN arr[k] ELSE nil
    <3>1. CASE k \in IntKey /\ k <= nasize
      <4>1. InArray(k)' /\ k \in 1 .. nasize BY <3>1, <1>3, Constants DEF InArray
      <4> QED BY <3>1, <4>1, <1>1, <1>3 DEF GetSpec
    <3>2. CASE ~(k \in IntKey /\ k <= nasize)
      <4>1. ~InArray(k)' BY <3>2, <1>3 DEF InArray
      <4>2. \A n \in Nodes' : key'[n] # k BY <1>3, Constants DEF Nodes
      <4> QED BY <3>2, <4>1, <4>2, <1>1 DEF GetSpec
    <3> QED BY <3>1, <3>2
  <2> QED BY <2>1
<1>8. MapInv'
  <2>1. \A n \in OldNodes' : oval'[n] # nil => ~(okey'[n] \in IntKey /\ okey'[n] <= oasize')
    BY <1>3, <1>4, <1>6 DEF InArray
  <2>2. \A m, n \in OldNodes' : okey'[m] = okey'[n] /\ oval'[m] # nil /\ oval'[n] # nil => m = n
    BY <1>3, <1>4, <1>6, <1>0, Constants DEF Core, OneNode
  <2>3. \A k \in Key : OldArray(k)' => Get'[k] = nil BY <1>5, <1>7, <1>0, Constants DEF TypeOK
  <2>4. \A n \in OldNodes' : oval'[n] # nil => Get'[okey'[n]] = nil
    BY <1>3, <1>4, <1>6, <1>7 DEF InArray
  <2> QED BY <2>1, <2>2, <2>3, <2>4 DEF MapInv
<1>9. ContSpec' BY <1>8, ContCorrectNext
<1>10. ASSUME NEW k \in Key PROVE Cont'[k] = Get[k]
  <2>1. CASE OldArray(k)'
    <3>1. InArray(k) BY <2>1, <1>5 DEF InArray
    <3> QED BY <2>1, <3>1, <1>1, <1>3, <1>9 DEF ContSpec, GetSpec
  <2>2. CASE \E n \in Nodes : key[n] = k /\ val[n] # nil
    BY <2>2, <1>3, <1>4, <1>6, <1>9 DEF ContSpec
  <2>3. CASE ~OldArray(k)' /\ \A n \in Nodes : key[n] = k => val[n] = nil
    <3>1. Cont'[k] = Get'[k] BY <2>3, <1>3, <1>4, <1>9 DEF ContSpec
    <3>2. CASE InArray(k)
      <4>1. k \in IntKey /\ k <= asize /\ k <= nasize
        BY <3>2, <2>3, <1>5, <1>0, Constants DEF InArray, TypeOK
      <4> QED BY <3>1, <3>2, <4>1, <1>1, <1>7 DEF GetSpec
    <3>3. CASE ~InArray(k)
      <4>1. Get[k] = nil BY <2>3, <3>3, <1>1 DEF GetSpec
      <4> QED BY <3>1, <3>3, <4>1, <1>7 DEF InArray
    <3> QED BY <3>2, <3>3
  <2> QED BY <2>1, <2>2, <2>3
<1>11. Cont' = Cont BY <1>2, <1>10 DEF Cont, Get
<1> QED BY <1>8, <1>11

LEMMA GetUnchanged ==
  ASSUME UNCHANGED <<hash, tableVars>>
  PROVE  Get' = Get
BY DEF Get, luaH_get, InArray, Found, Chain, Reach, Closed, mainposition, Nodes, tableVars, hashVars

\* Each entry is re-inserted once, and holds its value all the time.
LEMMA ShrinkCont ==
  ASSUME SysInv, MapInv, ShrinkArray
  PROVE  MapInv' /\ Cont' = Cont
<1>0. TypeOK /\ Core /\ ResizeInv BY DEF SysInv
<1>1. /\ stage = "shrink" /\ stage' = "shrink" /\ i' = i + 1 /\ i \in 1 .. oasize
      /\ UNCHANGED <<hash, oarr, okey, oval, oasize, ohsize>>
  BY <1>0 DEF ShrinkArray, ResizeInv, TypeOK
<1>2. OldNodes' = OldNodes BY <1>1 DEF OldNodes
<1>3. \A k \in Key : OldArray(k)' <=> OldArray(k) /\ k # i
  BY <1>0, <1>1, Constants DEF OldArray, TypeOK
<1>4. i \in IntKey => OldArray(i) /\ Get[i] = nil BY <1>1, Constants DEF OldArray, MapInv
<1>5. \A k \in Key : Get'[k] = IF k = i THEN oarr[i] ELSE Get[k]
  <2>1. CASE oarr[i] = nil /\ UNCHANGED tableVars
    <3>1. Get' = Get BY <2>1, <1>1, GetUnchanged
    <3> QED BY <2>1, <3>1, <1>4, <1>1, Constants
  <2>2. CASE oarr[i] # nil /\ Put(i, oarr[i])
    <3>1. i \in Key /\ oarr[i] \in ValN BY <2>2, <1>0, <1>1, Constants DEF ResizeInv, TypeOK
    <3>2. Get' = [Get EXCEPT ![i] = oarr[i]] BY <2>2, <3>1, <1>0, <1>1, PutGet
    <3> QED BY <3>2 DEF Get
  <2> QED BY <2>1, <2>2 DEF ShrinkArray
<1>6. \A n \in OldNodes : oval[n] # nil => okey[n] # i /\ okey[n] \in Key
  <2>1. ASSUME NEW n \in OldNodes, oval[n] # nil PROVE okey[n] # i /\ okey[n] \in Key
    <3>1. n \in 0 .. ohsize - 1 BY DEF OldNodes
    <3>2. okey[n] \in Key BY <2>1, <3>1, <1>0 DEF ResizeInv, TypeOK, KeyN
    <3>3. okey[n] = i => okey[n] \in IntKey /\ okey[n] <= oasize BY <3>2, <1>1, Constants
    <3> QED BY <2>1, <3>2, <3>3 DEF MapInv
  <2> QED BY <2>1
<1>7. MapInv' BY <1>1, <1>2, <1>3, <1>5, <1>6 DEF MapInv
<1>8. ContSpec /\ ContSpec' BY <1>7, ContCorrect, ContCorrectNext
<1>9. ASSUME NEW k \in Key PROVE Cont'[k] = Cont[k]
  <2>1. CASE k = i
    <3>1. OldArray(k) /\ ~OldArray(k)' BY <2>1, <1>1, <1>3, <1>4, Constants
    <3>2. \A n \in OldNodes' : okey'[n] = k => oval'[n] = nil BY <2>1, <1>1, <1>2, <1>6
    <3> QED BY <2>1, <3>1, <3>2, <1>5, <1>8 DEF ContSpec
  <2>2. CASE k # i
    <3>1. OldArray(k)' <=> OldArray(k) BY <2>2, <1>3
    <3>2. Get'[k] = Get[k] BY <2>2, <1>5
    <3>3. CASE OldArray(k) BY <3>1, <3>3, <1>1, <1>8 DEF ContSpec
    <3>4. CASE \E n \in OldNodes : okey[n] = k /\ oval[n] # nil BY <3>4, <1>1, <1>2, <1>8 DEF ContSpec
    <3>5. CASE ~OldArray(k) /\ \A n \in OldNodes : okey[n] = k => oval[n] = nil
      BY <3>1, <3>2, <3>5, <1>1, <1>2, <1>8 DEF ContSpec
    <3> QED BY <3>3, <3>4, <3>5
  <2> QED BY <2>1, <2>2
<1> QED BY <1>7, <1>9 DEF Cont

LEMMA ReinsertCont ==
  ASSUME SysInv, MapInv, Reinsert
  PROVE  MapInv' /\ Cont' = Cont
<1>0. TypeOK /\ Core /\ ResizeInv BY DEF SysInv
<1>1. /\ stage = "reinsert" /\ stage' = "reinsert" /\ i' = i - 1 /\ i \in 0 .. ohsize - 1
      /\ UNCHANGED <<hash, oarr, okey, oval, oasize, ohsize>>
  BY <1>0 DEF Reinsert, ResizeInv, TypeOK
<1>2. OldNodes' = OldNodes \ {i} /\ i \in OldNodes BY <1>0, <1>1 DEF OldNodes, TypeOK
<1>3. \A k \in Key : ~OldArray(k) /\ ~OldArray(k)' BY <1>1 DEF OldArray
<1>4. oval[i] # nil => okey[i] \in Key /\ Get[okey[i]] = nil
  BY <1>0, <1>1, <1>2 DEF MapInv, ResizeInv, TypeOK, KeyN
<1>5. \A k \in Key : Get'[k] = IF oval[i] # nil /\ k = okey[i] THEN oval[i] ELSE Get[k]
  <2>1. CASE oval[i] = nil /\ UNCHANGED tableVars
    <3>1. Get' = Get BY <2>1, <1>1, GetUnchanged
    <3> QED BY <2>1, <3>1
  <2>2. CASE oval[i] # nil /\ Put(okey[i], oval[i])
    <3>1. okey[i] \in Key /\ oval[i] \in ValN BY <2>2, <1>0, <1>1, <1>4 DEF TypeOK
    <3>2. Get' = [Get EXCEPT ![okey[i]] = oval[i]] BY <2>2, <3>1, <1>0, <1>1, PutGet
    <3> QED BY <2>2, <3>2 DEF Get
  <2> QED BY <2>1, <2>2 DEF Reinsert
<1>6. \A n \in OldNodes : oval[n] # nil => okey[n] \in Key
  BY <1>0 DEF OldNodes, ResizeInv, TypeOK, KeyN
<1>7. MapInv'
  <2>1. \A n \in OldNodes' : oval'[n] # nil => oval[n] # nil /\ okey[n] \in Key /\ (oval[i] # nil => okey[n] # okey[i])
    BY <1>1, <1>2, <1>6 DEF MapInv
  <2>2. \A n \in OldNodes' : oval'[n] # nil => Get'[okey'[n]] = nil
    BY <1>1, <1>2, <1>5, <2>1 DEF MapInv
  <2> QED BY <1>1, <1>2, <1>3, <2>2 DEF MapInv
<1>8. ContSpec /\ ContSpec' BY <1>7, ContCorrect, ContCorrectNext
<1>9. ASSUME NEW k \in Key PROVE Cont'[k] = Cont[k]
  <2>1. CASE oval[i] # nil /\ k = okey[i]
    <3>1. Cont[k] = oval[i] BY <2>1, <1>2, <1>8 DEF ContSpec
    <3>2. \A n \in OldNodes' : okey'[n] = k => oval'[n] = nil BY <2>1, <1>1, <1>2 DEF MapInv
    <3> QED BY <2>1, <3>1, <3>2, <1>3, <1>5, <1>8 DEF ContSpec
  <2>2. CASE ~(oval[i] # nil /\ k = okey[i])
    <3>1. CASE \E n \in OldNodes : okey[n] = k /\ oval[n] # nil
      BY <2>2, <3>1, <1>1, <1>2, <1>8 DEF ContSpec
    <3>2. CASE \A n \in OldNodes : okey[n] = k => oval[n] = nil
      BY <2>2, <3>2, <1>1, <1>2, <1>3, <1>5, <1>8 DEF ContSpec
    <3> QED BY <3>1, <3>2
  <2> QED BY <2>1, <2>2
<1> QED BY <1>7, <1>9 DEF Cont

LEMMA EndCont ==
  ASSUME SysInv, MapInv, EndShrink \/ EndResize
  PROVE  MapInv' /\ Cont' = Cont
<1>0. TypeOK /\ ResizeInv BY DEF SysInv
<1>1. Get' = Get BY GetUnchanged DEF EndShrink, EndResize
<1>2. \A k \in Key : ~OldArray(k) BY <1>0, Constants DEF EndShrink, EndResize, OldArray, TypeOK
<1>3. CASE EndShrink
  <2>1. OldNodes' = OldNodes BY <1>0, <1>3 DEF EndShrink, OldNodes, TypeOK
  <2>2. /\ UNCHANGED <<oarr, okey, oval, oasize, ohsize>>
        /\ \A k \in Key : ~OldArray(k)'
    BY <1>3 DEF EndShrink, OldArray
  <2>3. MapInv' BY <2>1, <2>2, <1>1 DEF MapInv
  <2>4. ContSpec /\ ContSpec' BY <2>3, ContCorrect, ContCorrectNext
  <2>5. ASSUME NEW k \in Key PROVE Cont'[k] = Cont[k]
    <3>1. CASE \E n \in OldNodes : okey[n] = k /\ oval[n] # nil BY <3>1, <2>1, <2>2, <2>4 DEF ContSpec
    <3>2. CASE \A n \in OldNodes : okey[n] = k => oval[n] = nil
      BY <3>2, <2>1, <2>2, <2>4, <1>1, <1>2 DEF ContSpec
    <3> QED BY <3>1, <3>2
  <2> QED BY <2>3, <2>5 DEF Cont
<1>4. CASE EndResize
  <2>1. OldNodes = {} BY <1>0, <1>4 DEF EndResize, OldNodes, TypeOK
  <2>2. \A k \in Key : Cont[k] = Get[k] BY <2>1, <1>2, ContCorrect DEF ContSpec
  <2>3. MapInv' /\ Cont' = Get' BY <1>4, ContIdleNext DEF EndResize
  <2> QED BY <2>2, <2>3, <1>1 DEF Cont, Get
<1> QED BY <1>3, <1>4

\* The collector: a dead mark hides no value; a cleared entry is an assignment.
LEMMA ClearCont ==
  ASSUME SysInv, SysInv', NEW n \in Nodes
  PROVE  /\ removeentry(n) => Get' = Get
         /\ ClearNode(n) => key[n] \in Key /\ Get' = [Get EXCEPT ![key[n]] = nil]
<1>0. TypeOK /\ Core BY DEF SysInv
<1>1. GetSpec /\ GetSpec' BY GetCorrect, GetCorrectNext DEF SysInv
<1>t. key \in [Nodes -> KeyN] /\ val \in [Nodes -> ValN] /\ dead \in [Nodes -> BOOLEAN] BY <1>0 DEF TypeOK
<1>2. ASSUME removeentry(n) PROVE Get' = Get
  <2>1. /\ UNCHANGED <<asize, arr, hsize, key, val>> /\ dead' = [dead EXCEPT ![n] = TRUE]
        /\ val[n] = nil /\ ~dead[n]
    BY <1>2 DEF removeentry
  <2>2. Nodes' = Nodes /\ \A k \in Key : InArray(k)' <=> InArray(k) BY <2>1 DEF Nodes, InArray
  <2>3. ASSUME NEW k \in Key PROVE Get'[k] = Get[k]
    <3>1. CASE InArray(k) BY <3>1, <2>1, <2>2, <1>1 DEF GetSpec
    <3>2. CASE \E m \in Nodes : m # n /\ key[m] = k /\ ~dead[m]
      BY <3>2, <2>1, <2>2, <1>1, <1>t DEF GetSpec
    <3>3. CASE ~InArray(k) /\ key[n] = k /\ \A m \in Nodes : m # n /\ key[m] = k => dead[m]
      <4>1. Get[k] = nil BY <3>3, <2>1, <1>1 DEF GetSpec
      <4>2. \A m \in Nodes : key'[m] = k => dead'[m] BY <3>3, <2>1, <1>t
      <4>3. Get'[k] = nil BY <4>2, <3>3, <2>2, <1>1 DEF GetSpec
      <4> QED BY <4>1, <4>3
    <3>4. CASE ~InArray(k) /\ \A m \in Nodes : key[m] = k => dead[m]
      <4>1. \A m \in Nodes : key'[m] = k => dead'[m] BY <3>4, <2>1, <1>t
      <4> QED BY <4>1, <3>4, <2>2, <1>1 DEF GetSpec
    <3> QED BY <3>1, <3>2, <3>3, <3>4
  <2> QED BY <2>3 DEF Get
<1>3. ASSUME ClearNode(n) PROVE key[n] \in Key /\ Get' = [Get EXCEPT ![key[n]] = nil]
  <2>1. /\ UNCHANGED <<asize, arr, hsize, key>> /\ val' = [val EXCEPT ![n] = nil]
        /\ dead' = [dead EXCEPT ![n] = key[n] \in Collectable] /\ val[n] # nil
    BY <1>3 DEF ClearNode
  <2>2. Nodes' = Nodes /\ \A k \in Key : InArray(k)' <=> InArray(k) BY <2>1 DEF Nodes, InArray
  <2>3. key[n] \in Key /\ ~dead[n] /\ ~InArray(key[n])
    BY <2>1, <1>0, <1>t DEF Core, ValInv, OneNode, KeyN
  <2>u. \A m \in Nodes : key[m] = key[n] /\ ~dead[m] => m = n
    BY <2>3, <1>0, Constants DEF Core, OneNode
  <2>d. \A m \in Nodes : m # n => dead'[m] = dead[m] /\ val'[m] = val[m] BY <2>1, <1>t
  <2>4. ASSUME NEW k \in Key PROVE Get'[k] = IF k = key[n] THEN nil ELSE Get[k]
    <3>1. CASE InArray(k) BY <3>1, <2>1, <2>2, <2>3, <1>1 DEF GetSpec
    <3>2. CASE k = key[n]
      <4>1. CASE dead'[n]
        <5>1. \A m \in Nodes : key'[m] = k => dead'[m] BY <4>1, <3>2, <2>1, <2>d, <2>u
        <5> QED BY <5>1, <3>2, <2>2, <2>3, <1>1 DEF GetSpec
      <4>2. CASE ~dead'[n]
        <5>1. val'[n] = nil BY <2>1, <1>t
        <5> QED BY <5>1, <4>2, <3>2, <2>1, <2>2, <1>1 DEF GetSpec
      <4> QED BY <4>1, <4>2
    <3>3. CASE k # key[n] /\ ~InArray(k)
      <4>1. CASE \E m \in Nodes : key[m] = k /\ ~dead[m]
        BY <4>1, <3>3, <2>1, <2>2, <2>d, <1>1 DEF GetSpec
      <4>2. CASE \A m \in Nodes : key[m] = k => dead[m]
        <5>1. \A m \in Nodes : key'[m] = k => dead'[m] BY <4>2, <3>3, <2>1, <2>d
        <5> QED BY <5>1, <4>2, <3>3, <2>2, <1>1 DEF GetSpec
      <4> QED BY <4>1, <4>2
    <3> QED BY <3>1, <3>2, <3>3
  <2> QED BY <2>3, <2>4 DEF Get
<1> QED BY <1>2, <1>3

LEMMA ClearArrayCont ==
  ASSUME SysInv, SysInv', NEW j \in 1 .. asize, ClearArray(j)
  PROVE  j \in Key /\ Get' = [Get EXCEPT ![j] = nil]
<1>0. TypeOK /\ Core BY DEF SysInv
<1>1. GetSpec /\ GetSpec' BY GetCorrect, GetCorrectNext DEF SysInv
<1>2. /\ UNCHANGED <<asize, hsize, key, val, dead>> /\ arr' = [arr EXCEPT ![j] = nil] /\ arr[j] # nil
  BY DEF ClearArray, hashVars
<1>3. Nodes' = Nodes /\ \A k \in Key : InArray(k)' <=> InArray(k) BY <1>2 DEF Nodes, InArray
<1>4. j \in IntKey /\ j \in Key /\ InArray(j) BY <1>0, <1>2, Constants DEF Core, ArrayKeys, InArray
<1>5. ASSUME NEW k \in Key PROVE Get'[k] = IF k = j THEN nil ELSE Get[k]
  <2>1. CASE InArray(k)
    <3>1. k \in 1 .. asize BY <2>1, <1>0, Constants DEF InArray, TypeOK
    <3>2. arr'[k] = IF k = j THEN nil ELSE arr[k] BY <3>1, <1>0, <1>2 DEF TypeOK
    <3> QED BY <2>1, <3>2, <1>1, <1>3 DEF GetSpec
  <2>2. CASE ~InArray(k)
    <3>1. k # j BY <2>2, <1>4
    <3>2. CASE \E m \in Nodes : key[m] = k /\ ~dead[m] BY <3>1, <3>2, <1>1, <1>2, <1>3 DEF GetSpec
    <3>3. CASE \A m \in Nodes : key[m] = k => dead[m] BY <2>2, <3>1, <3>3, <1>1, <1>2, <1>3 DEF GetSpec
    <3> QED BY <3>2, <3>3
  <2> QED BY <2>1, <2>2
<1> QED BY <1>4, <1>5 DEF Get

MapStep == \E k \in Key, v \in Val \cup {nil} : last' = <<k, v>> /\ Cont' = [Cont EXCEPT ![k] = v]

LEMMA HStep == HNext => Next
BY DEF HNext, Next, Resizing, Collector

\* An assignment takes effect at once in the whole map.
LEMMA AssignCont ==
  ASSUME SysInv, stage \in {"idle", "retry"}, stage' = "idle",
         NEW k \in Key, NEW v \in ValN, Get' = [Get EXCEPT ![k] = v]
  PROVE  MapInv' /\ Cont' = [Cont EXCEPT ![k] = v]
<1>1. Cont = Get BY ContIdle
<1>2. MapInv' /\ Cont' = Get' BY ContIdleNext
<1> QED BY <1>1, <1>2

LEMMA MapStepLemma ==
  ASSUME SysInv, MapInv, SysInv', HNext
  PROVE  MapInv' /\ (MapStep \/ (Cont' = Cont /\ last' = last))
<1>0. TypeOK /\ Core /\ ResizeInv BY DEF SysInv
<1>1. ASSUME NEW k \in Key, NEW v \in ValN, Set(k, v), last' = IF stage' = "idle" THEN <<k, v>> ELSE last
      PROVE  MapInv' /\ (MapStep \/ (Cont' = Cont /\ last' = last))
  <2>1. CASE Put(k, v) /\ UNCHANGED resizeVars
    <3>1. stage = "idle" /\ stage' = "idle" /\ hash' = hash BY <1>1, <2>1 DEF Set, resizeVars
    <3>2. Get' = [Get EXCEPT ![k] = v] BY <2>1, <3>1, <1>0, PutGet
    <3>3. MapInv' /\ Cont' = [Cont EXCEPT ![k] = v] BY <3>1, <3>2, AssignCont
    <3> QED BY <3>1, <3>3, <1>1 DEF MapStep, ValN
  <2>2. CASE rehash(k)
    <3>1. PICK nasize, nhsize \in {0} \cup PowersOf2 : resize(nasize, nhsize) BY <2>2 DEF rehash
    <3>2. nasize \in Nat /\ nhsize \in Nat BY SizesNat
    <3>3. stage = "idle" /\ stage' = "shrink" BY <1>1, <3>1 DEF Set, resize
    <3> QED BY <3>1, <3>2, <3>3, <1>1, ResizeCont
  <2> QED BY <1>1, <2>1, <2>2 DEF Set
<1>2. ASSUME Retry, last' = <<pkey, pval>> PROVE MapInv' /\ MapStep
  <2>1. pkey \in Key /\ pval \in ValN /\ stage = "retry" /\ stage' = "idle" /\ hash' = hash
    BY <1>0, <1>2 DEF Retry, ResizeInv, TypeOK, KeyN
  <2>2. Get' = [Get EXCEPT ![pkey] = pval] BY <1>0, <1>2, <2>1, PutGet DEF Retry
  <2>3. MapInv' /\ Cont' = [Cont EXCEPT ![pkey] = pval] BY <2>1, <2>2, AssignCont
  <2> QED BY <1>2, <2>1, <2>3 DEF MapStep, ValN
<1>3. ASSUME NEW n \in Nodes, ClearNode(n), last' = <<key[n], nil>> PROVE MapInv' /\ MapStep
  <2>1. stage = "idle" /\ stage' = "idle" BY <1>3 DEF ClearNode, resizeVars
  <2>2. key[n] \in Key /\ Get' = [Get EXCEPT ![key[n]] = nil] BY <1>3, ClearCont
  <2>3. MapInv' /\ Cont' = [Cont EXCEPT ![key[n]] = nil] BY <2>1, <2>2, AssignCont DEF ValN
  <2> QED BY <1>3, <2>2, <2>3 DEF MapStep
<1>4. ASSUME NEW j \in 1 .. asize, ClearArray(j), last' = <<j, nil>> PROVE MapInv' /\ MapStep
  <2>1. stage = "idle" /\ stage' = "idle" BY <1>4 DEF ClearArray, resizeVars
  <2>2. j \in Key /\ Get' = [Get EXCEPT ![j] = nil] BY <1>4, ClearArrayCont
  <2>3. MapInv' /\ Cont' = [Cont EXCEPT ![j] = nil] BY <2>1, <2>2, AssignCont DEF ValN
  <2> QED BY <1>4, <2>2, <2>3 DEF MapStep
<1>5. ASSUME NEW n \in IntKey, luaH_resizearray(n) PROVE MapInv' /\ Cont' = Cont
  <2>1. n \in Nat /\ hsize \in Nat /\ stage = "idle" BY <1>0, <1>5, Constants DEF TypeOK, luaH_resizearray
  <2> QED BY <1>5, <2>1, ResizeCont DEF luaH_resizearray
<1>6. ASSUME NEW n \in Nodes, removeentry(n) PROVE MapInv' /\ Cont' = Cont
  <2>1. stage = "idle" /\ stage' = "idle" BY <1>6 DEF removeentry, resizeVars
  <2>2. Get' = Get BY <1>6, ClearCont
  <2> QED BY <2>1, <2>2, ContIdle, ContIdleNext
<1> QED BY <1>1, <1>2, <1>3, <1>4, <1>5, <1>6, ShrinkCont, ReinsertCont, EndCont DEF HNext, ValN

LEMMA InitMap == HInit => MapInv /\ Map!Init
<1> SUFFICES ASSUME HInit PROVE MapInv /\ Map!Init OBVIOUS
<1>1. SysInv /\ stage = "idle" BY InitSys DEF HInit, Init
<1>2. MapInv /\ Cont = Get BY <1>1, ContIdle
<1>3. GetSpec BY <1>1, GetCorrect DEF SysInv
<1>4. PICK s \in NewSizes : luaH_new(s[1], s[2]) BY DEF HInit, Init
<1>5. s[1] \in Nat /\ s[2] \in Nat BY Constants
<1>6. ASSUME NEW k \in Key PROVE Get[k] = nil
  <2>1. \A n \in Nodes : key[n] # k BY <1>4, Constants DEF luaH_new, Nodes
  <2>2. InArray(k) => arr[k] = nil BY <1>4, <1>5, Constants DEF luaH_new, InArray
  <2> QED BY <2>1, <2>2, <1>3 DEF GetSpec
<1>7. \A k \in Key : Contents(k) = nil BY <1>2, <1>6 DEF Cont
<1> QED BY <1>2, <1>7 DEF Map!Init, HInit

LEMMA HStepInv == SysInv /\ MapInv /\ [HNext]_hvars => SysInv' /\ MapInv' /\ [Map!Next]_<<[k \in Key |-> Contents(k)], last>>
<1> SUFFICES ASSUME SysInv, MapInv, [HNext]_hvars
             PROVE  SysInv' /\ MapInv' /\ [Map!Next]_<<[k \in Key |-> Contents(k)], last>>
  OBVIOUS
<1>1. SysInv' BY StepSys, HStep DEF hvars
<1>2. CASE HNext
  <2>1. MapInv' /\ (MapStep \/ (Cont' = Cont /\ last' = last)) BY <1>1, <1>2, MapStepLemma
  <2> QED BY <1>1, <2>1 DEF MapStep, Map!Next, Map!Assign, Cont
<1>3. CASE UNCHANGED hvars
  <2>1. UNCHANGED <<hash, tableVars, stage, oarr, okey, oval, oasize, ohsize, i, last>>
    BY <1>3 DEF hvars, vars, resizeVars
  <2>2. Get' = Get BY <2>1, GetUnchanged
  <2>3. OldNodes' = OldNodes /\ \A k \in Key : OldArray(k)' <=> OldArray(k) BY <2>1 DEF OldNodes, OldArray
  <2>4. MapInv' BY <2>1, <2>2, <2>3 DEF MapInv
  <2>5. ContSpec /\ ContSpec' BY <2>4, ContCorrect, ContCorrectNext
  <2>6. ASSUME NEW k \in Key PROVE Cont'[k] = Cont[k]
    <3>1. CASE OldArray(k) BY <3>1, <2>1, <2>3, <2>5 DEF ContSpec
    <3>2. CASE \E n \in OldNodes : okey[n] = k /\ oval[n] # nil BY <3>2, <2>1, <2>3, <2>5 DEF ContSpec
    <3>3. CASE ~OldArray(k) /\ \A n \in OldNodes : okey[n] = k => oval[n] = nil
      BY <3>3, <2>1, <2>2, <2>3, <2>5 DEF ContSpec
    <3> QED BY <3>1, <3>2, <3>3
  <2>7. Cont' = Cont BY <2>6 DEF Cont
  <2> QED BY <1>1, <2>1, <2>4, <2>7 DEF Cont
<1> QED BY <1>2, <1>3

\* A table implements a map: insertion, collisions, rehashing, resizing and the
\* collector's dead keys are invisible in what luaH_get returns.
THEOREM TableIsMap == HSpec => MapSpec
<1>1. HInit => SysInv BY InitSys DEF HInit
<1> QED BY <1>1, InitMap, HStepInv, PTL DEF HSpec, MapSpec, Map!Spec

-----------------------------------------------------------------------------
(* The room for what resize re-inserts.                                     *)

\* The nodes without a key, and what waits for one: the entries of the vanishing
\* slice of the array and of the old node vector, and the pending assignment.
Empty == {n \in Nodes : key[n] = nil}
ArrayLeft == {j \in 1 .. oasize : stage = "shrink" /\ j >= i /\ oarr[j] # nil}
NodesLeft == {n \in 0 .. ohsize - 1 :
                (stage = "reinsert" => n <= i) /\ oval[n] # nil /\ ~InArray(okey[n])}
KeyLeft == {k \in {pkey} : k # nil /\ ~InArray(k)}

\* There is an empty node for each.
RoomInv ==
  /\ stage = "idle" => pkey = nil
  /\ stage # "idle" =>
       Cardinality(ArrayLeft) + Cardinality(NodesLeft) + Cardinality(KeyLeft) <= Cardinality(Empty)

\* The array part is within the sizes that computesizes chooses from.  Only
\* lua_createtable and OP_SETLIST can make a larger one, for more than 2^MAXBITS
\* elements; those beyond are not counted by numusearray.
ArrayFits == asize <= MAXASIZE

LEMMA MAXASIZEType == MAXASIZE \in Nat
<1>1. IsFiniteSet(1 .. MAXBITS) /\ Cardinality(1 .. MAXBITS) = MAXBITS
  BY TableAssumption, FS_Interval
<1>2. IsFiniteSet(SUBSET (1 .. MAXBITS)) /\ Cardinality(SUBSET (1 .. MAXBITS)) = 2 ^ MAXBITS
  BY <1>1, FS_SUBSET
<1> QED BY <1>2, FS_CardinalityType DEF MAXASIZE

RoomFinite ==
  /\ IsFiniteSet(Empty) /\ Cardinality(Empty) \in Nat
  /\ IsFiniteSet(ArrayLeft) /\ Cardinality(ArrayLeft) \in Nat
  /\ IsFiniteSet(NodesLeft) /\ Cardinality(NodesLeft) \in Nat
  /\ IsFiniteSet(KeyLeft) /\ Cardinality(KeyLeft) \in Nat

LEMMA RoomTypes == TypeOK => RoomFinite
<1> SUFFICES ASSUME TypeOK PROVE RoomFinite OBVIOUS
<1>0. 0 \in Int /\ 1 \in Int /\ hsize - 1 \in Int /\ oasize \in Int /\ ohsize - 1 \in Int BY DEF TypeOK
<1>1. IsFiniteSet(Nodes) /\ IsFiniteSet(1 .. oasize) /\ IsFiniteSet(0 .. ohsize - 1)
  BY <1>0, FS_Interval DEF Nodes
<1>s. IsFiniteSet({pkey}) BY FS_Singleton
<1>2. /\ Empty \in SUBSET Nodes /\ ArrayLeft \in SUBSET (1 .. oasize)
      /\ NodesLeft \in SUBSET (0 .. ohsize - 1) /\ KeyLeft \in SUBSET {pkey}
  BY DEF Empty, ArrayLeft, NodesLeft, KeyLeft
<1>3. IsFiniteSet(Empty) /\ IsFiniteSet(ArrayLeft) /\ IsFiniteSet(NodesLeft) /\ IsFiniteSet(KeyLeft)
  BY <1>1, <1>s, <1>2, FS_Subset
<1> QED BY <1>3, FS_CardinalityType DEF RoomFinite

LEMMA RoomTypesNext == TypeOK' => RoomFinite'
BY RoomTypes, PTL

\* With an empty node newkey does not call rehash.
LEMMA RoomLeft ==
  ASSUME SysInv, NEW k \in Key, InArray(k) \/ Empty # {}
  PROVE  ~NoRoom(k)
<1>1. CASE InArray(k) BY <1>1 DEF NoRoom
<1>2. CASE Empty # {}
  <2>1. PICK n \in Nodes : key[n] = nil BY <1>2 DEF Empty
  <2>2. hsize # 0 /\ n < lastfree BY <2>1 DEF SysInv, Core, TypeOK, FreeBefore, Nodes
  <2> QED BY <2>1, <2>2 DEF NoRoom, Free
<1> QED BY <1>1, <1>2

\* An assignment uses one empty node, and none for a key of the array part.
LEMMA PutUses ==
  ASSUME SysInv, NEW k \in Key, NEW v \in ValN, Put(k, v), hash' = hash
  PROVE  /\ InArray(k) => Empty' = Empty
         /\ \E x : Empty \ {x} \subseteq Empty'
<1>1. TypeOK /\ Core BY DEF SysInv
<1>2. asize' = asize /\ hsize' = hsize /\ Nodes' = Nodes BY DEF Put, hashVars, Nodes
<1>3. key \in [Nodes -> KeyN] BY <1>1 DEF TypeOK
<1>4. CASE key' = key BY <1>2, <1>4 DEF Empty
<1>5. CASE ~InArray(k) /\ Found(k) = {} /\ hsize # 0 /\ newkey(k, v)
  <2> DEFINE mp == mainposition(k)
  <2>m. mp \in Nodes BY <1>1, <1>5, MainType DEF Main, Core
  <2>1. CASE putMain(k, v)
    <3>1. key' = [key EXCEPT ![mp] = k] BY <2>1 DEF putMain
    <3>2. Empty \ {mp} \subseteq Empty' BY <3>1, <1>2, <1>3 DEF Empty
    <3> QED BY <3>2, <1>5
  <2>2. ASSUME NEW n \in Nodes, putFree(k, v, n) PROVE Empty \ {n} \subseteq Empty'
    <3>1. key' = [key EXCEPT ![n] = k] BY <2>2 DEF putFree
    <3> QED BY <3>1, <1>2, <1>3 DEF Empty
  <2>3. ASSUME NEW n \in Nodes, NEW prev \in Nodes, moveColliding(k, v, n, prev)
        PROVE  Empty \ {n} \subseteq Empty'
    <3>1. key' = [key EXCEPT ![n] = key[mp], ![mp] = k] /\ val[mp] # nil
      BY <2>3 DEF moveColliding
    <3>2. key[mp] # nil BY <3>1, <2>m, <1>1 DEF Core, ValInv
    <3> QED BY <3>1, <3>2, <2>m, <1>2, <1>3 DEF Empty
  <2> QED BY <1>5, <2>1, <2>2, <2>3 DEF newkey
<1> QED BY <1>4, <1>5 DEF Put, hashVars

LEMMA PutCount ==
  ASSUME SysInv, SysInv', NEW k \in Key, NEW v \in ValN, Put(k, v), hash' = hash
  PROVE  /\ InArray(k) => Cardinality(Empty') = Cardinality(Empty)
         /\ Cardinality(Empty') >= Cardinality(Empty) - 1
<1>1. InArray(k) => Empty' = Empty BY PutUses
<1>2. PICK x : Empty \ {x} \subseteq Empty' BY PutUses
<1>3. IsFiniteSet(Empty) /\ Cardinality(Empty) \in Nat BY RoomTypes DEF SysInv, RoomFinite
<1>4. IsFiniteSet(Empty') /\ Cardinality(Empty') \in Nat BY RoomTypesNext DEF SysInv, RoomFinite
<1>r. Cardinality(Empty \ {x}) = IF x \in Empty THEN Cardinality(Empty) - 1 ELSE Cardinality(Empty)
  BY <1>3, FS_RemoveElement
<1>5. Cardinality(Empty \ {x}) >= Cardinality(Empty) - 1 BY <1>r, <1>3
<1>6. IsFiniteSet(Empty \ {x}) BY <1>3, FS_RemoveElement
<1>7. Cardinality(Empty \ {x}) \in Nat BY <1>6, FS_CardinalityType
<1>8. Empty \ {x} \in SUBSET Empty' BY <1>2
<1>9. Cardinality(Empty \ {x}) <= Cardinality(Empty') BY <1>8, <1>4, FS_Subset
<1> QED BY <1>1, <1>3, <1>4, <1>5, <1>7, <1>9

\* resize empties the node vector.
LEMMA ResizeEmpty ==
  ASSUME NEW nasize \in Nat, NEW nhsize \in Nat, resize(nasize, nhsize)
  PROVE  Cardinality(Empty') = nhsize
<1>1. Empty' = 0 .. nhsize - 1 BY DEF resize, Empty, Nodes
<1>2. Cardinality(0 .. nhsize - 1) = nhsize BY FS_Interval
<1> QED BY <1>1, <1>2

\* The keys that computesizes counts for the array part are not among those that
\* wait for a node: rehash asks for a node vector that has room for all of these.
LEMMA RehashRoom ==
  ASSUME SysInv, ArrayFits, NEW k \in Key, NEW v, stage = "idle",
         rehash(k), hash' = hash, pkey' = k, pval' = v, SysInv'
  PROVE  RoomInv'
<1>0. PICK nasize \in {0} \cup PowersOf2, nhsize \in {0} \cup PowersOf2 :
        /\ RoundUp(HashUse(k, nasize), nhsize)
        /\ resize(nasize, nhsize)
  BY DEF rehash
<1>n. nasize \in Nat /\ nhsize \in Nat BY SizesNat
<1>r. /\ asize' = nasize /\ oasize' = asize /\ oarr' = arr /\ ohsize' = hsize
      /\ okey' = key /\ oval' = val /\ stage' = "shrink" /\ i' = nasize + 1
  BY <1>0 DEF resize
<1>t. TypeOK /\ asize \in Nat /\ hsize \in Nat /\ arr \in [1 .. asize -> ValN] BY DEF SysInv, TypeOK
<1>a. RoomFinite' BY RoomTypesNext DEF SysInv
<1> DEFINE U == UpTo(IntUse(k), nasize)
           X == ArrayUse \ ArrayLeft'
           W == Used \ NodesLeft'
           Y == {key[n] : n \in W}
           Z == {k} \ KeyLeft'
\* What waits was counted.
<1>1. ArrayLeft' \subseteq ArrayUse
  BY <1>r, <1>t, MAXASIZEType DEF ArrayLeft, ArrayUse, ArrayFits
<1>2. NodesLeft' \subseteq Used BY <1>r DEF NodesLeft, Used, Nodes
<1>3. KeyLeft' \subseteq {k} BY DEF KeyLeft
\* What goes to the array part does not wait.
<1>4. U \subseteq X \cup Y \cup Z
  <2> SUFFICES ASSUME NEW x \in U PROVE x \in X \cup Y \cup Z OBVIOUS
  <2>0. x <= nasize /\ x \in ArrayUse \cup (({key[n] : n \in Used} \cup {k}) \cap IntKey)
    BY DEF UpTo, IntUse
  <2>1. CASE x \in ArrayUse
    <3>1. x \in Nat BY <2>1 DEF ArrayUse
    <3>2. x \notin ArrayLeft' BY <3>1, <2>0, <1>r, <1>n DEF ArrayLeft
    <3> QED BY <2>1, <3>2
  <2>2. CASE x \in {key[n] : n \in Used} /\ x \in IntKey
    <3>1. PICK n \in Used : x = key[n] BY <2>2
    <3>2. n \notin NodesLeft' BY <3>1, <2>2, <2>0, <1>r DEF NodesLeft, InArray
    <3> QED BY <3>1, <3>2
  <2>3. CASE x = k /\ x \in IntKey
    <3>1. x \notin KeyLeft' BY <2>3, <2>0, <1>r DEF KeyLeft, InArray
    <3> QED BY <2>3, <3>1
  <2> QED BY <2>0, <2>1, <2>2, <2>3
<1>f. IsFiniteSet(ArrayUse) /\ IsFiniteSet(Used) /\ IsFiniteSet({k})
  <2>1. IsFiniteSet(1 .. asize) /\ IsFiniteSet(Nodes) BY <1>t, FS_Interval DEF Nodes
  <2>2. ArrayUse \in SUBSET (1 .. asize) /\ Used \in SUBSET Nodes BY DEF ArrayUse, Used
  <2> QED BY <2>1, <2>2, FS_Subset, FS_Singleton
<1>5. /\ IsFiniteSet(X) /\ Cardinality(X) = Cardinality(ArrayUse) - Cardinality(ArrayLeft')
      /\ IsFiniteSet(W) /\ Cardinality(W) = Cardinality(Used) - Cardinality(NodesLeft')
      /\ IsFiniteSet(Z) /\ Cardinality(Z) = 1 - Cardinality(KeyLeft')
  <2>1. /\ ArrayUse \cap ArrayLeft' = ArrayLeft' /\ Used \cap NodesLeft' = NodesLeft'
        /\ {k} \cap KeyLeft' = KeyLeft'
    BY <1>1, <1>2, <1>3
  <2>2. Cardinality({k}) = 1 BY FS_Singleton
  <2>3. IsFiniteSet(X) /\ Cardinality(X) = Cardinality(ArrayUse) - Cardinality(ArrayUse \cap ArrayLeft')
    BY <1>f, FS_Difference
  <2>4. IsFiniteSet(W) /\ Cardinality(W) = Cardinality(Used) - Cardinality(Used \cap NodesLeft')
    BY <1>f, FS_Difference
  <2>5. IsFiniteSet(Z) /\ Cardinality(Z) = Cardinality({k}) - Cardinality({k} \cap KeyLeft')
    BY <1>f, FS_Difference
  <2> QED BY <2>1, <2>2, <2>3, <2>4, <2>5
<1>6. IsFiniteSet(Y) /\ Cardinality(Y) <= Cardinality(W)
  <2> DEFINE g == [n \in W |-> key[n]]
  <2>1. g \in Surjection(W, Y) BY DEF Surjection
  <2> QED BY <2>1, <1>5, FS_Surjection
<1>7. IsFiniteSet(X \cup Y \cup Z) /\ Cardinality(X \cup Y \cup Z) <= Cardinality(X) + Cardinality(Y) + Cardinality(Z)
  <2> HIDE DEF X, Y, Z, W
  <2>1. /\ IsFiniteSet(X \cup Y)
        /\ Cardinality(X \cup Y) = Cardinality(X) + Cardinality(Y) - Cardinality(X \cap Y)
    BY <1>5, <1>6, FS_Union
  <2>2. /\ IsFiniteSet(X \cup Y \cup Z)
        /\ Cardinality(X \cup Y \cup Z) = Cardinality(X \cup Y) + Cardinality(Z) - Cardinality((X \cup Y) \cap Z)
    BY <2>1, <1>5, FS_Union
  <2>3. IsFiniteSet(X \cap Y) /\ IsFiniteSet((X \cup Y) \cap Z) BY <1>5, <2>1, FS_Intersection
  <2>4. /\ Cardinality(X) \in Nat /\ Cardinality(Y) \in Nat /\ Cardinality(Z) \in Nat
        /\ Cardinality(X \cup Y) \in Nat /\ Cardinality(X \cap Y) \in Nat
        /\ Cardinality((X \cup Y) \cap Z) \in Nat
    BY <1>5, <1>6, <2>1, <2>3, FS_CardinalityType
  <2> QED BY <2>1, <2>2, <2>4
<1>8. Cardinality(U) <= Cardinality(X \cup Y \cup Z) /\ Cardinality(U) \in Nat
  <2>1. U \in SUBSET (X \cup Y \cup Z) BY <1>4
  <2>2. IsFiniteSet(U) /\ Cardinality(U) <= Cardinality(X \cup Y \cup Z) BY ONLY <2>1, <1>7, FS_Subset
  <2> QED BY <2>2, FS_CardinalityType
<1>9. /\ Cardinality(X) \in Nat /\ Cardinality(Y) \in Nat /\ Cardinality(W) \in Nat /\ Cardinality(Z) \in Nat
      /\ Cardinality(X \cup Y \cup Z) \in Nat /\ Cardinality(ArrayUse) \in Nat /\ Cardinality(Used) \in Nat
  BY <1>5, <1>6, <1>7, <1>f, FS_CardinalityType
<1>10. /\ Cardinality(ArrayLeft') \in Nat /\ Cardinality(NodesLeft') \in Nat /\ Cardinality(KeyLeft') \in Nat
  BY <1>a DEF RoomFinite
<1>h. HashUse(k, nasize) = Cardinality(ArrayUse) + Cardinality(Used) + 1 - Cardinality(U)
  <2>1. HashUse(k, nasize) = total - Cardinality(U) BY DEF HashUse
  <2>2. total = Cardinality(ArrayUse) + Cardinality(Used) + 1 BY DEF total
  <2> HIDE DEF U
  <2> QED BY <2>1, <2>2, <1>8, <1>9
<1>11. Cardinality(ArrayLeft') + Cardinality(NodesLeft') + Cardinality(KeyLeft') <= HashUse(k, nasize)
  <2> HIDE DEF X, Y, Z, W, U
  <2> QED BY <1>h, <1>5, <1>6, <1>7, <1>8, <1>9, <1>10
<1>12. HashUse(k, nasize) \in Int
  <2> HIDE DEF U
  <2> QED BY <1>h, <1>8, <1>9
<1>13. HashUse(k, nasize) <= nhsize BY <1>0, <1>n, <1>12 DEF RoundUp
<1>14. Cardinality(Empty') = nhsize BY <1>0, <1>n, ResizeEmpty
<1> QED BY <1>r, <1>n, <1>10, <1>11, <1>12, <1>13, <1>14 DEF RoomInv

\* luaH_resizearray asks for as many nodes as there were.
LEMMA ResizearrayRoom ==
  ASSUME SysInv, RoomInv, NEW n \in Nat, luaH_resizearray(n), SysInv'
  PROVE  RoomInv'
<1>t. TypeOK BY DEF SysInv
<1>1. resize(n, hsize) /\ pkey' = nil /\ n > asize BY DEF luaH_resizearray, RoomInv
<1>2. oasize' = asize /\ ohsize' = hsize /\ stage' = "shrink" /\ i' = n + 1 BY <1>1 DEF resize
<1>3. ArrayLeft' = {} /\ KeyLeft' = {} BY <1>1, <1>2, <1>t DEF ArrayLeft, KeyLeft, TypeOK
<1>4. NodesLeft' \in SUBSET (0 .. hsize - 1) BY <1>2 DEF NodesLeft
<1>5. IsFiniteSet(0 .. hsize - 1) /\ Cardinality(0 .. hsize - 1) = hsize
  <2>1. hsize \in Nat /\ hsize - 1 \in Int /\ 0 \in Int BY <1>t DEF TypeOK
  <2> QED BY <2>1, FS_Interval
<1>6. Cardinality(NodesLeft') <= hsize BY <1>4, <1>5, FS_Subset
<1>7. Cardinality(Empty') = hsize BY <1>1, <1>t, ResizeEmpty DEF TypeOK
<1>8. Cardinality(ArrayLeft') = 0 /\ Cardinality(KeyLeft') = 0 BY <1>3, FS_EmptySet
<1>9. Cardinality(NodesLeft') \in Nat /\ hsize \in Nat
  BY <1>t, RoomTypesNext DEF SysInv, RoomFinite, TypeOK
<1> QED BY <1>2, <1>6, <1>7, <1>8, <1>9 DEF RoomInv

LEMMA ShrinkRoom ==
  ASSUME SysInv, RoomInv, ShrinkArray, SysInv'
  PROVE  RoomInv'
<1>t. TypeOK /\ ResizeInv /\ i \in 1 .. oasize
  BY DEF SysInv, TypeOK, ResizeInv, ShrinkArray
<1>a. RoomFinite /\ RoomFinite' BY RoomTypes, RoomTypesNext DEF SysInv
<1>s. /\ stage = "shrink" /\ i' = i + 1 /\ hash' = hash
      /\ UNCHANGED <<stage, oarr, okey, oval, oasize, ohsize, pkey>>
  BY DEF ShrinkArray
<1>c. Cardinality(ArrayLeft) + Cardinality(NodesLeft) + Cardinality(KeyLeft) <= Cardinality(Empty)
  BY <1>s DEF RoomInv
<1>1. CASE oarr[i] = nil /\ UNCHANGED tableVars
  <2>1. asize' = asize /\ Nodes' = Nodes /\ key' = key BY <1>1 DEF tableVars, hashVars, Nodes
  <2>2. NodesLeft' = NodesLeft /\ KeyLeft' = KeyLeft /\ Empty' = Empty
    BY <2>1, <1>s DEF NodesLeft, KeyLeft, Empty, InArray
  <2>3. ArrayLeft' = ArrayLeft BY <1>1, <1>s, <1>t DEF ArrayLeft, TypeOK
  <2> QED BY <2>2, <2>3, <1>s, <1>c DEF RoomInv
<1>2. CASE oarr[i] # nil /\ Put(i, oarr[i])
  <2>1. i \in Key /\ oarr[i] \in ValN BY <1>2, <1>t, Constants DEF ResizeInv, TypeOK
  <2>2. asize' = asize BY <1>2 DEF Put
  <2>3. NodesLeft' = NodesLeft /\ KeyLeft' = KeyLeft
    BY <2>2, <1>s DEF NodesLeft, KeyLeft, InArray
  <2>4. Cardinality(Empty') >= Cardinality(Empty) - 1 BY <2>1, <1>2, <1>s, PutCount
  <2>5. ArrayLeft' = ArrayLeft \ {i} /\ i \in ArrayLeft BY <1>2, <1>s, <1>t DEF ArrayLeft, TypeOK
  <2>6. Cardinality(ArrayLeft') = Cardinality(ArrayLeft) - 1
    BY <2>5, <1>a, FS_RemoveElement DEF RoomFinite
  <2> QED BY <2>3, <2>4, <2>6, <1>s, <1>c, <1>a DEF RoomInv, RoomFinite
<1> QED BY <1>1, <1>2 DEF ShrinkArray

LEMMA ReinsertRoom ==
  ASSUME SysInv, RoomInv, Reinsert, SysInv'
  PROVE  RoomInv'
<1>t. TypeOK /\ ResizeInv /\ i \in 0 .. ohsize - 1
  BY DEF SysInv, TypeOK, ResizeInv, Reinsert
<1>a. RoomFinite /\ RoomFinite' BY RoomTypes, RoomTypesNext DEF SysInv
<1>s. /\ stage = "reinsert" /\ i' = i - 1 /\ hash' = hash
      /\ UNCHANGED <<stage, oarr, okey, oval, oasize, ohsize, pkey>>
  BY DEF Reinsert
<1>c. Cardinality(ArrayLeft) + Cardinality(NodesLeft) + Cardinality(KeyLeft) <= Cardinality(Empty)
  BY <1>s DEF RoomInv
<1>l. ArrayLeft' = ArrayLeft BY <1>s DEF ArrayLeft
<1>1. CASE oval[i] = nil /\ UNCHANGED tableVars
  <2>1. asize' = asize /\ Nodes' = Nodes /\ key' = key BY <1>1 DEF tableVars, hashVars, Nodes
  <2>2. KeyLeft' = KeyLeft /\ Empty' = Empty BY <2>1, <1>s DEF KeyLeft, Empty, InArray
  <2>3. NodesLeft' = NodesLeft BY <2>1, <1>1, <1>s, <1>t DEF NodesLeft, InArray, TypeOK
  <2> QED BY <2>2, <2>3, <1>l, <1>s, <1>c DEF RoomInv
<1>2. CASE oval[i] # nil /\ Put(okey[i], oval[i])
  <2>1. okey[i] \in Key /\ oval[i] \in ValN BY <1>2, <1>t DEF ResizeInv, TypeOK, KeyN
  <2>2. asize' = asize BY <1>2 DEF Put
  <2>3. KeyLeft' = KeyLeft BY <2>2, <1>s DEF KeyLeft, InArray
  <2>4. /\ InArray(okey[i]) => Cardinality(Empty') = Cardinality(Empty)
        /\ Cardinality(Empty') >= Cardinality(Empty) - 1
    BY <2>1, <1>2, <1>s, PutCount
  <2>5. CASE InArray(okey[i])
    <3>1. NodesLeft' = NodesLeft BY <2>2, <2>5, <1>s, <1>t DEF NodesLeft, InArray, TypeOK
    <3> QED BY <3>1, <2>3, <2>4, <2>5, <1>l, <1>s, <1>c DEF RoomInv
  <2>6. CASE ~InArray(okey[i])
    <3>1. NodesLeft' = NodesLeft \ {i} /\ i \in NodesLeft
      BY <2>2, <2>6, <1>2, <1>s, <1>t DEF NodesLeft, InArray, TypeOK
    <3>2. Cardinality(NodesLeft') = Cardinality(NodesLeft) - 1
      BY <3>1, <1>a, FS_RemoveElement DEF RoomFinite
    <3> QED BY <3>2, <2>3, <2>4, <1>l, <1>s, <1>c, <1>a DEF RoomInv, RoomFinite
  <2> QED BY <2>5, <2>6
<1> QED BY <1>1, <1>2 DEF Reinsert

LEMMA StepRoom ==
  ASSUME SysInv, RoomInv, ArrayFits, [Next]_vars
  PROVE  RoomInv'
<1>i. SysInv' BY StepSys
<1>t. TypeOK /\ ResizeInv BY DEF SysInv
<1>a. RoomFinite /\ RoomFinite' BY <1>i, RoomTypes, RoomTypesNext DEF SysInv
<1>1. ASSUME NEW k \in Key, NEW v \in ValN, Set(k, v) PROVE RoomInv'
  <2>1. CASE UNCHANGED resizeVars BY <2>1, <1>1 DEF Set, resizeVars, RoomInv
  <2>2. CASE rehash(k) /\ pkey' = k /\ pval' = v
    BY <2>2, <1>1, <1>i, RehashRoom DEF Set
  <2> QED BY <1>1, <2>1, <2>2 DEF Set
<1>2. ASSUME NEW n \in IntKey, luaH_resizearray(n) PROVE RoomInv'
  BY <1>2, <1>i, ResizearrayRoom, Constants
<1>3. CASE ShrinkArray BY <1>3, <1>i, ShrinkRoom
<1>4. CASE EndShrink
  <2>1. /\ stage = "shrink" /\ i > oasize /\ stage' = "reinsert" /\ i' = ohsize - 1
        /\ UNCHANGED <<oarr, okey, oval, oasize, ohsize, pkey, asize, key>> /\ Nodes' = Nodes
    BY <1>4 DEF EndShrink, tableVars, hashVars, Nodes
  <2>2. ArrayLeft' = {} /\ ArrayLeft = {} BY <2>1, <1>t DEF ArrayLeft, TypeOK
  <2>3. NodesLeft' = NodesLeft BY <2>1, <1>t DEF NodesLeft, InArray, TypeOK
  <2>4. KeyLeft' = KeyLeft /\ Empty' = Empty BY <2>1 DEF KeyLeft, Empty, InArray
  <2> QED BY <2>1, <2>2, <2>3, <2>4 DEF RoomInv
<1>5. CASE Reinsert BY <1>5, <1>i, ReinsertRoom
<1>6. CASE EndResize
  <2>1. /\ stage = "reinsert" /\ i < 0 /\ stage' = (IF pkey = nil THEN "idle" ELSE "retry")
        /\ UNCHANGED <<pkey, asize, key>> /\ Nodes' = Nodes /\ oasize' = 0 /\ ohsize' = 0
    BY <1>6 DEF EndResize, tableVars, hashVars, Nodes
  <2>2. ArrayLeft' = {} /\ NodesLeft' = {} BY <2>1 DEF ArrayLeft, NodesLeft
  <2>3. KeyLeft' = KeyLeft /\ Empty' = Empty BY <2>1 DEF KeyLeft, Empty, InArray
  <2>4. Cardinality(ArrayLeft') = 0 /\ Cardinality(NodesLeft') = 0 BY <2>2, FS_EmptySet
  <2> QED BY <2>1, <2>3, <2>4, <1>a DEF RoomInv, RoomFinite
<1>7. CASE Retry BY <1>7 DEF Retry, RoomInv
<1>8. CASE Collector
  <2>1. stage = "idle" /\ UNCHANGED resizeVars
    BY <1>8 DEF Collector, removeentry, ClearNode, ClearArray
  <2> QED BY <2>1 DEF resizeVars, RoomInv
<1>9. CASE UNCHANGED vars
  <2>1. UNCHANGED <<stage, oarr, okey, oval, oasize, ohsize, i, pkey, asize, key>> /\ Nodes' = Nodes
    BY <1>9 DEF vars, tableVars, hashVars, resizeVars, Nodes
  <2>2. ArrayLeft' = ArrayLeft /\ NodesLeft' = NodesLeft /\ KeyLeft' = KeyLeft /\ Empty' = Empty
    BY <2>1 DEF ArrayLeft, NodesLeft, KeyLeft, Empty, InArray
  <2> QED BY <2>1, <2>2 DEF RoomInv
<1> QED BY <1>1, <1>2, <1>3, <1>4, <1>5, <1>6, <1>7, <1>8, <1>9 DEF Next, Resizing, ValN

LEMMA RoomNoRehash == SysInv /\ RoomInv => NoNestedRehash
<1> SUFFICES ASSUME SysInv, RoomInv PROVE NoNestedRehash OBVIOUS
<1>t. TypeOK /\ ResizeInv BY DEF SysInv
<1>a. RoomFinite BY RoomTypes DEF SysInv
<1>0. ASSUME stage # "idle", ArrayLeft # {} \/ NodesLeft # {} \/ KeyLeft # {} PROVE Empty # {}
  <2>1. Cardinality(ArrayLeft) + Cardinality(NodesLeft) + Cardinality(KeyLeft) > 0
    BY <1>0, <1>a, FS_EmptySet DEF RoomFinite
  <2>2. Cardinality(Empty) > 0 BY <2>1, <1>0, <1>a DEF RoomInv, RoomFinite
  <2> QED BY <2>2, FS_EmptySet
<1>1. ASSUME stage = "shrink", i <= oasize, oarr[i] # nil PROVE ~NoRoom(i)
  <2>1. i \in 1 .. oasize /\ i \in Key BY <1>1, <1>t, Constants DEF TypeOK, ResizeInv
  <2>2. i \in ArrayLeft BY <2>1, <1>1 DEF ArrayLeft
  <2> QED BY <2>1, <2>2, <1>0, <1>1, RoomLeft
<1>2. ASSUME stage = "reinsert", i >= 0, oval[i] # nil PROVE ~NoRoom(okey[i])
  <2>1. i \in 0 .. ohsize - 1 BY <1>2, <1>t DEF TypeOK, ResizeInv
  <2>2. okey[i] \in Key BY <2>1, <1>2, <1>t DEF TypeOK, ResizeInv, KeyN
  <2>3. InArray(okey[i]) \/ i \in NodesLeft BY <2>1, <1>2 DEF NodesLeft
  <2> QED BY <2>2, <2>3, <1>0, <1>2, RoomLeft
<1>3. ASSUME stage = "retry" PROVE ~NoRoom(pkey)
  <2>1. pkey \in Key /\ pkey # nil BY <1>3, <1>t DEF TypeOK, ResizeInv, KeyN
  <2>2. InArray(pkey) \/ pkey \in KeyLeft BY <2>1 DEF KeyLeft
  <2> QED BY <2>1, <2>2, <1>0, <1>3, RoomLeft
<1> QED BY <1>1, <1>2, <1>3 DEF NoNestedRehash

\* Re-insertion never runs out of room: rehash counts every entry that resize
\* is going to put into the new node vector, so that no luaH_set in it calls
\* rehash again, as long as no array is larger than computesizes allows.
THEOREM NeverRehashedTwice == Spec /\ []ArrayFits => []NoNestedRehash
<1>1. Init => RoomInv BY DEF Init, RoomInv
<1> QED BY <1>1, InitSys, StepSys, StepRoom, RoomNoRehash, PTL DEF Spec

-----------------------------------------------------------------------------
(* Chains as an order.                                                     *)

LEMMA ReachIn == \A N, nx, p : Reach(N, nx, p) \subseteq N
BY DEF Reach

LEMMA ReachClosed ==
  ASSUME NEW N, NEW nx \in [N -> N \cup {nil}], NEW p \in N
  PROVE  Closed(nx, Reach(N, nx, p))
<1>1. ASSUME NEW x \in Reach(N, nx, p), nx[x] # nil PROVE nx[x] \in Reach(N, nx, p)
  <2>1. x \in N /\ nx[x] \in N BY <1>1 DEF Reach
  <2>2. ASSUME NEW S \in SUBSET N, p \in S, Closed(nx, S) PROVE nx[x] \in S
    BY <1>1, <2>2 DEF Reach, Closed
  <2> QED BY <2>1, <2>2 DEF Reach
<1> QED BY <1>1 DEF Closed

\* What is reached from a node, other than itself, is reached from its successor.
LEMMA ReachStep ==
  ASSUME NEW N, NEW nx \in [N -> N \cup {nil}], NEW p \in N, NEW q \in Reach(N, nx, p), q # p
  PROVE  nx[p] # nil /\ q \in Reach(N, nx, nx[p])
<1>1. nx[p] # nil
  <2>1. CASE nx[p] = nil
    <3>1. Closed(nx, {p}) /\ {p} \in SUBSET N BY <2>1 DEF Closed
    <3> QED BY <3>1 DEF Reach
  <2> QED BY <2>1
<1> DEFINE S == {p} \cup Reach(N, nx, nx[p])
<1>2. nx[p] \in N BY <1>1
<1>3. nx[p] \in Reach(N, nx, nx[p]) /\ Closed(nx, Reach(N, nx, nx[p])) BY <1>2, ReachStart, ReachClosed
<1>4. Closed(nx, S) /\ S \in SUBSET N BY <1>3, ReachIn DEF Closed
<1>5. q \in S BY <1>4 DEF Reach
<1> QED BY <1>1, <1>5

\* Two nodes that reach each other are one.
LEMMA ReachAntisymmetric ==
  ASSUME NEW N, NEW nx \in [N -> N \cup {nil}], NEW p \in N, NEW q \in N,
         \A n \in N : nx[n] # nil => \E S \in SUBSET N : nx[n] \in S /\ Closed(nx, S) /\ n \notin S,
         q \in Reach(N, nx, p), p \in Reach(N, nx, q)
  PROVE  p = q
<1> SUFFICES ASSUME p # q PROVE FALSE OBVIOUS
<1>1. nx[p] # nil /\ q \in Reach(N, nx, nx[p]) BY ReachStep
<1>2. PICK S \in SUBSET N : nx[p] \in S /\ Closed(nx, S) /\ p \notin S BY <1>1
<1>3. q \in S BY <1>1, <1>2 DEF Reach
<1>4. p \in S BY <1>2, <1>3 DEF Reach
<1> QED BY <1>2, <1>4

-----------------------------------------------------------------------------
(* The live node comes first.                                              *)

\* LiveFirst, of a vector with nodes N, keys kf, links nx and dead marks dd.
Ordered(N, kf, nx, dd) ==
  \A n, m \in N : kf[n] # nil /\ ~dd[n] /\ kf[m] = kf[n] => m \in Reach(N, nx, n)

LEMMA OrderedMain ==
  ASSUME NEW N, NEW kf \in [N -> KeyN], NEW nx \in [N -> N \cup {nil}], NEW M \in [Key -> N],
         NEW dd \in [N -> BOOLEAN], NEW k \in Key, nil \notin Key,
         Chained(N, kf, nx, M), Ordered(N, kf, nx, dd), \A n \in N : kf[n] = k => dd[n]
  PROVE  Ordered(N, [kf EXCEPT ![M[k]] = k], nx, [dd EXCEPT ![M[k]] = FALSE])
<1> DEFINE mp == M[k]
           kf2 == [kf EXCEPT ![mp] = k]
           dd2 == [dd EXCEPT ![mp] = FALSE]
<1>e. mp = M[k] /\ mp \in N /\ kf2[mp] = k /\ \A n \in N : n # mp => kf2[n] = kf[n] /\ dd2[n] = dd[n]
  OBVIOUS
<1> HIDE DEF mp, kf2, dd2
<1>1. ASSUME NEW n \in N, NEW m \in N, kf2[n] # nil, ~dd2[n], kf2[m] = kf2[n]
      PROVE  m \in Reach(N, nx, n)
  <2>1. CASE m = n BY <2>1, ReachStart
  <2>2. CASE m # n /\ n = mp BY <2>2, <1>1, <1>e DEF Chained
  <2>3. CASE m # n /\ m = mp BY <2>3, <1>1, <1>e
  <2>4. CASE n # mp /\ m # mp BY <2>4, <1>1, <1>e DEF Ordered
  <2> QED BY <2>1, <2>2, <2>3, <2>4
<1>2. Ordered(N, kf2, nx, dd2) BY <1>1 DEF Ordered
<1> QED BY <1>2 DEF kf2, dd2, mp

LEMMA OrderedFree ==
  ASSUME NEW N, NEW kf \in [N -> KeyN], NEW nx \in [N -> N \cup {nil}], NEW M \in [Key -> N],
         NEW dd \in [N -> BOOLEAN], NEW k \in Key, nil \notin N, nil \notin Key, NEW f \in N,
         Chained(N, kf, nx, M), Ordered(N, kf, nx, dd), \A n \in N : kf[n] = k => dd[n],
         kf[f] = nil, kf[M[k]] # nil, ~dd[M[k]]
  PROVE  Ordered(N, [kf EXCEPT ![f] = k], [nx EXCEPT ![f] = nx[M[k]], ![M[k]] = f],
                 [dd EXCEPT ![f] = FALSE])
<1> DEFINE mp == M[k]
           kf2 == [kf EXCEPT ![f] = k]
           nx2 == [nx EXCEPT ![f] = nx[mp], ![mp] = f]
           dd2 == [dd EXCEPT ![f] = FALSE]
<1>e. mp = M[k] /\ mp \in N /\ mp # f /\ kf[mp] # k /\ nx[f] = nil BY DEF Chained
<1>k. kf2[f] = k /\ \A n \in N : n # f => kf2[n] = kf[n] /\ dd2[n] = dd[n] OBVIOUS
<1>n. /\ nx2 \in [N -> N \cup {nil}] /\ nx2[f] = nx[mp] /\ nx2[mp] = f
      /\ \A n \in N : n # f /\ n # mp => nx2[n] = nx[n]
  BY <1>e
<1> HIDE DEF mp, kf2, nx2, dd2
<1>c. ASSUME NEW S \in SUBSET N, Closed(nx2, S) PROVE Closed(nx, S)
  <2>1. ASSUME NEW x \in S, nx[x] # nil PROVE nx[x] \in S
    <3>1. CASE x = mp
      <4>1. f \in S BY <3>1, <1>c, <1>n, <1>e DEF Closed
      <4> QED BY <3>1, <4>1, <2>1, <1>c, <1>n DEF Closed
    <3>2. CASE x # mp /\ x # f BY <3>2, <2>1, <1>c, <1>n DEF Closed
    <3> QED BY <3>1, <3>2, <2>1, <1>e
  <2> QED BY <2>1 DEF Closed
<1>r. \A x \in N : Reach(N, nx, x) \subseteq Reach(N, nx2, x) BY <1>c DEF Reach
<1>1. ASSUME NEW n \in N, NEW m \in N, kf2[n] # nil, ~dd2[n], kf2[m] = kf2[n]
      PROVE  m \in Reach(N, nx2, n)
  <2>1. CASE m = n BY <2>1, ReachStart
  <2>2. CASE m # n /\ n = f
    <3>1. kf[m] = k /\ m # mp BY <2>2, <1>1, <1>k, <1>e
    <3>2. m \in Reach(N, nx, mp) BY <3>1, <1>e DEF Chained
    <3>3. nx[mp] # nil /\ m \in Reach(N, nx, nx[mp]) BY <3>1, <3>2, <1>e, ReachStep
    <3>4. nx[mp] \in N BY <3>3, <1>e
    <3>5. nx2[f] \in Reach(N, nx2, f)
      <4>1. f \in Reach(N, nx2, f) BY ReachStart
      <4>2. Closed(nx2, Reach(N, nx2, f)) BY <1>n, ReachClosed
      <4> QED BY <4>1, <4>2, <3>3, <1>n DEF Closed
    <3>6. m \in Reach(N, nx2, nx[mp]) BY <3>3, <3>4, <1>r
    <3>7. ASSUME NEW S \in SUBSET N, f \in S, Closed(nx2, S) PROVE m \in S
      <4>1. nx[mp] \in S BY <3>3, <3>7, <1>n DEF Closed
      <4> QED BY <4>1, <3>6, <3>7 DEF Reach
    <3> QED BY <2>2, <3>7 DEF Reach
  <2>3. CASE m # n /\ m = f BY <2>3, <1>1, <1>k, <1>e
  <2>4. CASE n # f /\ m # f
    <3>1. m \in Reach(N, nx, n) BY <2>4, <1>1, <1>k DEF Ordered
    <3> QED BY <3>1, <1>r
  <2> QED BY <2>1, <2>2, <2>3, <2>4
<1>2. Ordered(N, kf2, nx2, dd2) BY <1>1 DEF Ordered
<1> QED BY <1>2 DEF kf2, nx2, dd2, mp

LEMMA OrderedMove ==
  ASSUME NEW N, NEW kf \in [N -> KeyN], NEW nx \in [N -> N \cup {nil}], NEW M \in [Key -> N],
         NEW dd \in [N -> BOOLEAN], NEW k \in Key, nil \notin N, nil \notin Key,
         NEW f \in N, NEW prev \in N,
         Chained(N, kf, nx, M), Ordered(N, kf, nx, dd),
         kf[f] = nil, kf[M[k]] # nil, M[kf[M[k]]] # M[k], nx[prev] = M[k]
  PROVE  Ordered(N, [kf EXCEPT ![f] = kf[M[k]], ![M[k]] = k],
                    [nx EXCEPT ![prev] = f, ![f] = nx[M[k]], ![M[k]] = nil],
                    [dd EXCEPT ![f] = dd[M[k]], ![M[k]] = FALSE])
<1> DEFINE mp == M[k]
           kf2 == [kf EXCEPT ![f] = kf[mp], ![mp] = k]
           nx2 == [nx EXCEPT ![prev] = f, ![f] = nx[mp], ![mp] = nil]
           dd2 == [dd EXCEPT ![f] = dd[mp], ![mp] = FALSE]
<1>e. mp = M[k] /\ kf[mp] # nil /\ M[kf[mp]] # mp /\ nx[prev] = mp /\ mp \in N /\ mp # f OBVIOUS
<1>i. \A m, n \in N : nx[m] = nx[n] /\ nx[n] # nil => m = n BY DEF Chained
<1>f. nx[f] = nil /\ \A m \in N : nx[m] # f BY DEF Chained
<1>p. prev # mp /\ prev # f /\ nx[mp] # mp
  <2>1. \A x \in N : nx[x] # x BY DEF Chained
  <2> QED BY <2>1, <1>e, <1>f
<1>k. /\ kf2[f] = kf[mp] /\ kf2[mp] = k /\ dd2[f] = dd[mp]
      /\ \A n \in N : n # f /\ n # mp => kf2[n] = kf[n] /\ dd2[n] = dd[n]
  BY <1>e
<1>n. /\ nx2 \in [N -> N \cup {nil}] /\ nx2[prev] = f /\ nx2[f] = nx[mp] /\ nx2[mp] = nil
      /\ \A n \in N : n # f /\ n # mp /\ n # prev => nx2[n] = nx[n]
  BY <1>e, <1>p
<1>h. \A n \in N : kf[n] # nil => kf[M[kf[n]]] # nil /\ M[kf[M[kf[n]]]] = M[kf[n]] BY DEF Chained
<1> HIDE DEF mp, kf2, nx2, dd2
\* No node has the key: the one in its main position is not in its own.
<1>o. \A n \in N : kf[n] # k BY <1>h, <1>e
<1> DEFINE Old(S) == (S \ {mp}) \cup (IF f \in S THEN {mp} ELSE {})
<1>c. ASSUME NEW S \in SUBSET N, Closed(nx2, S) PROVE Closed(nx, Old(S)) /\ Old(S) \in SUBSET N
  <2>1. ASSUME NEW x \in Old(S), nx[x] # nil PROVE nx[x] \in Old(S)
    <3>1. CASE x = mp
      <4>1. f \in S /\ nx2[f] = nx[mp] BY <3>1, <1>n
      <4>2. nx[mp] \in S BY <4>1, <1>c, <2>1, <3>1 DEF Closed
      <4> QED BY <4>2, <3>1, <1>p
    <3>2. CASE x = prev
      <4>1. f \in S BY <3>2, <2>1, <1>c, <1>n, <1>p DEF Closed
      <4> QED BY <4>1, <3>2, <1>e
    <3>3. CASE x # mp /\ x # prev
      <4>1. x \in S /\ x \in N /\ x # f BY <3>3, <2>1, <1>f
      <4>2. nx[x] \in S BY <4>1, <3>3, <1>n, <1>c, <2>1 DEF Closed
      <4>3. nx[x] # mp BY <4>1, <3>3, <1>i, <1>e, <2>1
      <4> QED BY <4>2, <4>3
    <3> QED BY <3>1, <3>2, <3>3
  <2> QED BY <2>1, <1>e DEF Closed
<1>1. ASSUME NEW n \in N, NEW m \in N, kf2[n] # nil, ~dd2[n], kf2[m] = kf2[n]
      PROVE  m \in Reach(N, nx2, n)
  <2>1. CASE m = n BY <2>1, ReachStart
  <2>2. CASE m # n
    <3>1. n # mp /\ m # mp BY <2>2, <1>1, <1>k, <1>o, <1>e
    <3> DEFINE n0 == IF n = f THEN mp ELSE n
               m0 == IF m = f THEN mp ELSE m
    <3>2. n0 \in N /\ m0 \in N /\ kf[n0] = kf2[n] /\ dd[n0] = dd2[n] /\ kf[m0] = kf2[m]
      BY <3>1, <1>k, <1>e
    <3>3. m0 \in Reach(N, nx, n0) BY <3>2, <1>1 DEF Ordered
    <3>4. ASSUME NEW S \in SUBSET N, n \in S, Closed(nx2, S) PROVE m \in S
      <4>1. n0 \in Old(S) BY <3>1, <3>4
      <4>2. m0 \in Old(S) BY <3>3, <3>4, <4>1, <1>c DEF Reach
      <4> QED BY <4>2, <3>1, <1>e
    <3> QED BY <3>4 DEF Reach
  <2> QED BY <2>1, <2>2
<1>2. Ordered(N, kf2, nx2, dd2) BY <1>1 DEF Ordered
<1> QED BY <1>2 DEF kf2, nx2, dd2, mp

-----------------------------------------------------------------------------
(* Every step of a table keeps the order.                                  *)

OrderInv == LiveFirst /\ DeadCollectable

LEMMA LiveFirstOrdered == LiveFirst <=> Ordered(Nodes, key, next, dead)
BY DEF LiveFirst, Ordered, Chain

LEMMA LiveFirstOrderedNext == LiveFirst' <=> Ordered(Nodes', key', next', dead')
BY DEF LiveFirst, Ordered, Chain

LEMMA NewkeyOrder ==
  ASSUME Core, OrderInv, NEW k \in Key, NEW v \in ValN, hash' = hash,
         Found(k) = {}, hsize # 0, newkey(k, v), UNCHANGED <<asize, arr, hsize>>
  PROVE  OrderInv'
<1> DEFINE mp == mainposition(k)
<1>0. Nodes' = Nodes BY MainUnchanged
<1>t. TableType /\ Chained(Nodes, key, next, Main) /\ ValInv BY DEF Core
<1>m. Main \in [Key -> Nodes] /\ mp = Main[k] /\ mp \in Nodes BY <1>t, MainType DEF Main
<1>n. nil \notin Nodes /\ nil \notin Key BY Constants DEF Nodes
<1>k. key \in [Nodes -> KeyN] /\ next \in [Nodes -> Nodes \cup {nil}] /\ dead \in [Nodes -> BOOLEAN]
  BY <1>t DEF TableType
<1>l. \A n \in Nodes : key[n] = k => dead[n] BY FoundLive
<1>o. Ordered(Nodes, key, next, dead) BY LiveFirstOrdered DEF OrderInv
<1>d. \A n \in Nodes : dead[n] => key[n] \in Collectable BY DEF OrderInv, DeadCollectable
<1>1. CASE putMain(k, v)
  <2>1. key' = [key EXCEPT ![mp] = k] /\ dead' = [dead EXCEPT ![mp] = FALSE] /\ next' = next
    BY <1>1 DEF putMain
  <2>2. Ordered(Nodes, key', next', dead')
    BY <2>1, <1>m, <1>n, <1>k, <1>t, <1>l, <1>o, OrderedMain
  <2>3. DeadCollectable' BY <2>1, <1>0, <1>d, <1>m, <1>k DEF DeadCollectable
  <2> QED BY <2>2, <2>3, <1>0, LiveFirstOrderedNext DEF OrderInv
<1>2. ASSUME NEW n \in Nodes, putFree(k, v, n) PROVE OrderInv'
  <2>1. /\ key' = [key EXCEPT ![n] = k] /\ dead' = [dead EXCEPT ![n] = FALSE]
        /\ next' = [next EXCEPT ![n] = next[mp], ![mp] = n]
        /\ val[mp] # nil /\ key[n] = nil
    BY <1>2 DEF putFree, getfreepos, Free
  <2>2. key[mp] # nil /\ ~dead[mp] BY <2>1, <1>m, <1>t DEF ValInv
  <2>3. Ordered(Nodes, key', next', dead')
    BY <2>1, <2>2, <1>m, <1>n, <1>k, <1>t, <1>l, <1>o, OrderedFree
  <2>4. DeadCollectable' BY <2>1, <1>0, <1>d, <1>k DEF DeadCollectable
  <2> QED BY <2>3, <2>4, <1>0, LiveFirstOrderedNext DEF OrderInv
<1>3. ASSUME NEW n \in Nodes, NEW prev \in Nodes, moveColliding(k, v, n, prev) PROVE OrderInv'
  <2>1. /\ key' = [key EXCEPT ![n] = key[mp], ![mp] = k]
        /\ dead' = [dead EXCEPT ![n] = dead[mp], ![mp] = FALSE]
        /\ next' = [next EXCEPT ![prev] = n, ![n] = next[mp], ![mp] = nil]
        /\ val[mp] # nil /\ key[n] = nil /\ mainposition(key[mp]) # mp /\ next[prev] = mp
    BY <1>3 DEF moveColliding, getfreepos, Free
  <2>2. key[mp] # nil /\ key[mp] \in Key /\ n # mp BY <2>1, <1>m, <1>t, <1>k DEF ValInv, KeyN
  <2>3. Main[key[mp]] # mp BY <2>1, <2>2 DEF Main
  <2> DEFINE M == Main
  <2>s. /\ key' = [key EXCEPT ![n] = key[M[k]], ![M[k]] = k]
        /\ dead' = [dead EXCEPT ![n] = dead[M[k]], ![M[k]] = FALSE]
        /\ next' = [next EXCEPT ![prev] = n, ![n] = next[M[k]], ![M[k]] = nil]
        /\ key[n] = nil /\ key[M[k]] # nil /\ M[key[M[k]]] # M[k] /\ next[prev] = M[k]
        /\ M \in [Key -> Nodes] /\ Chained(Nodes, key, next, M)
    BY <2>1, <2>2, <2>3, <1>m, <1>t
  <2> HIDE DEF M
  <2>4. Ordered(Nodes, key', next', dead') BY <2>s, <1>n, <1>k, <1>o, OrderedMove
  <2>5. DeadCollectable' BY <2>1, <2>2, <1>0, <1>d, <1>k, <1>m DEF DeadCollectable
  <2> QED BY <2>4, <2>5, <1>0, LiveFirstOrderedNext DEF OrderInv
<1> QED BY <1>1, <1>2, <1>3 DEF newkey

\* The links and the keys are kept, and no node comes to life.
LEMMA FrameOrder ==
  ASSUME OrderInv, UNCHANGED <<hsize, key, next>>,
         \A n \in Nodes : dead[n] => dead'[n],
         \A n \in Nodes : dead'[n] => dead[n] \/ key[n] \in Collectable
  PROVE  OrderInv'
<1>1. Nodes' = Nodes BY DEF Nodes
<1> QED BY <1>1 DEF OrderInv, LiveFirst, DeadCollectable, Chain, Reach, Closed

LEMMA PutOrder ==
  ASSUME Core, OrderInv, NEW k \in Key, NEW v \in ValN, Put(k, v), hash' = hash
  PROVE  OrderInv'
<1>1. CASE UNCHANGED <<hsize, key, dead, next>> BY <1>1, FrameOrder
<1> QED BY <1>1, NewkeyOrder DEF Put, hashVars

LEMMA ResizeOrder ==
  ASSUME NEW nasize \in Nat, NEW nhsize \in Nat, resize(nasize, nhsize)
  PROVE  OrderInv'
<1>1. \A n \in Nodes' : key'[n] = nil /\ ~dead'[n] BY DEF resize, Nodes
<1> QED BY <1>1 DEF OrderInv, LiveFirst, DeadCollectable

LEMMA InitOrder == Init => OrderInv
<1> SUFFICES ASSUME Init PROVE OrderInv OBVIOUS
<1>1. PICK s \in NewSizes : luaH_new(s[1], s[2]) BY DEF Init
<1>2. \A n \in Nodes : key[n] = nil /\ ~dead[n] BY <1>1 DEF luaH_new, Nodes
<1> QED BY <1>2 DEF OrderInv, LiveFirst, DeadCollectable

LEMMA CollectorOrder == TypeOK /\ OrderInv /\ Collector => OrderInv'
<1> SUFFICES ASSUME TypeOK, OrderInv, Collector PROVE OrderInv' OBVIOUS
<1>t. dead \in [Nodes -> BOOLEAN] BY DEF TypeOK
<1>1. ASSUME NEW n \in Nodes, removeentry(n) PROVE OrderInv'
  BY <1>1, <1>t, FrameOrder DEF removeentry
<1>2. ASSUME NEW n \in Nodes, ClearNode(n) PROVE OrderInv'
  <2>1. /\ dead' = [dead EXCEPT ![n] = key[n] \in Collectable] /\ UNCHANGED <<hsize, key, next>>
    BY <1>2 DEF ClearNode
  <2>2. dead[n] => key[n] \in Collectable BY DEF OrderInv, DeadCollectable
  <2>3. \A m \in Nodes : m # n => dead'[m] = dead[m] BY <2>1, <1>t
  <2>4. dead'[n] = (key[n] \in Collectable) BY <2>1, <1>t
  <2> QED BY <2>1, <2>2, <2>3, <2>4, FrameOrder
<1>3. ASSUME NEW j \in 1 .. asize, ClearArray(j) PROVE OrderInv'
  BY <1>3, FrameOrder DEF ClearArray, hashVars
<1> QED BY <1>1, <1>2, <1>3 DEF Collector

LEMMA StepOrder == SysInv /\ OrderInv /\ [Next]_vars => OrderInv'
<1> SUFFICES ASSUME SysInv, OrderInv, [Next]_vars PROVE OrderInv' OBVIOUS
<1>1. TypeOK /\ Core /\ ResizeInv BY DEF SysInv
<1>s. ASSUME UNCHANGED tableVars PROVE OrderInv' BY <1>s, FrameOrder DEF tableVars, hashVars
<1>2. ASSUME NEW k \in Key, NEW v \in ValN, Set(k, v) PROVE OrderInv'
  <2>1. CASE Put(k, v) BY <2>1, <1>1, <1>2, PutOrder DEF Set
  <2>2. CASE rehash(k) BY <2>2, SizesNat, ResizeOrder DEF rehash
  <2> QED BY <1>2, <2>1, <2>2 DEF Set
<1>3. ASSUME NEW n \in IntKey, luaH_resizearray(n) PROVE OrderInv'
  BY <1>1, <1>3, Constants, ResizeOrder DEF luaH_resizearray, TypeOK
<1>4. CASE ShrinkArray
  <2>1. i \in 1 .. oasize BY <1>1, <1>4 DEF ShrinkArray, ResizeInv, TypeOK
  <2>2. CASE oarr[i] # nil /\ Put(i, oarr[i])
    <3>1. i \in Key /\ oarr[i] \in ValN BY <2>1, <2>2, <1>1, Constants DEF ResizeInv, TypeOK
    <3> QED BY <2>2, <3>1, <1>1, <1>4, PutOrder DEF ShrinkArray
  <2> QED BY <1>4, <1>s, <2>2 DEF ShrinkArray
<1>5. CASE EndShrink \/ EndResize BY <1>5, <1>s DEF EndShrink, EndResize
<1>6. CASE Reinsert
  <2>1. i \in 0 .. ohsize - 1 BY <1>1, <1>6 DEF Reinsert, ResizeInv, TypeOK
  <2>2. CASE oval[i] # nil /\ Put(okey[i], oval[i])
    <3>1. okey[i] \in Key /\ oval[i] \in ValN BY <2>1, <2>2, <1>1 DEF ResizeInv, TypeOK, KeyN
    <3> QED BY <2>2, <3>1, <1>1, <1>6, PutOrder DEF Reinsert
  <2> QED BY <1>6, <1>s, <2>2 DEF Reinsert
<1>7. CASE Retry
  <2>1. pkey \in Key /\ pval \in ValN BY <1>1, <1>7 DEF Retry, ResizeInv, TypeOK, KeyN
  <2> QED BY <2>1, <1>1, <1>7, PutOrder DEF Retry
<1>8. CASE Collector BY <1>1, <1>8, CollectorOrder
<1>9. CASE UNCHANGED vars BY <1>9, <1>s DEF vars
<1> QED BY <1>2, <1>3, <1>4, <1>5, <1>6, <1>7, <1>8, <1>9 DEF Next, Resizing, ValN

-----------------------------------------------------------------------------
(* Positions and their keys.                                               *)

LEMMA NodeAtType ==
  ASSUME Core, NEW p \in Positions, ~(p <= asize)
  PROVE  NodeAt(p) \in Nodes /\ p = asize + 1 + NodeAt(p) /\ hsize # 0
BY DEF Core, TableType, Positions, NodeAt, Nodes

\* An element with a value is the one that findindex finds for its key.
LEMMA ValueFirst ==
  ASSUME Core, LiveFirst, NEW p \in Positions, ValAt(p) # nil
  PROVE  First(p)
<1>1. CASE p <= asize
  <2>1. p \in 1 .. asize /\ ~(p > asize) BY <1>1 DEF Core, TableType, Positions
  <2> QED BY <2>1, <1>1, Constants DEF First, KeyAt, ValAt, Core, ArrayKeys
<1>2. CASE ~(p <= asize)
  <2>1. NodeAt(p) \in Nodes BY <1>2, NodeAtType
  <2>2. val[NodeAt(p)] # nil /\ KeyAt(p) = key[NodeAt(p)] BY <1>2 DEF ValAt, KeyAt
  <2>3. key[NodeAt(p)] # nil /\ ~dead[NodeAt(p)] BY <2>1, <2>2 DEF Core, ValInv
  <2>4. key[NodeAt(p)] \in Key BY <2>1, <2>3 DEF Core, TableType, KeyN
  <2>5. ~InArray(key[NodeAt(p)]) BY <2>1, <2>3 DEF Core, OneNode
  <2>6. \A m \in Nodes : key[m] = key[NodeAt(p)] => m \in Chain(NodeAt(p)) BY <2>1, <2>3 DEF LiveFirst
  <2> QED BY <2>2, <2>4, <2>5, <2>6 DEF First
<1> QED BY <1>1, <1>2

LEMMA FirstUnique ==
  ASSUME Core, NEW p, NEW q, First(p), First(q), KeyAt(p) = KeyAt(q)
  PROVE  p = q
<1>t. asize \in Nat /\ p \in Nat \ {0} /\ q \in Nat \ {0} BY DEF First, Positions, Core, TableType
<1>1. ASSUME NEW x, NEW y, First(x), First(y), KeyAt(x) = KeyAt(y), x \in Nat \ {0}, y \in Nat,
             x <= asize, ~(y <= asize)
      PROVE  FALSE
  <2>1. KeyAt(x) = x /\ x \in IntKey BY <1>1, Constants DEF KeyAt, First
  <2>2. InArray(KeyAt(y)) BY <2>1, <1>1 DEF InArray
  <2> QED BY <2>2, <1>1, <1>t DEF First
<1>2. CASE p <= asize /\ q <= asize BY <1>2 DEF KeyAt
<1>3. CASE ~(p <= asize) /\ ~(q <= asize)
  <2>1. NodeAt(p) \in Nodes /\ NodeAt(q) \in Nodes BY <1>3, NodeAtType DEF First
  <2>2. KeyAt(p) = key[NodeAt(p)] /\ KeyAt(q) = key[NodeAt(q)] BY <1>3 DEF KeyAt
  <2>0. p > asize /\ q > asize BY <1>3, <1>t
  <2>3. NodeAt(p) \in Chain(NodeAt(q)) /\ NodeAt(q) \in Chain(NodeAt(p))
    BY <2>0, <2>1, <2>2 DEF First
  <2>4. next \in [Nodes -> Nodes \cup {nil}] /\ Chained(Nodes, key, next, Main) BY DEF Core, TableType
  <2>5. NodeAt(p) = NodeAt(q) BY <2>1, <2>3, <2>4, ReachAntisymmetric DEF Chain, Chained
  <2> QED BY <2>5, <1>t DEF NodeAt
<1> QED BY <1>1, <1>2, <1>3, <1>t

\* findindex finds that position, whether or not its key has died since.
LEMMA FindindexFirst ==
  ASSUME Core, OrderInv, NEW p, First(p)
  PROVE  findindex(KeyAt(p)) = {p}
<1> DEFINE k == KeyAt(p)
           n == NodeAt(p)
           M == {m \in Chain(mainposition(k)) : Matches(m, k)}
<1>1. p \in Positions /\ k \in Key /\ k # nil BY Constants DEF First
<1>2. CASE p <= asize
  <2>1. k = p /\ p \in IntKey BY <1>1, <1>2, Constants DEF KeyAt, Positions, Core, TableType
  <2> QED BY <2>1, <1>1, <1>2 DEF findindex, InArray
<1>3. CASE ~(p <= asize)
  <2>1. n \in Nodes /\ p = asize + 1 + n /\ hsize # 0 BY <1>1, <1>3, NodeAtType
  <2>0. p > asize BY <1>1, <1>3 DEF Positions, Core, TableType
  <2>2. ~InArray(k) /\ \A m \in Nodes : key[m] = k => m \in Chain(n) BY <2>0 DEF First
  <2>3. k = key[n] BY <1>3 DEF KeyAt
  <2>4. next \in [Nodes -> Nodes \cup {nil}] /\ Chained(Nodes, key, next, Main) BY DEF Core, TableType
  <2>5. n \in Chain(mainposition(k))
    <3>1. key[n] # nil /\ Main[k] = mainposition(k) BY <1>1, <2>3 DEF Main
    <3> QED BY <2>1, <2>3, <2>4, <3>1 DEF Chained, Chain
  <2>6. Matches(n, k) BY <2>1, <2>3 DEF Matches, OrderInv, DeadCollectable
  <2>7. n \in M BY <2>5, <2>6
  <2>8. \A m \in M : m \in Nodes /\ key[m] = k BY ReachIn DEF Matches, Chain
  <2>9. M \subseteq Chain(n) BY <2>2, <2>8
  <2>10. ASSUME NEW m \in M, M \subseteq Chain(m) PROVE m = n
    <3>1. m \in Chain(n) /\ n \in Chain(m) /\ m \in Nodes BY <2>7, <2>8, <2>9, <2>10
    <3> QED BY <3>1, <2>1, <2>4, ReachAntisymmetric DEF Chain, Chained
  <2>11. {m \in M : M \subseteq Chain(m)} = {n} BY <2>7, <2>9, <2>10
  <2>12. findindex(k) = {asize + 1 + m : m \in {m \in M : M \subseteq Chain(m)}}
    BY <1>1, <2>1, <2>2 DEF findindex
  <2> QED BY <2>1, <2>11, <2>12
<1> QED BY <1>2, <1>3

LEMMA FindindexCur ==
  ASSUME Core, OrderInv, NEW p \in {0} \cup Positions, StandsAt(p)
  PROVE  findindex(cur) = {p}
<1>1. CASE p = 0 BY <1>1 DEF StandsAt, findindex
<1>2. CASE p # 0 BY <1>2, FindindexFirst DEF StandsAt
<1> QED BY <1>1, <1>2

\* A key with a value has an element with a value.
LEMMA PresentPosition ==
  ASSUME Core, NEW k \in Present
  PROVE  \E q \in Positions : ValAt(q) # nil /\ KeyAt(q) = k
<1>1. k \in Key /\ luaH_get(k) # nil BY DEF Present
<1>2. CASE InArray(k)
  <2>1. k \in Positions /\ k <= asize BY <1>2, Constants DEF InArray, Positions, Core, TableType
  <2> QED BY <1>1, <1>2, <2>1 DEF luaH_get, ValAt, KeyAt
<1>3. CASE ~InArray(k)
  <2>1. Get[k] # nil BY <1>1 DEF Get
  <2>2. PICK n \in Nodes : key[n] = k /\ ~dead[n] BY <2>1, <1>1, <1>3, GetCorrect DEF GetSpec
  <2>3. val[n] # nil BY <2>1, <2>2, <1>1, GetCorrect DEF GetSpec
  <2> DEFINE q == asize + 1 + n
  <2>4. q \in Positions /\ ~(q <= asize) /\ NodeAt(q) = n
    BY DEF Positions, NodeAt, Nodes, Core, TableType
  <2> HIDE DEF q
  <2> QED BY <2>2, <2>3, <2>4 DEF ValAt, KeyAt
<1> QED BY <1>2, <1>3

LEMMA FirstUnchanged ==
  ASSUME UNCHANGED <<asize, hsize, key, next>>
  PROVE  Positions' = Positions /\ \A p : KeyAt(p)' = KeyAt(p) /\ (First(p)' <=> First(p))
<1>1. Positions' = Positions /\ Nodes' = Nodes BY DEF Positions, Nodes
<1>2. \A p : KeyAt(p)' = KeyAt(p) /\ NodeAt(p)' = NodeAt(p) BY DEF KeyAt, NodeAt
<1>3. \A p : Chain(p)' = Chain(p) BY <1>1 DEF Chain
<1>4. \A k : InArray(k)' <=> InArray(k) BY DEF InArray
<1> QED BY <1>1, <1>2, <1>3, <1>4 DEF First

-----------------------------------------------------------------------------
(* The steps of a traversal.                                               *)

TravSys == SysInv /\ TravTypeOK /\ TravInv

\* An assignment to an existing field never calls newkey, and the collector
\* moves nothing.
LEMMA ModifyFrame ==
  ASSUME SysInv, Modify, stage = "idle"
  PROVE  Next /\ stage' = "idle" /\ UNCHANGED <<asize, hsize, key, next>>
<1>1. ASSUME NEW k \in Present, NEW v \in ValN, Set(k, v)
      PROVE  Next /\ stage' = "idle" /\ UNCHANGED <<asize, hsize, key, next>>
  <2>1. k \in Key /\ luaH_get(k) # nil BY DEF Present
  <2>2. InArray(k) \/ Found(k) # {} BY <2>1 DEF luaH_get
  <2>3. Put(k, v) /\ UNCHANGED resizeVars BY <1>1, <2>2 DEF Set, NoRoom
  <2>4. UNCHANGED <<asize, hsize, key, next>> BY <2>2, <2>3 DEF Put, hashVars
  <2> QED BY <1>1, <2>1, <2>3, <2>4 DEF Next, ValN, resizeVars
<1>2. CASE Collector
  BY <1>2 DEF Next, Collector, removeentry, ClearNode, ClearArray, hashVars, resizeVars
<1> QED BY <1>1, <1>2 DEF Modify, ValN

LEMMA ModifyTrav == TravSys /\ Modify => TravSys'
<1> SUFFICES ASSUME TravSys, Modify PROVE TravSys' OBVIOUS
<1>1. /\ SysInv /\ OrderInv /\ traversing /\ stage = "idle" /\ TravTypeOK
      /\ kept \subseteq Present
  BY DEF TravSys, TravInv, OrderInv, Modify
<1>2. PICK p \in {0} \cup Positions : StandsAt(p) BY <1>1 DEF TravSys, TravInv
<1>3. Next /\ stage' = "idle" /\ UNCHANGED <<asize, hsize, key, next>> BY <1>1, ModifyFrame
<1>4. SysInv' /\ OrderInv' BY <1>1, <1>3, StepSys, StepOrder
<1>5. UNCHANGED <<traversing, cur, visited>> /\ kept' \subseteq kept /\ kept' \subseteq Present'
  BY DEF Modify
<1>6. Positions' = Positions /\ \A q : KeyAt(q)' = KeyAt(q) /\ (First(q)' <=> First(q))
  BY <1>3, FirstUnchanged
<1>7. StandsAt(p)' BY <1>2, <1>5, <1>6 DEF StandsAt
<1>8. TravTypeOK' BY <1>1, <1>5 DEF TravTypeOK
<1> QED BY <1>3, <1>4, <1>5, <1>6, <1>7, <1>8 DEF TravSys, TravInv, OrderInv

\* The element that luaH_next returns: it is after the one it started from, and
\* those between them have no value.
LEMMA NextElement ==
  ASSUME TravSys, luaH_next
  PROVE  \E p \in {0} \cup Positions, q \in Positions :
           /\ StandsAt(p) /\ p < q /\ First(q) /\ ValAt(q) # nil
           /\ \A r \in Positions : p < r /\ ValAt(r) # nil => q <= r
           /\ cur' = KeyAt(q) /\ visited' = visited \cup {KeyAt(q)}
<1>1. SysInv /\ OrderInv /\ Core BY DEF TravSys, TravInv, OrderInv, SysInv
<1>2. PICK p \in {0} \cup Positions : StandsAt(p) BY DEF TravSys, TravInv, luaH_next
<1>3. findindex(cur) = {p} BY <1>1, <1>2, FindindexCur
<1>4. PICK q \in Following(p) :
        /\ \A r \in Following(p) : q <= r
        /\ cur' = KeyAt(q) /\ visited' = visited \cup {KeyAt(q)}
  BY <1>3 DEF luaH_next
<1>5. q \in Positions /\ q > p /\ ValAt(q) # nil BY DEF Following
<1>6. First(q) BY <1>1, <1>5, ValueFirst DEF OrderInv
<1>7. p \in Nat /\ Positions \subseteq Nat BY DEF Positions
<1>8. \A r \in Positions : p < r /\ ValAt(r) # nil => q <= r BY <1>4, <1>7 DEF Following
<1> QED BY <1>2, <1>4, <1>5, <1>6, <1>7, <1>8

LEMMA NextTrav == TravSys /\ luaH_next => TravSys'
<1> SUFFICES ASSUME TravSys, luaH_next PROVE TravSys' OBVIOUS
<1>1. /\ SysInv /\ OrderInv /\ Core /\ traversing /\ stage = "idle" /\ TravTypeOK
      /\ kept \subseteq Present
  BY DEF TravSys, TravInv, OrderInv, SysInv, luaH_next
<1>2. PICK p \in {0} \cup Positions, q \in Positions :
           /\ StandsAt(p) /\ p < q /\ First(q) /\ ValAt(q) # nil
           /\ \A r \in Positions : p < r /\ ValAt(r) # nil => q <= r
           /\ cur' = KeyAt(q) /\ visited' = visited \cup {KeyAt(q)}
  BY NextElement
<1>3. UNCHANGED vars /\ UNCHANGED <<traversing, kept>> BY DEF luaH_next
<1>4. SysInv' /\ OrderInv' BY <1>1, <1>3, StepSys, StepOrder
<1>5. UNCHANGED <<hash, asize, arr, hsize, key, dead, val, next, stage>> BY <1>3 DEF vars, tableVars, hashVars, resizeVars
<1>6. Positions' = Positions /\ \A r : KeyAt(r)' = KeyAt(r) /\ (First(r)' <=> First(r))
  BY <1>5, FirstUnchanged
<1>7. KeyAt(q) \in Key BY <1>2 DEF First
<1>n. p \in Nat /\ q \in Nat \ {0} /\ Positions \subseteq Nat BY DEF Positions
<1>8. \A k \in visited' : \E r \in 1 .. q : First(r) /\ k = KeyAt(r)
  <2>1. \A k \in visited : \E r \in 1 .. p : First(r) /\ k = KeyAt(r) BY <1>2 DEF StandsAt
  <2> QED BY <2>1, <1>2, <1>n
<1>9. ASSUME NEW r \in 1 .. q, First(r), KeyAt(r) \in kept PROVE KeyAt(r) \in visited'
  <2>1. CASE r <= p BY <2>1, <1>2, <1>9, <1>n DEF StandsAt
  <2>2. CASE r = q BY <2>2, <1>2
  <2>3. CASE p < r /\ r < q
    <3>1. PICK s \in Positions : ValAt(s) # nil /\ KeyAt(s) = KeyAt(r) BY <1>1, <1>9, PresentPosition
    <3>2. s = r BY <3>1, <1>1, <1>9, ValueFirst, FirstUnique DEF OrderInv
    <3> QED BY <3>1, <3>2, <2>3, <1>2, <1>n
  <2> QED BY <2>1, <2>2, <2>3, <1>n
<1>10. StandsAt(q)' BY <1>2, <1>3, <1>6, <1>8, <1>9, <1>n DEF StandsAt
<1>11. TravTypeOK' BY <1>1, <1>2, <1>3, <1>7 DEF TravTypeOK, KeyN
<1>12. Present' = Present
  BY <1>5 DEF Present, luaH_get, InArray, Found, Chain, Reach, Closed, mainposition, Nodes
<1> QED BY <1>1, <1>3, <1>4, <1>5, <1>6, <1>10, <1>11, <1>12 DEF TravSys, TravInv, OrderInv

\* The start and the end of a traversal, and what happens outside of one.
LEMMA OtherTrav ==
  ASSUME TravSys,
         \/ StartTraversal \/ EndTraversal
         \/ ~traversing /\ [Next]_vars /\ UNCHANGED travVars
         \/ UNCHANGED <<vars, travVars>>
  PROVE  TravSys'
<1>1. SysInv /\ OrderInv /\ TravTypeOK BY DEF TravSys, TravInv, OrderInv
<1>2. [Next]_vars BY DEF StartTraversal, EndTraversal
<1>3. SysInv' /\ OrderInv' BY <1>1, <1>2, StepSys, StepOrder
<1>4. CASE StartTraversal
  <2>1. /\ traversing' = TRUE /\ cur' = nil /\ visited' = {} /\ kept' = Present /\ UNCHANGED vars
        /\ stage = "idle"
    BY <1>4 DEF StartTraversal
  <2>2. UNCHANGED <<hash, asize, arr, hsize, key, dead, val, next, stage>>
    BY <2>1 DEF vars, tableVars, hashVars, resizeVars
  <2>3. Present' = Present
    BY <2>2 DEF Present, luaH_get, InArray, Found, Chain, Reach, Closed, mainposition, Nodes
  <2>4. StandsAt(0)' BY <2>1 DEF StandsAt
  <2>5. TravTypeOK' BY <2>1 DEF TravTypeOK, KeyN, Present
  <2> QED BY <2>1, <2>2, <2>3, <2>4, <2>5, <1>3 DEF TravSys, TravInv, OrderInv
<1>5. CASE EndTraversal
  BY <1>5, <1>3 DEF EndTraversal, TravSys, TravInv, TravTypeOK, OrderInv, KeyN
<1>6. CASE ~traversing /\ UNCHANGED travVars
  BY <1>1, <1>3, <1>6 DEF travVars, TravSys, TravInv, TravTypeOK, OrderInv
<1>7. CASE UNCHANGED <<vars, travVars>>
  <2>1. UNCHANGED <<hash, asize, arr, hsize, key, dead, val, next, stage, traversing, cur, visited, kept>>
    BY <1>7 DEF vars, tableVars, hashVars, resizeVars, travVars
  <2>2. Present' = Present
    BY <2>1 DEF Present, luaH_get, InArray, Found, Chain, Reach, Closed, mainposition, Nodes
  <2>3. Positions' = Positions /\ \A r : KeyAt(r)' = KeyAt(r) /\ (First(r)' <=> First(r))
    BY <2>1, FirstUnchanged
  <2>4. \A p : StandsAt(p)' <=> StandsAt(p) BY <2>1, <2>3 DEF StandsAt
  <2> QED BY <2>1, <2>2, <2>3, <2>4, <1>1, <1>3 DEF TravSys, TravInv, TravTypeOK, OrderInv
<1> QED BY <1>4, <1>5, <1>6, <1>7

LEMMA InitTrav == TInit => TravSys
<1> SUFFICES ASSUME TInit PROVE TravSys OBVIOUS
<1> QED BY InitSys, InitOrder DEF TInit, TravSys, TravInv, OrderInv, TravTypeOK, KeyN

LEMMA StepTrav == TravSys /\ [TNext]_<<vars, travVars>> => TravSys'
BY ModifyTrav, NextTrav, OtherTrav DEF TNext

LEMMA TravSysImplies == TravSys => TraversalRight
<1> SUFFICES ASSUME TravSys PROVE TraversalRight OBVIOUS
<1>1. SysInv /\ Core /\ OrderInv /\ TravTypeOK /\ TravInv BY DEF TravSys, SysInv, TravInv, OrderInv
<1>2. NeverInvalid
  <2>1. ASSUME traversing PROVE findindex(cur) # {}
    <3>1. PICK p \in {0} \cup Positions : StandsAt(p) BY <2>1, <1>1 DEF TravInv
    <3> QED BY <3>1, <1>1, FindindexCur
  <2> QED BY <2>1 DEF NeverInvalid
<1>3. ASSUME NEW p \in Positions, ValAt(p) # nil PROVE luaH_get(KeyAt(p)) = ValAt(p)
  <2>1. First(p) BY <1>1, <1>3, ValueFirst DEF OrderInv
  <2>2. KeyAt(p) \in Key BY <2>1 DEF First
  <2>3. Get[KeyAt(p)] = luaH_get(KeyAt(p)) BY <2>2 DEF Get
  <2>4. CASE p <= asize
    <3>1. p \in IntKey BY <2>2, <2>4, Constants DEF KeyAt, Positions
    <3> QED BY <2>4, <3>1 DEF luaH_get, InArray, KeyAt, ValAt
  <2>5. CASE ~(p <= asize)
    <3>1. NodeAt(p) \in Nodes BY <1>1, <2>5, NodeAtType
    <3>2. KeyAt(p) = key[NodeAt(p)] /\ ValAt(p) = val[NodeAt(p)] BY <2>5 DEF KeyAt, ValAt
    <3>3. ~dead[NodeAt(p)] BY <3>1, <3>2, <1>1, <1>3 DEF Core, ValInv
    <3> QED BY <3>1, <3>2, <3>3, <2>2, <2>3, <1>1, GetCorrect DEF GetSpec
  <2> QED BY <2>4, <2>5
<1>4. NextAssociated BY <1>3 DEF NextAssociated
<1> QED BY <1>1, <1>2, <1>4 DEF TraversalRight

\* A traversal that assigns only to existing fields never raises "invalid key to
\* `next'", whatever keys the collector killed, and returns what luaH_get finds.
THEOREM TraversalNeverFails == TSpec => []TraversalRight
BY InitTrav, StepTrav, TravSysImplies, PTL DEF TSpec

LEMMA VisitStep ==
  ASSUME TravSys
  PROVE  (luaH_next => cur' \notin visited) /\ (EndTraversal => kept \subseteq visited)
<1>1. /\ SysInv /\ OrderInv /\ Core BY DEF TravSys, TravInv, OrderInv, SysInv
<1>2. ASSUME luaH_next PROVE cur' \notin visited
  <2>1. PICK p \in {0} \cup Positions, q \in Positions :
           StandsAt(p) /\ p < q /\ First(q) /\ cur' = KeyAt(q)
    BY <1>2, NextElement
  <2>2. ASSUME KeyAt(q) \in visited PROVE FALSE
    <3>1. PICK r \in 1 .. p : First(r) /\ KeyAt(q) = KeyAt(r) BY <2>1, <2>2 DEF StandsAt
    <3>2. r = q BY <3>1, <2>1, <1>1, FirstUnique
    <3> QED BY <3>2, <2>1 DEF Positions
  <2> QED BY <2>1, <2>2
<1>3. ASSUME EndTraversal PROVE kept \subseteq visited
  <2>1. PICK p \in {0} \cup Positions : StandsAt(p) /\ kept \subseteq Present
    BY <1>3 DEF TravSys, TravInv, EndTraversal
  <2>2. Following(p) = {} BY <1>1, <1>3, <2>1, FindindexCur DEF EndTraversal
  <2>3. ASSUME NEW k \in kept PROVE k \in visited
    <3>1. PICK q \in Positions : ValAt(q) # nil /\ KeyAt(q) = k BY <2>1, <1>1, PresentPosition
    <3>2. First(q) BY <3>1, <1>1, ValueFirst DEF OrderInv
    <3>3. q \in 1 .. p BY <3>1, <2>2 DEF Following, Positions
    <3> QED BY <3>1, <3>2, <3>3, <2>1 DEF StandsAt
  <2> QED BY <2>3
<1> QED BY <1>2, <1>3

\* A traversal returns every key that kept a value from its start to its end, and
\* none twice (luaH_next, findindex).
THEOREM TraversalVisitsEach == TSpec => VisitsEach
<1>1. TSpec => []TravSys BY InitTrav, StepTrav, PTL DEF TSpec
<1>2. TravSys => [/\ luaH_next => cur' \notin visited
                  /\ EndTraversal => kept \subseteq visited]_<<vars, travVars>>
  BY VisitStep
<1> QED BY <1>1, <1>2, PTL DEF VisitsEach
=============================================================================
