------------------------------- MODULE LuaNext -------------------------------
(***************************************************************************)
(* Traversal of a table with luaH_next (next, pairs, lua_next).  A traversal  *)
(* has no state but the last key that it returned, which findindex looks up   *)
(* again, although the program may have cleared it and the collector may have *)
(* marked it dead since.  As the manual asks, the program assigns only to     *)
(* existing fields while it traverses the table.                              *)
(***************************************************************************)
EXTENDS LuaTable

VARIABLES
  traversing,  \* a traversal is going on
  cur,         \* the key passed to luaH_next; nil to start
  visited,     \* the keys that it returned
  kept         \* keys that had a value all the time since it started

travVars == <<traversing, cur, visited, kept>>

\* Elements are numbered 1 .. asize + hsize, the array part first.
Positions == 1 .. asize + hsize
NodeAt(p) == p - asize - 1
KeyAt(p) == IF p <= asize THEN p ELSE key[NodeAt(p)]
ValAt(p) == IF p <= asize THEN arr[p] ELSE val[NodeAt(p)]

MatchesLive(n, k) == key[n] = k /\ ~dead[n]   \* mutant
\* A dead key is accepted if it is the same object.
Matches(n, k) == key[n] = k /\ (dead[n] => k \in Collectable)

\* Mutant: any matching node of the chain.
findindexAny(k) ==
  IF k = nil THEN {0}
  ELSE IF InArray(k) THEN {k}
  ELSE IF hsize = 0 THEN {}
  ELSE {asize + 1 + n : n \in {m \in Chain(mainposition(k)) : Matches(m, k)}}

\* findindex: the first node of the chain that matches; none if it
\* is not there ("invalid key to `next'").
findindex(k) ==
  IF k = nil THEN {0}
  ELSE IF InArray(k) THEN {k}
  ELSE IF hsize = 0 THEN {}
  ELSE LET M == {n \in Chain(mainposition(k)) : Matches(n, k)}
       IN  {asize + 1 + n : n \in {m \in M : M \subseteq Chain(m)}}

\* Mutants: elements without a value too; or not the one right after p.
FollowingAll(p) == {q \in Positions : q > p}
FollowingSkips(p) == {q \in Positions : q > p + 1 /\ ValAt(q) # nil}
\* luaH_next: the first element with a value after position p.
Following(p) == {q \in Positions : q > p /\ ValAt(q) # nil}
luaH_next ==
  /\ stage = "idle" /\ traversing
  /\ \E p \in findindex(cur) : \E q \in Following(p) :
       /\ \A r \in Following(p) : q <= r
       /\ cur' = KeyAt(q) /\ visited' = visited \cup {KeyAt(q)}
  /\ UNCHANGED <<vars, traversing, kept>>

\* luaH_next finds no more elements.
EndTraversal ==
  /\ stage = "idle" /\ traversing
  /\ \E p \in findindex(cur) : Following(p) = {}
  /\ traversing' = FALSE /\ cur' = nil /\ visited' = {} /\ kept' = {}
  /\ UNCHANGED vars

Present == {k \in Key : luaH_get(k) # nil}
StartTraversal ==
  /\ stage = "idle" /\ ~traversing
  /\ traversing' = TRUE /\ cur' = nil /\ visited' = {} /\ kept' = Present
  /\ UNCHANGED vars

\* Between two calls: an existing field is assigned, or the collector runs.
Modify ==
  /\ traversing
  /\ \/ \E k \in Present, v \in Val \cup {nil} : Set(k, v)
     \/ Collector
  /\ kept' = kept \cap Present'
  /\ UNCHANGED <<traversing, cur, visited>>

TInit == Init /\ traversing = FALSE /\ cur = nil /\ visited = {} /\ kept = {}
TNext ==
  \/ ~traversing /\ Next /\ UNCHANGED travVars
  \/ StartTraversal \/ luaH_next \/ EndTraversal \/ Modify
TSpec == TInit /\ [][TNext]_<<vars, travVars>>

-----------------------------------------------------------------------------
(* Properties.                                                             *)

\* The types of the variables of a traversal.
TravTypeOK == /\ traversing \in BOOLEAN /\ cur \in KeyN
              /\ visited \subseteq Key /\ kept \subseteq Key

\* A traversal that only modifies and clears existing fields never fails with
\* "invalid key to `next'", even if the collector has killed the current key:
\* findindex, which raises that error at the end of the chain, finds the key.
NeverInvalid == stage = "idle" /\ traversing => findindex(cur) # {}

\* A traversal returns every key that kept a value from its start to its end, and
\* none twice: with a live node and a dead one of the same object in one chain,
\* findindex finds the one that luaH_next returned.
VisitsEach == [][/\ luaH_next => cur' \notin visited
                 /\ EndTraversal => kept \subseteq visited]_<<vars, travVars>>

\* An element that luaH_next can return is the one luaH_get finds: the
\* manual's "the next index of the table and its associated value".
NextAssociated ==
  stage = "idle" =>
    \A p \in Positions : ValAt(p) # nil => luaH_get(KeyAt(p)) = ValAt(p)

\* A live node of an object comes before the dead ones in its chain: newkey puts
\* a key at the head of its chain or right after it.
LiveFirst ==
  \A n, m \in Nodes : key[n] # nil /\ ~dead[n] /\ key[m] = key[n] => m \in Chain(n)
DeadCollectable == \A n \in Nodes : dead[n] => key[n] \in Collectable

\* findindex finds position p for its key, whatever died since.
First(p) ==
  /\ p \in Positions /\ KeyAt(p) \in Key
  /\ p > asize => /\ ~InArray(KeyAt(p))
                  /\ \A m \in Nodes : key[m] = KeyAt(p) => m \in Chain(NodeAt(p))

\* A traversal stands at the position of its key, and has returned those and only
\* those before it that kept their value.
StandsAt(p) ==
  /\ IF p = 0 THEN cur = nil ELSE First(p) /\ cur = KeyAt(p)
  /\ \A k \in visited : \E q \in 1 .. p : First(q) /\ k = KeyAt(q)
  /\ \A q \in 1 .. p : First(q) /\ KeyAt(q) \in kept => KeyAt(q) \in visited
TravInv ==
  /\ LiveFirst /\ DeadCollectable
  /\ traversing => stage = "idle" /\ kept \subseteq Present /\ \E p \in {0} \cup Positions : StandsAt(p)

\* luaH_next can go on from any key it returned, and returns what luaH_get finds.
TraversalRight == TravTypeOK /\ NeverInvalid /\ NextAssociated /\ TravInv
=============================================================================
