----------------------------- MODULE LuaTableMap -----------------------------
(***************************************************************************)
(* A table implements a map.  `last' is a history variable: the assignment     *)
(* that took effect last, whether the program or the collector made it.        *)
(***************************************************************************)
EXTENDS LuaTable

VARIABLE last
hvars == <<vars, last>>

HInit == Init /\ last = nil
HNext ==
  \/ \E k \in Key, v \in Val \cup {nil} :
       Set(k, v) /\ last' = IF stage' = "idle" THEN <<k, v>> ELSE last
  \/ Retry /\ last' = <<pkey, pval>>
  \/ \E n \in Nodes : ClearNode(n) /\ last' = <<key[n], nil>>
  \/ \E j \in 1 .. asize : ClearArray(j) /\ last' = <<j, nil>>
  \/ /\ \/ \E n \in IntKey : luaH_resizearray(n)
        \/ \E n \in Nodes : removeentry(n)
        \/ ShrinkArray \/ EndShrink \/ Reinsert \/ EndResize
     /\ last' = last
HSpec == HInit /\ [][HNext]_hvars

\* The entries that resize has still to insert, and what the table holds.
OldArray(k) == stage = "shrink" /\ k \in IntKey /\ i <= k /\ k <= oasize
OldNodes == {n \in 0 .. ohsize - 1 : stage = "shrink" \/ (stage = "reinsert" /\ n <= i)}
OldFound(k) == {n \in OldNodes : okey[n] = k /\ oval[n] # nil}
Contents(k) ==
  IF OldArray(k) THEN oarr[k]
  ELSE IF OldFound(k) # {} THEN oval[CHOOSE n \in OldFound(k) : TRUE]
  ELSE luaH_get(k)

\* An assignment gives its key the new value and changes no other one; moving
\* colliding nodes, marking dead keys and rebuilding both parts change nothing
\* (luaH_set, newkey, rehash, resize).
Map == INSTANCE TableMap WITH map <- [k \in Key |-> Contents(k)]
MapSpec == Map!Spec
=============================================================================
