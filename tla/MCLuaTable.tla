----------------------------- MODULE MCLuaTable -----------------------------
(* LuaTableMap, and with it LuaTable, on small sets of keys.               *)
EXTENDS LuaTableMap, TLC

CONSTANTS s1, o1, v1, v2

IntKeys == 1 .. 3
\* Integers hash to themselves; the other two keys collide with each other and
\* with 1, or with 2 and with 3.
Hashes == {h \in [Key -> 0 .. 3] :
             /\ \A k \in IntKey : h[k] = k
             /\ <<h[s1], h[o1]>> \in {<<1, 1>>, <<2, 0>>}}
Sizes == {<<0, 0>>, <<3, 0>>, <<0, 2>>}
Perms == Permutations(Val)
TableView == vars   \* `last' is read by no action
=============================================================================
