------------------------------ MODULE MCLuaNext ------------------------------
(* LuaNext on small sets of keys.                                           *)
EXTENDS LuaNext, TLC

CONSTANTS o1, o2, o3, v1

IntKeys == {1, 2}
\* The objects collide with each other, with an integer, or both.
Hashes == {h \in [Key -> 0 .. 2] :
             /\ \A k \in IntKey : h[k] = k
             /\ <<h[o1], h[o2]>> \in {<<0, 0>>, <<1, 1>>, <<1, 2>>}}
Sizes == {<<0, 0>>}
Perms == Permutations(ModKey)
=============================================================================
