---------------------------- MODULE MCLuaTableMem ----------------------------
(* LuaTableMem on small sets of keys.                                           *)
EXTENDS LuaTableMem, TLC

CONSTANTS o1, o2, o3, v1

IntKeys == {1, 2}
Hashes == {h \in [Key -> 0 .. 2] : \A k \in IntKey : h[k] = k}
Sizes == {<<0, 0>>}
Perms == Permutations(ModKey)
=============================================================================
