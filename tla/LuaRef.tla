------------------------------- MODULE LuaRef -------------------------------
(***************************************************************************)
(* References to values in a table: luaL_ref and luaL_unref (lauxlib.c).   *)
(* The references that were freed are a list in the table itself, from     *)
(* t[FREELIST_REF]; with no reference free the new one is #t + 1, and #t   *)
(* may be any border of t.                                                 *)
(***************************************************************************)
EXTENDS Integers

CONSTANTS
    Objects,    \* the values referred to
    nilvalue,
    MaxRef      \* bound of the references
ASSUME RefAssumption == MaxRef \in Nat /\ nilvalue \notin Objects \cup 0 .. MaxRef

VARIABLES
    t,          \* the table; 0 is FREELIST_REF
    live        \* history: the references in use, each with its value

refVars == <<t, live>>

FREELIST_REF == 0
LUA_REFNIL == -1
LUA_NOREF == -2

\* luaH_getn and lua_tointeger
Borders == {n \in 0 .. MaxRef : (n = 0 \/ t[n] # nilvalue) /\ (n = MaxRef \/ t[n + 1] = nilvalue)}
tointeger(v) == IF v \in 1 .. MaxRef THEN v ELSE 0

refInit == t = [n \in 0 .. MaxRef |-> nilvalue] /\ live = {}

Refer(r, v) == live' = live \cup {<<r, v>>}
\* A new reference is after a border of the table; nil gets LUA_REFNIL, without
\* a place in the table.
NewRef(v) == \E n \in Borders \ {MaxRef} : t' = [t EXCEPT ![n + 1] = v] /\ Refer(n + 1, v)
luaL_ref_stay(v) ==
    LET free == tointeger(t[FREELIST_REF])
    IN  \/ v = nilvalue /\ UNCHANGED refVars
        \/ v # nilvalue /\ free # 0 /\ t' = [t EXCEPT ![free] = v] /\ Refer(free, v)
        \/ v # nilvalue /\ free = 0 /\ NewRef(v)
luaL_ref(v) ==
    LET free == tointeger(t[FREELIST_REF])
    IN  \/ v = nilvalue /\ UNCHANGED refVars
        \/ /\ v # nilvalue /\ free # 0
           /\ t' = [t EXCEPT ![FREELIST_REF] = t[free], ![free] = v]
           /\ Refer(free, v)
        \/ v # nilvalue /\ free = 0 /\ NewRef(v)

luaL_unref_erase(r) ==
    IF r >= 0 THEN t' = [t EXCEPT ![r] = nilvalue] ELSE UNCHANGED t
luaL_unref(r) ==
    IF r >= 0 THEN t' = [t EXCEPT ![r] = t[FREELIST_REF], ![FREELIST_REF] = r]
    ELSE UNCHANGED t

Unref ==
    \/ \E p \in live : luaL_unref(p[1]) /\ live' = live \ {p}
    \/ \E r \in {LUA_REFNIL, LUA_NOREF} : luaL_unref(r) /\ UNCHANGED live

refNext == (\E v \in Objects \cup {nilvalue} : luaL_ref(v)) \/ Unref
refSpec == refInit /\ [][refNext]_refVars

-----------------------------------------------------------------------------
(* Properties.                                                             *)

\* A reference in use gives back its own value: luaL_ref never hands out a
\* reference that is in use, though the free list lives in the same table and
\* the last freed reference may be a hole in it.
RefsDistinct == \A p \in live : p[1] # FREELIST_REF /\ t[p[1]] = p[2]

\* Every reference freed is used again before the table grows: when its length
\* is asked for, the table has no holes.
RefsReused ==
    tointeger(t[FREELIST_REF]) = 0 => \E n \in 0 .. MaxRef : {p[1] : p \in live} = 1 .. n
\* luaL_ref never hands out a reference in use, for any border lua_objlen gives,
\* and luaL_unref loses none: the table has no holes when it grows.
RefsRight == RefsDistinct /\ RefsReused
=============================================================================
