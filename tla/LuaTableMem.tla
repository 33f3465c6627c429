----------------------------- MODULE LuaTableMem -----------------------------
(***************************************************************************)
(* Tables when memory is short.  resize first lets the array part grow and    *)
(* then allocates the new node vector; if that allocation (or the test for a  *)
(* table overflow) raises an error, which lua_pcall may catch, the table stays *)
(* as resize has left it.                                                     *)
(***************************************************************************)
EXTENDS LuaNext

\* setarrayvector done if the array must grow, setnodevector failed.
resizefails(nasize) ==
  /\ LET n == IF nasize > asize THEN nasize ELSE asize
     IN  /\ asize' = n
         /\ arr' = [j \in 1 .. n |-> IF j <= asize THEN arr[j] ELSE nil]
  /\ UNCHANGED <<hash, hsize, key, dead, val, next, resizeVars, travVars>>

\* newkey: getfreepos has run through the vector before rehash fails.
SetFails(k) ==
  /\ stage = "idle" /\ ~traversing /\ NoRoom(k)
  /\ \E nasize \in {0} \cup PowersOf2 :
       computesizes(IntUse(k), nasize) /\ HashUse(k, nasize) > 0 /\ resizefails(nasize)
  /\ lastfree' = 0

\* (luaH_resizearray fails in the same way, in a constructor: that table is lost.)
MSpec == TInit /\ [][TNext \/ \E k \in Key : SetFails(k)]_<<vars, travVars>>
=============================================================================
