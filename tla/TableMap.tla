------------------------------ MODULE TableMap ------------------------------
(***************************************************************************)
(* What a Lua table promises: a map from keys to values, nil for a key that   *)
(* it does not hold.  A step assigns one key, which `last' records.  The       *)
(* collector clears an entry of a weak table by assigning nil.                *)
(***************************************************************************)
CONSTANTS Key, Val, nil
VARIABLES map, last

Init == map = [k \in Key |-> nil] /\ last = nil
Assign(k, v) == last' = <<k, v>> /\ map' = [map EXCEPT ![k] = v]
Next == \E k \in Key, v \in Val \cup {nil} : Assign(k, v)
Spec == Init /\ [][Next]_<<map, last>>
=============================================================================
