------------------------------ MODULE LuaLength ------------------------------
(***************************************************************************)
(* The length operator on tables: luaH_getn and unbound_search look for a     *)
(* boundary by bisection, after doubling in the hash part.  i and j are        *)
(* unsigned int, whose range is twice that of int.                             *)
(***************************************************************************)
EXTENDS Integers

CONSTANTS MAX_INT,   \* the largest int
          MAXASIZE   \* the largest size of the array part

ASSUME LengthAssumption == MAX_INT \in Nat /\ MAXASIZE \in Nat /\ MAXASIZE < MAX_INT

VARIABLES present,   \* the integer keys with a value
          sizearray,
          dummy,     \* there is no hash part
          pc, i, j,
          result

vars == <<present, sizearray, dummy, pc, i, j, result>>

unsigned(n) == n % (2 * (MAX_INT + 1))

\* luaH_getnum; a key beyond MAX_INT, converted to int, is negative and absent.
isnil(n) == n \notin present

Return(n) == pc' = "done" /\ result' = n /\ UNCHANGED <<i, j>>

\* Mutant: the last slot of the array is not looked at.
luaH_getnUntested ==
  /\ pc = "getn"
  /\ \/ dummy /\ Return(sizearray)
     \/ /\ ~dummy
        /\ pc' = "double" /\ i' = sizearray /\ j' = unsigned(sizearray + 1)
        /\ result' = result

luaH_getn ==
  /\ pc = "getn"
  /\ \/ /\ sizearray > 0 /\ isnil(sizearray)
        /\ pc' = "bisect" /\ i' = 0 /\ j' = sizearray /\ result' = result
     \/ /\ ~(sizearray > 0 /\ isnil(sizearray)) /\ dummy
        /\ Return(sizearray)
     \/ /\ ~(sizearray > 0 /\ isnil(sizearray)) /\ ~dummy
        /\ pc' = "double" /\ i' = sizearray /\ j' = unsigned(sizearray + 1)
        /\ result' = result

\* unbound_search: find i present and j not, doubling j.
Double ==
  /\ pc = "double"
  /\ \/ isnil(j) /\ pc' = "bisect" /\ UNCHANGED <<i, j>>
     \/ /\ ~isnil(j) /\ unsigned(j * 2) <= MAX_INT
        /\ i' = j /\ j' = unsigned(j * 2) /\ pc' = pc
     \/ /\ ~isnil(j) /\ unsigned(j * 2) > MAX_INT
        /\ pc' = "linear" /\ i' = 1 /\ j' = unsigned(j * 2)
  /\ result' = result

\* "table was built with bad purposes: resort to linear search".
Linear ==
  /\ pc = "linear"
  /\ \/ ~isnil(i) /\ i' = unsigned(i + 1) /\ UNCHANGED <<j, pc, result>>
     \/ isnil(i) /\ Return(i - 1)

\* Mutant: the loop goes on while i and j differ.
BisectClosed ==
  LET m == unsigned(i + j) \div 2
  IN  /\ pc = "bisect"
      /\ \/ /\ j - i > 0 /\ isnil(m) /\ j' = m /\ UNCHANGED <<i, pc, result>>
         \/ /\ j - i > 0 /\ ~isnil(m) /\ i' = m /\ UNCHANGED <<j, pc, result>>
         \/ /\ ~(j - i > 0) /\ Return(i)

\* The binary search of luaH_getn and of unbound_search.
Bisect ==
  LET m == unsigned(i + j) \div 2
  IN  /\ pc = "bisect"
      /\ \/ /\ j - i > 1 /\ isnil(m) /\ j' = m /\ UNCHANGED <<i, pc, result>>
         \/ /\ j - i > 1 /\ ~isnil(m) /\ i' = m /\ UNCHANGED <<j, pc, result>>
         \/ /\ ~(j - i > 1) /\ Return(i)

Init ==
  /\ present \in SUBSET (1 .. MAX_INT)
  /\ sizearray \in 0 .. MAXASIZE
  /\ dummy \in BOOLEAN /\ (dummy => present \subseteq 1 .. sizearray)
  /\ pc = "getn" /\ i = 0 /\ j = 0 /\ result = 0

Search == luaH_getn \/ Double \/ Linear \/ Bisect
Next == Search /\ UNCHANGED <<present, sizearray, dummy>>
Done == pc = "done" /\ UNCHANGED vars
Spec == Init /\ [][Next \/ Done]_vars /\ WF_vars(Next)

-----------------------------------------------------------------------------
(* Properties.                                                             *)

\* The types of the variables; i and j never leave the range of unsigned int.
TypeOK ==
  /\ present \subseteq 1 .. MAX_INT /\ sizearray \in 0 .. MAXASIZE /\ dummy \in BOOLEAN
  /\ pc \in {"getn", "double", "linear", "bisect", "done"}
  /\ i \in 0 .. MAX_INT + 1 /\ j \in 0 .. 2 * MAX_INT /\ result \in 0 .. MAX_INT

\* ltable.c: a boundary is an index such that t[i] is non-nil and t[i+1] is nil,
\* and 0 if t[1] is nil.  However many holes the table has, # returns one.
Boundary == pc = "done" => (result = 0 \/ ~isnil(result)) /\ isnil(result + 1)

\* The search ends, whatever the table holds.
Terminates == <>(pc = "done")

-----------------------------------------------------------------------------
(* The inductive invariant.                                                *)

\* luaH_getn without a hash part, or a search between a present i and an absent j.
SearchInv ==
  /\ dummy => present \subseteq 1 .. sizearray
  /\ pc \in {"double", "bisect"} => i = 0 \/ ~isnil(i)
  /\ pc = "double" => j \in i + 1 .. MAX_INT
  /\ pc = "bisect" => isnil(j) /\ j \in i + 1 .. MAX_INT
  /\ pc = "linear" => 1 <= i /\ \A n \in 1 .. i - 1 : ~isnil(n)
Inv == TypeOK /\ SearchInv /\ Boundary
=============================================================================
