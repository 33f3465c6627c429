------------------------------ MODULE LuaSort -------------------------------
(***************************************************************************)
(* table.sort (ltablib.c): the quicksort of auxsort, one step for each     *)
(* call of the order function, which may be no order at all.               *)
(*                                                                         *)
(* The elements are 1 .. N, in this order at the beginning; the array is   *)
(* extended with the index on each side of it, which is nil.               *)
(***************************************************************************)
EXTENDS Integers, FiniteSets, SequencesExt

CONSTANTS
    MaxN,           \* bound of the size of the array
    MaxLawlessN     \* the same, for functions that are no order

ASSUME SortAssumption == MaxN \in Nat /\ MaxLawlessN \in Nat

VARIABLES
    a,          \* the array
    rank,       \* a < b iff rank[a] < rank[b]; Lawless if any answer will do
    l, u,       \* the part being sorted
    up, down, P,    \* its partition: i, j and P of auxsort
    frames,     \* the parts that wait for a recursive call to return
    pc

sortVars == <<a, rank, l, u, up, down, P, frames, pc>>

NilItem == 0
Lawless == <<>>
sort ==
    \E n \in 0 .. MaxN :
      /\ a = [k \in 0 .. n + 1 |-> IF k = n + 1 THEN NilItem ELSE k]
      /\ rank \in [1 .. n -> 1 .. n] \/ (n <= MaxLawlessN /\ rank = Lawless)
      /\ l = 1 /\ u = n /\ up = 0 /\ down = 0 /\ P = NilItem /\ frames = <<>> /\ pc = "loop"

\* What sort_comp may return for x < y.
sort_comp(x, y) ==
    IF rank = Lawless \/ NilItem \in {x, y} THEN BOOLEAN ELSE {rank[x] < rank[y]}
\* set2 with the two values that were read
Swap(b, m, n) == [b EXCEPT ![m] = b[n], ![n] = b[m]]
SwapIf(c, b, m, n) == IF c THEN Swap(b, m, n) ELSE b

\* The end of auxsort: the call that waits goes on with the larger part.
Return ==
    /\ IF frames = <<>> THEN pc' = "done" /\ UNCHANGED <<l, u, frames>>
       ELSE /\ l' = Last(frames)[1] /\ u' = Last(frames)[2]
            /\ frames' = Front(frames) /\ pc' = "loop"
    /\ UNCHANGED <<up, down, P>>

\* a[l] and a[u]
Ends_unsorted ==
    /\ pc = "loop" /\ UNCHANGED rank
    /\ \/ l >= u /\ Return /\ UNCHANGED a
       \/ /\ l < u /\ UNCHANGED a
          /\ \/ u - l = 1 /\ Return
             \/ u - l > 1 /\ up' = (l + u) \div 2 /\ pc' = "middle"
                /\ UNCHANGED <<l, u, down, P, frames>>
Ends ==
    /\ pc = "loop" /\ UNCHANGED rank
    /\ \/ l >= u /\ Return /\ UNCHANGED a
       \/ /\ l < u
          /\ \E c \in sort_comp(a[u], a[l]) : a' = SwapIf(c, a, l, u)
          /\ \/ u - l = 1 /\ Return
             \/ u - l > 1 /\ up' = (l + u) \div 2 /\ pc' = "middle"
                /\ UNCHANGED <<l, u, down, P, frames>>

\* The pivot goes to a[u - 1]; three elements are sorted by now.
Partition(b) ==
    \/ u - l = 2 /\ a' = b /\ Return
    \/ /\ u - l > 2
       /\ P' = b[up] /\ a' = Swap(b, up, u - 1)
       /\ up' = l /\ down' = u - 1 /\ pc' = "up" /\ UNCHANGED <<l, u, frames>>

\* a[i] with a[l], and then with a[u]
Middle ==
    /\ pc = "middle" /\ UNCHANGED rank
    /\ \E c \in sort_comp(a[up], a[l]) :
         \/ c /\ Partition(Swap(a, up, l))
         \/ ~c /\ pc' = "middle2" /\ UNCHANGED <<a, l, u, up, down, P, frames>>
Middle2_noswap == pc = "middle2" /\ Partition(a) /\ UNCHANGED rank
Middle2 ==
    /\ pc = "middle2" /\ UNCHANGED rank
    /\ \E c \in sort_comp(a[u], a[up]) : Partition(SwapIf(c, a, up, u))

\* repeat ++i until a[i] >= P
Up ==
    /\ pc = "up" /\ up' = up + 1
    /\ \E c \in sort_comp(a[up + 1], P) :
         pc' = IF ~c THEN "down" ELSE IF up + 1 > u THEN "error" ELSE pc
    /\ UNCHANGED <<a, rank, l, u, down, P, frames>>

\* The recursive call, for the smaller side of the pivot.
Recurse_larger ==
    /\ IF up - l < u - up
       THEN frames' = Append(frames, <<l, up - 1>>) /\ l' = up + 1 /\ u' = u
       ELSE frames' = Append(frames, <<up + 1, u>>) /\ l' = l /\ u' = up - 1
    /\ pc' = "loop"
Recurse ==
    /\ IF up - l < u - up
       THEN frames' = Append(frames, <<up + 1, u>>) /\ l' = l /\ u' = up - 1
       ELSE frames' = Append(frames, <<l, up - 1>>) /\ l' = up + 1 /\ u' = u
    /\ pc' = "loop"

\* repeat --j until a[j] <= P; then a[i] and a[j] are exchanged, unless they
\* have crossed, which puts the pivot in its place a[i]
Down_keep ==
    /\ pc = "down" /\ down' = down - 1
    /\ \E c \in sort_comp(P, a[down - 1]) :
         \/ c /\ pc' = (IF down - 1 < l THEN "error" ELSE pc) /\ UNCHANGED <<a, l, u, frames>>
         \/ ~c /\ down - 1 < up /\ a' = [a EXCEPT ![up] = P] /\ Recurse
         \/ ~c /\ down - 1 >= up /\ a' = Swap(a, up, down - 1) /\ pc' = "up" /\ UNCHANGED <<l, u, frames>>
    /\ UNCHANGED <<rank, up, P>>
Down ==
    /\ pc = "down" /\ down' = down - 1
    /\ \E c \in sort_comp(P, a[down - 1]) :
         \/ c /\ pc' = (IF down - 1 < l THEN "error" ELSE pc) /\ UNCHANGED <<a, l, u, frames>>
         \/ ~c /\ down - 1 < up /\ a' = Swap(a, u - 1, up) /\ Recurse
         \/ ~c /\ down - 1 >= up /\ a' = Swap(a, up, down - 1) /\ pc' = "up" /\ UNCHANGED <<l, u, frames>>
    /\ UNCHANGED <<rank, up, P>>

auxsort == Ends \/ Middle \/ Middle2 \/ Up \/ Down
sortSpec == sort /\ [][auxsort]_sortVars

-----------------------------------------------------------------------------
(* Properties.                                                             *)

Elements == {k \in DOMAIN a : k # 0 /\ k + 1 \in DOMAIN a}

\* With an order, the array ends sorted.
Sorted ==
    pc = "done" /\ rank # Lawless =>
      \A m, n \in Elements : m < n => ~(rank[a[n]] < rank[a[m]])

\* No element is lost or copied, whatever the order function answers, at any
\* call of it (where it may raise an error).
ValuesKept == \A v \in Elements : \E k \in DOMAIN a : a[k] = v /\ \A m \in DOMAIN a : a[m] = v => m = k

\* An order is never called with an element outside the array, and never told
\* that it is invalid.
InRange == rank # Lawless => pc # "error" /\ (pc \in {"up", "down"} => up <= u /\ down >= l)

\* A call of auxsort has at most half of the elements of the call it is made
\* in: the recursion is no deeper than the logarithm of the size, for which
\* sort asks for stack once ("assume array is smaller than 2^40").
LogDepth == (u - l + 1) * 2 ^ Len(frames) <= Cardinality(Elements)
\* auxsort leaves the array sorted if the function is an order, which it calls
\* only with elements of the array and never takes for an invalid one; whatever
\* the function answers it loses and copies no element, and it recurs no deeper
\* than the logarithm of the size.
SortRight == Sorted /\ InRange /\ ValuesKept /\ LogDepth
=============================================================================
