------------------------------ MODULE LuaGCInv ------------------------------
(***************************************************************************)
(* The inductive invariant behind NoDangling: what each phase of the         *)
(* collector may assume of colors, lists and pointers.                       *)
(***************************************************************************)
EXTENDS LuaGC

NonWhite == {o \in Obj : color[o] \in {"gray", "black"}}

\* An address without an object is blank, so a new object starts empty.
FreeBlank == \A o \in Obj : color[o] = "free" =>
  /\ o \in Tab \cup Udt => mt[o] = nil
  /\ o \in Tab => val[o] = NoValues
  /\ o \in Thr => stack[o] = NoStack
  /\ o \in Cls => cup[o] = nil /\ upv[o] = {}
  /\ o \in Upv => home[o] = nil /\ uval[o] = nil

\* Userdata are never gray, threads never black, open upvalues never black and
\* closed ones never gray.
ColorInv == \A o \in Obj :
  /\ o \in Udt => color[o] # "gray"
  /\ o \in Thr => color[o] # "black"
  /\ o \in Upv => IF IsOpen(o) THEN color[o] # "black" ELSE color[o] # "gray"

\* An open upvalue and its thread exist; a stack slot has one open upvalue.
OpenInv == \A u \in Upv : IsOpen(u) =>
  /\ color[u] # "free" /\ color[home[u][1]] # "free"
  /\ \A w \in Upv : home[w] = home[u] => w = u

\* The threads that run or wait for one they resumed form a chain from main.
Active == {main} \cup {x \in Thr : resumer[x] # nil}
ActiveInv ==
  /\ resumer[main] = nil /\ running \in Active
  /\ \A x \in Active : Live(x)
  /\ \A x \in Thr : resumer[x] # nil => /\ resumer[x] \in Active /\ resumer[x] # running
                                        /\ \A y \in Thr : resumer[y] = resumer[x] => y = x
  /\ \E rank \in [Thr -> Nat] :
       \A x \in Thr : resumer[x] # nil => rank[resumer[x]] < rank[x]

\* Where the sweep has passed, and when there is none, everything is of the
\* current white, but for the userdata in tmudata; nothing is of the other
\* white while the collector marks.
NotReached(o) == o \in unswept \/ (o \in Upv /\ IsOpen(o) /\ home[o][1] \in unswept)
WhiteInv == \A o \in Obj :
  /\ phase \in MarkPhases => ~isdead(o)
  /\ phase \notin MarkPhases /\ color[o] \notin {"free", currentwhite} =>
       \/ phase \in SweepPhases /\ NotReached(o)
       \/ o \in tmudata /\ ~isdead(o)

\* Userdata that wait for their finalizer are out of the sweep's way; what is in
\* its way exists, and is not an open upvalue.
TmuInv ==
  /\ tmudata \subseteq finalized /\ \A u \in tmudata : Live(u) /\ u \notin unswept
  /\ phase \notin SweepPhases => unswept = {}
  /\ \A o \in unswept : color[o] # "free" /\ (o \in Upv => ~IsOpen(o))

\* While the collector marks, a gray object is in a list, or is a string or an
\* open upvalue.
GrayInv == phase = "propagate" => \A o \in Obj : color[o] = "gray" =>
  o \in gray \cup grayagain \cup weak \cup Str \/ (o \in Upv /\ IsOpen(o))

\* A table that was traversed, and is not to be again, has no key that dangles,
\* not even in an empty entry.
KeyInv == phase = "propagate" => \A t \in Tab : isblack(t) =>
  \A n \in Node : key[t][n] \in Obj => color[key[t][n]] # "free"

\* What an object holds; of a table, the keys of empty entries too.
Held(o) == IF o \in Tab
           THEN {r \in Obj : r = mt[o] \/ \E n \in Node : r = val[o][n] \/ r = key[o][n]}
           ELSE Refs(o)
\* The marked objects that the collector is still going to look at (again).
Pending ==
  gray \cup (IF phase \in {"propagate", "atomic1"} THEN weak ELSE {})
       \cup (IF phase \in {"propagate", "atomic1", "atomic2"} THEN grayagain ELSE {})
       \cup (IF phase = "atomic4" THEN {} ELSE tmudata)
       \cup (IF phase = "propagate" THEN {u \in Upv : IsOpen(u)} ELSE {})
\* A marked object that is not pending holds no white object; a weak table, none
\* that it holds strongly.
MarkInv == phase \in MarkPhases =>
  /\ \A o \in NonWhite \ Pending :
       (IF o \in weak THEN Children(o) ELSE Held(o)) \cap White = {}
  /\ main \in NonWhite /\ registry \in NonWhite
  /\ phase \in {"atomic2", "atomic3", "atomic4"} =>
       /\ {running, gmt} \cap White = {}
       /\ \A t \in weak : weakbits[t] = Mode(t) /\ Mode(t) # {}
  /\ phase = "atomic4" => tmudata \cap White = {}

IInv ==
  /\ TypeOK /\ NoDangling /\ FreeBlank /\ ColorInv /\ OpenInv /\ ActiveInv
  /\ WhiteInv /\ TmuInv /\ GrayInv /\ OneGclist /\ KeyInv /\ MarkInv
-----------------------------------------------------------------------------
(* What cleartable may take from a weak table.                               *)

\* What the program can reach without following a weak reference: the members of
\* every set that holds the roots and all that marking its members marks.
Closed(S) == \A o \in S : Children(o) \subseteq S
Reachable ==
  LET R == {main, registry, gmt, running} \cap Obj
  IN  {o \in Obj : \A S \in SUBSET (Obj \ R) : Closed(R \cup S) => o \in R \cup S}

\* cleartable removes an entry only when its key or its value is garbage, or its
\* value a userdata that was put in tmudata.
ClearsOnlyGarbage ==
  [][\A t \in Tab, n \in Node :
       phase = "atomic4" /\ val[t][n] # nil /\ val'[t][n] = nil =>
         \/ key[t][n] \in Obj /\ key[t][n] \notin Reachable
         \/ val[t][n] \in Obj /\ val[t][n] \notin Reachable
         \/ val[t][n] \in finalized]_vars
=============================================================================
