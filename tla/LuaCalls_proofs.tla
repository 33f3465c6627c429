--------------------------- MODULE LuaCalls_proofs ---------------------------
(***************************************************************************)
(* The C stack and the fields of the threads agree, for any number of      *)
(* coroutines and any limits.  The invariant reads the C stack from the    *)
(* bottom: what a protected call, a finalizer's call or a hook keeps in C   *)
(* locals is what the activations below it stand for, so that cutting the  *)
(* stack there and putting the locals back restores the thread.            *)
(***************************************************************************)
EXTENDS LuaCalls, SequenceTheorems, FiniteSetTheorems, WellFoundedInduction, TLAPS

-----------------------------------------------------------------------------
(* The invariant.                                                          *)

CLimit == LUAI_MAXCCALLS + SpareCcalls

\* Hooks of thread t are off because of one of the first n activations.
Disables(a) == a.k = "hook" \/ a.why = "gc"
Hooked(s, t, n) == \E j \in 1 .. n : s[j].th = t /\ Disables(s[j])

\* h is the handler of the innermost protected call of t among the first n.
PcallOf(a, t) == a.k = "pcall" /\ a.th = t
InForce(s, t, n, h) ==
    \/ h = "none" /\ \A j \in 1 .. n : ~PcallOf(s[j], t)
    \/ \E p \in 1 .. n : /\ PcallOf(s[p], t) /\ h = s[p].why
                         /\ \A j \in p + 1 .. n : ~PcallOf(s[j], t)

\* Activation a may lie directly above b.
Above(b, a) ==
    /\ a.k # "host"
    /\ a.k # "resume" => a.th = b.th
    /\ a.k = "resume" => b.k \in {"C", "host"} /\ a.th \in Co
    /\ a.k = "exec" => b.k \in {"call", "resume"} /\ a.n >= 1
    /\ a.k = "C" => b.k \in {"call", "exec"}
    /\ a.k = "enter" => /\ b.k \in {"call", "resume"} /\ a.why \in Function
                        /\ b.k = "resume" => a.why = "Lua"
    /\ a.k \in {"callop", "tailcall"} => b.k = "exec" /\ a.why \in Function
    /\ a.k = "pcall" => b.k \in {"C", "host"} /\ a.why \in Handlers
    /\ a.k = "hook" => b.k \in {"exec", "C"} /\ (a.why = "line" => b.k = "exec")
    /\ a.k = "throw" => a.why \in Errors

\* What the i-th activation keeps in its locals tells the state below it.
Keeps(s, i) ==
    LET a == s[i]
    IN  /\ a.k = "pcall" =>
             /\ a.old.nCcalls = Depth(s, i - 1)
             /\ a.old.ci = Level(s, a.th, i - 1)
             /\ InForce(s, a.th, i - 1, a.old.errfunc)
        /\ a.k = "pcall" \/ a.why = "gc" =>
             (a.old.allowhook = TRUE <=> ~Hooked(s, a.th, i - 1))
        /\ a.why = "gc" => a.k = "call"
        /\ a.k = "hook" => ~Hooked(s, a.th, i - 1)

\* The i-th activation is right with respect to those below it.
Sound(s, i) ==
    /\ i = 1 => s[i].k = "host" /\ s[i].th = "main" /\ s[i].why # "gc"
    /\ i > 1 => Above(s[i - 1], s[i])
    /\ s[i].k = "resume" => \A j \in 1 .. i - 1 : s[j].th # s[i].th
    /\ Keeps(s, i)
    /\ s[i].k \in {"C", "host"} => Depth(s, i) < CLimit

StackInv == \A i \in 1 .. Len(cstack) : Sound(cstack, i)

\* The newest activation of its thread.
Newest(s, i) == i = Len(s) \/ s[i + 1].k = "resume"

Live(fs, us) == \A l \in us : l \in 1 .. Len(fs) /\ fs[l] = "Lua"

\* The fields of a thread that runs or waits for one it resumed.
Active(t) ==
    /\ FramesRight(cstack, t, Len(cstack), ci[t])
    /\ allowhook[t] = TRUE <=> ~Hooked(cstack, t, Len(cstack))
    /\ InForce(cstack, t, Len(cstack), errfunc[t])
    /\ Live(ci[t], openupval[t])
    /\ status[t] = "ok" /\ life[t] = "started"

\* The fields of a coroutine with no activation: new, ended, dead or suspended.
Idle(t) ==
    /\ status[t] \in {"ok", "yield"} => allowhook[t] = TRUE /\ errfunc[t] = "none"
    /\ status[t] = "ok" =>
         /\ ci[t] = <<>> /\ openupval[t] = {} /\ life[t] \in {"fresh", "ended"}
         /\ life[t] = "fresh" => cotop[t] = TRUE
    /\ status[t] = "yield" =>
         /\ life[t] = "yielded" /\ Len(ci[t]) > 0 /\ ci[t][1] = "Lua"
         /\ \A l \in 1 .. Len(ci[t]) - 1 : ci[t][l] = "Lua"
         /\ Live(ci[t], openupval[t])
    /\ status[t] \in Errors => life[t] = "ended"

FieldsInv ==
    /\ \A t \in OnStack : Active(t)
    /\ \A t \in Co \ OnStack : Idle(t)
    /\ life["main"] = "started" /\ baseCcalls["main"] = 0

\* The counters of C calls.
CountInv ==
    /\ \A i \in 1 .. Len(cstack) :
         /\ Newest(cstack, i) => nCcalls[cstack[i].th] = Depth(cstack, i)
         /\ cstack[i].k = "resume" => baseCcalls[cstack[i].th] = Depth(cstack, i)
    /\ Depth(cstack, Len(cstack)) <= CLimit
    /\ Running(Kinds \ {"throw"}) => Depth(cstack, Len(cstack)) < CLimit

CallInv == TypeOK /\ StackInv /\ FieldsInv /\ CountInv

-----------------------------------------------------------------------------
(* Least and greatest numbers, and sums as cardinalities.                  *)

LEMMA NatMin ==
  ASSUME NEW T \in SUBSET Nat, T # {} PROVE \E x \in T : \A y \in T : x <= y
<1> DEFINE R == OpToRel(<, Nat)
<1>1. \E x \in T : \A y \in T : ~(<<y, x>> \in R)
  <2>1. IsWellFoundedOn(R, Nat) BY NatLessThanWellFounded
  <2> HIDE DEF R
  <2> QED BY <2>1, WFMin
<1>2. \A x, y \in Nat : <<y, x>> \in R <=> y < x BY DEF OpToRel
<1> HIDE DEF R
<1>3. PICK x \in T : \A y \in T : ~(<<y, x>> \in R) BY <1>1
<1>4. \A y \in T : ~(y < x) BY <1>2, <1>3, Zenon
<1> QED BY <1>4

LEMMA BoundedMax ==
  ASSUME NEW n \in Nat, NEW T \in SUBSET (1 .. n), T # {}
  PROVE  Max(T) \in T /\ \A y \in T : y <= Max(T)
<1> DEFINE B == {x \in Nat : \A y \in T : y <= x}
<1>1. n \in B OBVIOUS
<1>2. PICK x \in B : \A y \in B : x <= y
  <2> HIDE DEF B
  <2>1. B \in SUBSET Nat BY DEF B
  <2> QED BY <1>1, <2>1, NatMin
<1>3. x \in T
  <2>1. SUFFICES ASSUME x \notin T PROVE FALSE OBVIOUS
  <2>2. PICK y \in T : TRUE OBVIOUS
  <2>3. y \in 1 .. n /\ y <= x BY <2>2
  <2>4. x - 1 \in B BY <2>1, <2>3
  <2> QED BY <1>2, <2>4
<1>4. \E z \in T : \A y \in T : z >= y BY <1>3
<1>5. Max(T) \in T /\ \A y \in T : Max(T) >= y BY <1>4 DEF Max
<1> QED BY <1>5

LEMMA MaxIs ==
  ASSUME NEW n \in Nat, NEW T \in SUBSET (1 .. n), NEW x \in T, \A y \in T : y <= x
  PROVE  Max(T) = x
<1>1. Max(T) \in T /\ \A y \in T : y <= Max(T) BY BoundedMax
<1>2. Max(T) \in 1 .. n BY <1>1
<1>3. x \in 1 .. n OBVIOUS
<1>4. Max(T) <= x BY <1>1
<1>5. x <= Max(T) BY <1>1
<1> HIDE DEF Max
<1> QED BY <1>2, <1>3, <1>4, <1>5

Units(f, n) == UNION {{j} \X (1 .. f[j]) : j \in 1 .. n}

LEMMA UnitsStep ==
  ASSUME NEW f, NEW n \in Nat \ {0}
  PROVE  Units(f, n) = Units(f, n - 1) \cup ({n} \X (1 .. f[n]))
<1>1. 1 .. n = (1 .. n - 1) \cup {n} OBVIOUS
<1> QED BY <1>1, Zenon DEF Units

LEMMA ColumnCard ==
  ASSUME NEW k \in Nat, NEW v \in Nat
  PROVE  IsFiniteSet({k} \X (1 .. v)) /\ Cardinality({k} \X (1 .. v)) = v
<1>1. IsFiniteSet({k}) /\ Cardinality({k}) = 1 BY FS_Singleton
<1>2. IsFiniteSet(1 .. v) /\ Cardinality(1 .. v) = v BY FS_Interval
<1>3. Cardinality({k} \X (1 .. v)) = Cardinality({k}) * Cardinality(1 .. v) /\ IsFiniteSet({k} \X (1 .. v))
  BY <1>1, <1>2, FS_Product, Zenon
<1> QED BY <1>1, <1>2, <1>3

LEMMA UnitsFinite ==
  ASSUME NEW f, NEW n \in Nat, \A j \in 1 .. n : f[j] \in Nat
  PROVE  IsFiniteSet(Units(f, n))
<1> DEFINE Bad == {x \in 0 .. n : ~IsFiniteSet(Units(f, x))}
<1>1. SUFFICES ASSUME Bad # {} PROVE FALSE OBVIOUS
<1>2. PICK x \in Bad : \A y \in Bad : x <= y
  <2>1. Bad \in SUBSET Nat OBVIOUS
  <2> HIDE DEF Bad
  <2> QED BY <1>1, <2>1, NatMin
<1>3. x # 0
  <2>1. Units(f, 0) = {} BY DEF Units
  <2> QED BY <2>1, FS_EmptySet
<1>4. x - 1 \notin Bad /\ x - 1 \in 0 .. n /\ x \in Nat \ {0} BY <1>2, <1>3
<1>5. IsFiniteSet(Units(f, x - 1)) BY <1>4
<1>6. IsFiniteSet({x} \X (1 .. f[x])) BY <1>4, ColumnCard
<1>7. IsFiniteSet(Units(f, x)) 
  <2>1. IsFiniteSet(Units(f, x - 1) \cup ({x} \X (1 .. f[x]))) BY <1>5, <1>6, FS_Union, Zenon
  <2> QED BY <1>4, <2>1, UnitsStep
<1> QED BY <1>7

LEMMA TotalStep ==
  ASSUME NEW f, NEW n \in Nat \ {0}, \A j \in 1 .. n : f[j] \in Nat
  PROVE  /\ Total(f, n - 1) \in Nat
         /\ Total(f, n) = Total(f, n - 1) + f[n]
<1> DEFINE A == Units(f, n - 1)
           B == {n} \X (1 .. f[n])
<1>1. IsFiniteSet(A) BY UnitsFinite
<1>2. IsFiniteSet(B) /\ Cardinality(B) = f[n] BY ColumnCard
<1>3. A \cap B = {}
  <2>1. n \notin 1 .. n - 1 OBVIOUS
  <2>2. ASSUME NEW z \in A, z \in B PROVE FALSE
    <3>1. PICK j \in 1 .. n - 1 : z \in {j} \X (1 .. f[j]) BY DEF Units
    <3>2. z[1] = j /\ z[1] = n BY <2>2, <3>1
    <3> QED BY <2>1, <3>2
  <2> QED BY <2>2
<1>4. Cardinality(A \cup B) = Cardinality(A) + Cardinality(B) - Cardinality({})
  BY <1>1, <1>2, <1>3, FS_Union
<1>5. Cardinality({}) = 0 /\ Cardinality(A) \in Nat BY <1>1, FS_EmptySet, FS_CardinalityType
<1>6. Total(f, n) = Cardinality(A \cup B) /\ Total(f, n - 1) = Cardinality(A)
  BY UnitsStep DEF Total, Units
<1> QED BY <1>2, <1>4, <1>5, <1>6

LEMMA TotalZero == ASSUME NEW f PROVE Total(f, 0) = 0
<1>1. Units(f, 0) = {} BY DEF Units
<1> QED BY <1>1, FS_EmptySet DEF Total, Units

\* A sum only depends on the terms that are not 0.
LEMMA TotalCut ==
  ASSUME NEW f, NEW m \in Nat, NEW a \in Nat, m <= a, \A j \in m + 1 .. a : f[j] = 0
  PROVE  Total(f, a) = Total(f, m)
<1>1. \A j \in 1 .. a : j \in 1 .. m \/ (1 .. f[j] = {}) OBVIOUS
<1>2. \A j \in 1 .. m : j \in 1 .. a OBVIOUS
<1>3. Units(f, a) = Units(f, m) BY <1>1, <1>2, Zenon DEF Units
<1> QED BY <1>3 DEF Total, Units

LEMMA TotalPrefix ==
  ASSUME NEW f, NEW g, NEW m \in Nat, \A j \in 1 .. m : f[j] = g[j]
  PROVE  Total(f, m) = Total(g, m)
<1>1. Units(f, m) = Units(g, m) BY Zenon DEF Units
<1> QED BY <1>1 DEF Total, Units

LEMMA TotalMonotone ==
  ASSUME NEW f, NEW a \in Nat, NEW b \in Nat, a <= b, \A j \in 1 .. b : f[j] \in Nat
  PROVE  /\ Total(f, a) \in Nat /\ Total(f, b) \in Nat
         /\ Total(f, a) <= Total(f, b)
<1>1. \A j \in 1 .. a : j \in 1 .. b OBVIOUS
<1>2. Units(f, a) \in SUBSET Units(f, b) BY <1>1, Zenon DEF Units
<1>3. IsFiniteSet(Units(f, a)) /\ IsFiniteSet(Units(f, b)) BY <1>1, UnitsFinite
<1>4. Cardinality(Units(f, a)) <= Cardinality(Units(f, b)) BY <1>2, <1>3, FS_Subset
<1>5. Cardinality(Units(f, a)) \in Nat /\ Cardinality(Units(f, b)) \in Nat BY <1>3, FS_CardinalityType
<1> QED BY <1>4, <1>5 DEF Total, Units

-----------------------------------------------------------------------------
(* What the first activations of a stack stand for.                        *)

LEMMA ActNat ==
  ASSUME NEW s \in Seq(Activation), NEW i \in 1 .. Len(s)
  PROVE  /\ s[i] \in Activation
         /\ FramesIn(s[i]) \in Nat /\ DepthOf(s[i]) \in Nat
<1>1. s[i] \in Activation BY ElementOfSeq
<1>2. s[i].n \in Nat BY <1>1 DEF Activation
<1> QED BY <1>1, <1>2 DEF FramesIn, DepthOf

LEMMA DepthStep ==
  ASSUME NEW s \in Seq(Activation), NEW i \in 1 .. Len(s)
  PROVE  /\ Depth(s, i - 1) \in Nat /\ DepthOf(s[i]) \in Nat
         /\ Depth(s, i) = Depth(s, i - 1) + DepthOf(s[i])
<1> DEFINE f == [j \in DOMAIN s |-> DepthOf(s[j])]
<1>1. \A j \in 1 .. i : f[j] = DepthOf(s[j]) /\ f[j] \in Nat BY ActNat
<1>2. i \in Nat \ {0} /\ i \in 1 .. i OBVIOUS
<1> HIDE DEF f
<1>3. Total(f, i - 1) \in Nat /\ Total(f, i) = Total(f, i - 1) + f[i] BY <1>1, <1>2, TotalStep
<1> QED BY <1>1, <1>2, <1>3 DEF Depth, f

LEMMA DepthMonotone ==
  ASSUME NEW s \in Seq(Activation), NEW a \in 0 .. Len(s), NEW b \in a .. Len(s)
  PROVE  /\ Depth(s, a) \in Nat /\ Depth(s, b) \in Nat
         /\ Depth(s, a) <= Depth(s, b)
<1> DEFINE f == [j \in DOMAIN s |-> DepthOf(s[j])]
<1>1. \A j \in 1 .. b : f[j] \in Nat BY ActNat
<1>2. a \in Nat /\ b \in Nat /\ a <= b OBVIOUS
<1> HIDE DEF f
<1>3. Total(f, a) \in Nat /\ Total(f, b) \in Nat /\ Total(f, a) <= Total(f, b)
  BY <1>1, <1>2, TotalMonotone
<1> QED BY <1>3 DEF Depth, f

LEMMA LevelStep ==
  ASSUME NEW s \in Seq(Activation), NEW t, NEW i \in 1 .. Len(s)
  PROVE  /\ Level(s, t, i - 1) \in Nat /\ FramesIn(s[i]) \in Nat
         /\ Level(s, t, i) = Level(s, t, i - 1) + (IF s[i].th = t THEN FramesIn(s[i]) ELSE 0)
<1> DEFINE f == [j \in DOMAIN s |-> IF s[j].th = t THEN FramesIn(s[j]) ELSE 0]
<1>1. \A j \in 1 .. i : f[j] = (IF s[j].th = t THEN FramesIn(s[j]) ELSE 0) /\ f[j] \in Nat BY ActNat
<1>2. i \in Nat \ {0} /\ i \in 1 .. i OBVIOUS
<1> HIDE DEF f
<1>3. Total(f, i - 1) \in Nat /\ Total(f, i) = Total(f, i - 1) + f[i] BY <1>1, <1>2, TotalStep
<1>4. FramesIn(s[i]) \in Nat BY ActNat
<1> QED BY <1>1, <1>2, <1>3, <1>4 DEF Level, f

LEMMA LevelMonotone ==
  ASSUME NEW s \in Seq(Activation), NEW t, NEW a \in 0 .. Len(s), NEW b \in a .. Len(s)
  PROVE  /\ Level(s, t, a) \in Nat /\ Level(s, t, b) \in Nat
         /\ Level(s, t, a) <= Level(s, t, b)
<1> DEFINE f == [j \in DOMAIN s |-> IF s[j].th = t THEN FramesIn(s[j]) ELSE 0]
<1>1. \A j \in 1 .. b : f[j] \in Nat BY ActNat
<1>2. a \in Nat /\ b \in Nat /\ a <= b OBVIOUS
<1> HIDE DEF f
<1>3. Total(f, a) \in Nat /\ Total(f, b) \in Nat /\ Total(f, a) <= Total(f, b)
  BY <1>1, <1>2, TotalMonotone
<1> QED BY <1>3 DEF Level, f

LEMMA StackStart ==
  ASSUME NEW s, NEW t PROVE Depth(s, 0) = 0 /\ Level(s, t, 0) = 0
BY TotalZero DEF Depth, Level

\* Two stacks with the same first m activations.
Agree(s, r, m) == m <= Len(s) /\ m <= Len(r) /\ \A j \in 1 .. m : s[j] = r[j]

LEMMA DepthAgree ==
  ASSUME NEW s \in Seq(Activation), NEW r \in Seq(Activation), NEW m \in Nat, Agree(s, r, m),
         NEW i \in 0 .. m
  PROVE  Depth(s, i) = Depth(r, i)
<1> DEFINE f == [j \in DOMAIN s |-> DepthOf(s[j])]
           g == [j \in DOMAIN r |-> DepthOf(r[j])]
<1>1. \A j \in 1 .. i : f[j] = g[j] BY DEF Agree
<1> HIDE DEF f, g
<1>3. Total(f, i) = Total(g, i) BY <1>1, TotalPrefix
<1> QED BY <1>3 DEF Depth, f, g

\* The same first m activations, and no others of thread t up to a and b.
LEMMA LevelAgree ==
  ASSUME NEW s \in Seq(Activation), NEW r \in Seq(Activation), NEW m \in Nat, Agree(s, r, m),
         NEW t, NEW a \in m .. Len(s), NEW b \in m .. Len(r),
         \A j \in m + 1 .. a : s[j].th # t, \A j \in m + 1 .. b : r[j].th # t
  PROVE  Level(s, t, a) = Level(r, t, b)
<1> DEFINE f == [j \in DOMAIN s |-> IF s[j].th = t THEN FramesIn(s[j]) ELSE 0]
           g == [j \in DOMAIN r |-> IF r[j].th = t THEN FramesIn(r[j]) ELSE 0]
<1>1. \A j \in 1 .. m : f[j] = g[j] BY DEF Agree
<1>2. (\A j \in m + 1 .. a : f[j] = 0) /\ (\A j \in m + 1 .. b : g[j] = 0) BY DEF Agree
<1>3. a \in Nat /\ b \in Nat /\ m <= a /\ m <= b OBVIOUS
<1> HIDE DEF f, g
<1>4. Total(f, a) = Total(g, b)
  <2>1. Total(f, a) = Total(f, m) BY <1>2, <1>3, TotalCut
  <2>2. Total(g, b) = Total(g, m) BY <1>2, <1>3, TotalCut
  <2>3. Total(f, m) = Total(g, m) BY <1>1, TotalPrefix
  <2> QED BY <2>1, <2>2, <2>3
<1> QED BY <1>4 DEF Level, f, g

LEMMA HookedStep ==
  ASSUME NEW s, NEW t, NEW i \in Nat \ {0}
  PROVE  Hooked(s, t, i) <=> Hooked(s, t, i - 1) \/ (s[i].th = t /\ Disables(s[i]))
BY DEF Hooked

LEMMA HookedAgree ==
  ASSUME NEW s, NEW r, NEW m \in Nat, Agree(s, r, m),
         NEW t, NEW a \in Nat, NEW b \in Nat, m <= a, m <= b,
         \A j \in m + 1 .. a : s[j].th # t, \A j \in m + 1 .. b : r[j].th # t
  PROVE  Hooked(s, t, a) <=> Hooked(r, t, b)
BY DEF Hooked, Agree

LEMMA InForceStep ==
  ASSUME NEW s, NEW t, NEW i \in Nat \ {0}, NEW h
  PROVE  InForce(s, t, i, h) <=> IF PcallOf(s[i], t) THEN h = s[i].why ELSE InForce(s, t, i - 1, h)
<1> DEFINE P(p) == PcallOf(s[p], t)
           W(p) == s[p].why
<1>1. InForce(s, t, i, h) <=>
        \/ h = "none" /\ \A j \in 1 .. i : ~P(j)
        \/ \E p \in 1 .. i : P(p) /\ h = W(p) /\ \A j \in p + 1 .. i : ~P(j)
  BY DEF InForce
<1>2. InForce(s, t, i - 1, h) <=>
        \/ h = "none" /\ \A j \in 1 .. i - 1 : ~P(j)
        \/ \E p \in 1 .. i - 1 : P(p) /\ h = W(p) /\ \A j \in p + 1 .. i - 1 : ~P(j)
  BY DEF InForce
<1> HIDE DEF P, W
<1>3. CASE P(i)
  <2>1. InForce(s, t, i, h) <=> h = W(i) BY <1>1, <1>3
  <2> QED BY <1>3, <2>1 DEF P, W
<1>4. CASE ~P(i)
  <2>1. InForce(s, t, i, h) <=> InForce(s, t, i - 1, h) BY <1>1, <1>2, <1>4
  <2> QED BY <1>4, <2>1 DEF P
<1> QED BY <1>3, <1>4

LEMMA InForceAgree ==
  ASSUME NEW s, NEW r, NEW m \in Nat, Agree(s, r, m),
         NEW t, NEW a \in Nat, NEW b \in Nat, m <= a, m <= b,
         \A j \in m + 1 .. a : s[j].th # t, \A j \in m + 1 .. b : r[j].th # t,
         NEW h, InForce(s, t, a, h)
  PROVE  InForce(r, t, b, h)
<1>1. \A j \in m + 1 .. b : ~PcallOf(r[j], t) BY DEF PcallOf
<1>2. \A j \in m + 1 .. a : ~PcallOf(s[j], t) BY DEF PcallOf
<1>3. \A j \in 1 .. m : s[j] = r[j] BY DEF Agree
<1>4. CASE h = "none" /\ \A j \in 1 .. a : ~PcallOf(s[j], t)
  <2>1. \A j \in 1 .. b : ~PcallOf(r[j], t) BY <1>1, <1>3, <1>4
  <2> QED BY <1>4, <2>1 DEF InForce
<1>5. ASSUME NEW p \in 1 .. a, PcallOf(s[p], t), h = s[p].why, \A j \in p + 1 .. a : ~PcallOf(s[j], t)
      PROVE  InForce(r, t, b, h)
  <2>1. p \in 1 .. m BY <1>2, <1>5
  <2>2. PcallOf(r[p], t) /\ h = r[p].why BY <1>3, <1>5, <2>1
  <2>3. \A j \in p + 1 .. b : ~PcallOf(r[j], t) BY <1>1, <1>3, <1>5, <2>1
  <2>4. p \in 1 .. b BY <2>1
  <2> QED BY <2>2, <2>3, <2>4 DEF InForce
<1> QED BY <1>4, <1>5 DEF InForce

\* The frames of a thread with no activation above the m-th are as they were.
LEMMA FramesAgree ==
  ASSUME NEW s \in Seq(Activation), NEW r \in Seq(Activation), NEW m \in Nat, Agree(s, r, m),
         NEW t, NEW a \in m .. Len(s), NEW b \in m .. Len(r),
         \A j \in m + 1 .. a : s[j].th # t, \A j \in m + 1 .. b : r[j].th # t,
         NEW fs, FramesRight(s, t, a, fs)
  PROVE  FramesRight(r, t, b, fs)
<1>1. Level(s, t, a) = Level(r, t, b) BY LevelAgree
<1>2. ASSUME NEW j \in 1 .. b, r[j].th = t, NEW x \in 1 .. FramesIn(r[j])
      PROVE  fs[Level(r, t, j - 1) + x] = FrameOf(r[j])
  <2>1. j \in 1 .. m BY <1>2
  <2>2. s[j] = r[j] /\ j \in 1 .. a BY <2>1 DEF Agree
  <2>3. j - 1 \in Nat /\ Agree(s, r, j - 1) BY <2>1 DEF Agree
  <2>4. Level(s, t, j - 1) = Level(r, t, j - 1)
    <3>1. j - 1 \in (j - 1) .. Len(s) /\ j - 1 \in (j - 1) .. Len(r) /\ (j - 1) + 1 .. j - 1 = {}
      BY <2>1, <2>3 DEF Agree
    <3> QED BY ONLY <2>3, <3>1, LevelAgree, s \in Seq(Activation), r \in Seq(Activation)
  <2> QED BY <1>2, <2>2, <2>4 DEF FramesRight
<1> QED BY <1>1, <1>2 DEF FramesRight

\* gs is the first l elements of fs and k times f.
Extends(gs, fs, l, k, f) ==
    /\ Len(gs) = l + k
    /\ \A x \in 1 .. l : gs[x] = fs[x]
    /\ \A x \in 1 .. k : gs[l + x] = f

\* Cutting the stack at m and then adding one activation of t.
LEMMA FramesTop ==
  ASSUME NEW s \in Seq(Activation), NEW r \in Seq(Activation), NEW m \in Nat, Agree(s, r, m),
         m + 1 <= Len(r), NEW t, NEW n \in m .. Len(s), NEW fs, FramesRight(s, t, n, fs),
         r[m + 1].th = t,
         NEW gs, Extends(gs, fs, Level(s, t, m), FramesIn(r[m + 1]), FrameOf(r[m + 1]))
  PROVE  FramesRight(r, t, m + 1, gs)
<1> USE DEF Extends
<1>1. ASSUME NEW j \in 0 .. m PROVE Level(s, t, j) = Level(r, t, j)
  <2>1. j \in Nat /\ Agree(s, r, j) BY DEF Agree
  <2>2. j \in j .. Len(s) /\ j \in j .. Len(r) /\ j + 1 .. j = {} BY DEF Agree
  <2> QED BY <2>1, <2>2, LevelAgree
<1>2. Level(r, t, m + 1) = Level(s, t, m) + FramesIn(r[m + 1])
  <2>1. m + 1 \in 1 .. Len(r) /\ m + 1 - 1 = m BY DEF Agree
  <2> QED BY <1>1, <2>1, LevelStep
<1>3. ASSUME NEW j \in 1 .. m + 1, r[j].th = t, NEW x \in 1 .. FramesIn(r[j])
      PROVE  gs[Level(r, t, j - 1) + x] = FrameOf(r[j])
  <2>1. CASE j = m + 1 BY <1>1, <1>3, <2>1
  <2>2. CASE j \in 1 .. m
    <3>1. s[j] = r[j] /\ j \in 1 .. n /\ j \in 1 .. Len(s) BY <2>2 DEF Agree
    <3>2. fs[Level(s, t, j - 1) + x] = FrameOf(s[j]) BY <1>3, <3>1 DEF FramesRight
    <3>3. Level(s, t, j) = Level(s, t, j - 1) + FramesIn(s[j]) /\ Level(s, t, j - 1) \in Nat
      <4>1. s[j].th = t BY <1>3, <3>1
      <4> QED BY <3>1, <4>1, LevelStep
    <3>4. Level(s, t, j) <= Level(s, t, m)
      <4>1. j \in 0 .. Len(s) /\ m \in j .. Len(s) BY <2>2, <3>1 DEF Agree
      <4> QED BY <4>1, LevelMonotone
    <3>5. Level(s, t, m) \in Nat
      <4>1. m \in 0 .. Len(s) /\ m \in m .. Len(s) BY DEF Agree
      <4> QED BY <4>1, LevelMonotone
    <3>6. FramesIn(s[j]) \in Nat BY <3>1, ActNat
    <3>7. Level(s, t, j - 1) + x \in 1 .. Level(s, t, m)
      BY ONLY <1>3, <3>1, <3>3, <3>4, <3>5, <3>6
    <3>8. Level(r, t, j - 1) = Level(s, t, j - 1) BY <1>1, <2>2
    <3> QED BY <3>1, <3>2, <3>7, <3>8
  <2> QED BY <2>1, <2>2
<1> QED BY <1>2, <1>3 DEF FramesRight

\* An activation that stands for no frame of t changes nothing.
LEMMA FramesSkip ==
  ASSUME NEW s \in Seq(Activation), NEW t, NEW i \in 1 .. Len(s), NEW fs,
         s[i].th = t => FramesIn(s[i]) = 0
  PROVE  FramesRight(s, t, i, fs) <=> FramesRight(s, t, i - 1, fs)
<1>1. Level(s, t, i) = Level(s, t, i - 1) BY LevelStep
<1>2. 1 .. i = (1 .. i - 1) \cup {i} OBVIOUS
<1>3. s[i].th = t => 1 .. FramesIn(s[i]) = {} OBVIOUS
<1> QED BY <1>1, <1>2, <1>3 DEF FramesRight

LEMMA SoundAgree ==
  ASSUME NEW s \in Seq(Activation), NEW r \in Seq(Activation), NEW m \in Nat, Agree(s, r, m),
         NEW i \in 1 .. m, Sound(s, i)
  PROVE  Sound(r, i)
<1> DEFINE t == s[i].th
<1>1. s[i] = r[i] /\ (i > 1 => s[i - 1] = r[i - 1]) /\ \A j \in 1 .. i - 1 : s[j] = r[j]
  BY DEF Agree
<1>2. i - 1 \in Nat /\ Agree(s, r, i - 1) /\ i \in 0 .. m /\ i - 1 \in 0 .. m BY DEF Agree
<1>3. Depth(s, i) = Depth(r, i) /\ Depth(s, i - 1) = Depth(r, i - 1) BY <1>2, DepthAgree
<1>4. i - 1 \in (i - 1) .. Len(s) /\ i - 1 \in (i - 1) .. Len(r) /\ (i - 1) + 1 .. i - 1 = {}
      /\ i - 1 <= i - 1
  BY <1>2 DEF Agree
<1>5. Level(s, t, i - 1) = Level(r, t, i - 1) BY <1>2, <1>4, LevelAgree
<1>6. Hooked(s, t, i - 1) <=> Hooked(r, t, i - 1) BY <1>2, <1>4, HookedAgree
<1>7. \A h : InForce(s, t, i - 1, h) => InForce(r, t, i - 1, h) BY <1>2, <1>4, InForceAgree
<1>8. Keeps(r, i)
  <2>1. Keeps(s, i) BY DEF Sound
  <2> QED BY <1>1, <1>3, <1>5, <1>6, <1>7, <2>1 DEF Keeps
<1> QED BY <1>1, <1>3, <1>8 DEF Sound

-----------------------------------------------------------------------------
(* The shape of the stack.                                                 *)

SoundStack(s) == \A i \in 1 .. Len(s) : Sound(s, i)

\* A change of thread is a resume.
LEMMA Switch ==
  ASSUME NEW s \in Seq(Activation), SoundStack(s), NEW a \in 1 .. Len(s), NEW b \in a .. Len(s),
         NEW t, s[a].th # t, s[b].th = t
  PROVE  \E k \in a + 1 .. b : s[k].k = "resume" /\ s[k].th = t
<1> DEFINE T == {j \in a .. b : s[j].th = t}
<1>1. T \in SUBSET Nat /\ b \in T OBVIOUS
<1>2. PICK k \in T : \A j \in T : k <= j
  <2> HIDE DEF T
  <2> QED BY <1>1, NatMin
<1>3. k \in a + 1 .. b /\ s[k].th = t BY <1>2
<1>4. s[k - 1].th # t BY <1>2, <1>3
<1>5. Above(s[k - 1], s[k]) BY <1>3 DEF SoundStack, Sound
<1>6. s[k].k = "resume" BY <1>3, <1>4, <1>5 DEF Above
<1> QED BY <1>3, <1>6

LEMMA NoResumeSameThread ==
  ASSUME NEW s \in Seq(Activation), SoundStack(s), NEW a \in 1 .. Len(s), NEW b \in a .. Len(s),
         \A k \in a + 1 .. b : s[k].k # "resume"
  PROVE  s[b].th = s[a].th
BY Switch

\* The activations of a thread are contiguous.
LEMMA Contiguous ==
  ASSUME NEW s \in Seq(Activation), SoundStack(s), NEW a \in 1 .. Len(s), NEW k \in a + 1 .. Len(s),
         s[k].k = "resume", NEW b \in k .. Len(s)
  PROVE  s[b].th # s[a].th
<1>1. SUFFICES ASSUME s[b].th = s[a].th PROVE FALSE OBVIOUS
<1>2. s[k].th # s[a].th BY DEF SoundStack, Sound
<1>3. k \in 1 .. Len(s) OBVIOUS
<1>4. PICK j \in k + 1 .. b : s[j].k = "resume" /\ s[j].th = s[a].th
  <2>1. s[b].th = s[a].th BY <1>1
  <2> QED BY <1>2, <1>3, <2>1, Switch
<1>5. j \in 1 .. Len(s) /\ a \in 1 .. j - 1 BY <1>4
<1>6. s[a].th # s[j].th BY <1>4, <1>5 DEF SoundStack, Sound
<1> QED BY <1>4, <1>6

\* A coroutine on the stack was resumed.
LEMMA Resumed ==
  ASSUME NEW s \in Seq(Activation), SoundStack(s), NEW b \in 1 .. Len(s), s[b].th # "main"
  PROVE  \E k \in 2 .. b : s[k].k = "resume" /\ s[k].th = s[b].th
<1>1. 1 \in 1 .. Len(s) /\ b \in 1 .. Len(s) OBVIOUS
<1>2. s[1].th # s[b].th BY <1>1 DEF SoundStack, Sound
<1> QED BY <1>1, <1>2, Switch

\* The newest activation of a thread that is not on top called resume.
LEMMA Waits ==
  ASSUME NEW s \in Seq(Activation), SoundStack(s), NEW l \in 1 .. Len(s),
         \A j \in l + 1 .. Len(s) : s[j].th # s[l].th
  PROVE  Newest(s, l) /\ (l < Len(s) => s[l].k \in {"C", "host"})
<1>1. CASE l = Len(s) BY <1>1 DEF Newest
<1>2. CASE l < Len(s)
  <2>1. l + 1 \in 2 .. Len(s) /\ s[l + 1].th # s[l].th /\ (l + 1) - 1 = l BY <1>2
  <2>2. Above(s[l], s[l + 1]) BY <2>1 DEF SoundStack, Sound
  <2> QED BY <2>1, <2>2 DEF Above, Newest
<1> QED BY <1>1, <1>2

-----------------------------------------------------------------------------
(* A step of the running thread alone.                                     *)

\* Thread t, with these fields, is on top of the stack s.
TopRight(s, t, d, fs, hook, h, us) ==
    /\ d = Depth(s, Len(s)) /\ d <= CLimit
    /\ s[Len(s)].k # "throw" => d < CLimit
    /\ FramesRight(s, t, Len(s), fs)
    /\ hook = TRUE <=> ~Hooked(s, t, Len(s))
    /\ InForce(s, t, Len(s), h)
    /\ Live(fs, us)

LEMMA TopFacts ==
  ASSUME CallInv, cstack # <<>>
  PROVE  /\ Len(cstack) \in 1 .. Len(cstack) /\ Len(cstack) \in Nat
         /\ Top = cstack[Len(cstack)] /\ Top \in Activation /\ L = Top.th /\ L \in Thread /\ L \in OnStack
         /\ SoundStack(cstack)
         /\ status[L] = "ok" /\ life[L] = "started"
         /\ TopRight(cstack, L, nCcalls[L], ci[L], allowhook[L], errfunc[L], openupval[L])
<1> USE DEF CallInv
<1>1. cstack \in Seq(Activation) BY DEF TypeOK
<1>2. Len(cstack) \in Nat \ {0} BY <1>1, EmptySeq
<1>3. DOMAIN cstack = 1 .. Len(cstack) BY <1>1
<1>4. Top = cstack[Len(cstack)] BY DEF Top, Last
<1>5. Top \in Activation BY <1>1, <1>2, <1>4, ElementOfSeq
<1>6. L = Top.th /\ L \in Thread BY <1>5 DEF L, Activation
<1>7. L \in OnStack BY <1>2, <1>3, <1>4, <1>6 DEF OnStack
<1>8. Active(L) BY <1>7 DEF FieldsInv
<1>9. nCcalls[L] = Depth(cstack, Len(cstack)) BY <1>2, <1>4, <1>6 DEF CountInv, Newest
<1>10. Top.k # "throw" => Depth(cstack, Len(cstack)) < CLimit BY <1>5 DEF CountInv, Running, Activation
<1>11. Depth(cstack, Len(cstack)) <= CLimit BY DEF CountInv
<1>12. TopRight(cstack, L, nCcalls[L], ci[L], allowhook[L], errfunc[L], openupval[L])
  BY <1>4, <1>8, <1>9, <1>10, <1>11 DEF TopRight, Active
<1>13. SoundStack(cstack) BY DEF StackInv, SoundStack
<1>14. status[L] = "ok" /\ life[L] = "started" BY <1>8 DEF Active
<1> QED BY <1>2, <1>4, <1>5, <1>6, <1>7, <1>12, <1>13, <1>14

LEMMA OneThread ==
  ASSUME CallInv, TypeOK', cstack # <<>>, NEW t, t = L,
         NEW m \in 1 .. Len(cstack), Agree(cstack, cstack', m),
         \A j \in m + 1 .. Len(cstack) : cstack[j].k # "resume",
         \A j \in m + 1 .. Len(cstack') : Sound(cstack', j) /\ cstack'[j].k # "resume",
         \A u \in Thread \ {t} : /\ ci'[u] = ci[u] /\ allowhook'[u] = allowhook[u]
                                 /\ errfunc'[u] = errfunc[u] /\ openupval'[u] = openupval[u]
                                 /\ nCcalls'[u] = nCcalls[u],
         UNCHANGED coVars,
         TopRight(cstack', t, nCcalls'[t], ci'[t], allowhook'[t], errfunc'[t], openupval'[t])
  PROVE  CallInv'
<1> DEFINE s == cstack
           r == cstack'
<1>1. /\ s \in Seq(Activation) /\ r \in Seq(Activation) /\ Len(s) \in Nat /\ Len(r) \in Nat
      /\ DOMAIN s = 1 .. Len(s) /\ DOMAIN r = 1 .. Len(r)
  BY DEF CallInv, TypeOK
<1>2. /\ Len(s) \in 1 .. Len(s) /\ t = s[Len(s)].th /\ t \in Thread /\ t \in OnStack /\ SoundStack(s)
      /\ status[t] = "ok" /\ life[t] = "started"
  BY TopFacts
<1>3. SoundStack(r)
  <2>1. ASSUME NEW i \in 1 .. Len(r) PROVE Sound(r, i)
    <3>1. CASE i \in 1 .. m
      <4>1. Sound(s, i) BY <1>2, <3>1 DEF SoundStack, Agree
      <4> QED BY <1>1, <3>1, <4>1, SoundAgree
    <3>2. CASE i \in m + 1 .. Len(r) BY <3>2
    <3> QED BY <3>1, <3>2
  <2> QED BY <2>1 DEF SoundStack
<1>4. \A j \in m .. Len(s) : s[j].th = t
  <2>1. s[m].th = t
    <3>1. Len(s) \in m .. Len(s) OBVIOUS
    <3> QED BY <1>1, <1>2, <3>1, NoResumeSameThread
  <2> TAKE j \in m .. Len(s)
  <2>2. \A k \in m + 1 .. j : s[k].k # "resume" OBVIOUS
  <2> QED BY <1>1, <1>2, <2>1, <2>2, NoResumeSameThread
<1>5. \A j \in m .. Len(r) : r[j].th = t
  <2>1. r[m].th = t BY <1>4 DEF Agree
  <2> TAKE j \in m .. Len(r)
  <2>2. (\A k \in m + 1 .. j : r[k].k # "resume") /\ m \in 1 .. Len(r) BY DEF Agree
  <2> QED BY <1>1, <1>3, <2>1, <2>2, NoResumeSameThread
<1>6. m \in Nat /\ m <= Len(s) /\ m <= Len(r) /\ Len(s) \in m .. Len(s) /\ Len(r) \in m .. Len(r) /\ Len(r) \in 1 .. Len(r)
  BY <1>1 DEF Agree
<1>7. OnStack' = OnStack
  <2>1. OnStack = {s[j].th : j \in 1 .. Len(s)} /\ OnStack' = {r[j].th : j \in 1 .. Len(r)} BY <1>1 DEF OnStack
  <2>2. \A j \in 1 .. Len(s) : \E k \in 1 .. Len(r) : s[j].th = r[k].th
    <3> TAKE j \in 1 .. Len(s)
    <3>1. CASE j \in 1 .. m BY <1>6, <3>1 DEF Agree
    <3>2. CASE j \in m .. Len(s) BY <1>4, <1>5, <1>6, <3>2
    <3> QED BY <3>1, <3>2
  <2>3. \A j \in 1 .. Len(r) : \E k \in 1 .. Len(s) : s[k].th = r[j].th
    <3> TAKE j \in 1 .. Len(r)
    <3>1. CASE j \in 1 .. m BY <1>6, <3>1 DEF Agree
    <3>2. CASE j \in m .. Len(r) BY <1>4, <1>5, <1>6, <3>2
    <3> QED BY <3>1, <3>2
  <2>4. OnStack \subseteq OnStack' BY <2>1, <2>2
  <2>5. OnStack' \subseteq OnStack BY <2>1, <2>3
  <2> QED BY <2>4, <2>5
<1>8. ASSUME NEW u \in OnStack PROVE Active(u)'
  <2>1. CASE u = t
    <3>1. status'[t] = "ok" /\ life'[t] = "started" BY <1>2 DEF coVars
    <3> QED BY <2>1, <3>1 DEF Active, TopRight
  <2>2. CASE u # t
    <3>1. Active(u) BY DEF CallInv, FieldsInv
    <3>2. u \in Thread
      <4>1. \A j \in 1 .. Len(s) : s[j].th \in Thread BY <1>1, ActNat DEF Activation
      <4> QED BY <1>1, <4>1 DEF OnStack
    <3>3. (\A j \in m + 1 .. Len(s) : s[j].th # u) /\ (\A j \in m + 1 .. Len(r) : r[j].th # u)
      BY <1>4, <1>5, <2>2
    <3>4. FramesRight(r, u, Len(r), ci[u]) BY <1>1, <1>6, <3>1, <3>3, FramesAgree DEF Active
    <3>5. Hooked(s, u, Len(s)) <=> Hooked(r, u, Len(r)) BY <1>1, <1>6, <3>3, HookedAgree
    <3>6. InForce(r, u, Len(r), errfunc[u]) BY <1>1, <1>6, <3>1, <3>3, InForceAgree DEF Active
    <3>7. /\ ci'[u] = ci[u] /\ allowhook'[u] = allowhook[u] /\ errfunc'[u] = errfunc[u]
          /\ openupval'[u] = openupval[u] /\ status'[u] = status[u] /\ life'[u] = life[u]
      BY <2>2, <3>2 DEF coVars
    <3> QED BY <3>1, <3>4, <3>5, <3>6, <3>7 DEF Active
  <2> QED BY <2>1, <2>2
<1>9. ASSUME NEW u \in Co \ OnStack PROVE Idle(u)'
  <2>1. u \in Thread \ {t} BY <1>2 DEF Thread
  <2>2. /\ ci'[u] = ci[u] /\ allowhook'[u] = allowhook[u] /\ errfunc'[u] = errfunc[u]
        /\ openupval'[u] = openupval[u] /\ status'[u] = status[u] /\ life'[u] = life[u] /\ cotop'[u] = cotop[u]
    BY <2>1 DEF coVars
  <2>3. Idle(u) BY DEF CallInv, FieldsInv
  <2> QED BY <2>2, <2>3 DEF Idle
<1>10. FieldsInv'
  <2>1. life'["main"] = "started" /\ baseCcalls'["main"] = 0 BY DEF CallInv, FieldsInv, coVars
  <2> QED BY <1>7, <1>8, <1>9, <2>1 DEF FieldsInv
<1>11. ASSUME NEW i \in 1 .. Len(r), Newest(r, i) PROVE nCcalls'[r[i].th] = Depth(r, i)
  <2>1. CASE i = Len(r) BY <1>5, <1>6, <2>1 DEF TopRight
  <2>2. CASE i < Len(r)
    <3>1. i + 1 \in 1 .. Len(r) /\ r[i + 1].k = "resume" BY <1>11, <2>2 DEF Newest
    <3>2. i + 1 \in 1 .. m BY <1>6, <3>1
    <3>3. s[i] = r[i] /\ s[i + 1].k = "resume" /\ i \in 1 .. Len(s) /\ i + 1 \in i + 1 .. Len(s) /\ i \in 0 .. m
      BY <1>6, <3>1, <3>2 DEF Agree
    <3>4. nCcalls[s[i].th] = Depth(s, i) BY <3>3 DEF CallInv, CountInv, Newest
    <3>5. s[i].th # t
      <4>1. Len(s) \in i + 1 .. Len(s) BY <3>3
      <4> QED BY <1>1, <1>2, <3>3, <4>1, Contiguous
    <3>6. s[i].th \in Thread BY <1>1, <3>3, ActNat DEF Activation
    <3>7. Depth(s, i) = Depth(r, i) BY <1>1, <1>6, <3>3, DepthAgree
    <3> QED BY <3>3, <3>4, <3>5, <3>6, <3>7
  <2> QED BY <2>1, <2>2
<1>12. ASSUME NEW i \in 1 .. Len(r), r[i].k = "resume" PROVE baseCcalls'[r[i].th] = Depth(r, i)
  <2>1. i \in 1 .. m BY <1>12
  <2>2. s[i] = r[i] /\ i \in 1 .. Len(s) /\ i \in 0 .. m BY <1>6, <2>1 DEF Agree
  <2>3. baseCcalls[s[i].th] = Depth(s, i) BY <1>12, <2>2 DEF CallInv, CountInv
  <2>4. Depth(s, i) = Depth(r, i) BY <1>1, <1>6, <2>2, DepthAgree
  <2> QED BY <2>2, <2>3, <2>4 DEF coVars
<1>13. CountInv'
  <2>1. Depth(r, Len(r)) <= CLimit BY DEF TopRight
  <2>2. Running(Kinds \ {"throw"})' => Depth(r, Len(r)) < CLimit BY DEF TopRight, Running, Top, Last
  <2> QED BY <1>11, <1>12, <2>1, <2>2 DEF CountInv
<1>14. StackInv' BY <1>3 DEF StackInv, SoundStack
<1> QED BY <1>10, <1>13, <1>14 DEF CallInv

-----------------------------------------------------------------------------
(* One activation more or less.                                            *)

\* Thread t, with these fields, is right for the first i activations of s.
RightAt(s, i, t, d, fs, hook, h) ==
    /\ d = Depth(s, i)
    /\ FramesRight(s, t, i, fs)
    /\ hook = TRUE <=> ~Hooked(s, t, i)
    /\ InForce(s, t, i, h)

LEMMA RightAgree ==
  ASSUME NEW s \in Seq(Activation), NEW r \in Seq(Activation), NEW m \in Nat, Agree(s, r, m),
         NEW i \in 0 .. m, NEW t, NEW d, NEW fs, NEW hook, NEW h, RightAt(s, i, t, d, fs, hook, h)
  PROVE  RightAt(r, i, t, d, fs, hook, h)
<1>1. i \in Nat /\ Agree(s, r, i) /\ i <= i BY DEF Agree
<1>2. i \in i .. Len(s) /\ i \in i .. Len(r) /\ i + 1 .. i = {} BY DEF Agree
<1>3. Depth(s, i) = Depth(r, i) BY DepthAgree
<1>4. FramesRight(r, t, i, fs) BY <1>1, <1>2, FramesAgree DEF RightAt
<1>5. Hooked(s, t, i) <=> Hooked(r, t, i) BY <1>1, <1>2, HookedAgree
<1>6. InForce(r, t, i, h) BY <1>1, <1>2, InForceAgree DEF RightAt
<1> QED BY <1>3, <1>4, <1>5, <1>6 DEF RightAt

\* Activation a of t, put where these are the fields of t, stands for no frame and
\* has saved what it must; the fields become e, hook2 and h2.
Saves(a, t, d, fs, hook, h) ==
    /\ a.th = t /\ a.k \notin {"resume", "exec", "C"}
    /\ a.k = "pcall" => /\ a.old.nCcalls = d /\ a.old.ci = Len(fs)
                        /\ a.old.allowhook = hook /\ a.old.errfunc = h
    /\ a.why = "gc" => a.k = "call" /\ a.old.allowhook = hook
    /\ a.k = "hook" => hook = TRUE
Sets(a, d, hook, h, e, hook2, h2) ==
    /\ e = d + DepthOf(a)
    /\ hook2 = TRUE <=> hook = TRUE /\ ~Disables(a)
    /\ h2 = IF a.k = "pcall" THEN a.why ELSE h

LEMMA AddOne ==
  ASSUME NEW r \in Seq(Activation), NEW i \in 2 .. Len(r), NEW t, NEW d, NEW fs, NEW hook, NEW h,
         RightAt(r, i - 1, t, d, fs, hook, h), Above(r[i - 1], r[i]), Saves(r[i], t, d, fs, hook, h),
         NEW e, NEW hook2, NEW h2, Sets(r[i], d, hook, h, e, hook2, h2)
  PROVE  Sound(r, i) /\ RightAt(r, i, t, e, fs, hook2, h2)
<1> USE DEF Saves, Sets
<1>1. i \in Nat \ {0} /\ i \in 1 .. Len(r) /\ i # 1 OBVIOUS
<1>2. r[i].k # "host" BY DEF Above
<1>3. Depth(r, i) = e BY <1>1, DepthStep DEF RightAt
<1>4. FramesIn(r[i]) = 0 BY DEF FramesIn
<1>5. FramesRight(r, t, i, fs) BY <1>1, <1>4, FramesSkip DEF RightAt
<1>6. hook2 = TRUE <=> ~Hooked(r, t, i) BY <1>1, HookedStep DEF RightAt
<1>7. InForce(r, t, i, h2) BY <1>1, InForceStep DEF RightAt, PcallOf
<1>8. Len(fs) = Level(r, t, i - 1) BY DEF RightAt, FramesRight
<1>9. Keeps(r, i) BY <1>8 DEF Keeps, RightAt
<1>10. Sound(r, i) BY <1>1, <1>2, <1>9 DEF Sound
<1> QED BY <1>3, <1>5, <1>6, <1>7, <1>10 DEF RightAt

\* A function starts: a frame more.
LEMMA AddFunction ==
  ASSUME NEW r \in Seq(Activation), NEW i \in 2 .. Len(r), NEW t, NEW d \in Nat, NEW fs \in Seq(Function), NEW hook, NEW h,
         RightAt(r, i - 1, t, d, fs, hook, h), d < CLimit,
         r[i].th = t, r[i].k = "C" \/ (r[i].k = "exec" /\ r[i].n = 1), Above(r[i - 1], r[i]), r[i].why # "gc"
  PROVE  Sound(r, i) /\ RightAt(r, i, t, d, Append(fs, FrameOf(r[i])), hook, h)
<1>1. i \in Nat \ {0} /\ i \in 1 .. Len(r) /\ i # 1 OBVIOUS
<1>2. DepthOf(r[i]) = 0 /\ FramesIn(r[i]) = 1 BY DEF FramesIn, DepthOf
<1>3. Depth(r, i) = d BY <1>1, <1>2, DepthStep DEF RightAt
<1>4. FramesRight(r, t, i, Append(fs, FrameOf(r[i])))
  <2> DEFINE m == i - 1
             gs == Append(fs, FrameOf(r[i]))
  <2>1. m \in Nat /\ Agree(r, r, m) /\ m + 1 = i /\ m + 1 <= Len(r) /\ m \in m .. Len(r) BY DEF Agree
  <2>2. FramesRight(r, t, m, fs) /\ Len(fs) = Level(r, t, m) BY DEF RightAt, FramesRight
  <2>3. Len(gs) = Len(fs) + 1 /\ (\A x \in 1 .. Len(fs) : gs[x] = fs[x]) /\ gs[Len(fs) + 1] = FrameOf(r[i])
    <3>1. FrameOf(r[i]) \in Function BY DEF FrameOf, Function
    <3> QED BY <3>1, AppendProperties
  <2> HIDE DEF m, gs
  <2>4. Len(gs) = Level(r, t, m) + FramesIn(r[m + 1]) /\ r[m + 1].th = t BY <1>2, <2>1, <2>2, <2>3
  <2>5. \A x \in 1 .. Level(r, t, m) : gs[x] = fs[x] BY <2>2, <2>3
  <2>6. \A x \in 1 .. FramesIn(r[m + 1]) : gs[Level(r, t, m) + x] = FrameOf(r[m + 1])
    BY <1>2, <2>1, <2>2, <2>3
  <2>7. Extends(gs, fs, Level(r, t, m), FramesIn(r[m + 1]), FrameOf(r[m + 1])) BY <2>4, <2>5, <2>6 DEF Extends
  <2>8. FramesRight(r, t, m + 1, gs) BY <2>1, <2>2, <2>4, <2>7, FramesTop
  <2> QED BY <2>1, <2>8 DEF gs
<1>5. ~Disables(r[i]) BY DEF Disables
<1>6. hook = TRUE <=> ~Hooked(r, t, i) BY <1>1, <1>5, HookedStep DEF RightAt
<1>7. InForce(r, t, i, h) BY <1>1, InForceStep DEF RightAt, PcallOf
<1>8. Keeps(r, i) BY DEF Keeps
<1>9. Sound(r, i) BY <1>1, <1>3, <1>8 DEF Sound
<1> QED BY <1>3, <1>4, <1>6, <1>7, <1>9 DEF RightAt

LEMMA FramesCut ==
  ASSUME NEW s \in Seq(Activation), NEW t, NEW n \in 0 .. Len(s), NEW m \in 0 .. n, NEW fs, FramesRight(s, t, n, fs),
         NEW gs, Len(gs) = Level(s, t, m), \A x \in 1 .. Level(s, t, m) : gs[x] = fs[x]
  PROVE  FramesRight(s, t, m, gs)
<1>1. ASSUME NEW j \in 1 .. m, s[j].th = t, NEW x \in 1 .. FramesIn(s[j])
      PROVE  gs[Level(s, t, j - 1) + x] = FrameOf(s[j])
  <2>1. j \in 1 .. n /\ j \in 1 .. Len(s) OBVIOUS
  <2>2. fs[Level(s, t, j - 1) + x] = FrameOf(s[j]) BY <1>1, <2>1 DEF FramesRight
  <2>3. Level(s, t, j) = Level(s, t, j - 1) + FramesIn(s[j]) /\ Level(s, t, j - 1) \in Nat /\ FramesIn(s[j]) \in Nat
    BY <1>1, <2>1, LevelStep
  <2>4. Level(s, t, j) <= Level(s, t, m) /\ Level(s, t, m) \in Nat
    <3>1. j \in 0 .. Len(s) /\ m \in j .. Len(s) BY <2>1
    <3> QED BY <3>1, LevelMonotone
  <2>5. Level(s, t, j - 1) + x \in 1 .. Level(s, t, m) BY <2>3, <2>4
  <2> QED BY <2>2, <2>5
<1> QED BY <1>1 DEF FramesRight

\* Activation a, at its end, sets the fields back.
PutsBack(a, d, hook, h, e, hook2, h2) ==
    /\ e = d - DepthOf(a)
    /\ hook2 = IF a.k = "hook" THEN TRUE ELSE IF a.why = "gc" THEN a.old.allowhook ELSE hook
    /\ h2 = IF a.k = "pcall" THEN a.old.errfunc ELSE h

\* An activation that stands for no frame ends and puts back what it saved.
LEMMA DropOne ==
  ASSUME NEW s \in Seq(Activation), NEW n \in 2 .. Len(s), NEW t, NEW d, NEW fs, NEW hook, NEW h,
         RightAt(s, n, t, d, fs, hook, h), Sound(s, n), s[n].th = t, s[n].k \notin {"exec", "C"},
         NEW e, NEW hook2, NEW h2, PutsBack(s[n], d, hook, h, e, hook2, h2)
  PROVE  RightAt(s, n - 1, t, e, fs, hook2, h2) /\ e \in Nat
<1> USE DEF PutsBack
<1>1. n \in Nat \ {0} /\ n \in 1 .. Len(s) OBVIOUS
<1>2. e = Depth(s, n - 1) /\ Depth(s, n - 1) \in Nat BY <1>1, DepthStep DEF RightAt
<1>3. FramesIn(s[n]) = 0 BY DEF FramesIn
<1>4. FramesRight(s, t, n - 1, fs) BY <1>1, <1>3, FramesSkip DEF RightAt
<1>5. Keeps(s, n) BY DEF Sound
<1>6. hook2 = TRUE <=> ~Hooked(s, t, n - 1)
  BY <1>1, <1>5, HookedStep DEF RightAt, Keeps, Disables
<1>7. InForce(s, t, n - 1, h2) BY <1>1, <1>5, InForceStep DEF RightAt, Keeps, PcallOf
<1> QED BY <1>2, <1>4, <1>6, <1>7 DEF RightAt

\* A function returns: a frame less.
LEMMA DropFunction ==
  ASSUME NEW s \in Seq(Activation), NEW n \in 2 .. Len(s), NEW t, NEW d, NEW fs \in Seq(Function), NEW hook, NEW h,
         RightAt(s, n, t, d, fs, hook, h), Sound(s, n), s[n].th = t,
         s[n].k = "C" \/ (s[n].k = "exec" /\ s[n].n = 1)
  PROVE  RightAt(s, n - 1, t, d, Front(fs), hook, h) /\ Len(fs) > 0
<1>1. n \in Nat \ {0} /\ n \in 1 .. Len(s) /\ n \in 0 .. Len(s) /\ n - 1 \in 0 .. n OBVIOUS
<1>2. DepthOf(s[n]) = 0 /\ FramesIn(s[n]) = 1 BY DEF FramesIn, DepthOf
<1>3. Depth(s, n - 1) = d BY <1>1, <1>2, DepthStep DEF RightAt
<1>4. FramesRight(s, t, n, fs) /\ Len(fs) = Level(s, t, n - 1) + 1 /\ Level(s, t, n - 1) \in Nat
  BY <1>1, <1>2, LevelStep DEF RightAt, FramesRight
<1>5. Len(Front(fs)) = Level(s, t, n - 1) /\ \A x \in 1 .. Level(s, t, n - 1) : Front(fs)[x] = fs[x]
  <2>1. \A x \in 1 .. Len(fs) - 1 : fs[x] \in Function BY ElementOfSeq
  <2> QED BY <1>4, <2>1, SubSeqProperties DEF Front
<1>6. FramesRight(s, t, n - 1, Front(fs)) BY <1>1, <1>4, <1>5, FramesCut
<1>7. s[n].why # "gc" BY DEF Sound, Keeps
<1>8. hook = TRUE <=> ~Hooked(s, t, n - 1) BY <1>1, <1>7, HookedStep DEF RightAt, Disables
<1>9. InForce(s, t, n - 1, h) BY <1>1, InForceStep DEF RightAt, PcallOf
<1> QED BY <1>3, <1>4, <1>6, <1>8, <1>9 DEF RightAt

LEMMA AboveExec ==
  ASSUME NEW b, NEW a, a.k = "exec", a.th = b.th, b.k \in {"call", "resume"}, a.n \in Nat \ {0}
  PROVE  Above(b, a)
BY DEF Above

\* Interpreter loop b as it runs x functions, and its frames.
Rerun(b, a, t, x) == b.k = "exec" /\ a.k = "exec" /\ b.th = t /\ a.th = t /\ a.n = x /\ a.why = b.why
Reframed(gs, fs, k, x) ==
    /\ Len(gs) = Len(fs) - k + x
    /\ \A y \in 1 .. Len(gs) : gs[y] = IF y <= Len(fs) THEN fs[y] ELSE "Lua"

\* The interpreter loop at n runs one Lua function more or less.
LEMMA Recount ==
  ASSUME NEW s \in Seq(Activation), NEW r \in Seq(Activation), NEW n \in 2 .. Len(s), n <= Len(r), Agree(s, r, n - 1),
         NEW t, NEW d, NEW fs, NEW hook, NEW h, RightAt(s, n, t, d, fs, hook, h), Sound(s, n),
         NEW x \in Nat \ {0}, Rerun(s[n], r[n], t, x), NEW gs, Reframed(gs, fs, s[n].n, x)
  PROVE  Sound(r, n) /\ RightAt(r, n, t, d, gs, hook, h)
<1> USE DEF Rerun, Reframed
<1> DEFINE m == n - 1
<1>1. m \in Nat /\ m + 1 = n /\ m + 1 <= Len(r) /\ n \in m .. Len(s) /\ n \in 1 .. Len(s) /\ n \in 1 .. Len(r)
      /\ n \in Nat \ {0} /\ m \in 0 .. m
  BY DEF Agree
<1>0. Agree(s, r, m) OBVIOUS
<1>2. s[n].n \in Nat BY <1>1, ActNat DEF Activation
<1>3. r[n].k = "exec" /\ r[n].th = t /\ r[n].n = x /\ r[n].why = s[n].why OBVIOUS
<1>4. DepthOf(s[n]) = 0 /\ DepthOf(r[n]) = 0 /\ FramesIn(s[n]) = s[n].n /\ FramesIn(r[n]) = x
  BY <1>3 DEF DepthOf, FramesIn
<1>5. Depth(r, n) = d
  <2>1. Depth(s, m) = Depth(r, m) BY <1>1, DepthAgree
  <2> QED BY <1>1, <1>4, <2>1, DepthStep DEF RightAt
<1>6. FramesRight(s, t, n, fs) /\ Len(fs) = Level(s, t, m) + s[n].n /\ Level(s, t, m) \in Nat /\ s[n].n \in Nat
  BY <1>1, <1>2, <1>4, LevelStep DEF RightAt, FramesRight
<1>7. Len(gs) = Level(s, t, m) + x BY <1>6
<1>8. \A y \in 1 .. Level(s, t, m) : gs[y] = fs[y]
  <2>1. ASSUME NEW y \in 1 .. Level(s, t, m) PROVE y \in 1 .. Len(gs) /\ y <= Len(fs)
    BY <1>6, <1>7
  <2> QED BY <2>1
<1>9. \A y \in 1 .. s[n].n : fs[Level(s, t, m) + y] = "Lua"
  <2>1. n \in 1 .. n /\ FrameOf(s[n]) = "Lua" BY DEF FrameOf
  <2> QED BY <1>1, <1>4, <1>6, <2>1 DEF FramesRight
<1>10. \A y \in 1 .. x : gs[Level(s, t, m) + y] = "Lua"
  <2> TAKE y \in 1 .. x
  <2>1. Level(s, t, m) + y \in 1 .. Len(gs) BY <1>6, <1>7
  <2>2. CASE y <= s[n].n BY <1>6, <1>9, <2>1, <2>2
  <2>3. CASE y > s[n].n BY <1>6, <2>1, <2>3
  <2> QED BY <1>6, <2>2, <2>3
<1>11. FrameOf(r[n]) = "Lua" BY <1>3 DEF FrameOf
<1>12. FramesRight(r, t, n, gs)
  <2>1. r[m + 1].th = t /\ Len(gs) = Level(s, t, m) + FramesIn(r[m + 1]) BY <1>1, <1>3, <1>4, <1>7
  <2>2. \A y \in 1 .. FramesIn(r[m + 1]) : gs[Level(s, t, m) + y] = FrameOf(r[m + 1])
    BY <1>1, <1>4, <1>10, <1>11
  <2>3. m \in Nat /\ m + 1 <= Len(r) /\ n \in m .. Len(s) /\ FramesRight(s, t, n, fs) BY <1>1, <1>6
  <2> HIDE DEF m
  <2>5. Extends(gs, fs, Level(s, t, m), FramesIn(r[m + 1]), FrameOf(r[m + 1])) BY <1>8, <2>1, <2>2 DEF Extends
  <2>4. FramesRight(r, t, m + 1, gs) BY <1>0, <2>1, <2>3, <2>5, FramesTop
  <2> QED BY <1>1, <2>4
<1>13. s[n].why # "gc" BY DEF Sound, Keeps
<1>14. ~Disables(s[n]) /\ ~Disables(r[n]) /\ ~PcallOf(s[n], t) /\ ~PcallOf(r[n], t) BY <1>3, <1>13 DEF Disables, PcallOf
<1>15. m \in Nat /\ m <= m /\ \A j \in m + 1 .. m : s[j].th # t /\ r[j].th # t BY <1>1
<1> HIDE DEF m
<1>16. hook = TRUE <=> ~Hooked(r, t, n)
  <2>1. Hooked(s, t, m) <=> Hooked(r, t, m) BY <1>0, <1>15, HookedAgree
  <2> QED BY <1>1, <1>14, <2>1, HookedStep DEF RightAt, m
<1>17. InForce(r, t, n, h)
  <2>1. InForce(s, t, m, h) BY <1>1, <1>14, InForceStep DEF RightAt, m
  <2>2. InForce(r, t, m, h) BY <1>0, <1>15, <2>1, InForceAgree
  <2> QED BY <1>1, <1>14, <2>2, InForceStep DEF m
<1>18. Sound(r, n)
  <2>1. n > 1 /\ s[n - 1] = r[n - 1] BY DEF Agree
  <2>2. Above(s[n - 1], s[n]) BY <2>1 DEF Sound
  <2>5. s[n - 1].th = t /\ s[n - 1].k \in {"call", "resume"} BY <2>2 DEF Above
  <2>3. Above(r[n - 1], r[n]) BY <1>3, <2>1, <2>5, AboveExec
  <2>4. Keeps(r, n) BY <1>3, <1>13 DEF Keeps
  <2> QED BY <1>3, <2>1, <2>3, <2>4 DEF Sound
<1> QED BY <1>5, <1>12, <1>16, <1>17, <1>18 DEF RightAt

-----------------------------------------------------------------------------
(* Stacks built by the actions.                                            *)

LEMMA FrontSeq ==
  ASSUME NEW S, NEW s \in Seq(S), s # <<>>
  PROVE  /\ Front(s) \in Seq(S) /\ Len(Front(s)) = Len(s) - 1 /\ Len(s) \in Nat \ {0}
         /\ \A j \in 1 .. Len(s) - 1 : Front(s)[j] = s[j]
<1>1. Len(s) \in Nat \ {0} BY EmptySeq
<1>2. \A j \in 1 .. Len(s) - 1 : s[j] \in S BY ElementOfSeq
<1> DEFINE n == Len(s) - 1
<1>3. n \in Int /\ 1 \in Int /\ n \in Nat /\ \A j \in 1 .. n : s[j] \in S BY <1>1, <1>2
<1>4. Front(s) = SubSeq(s, 1, n) BY DEF Front
<1> HIDE DEF n
<1>5. /\ SubSeq(s, 1, n) \in Seq(S) /\ Len(SubSeq(s, 1, n)) = IF 1 <= n THEN n - 1 + 1 ELSE 0
      /\ \A i \in 1 .. n - 1 + 1 : SubSeq(s, 1, n)[i] = s[1 + i - 1]
  BY <1>3, SubSeqProperties
<1>6. Len(SubSeq(s, 1, n)) = n
  <2>1. CASE 1 <= n BY <1>3, <1>5, <2>1
  <2>2. CASE ~(1 <= n) BY <1>3, <1>5, <2>2
  <2> QED BY <2>1, <2>2
<1>7. \A i \in 1 .. n : SubSeq(s, 1, n)[i] = s[i]
  <2>1. n - 1 + 1 = n /\ \A i \in 1 .. n : 1 + i - 1 = i BY <1>3
  <2> QED BY <1>5, <2>1
<1> QED BY <1>1, <1>4, <1>5, <1>6, <1>7 DEF n

LEMMA Push1 ==
  ASSUME NEW S, NEW s \in Seq(S), NEW a \in S
  PROVE  /\ s \o <<a>> \in Seq(S) /\ Len(s \o <<a>>) = Len(s) + 1 /\ Len(s) \in Nat
         /\ \A j \in 1 .. Len(s) : (s \o <<a>>)[j] = s[j]
         /\ (s \o <<a>>)[Len(s) + 1] = a
OBVIOUS

LEMMA Push2 ==
  ASSUME NEW S, NEW s \in Seq(S), NEW a \in S, NEW b \in S
  PROVE  /\ s \o <<a, b>> \in Seq(S) /\ Len(s \o <<a, b>>) = Len(s) + 2 /\ Len(s) \in Nat
         /\ \A j \in 1 .. Len(s) : (s \o <<a, b>>)[j] = s[j]
         /\ (s \o <<a, b>>)[Len(s) + 1] = a /\ (s \o <<a, b>>)[Len(s) + 2] = b
OBVIOUS

LEMMA Push3 ==
  ASSUME NEW S, NEW s \in Seq(S), NEW a \in S, NEW b \in S, NEW c \in S
  PROVE  /\ s \o <<a, b, c>> \in Seq(S) /\ Len(s \o <<a, b, c>>) = Len(s) + 3 /\ Len(s) \in Nat
         /\ \A j \in 1 .. Len(s) : (s \o <<a, b, c>>)[j] = s[j]
         /\ (s \o <<a, b, c>>)[Len(s) + 1] = a /\ (s \o <<a, b, c>>)[Len(s) + 2] = b
         /\ (s \o <<a, b, c>>)[Len(s) + 3] = c
OBVIOUS

LEMMA Join3 ==
  ASSUME NEW S, NEW a \in S, NEW b \in S, NEW c \in S
  PROVE  <<a>> \o <<b, c>> = <<a, b, c>>
<1>1. <<a>> \in Seq(S) /\ <<b, c>> \in Seq(S) /\ <<a, b, c>> \in Seq(S) OBVIOUS
<1>2. <<a>> \o <<b, c>> \in Seq(S) /\ Len(<<a>> \o <<b, c>>) = 3 BY <1>1
<1>3. /\ (<<a>> \o <<b, c>>)[1] = a /\ (<<a>> \o <<b, c>>)[2] = b
      /\ (<<a>> \o <<b, c>>)[3] = c
  BY <1>1
<1>4. \A i \in 1 .. 3 : (<<a>> \o <<b, c>>)[i] = <<a, b, c>>[i]
  <2>1. \A i \in 1 .. 3 : i = 1 \/ i = 2 \/ i = 3 OBVIOUS
  <2> QED BY <1>3, <2>1
<1> QED BY <1>1, <1>2, <1>4, SeqEqual

LEMMA ActType ==
  ASSUME NEW k \in Kinds, NEW t \in Thread, NEW why \in Whys, NEW n \in Nat
  PROVE  /\ Act(k, t, why, n) \in Activation
         /\ Act(k, t, why, n).k = k /\ Act(k, t, why, n).th = t
         /\ Act(k, t, why, n).why = why /\ Act(k, t, why, n).n = n
BY DEF Act, Activation, Nothing, Locals, Handlers

LEMMA SavingType ==
  ASSUME TypeOK, NEW a \in Activation
  PROVE  /\ Saving(a) \in Activation /\ Saving(a).k = a.k /\ Saving(a).th = a.th
         /\ Saving(a).why = a.why /\ Saving(a).n = a.n
         /\ Saving(a).old.nCcalls = nCcalls[a.th] /\ Saving(a).old.ci = Len(ci[a.th])
         /\ Saving(a).old.allowhook = allowhook[a.th] /\ Saving(a).old.errfunc = errfunc[a.th]
<1>1. a.th \in Thread BY DEF Activation
<1>2. Saved(a.th) \in Locals BY <1>1 DEF Saved, Locals, TypeOK
<1> QED BY <1>1, <1>2 DEF Saving, Saved, Activation

\* What luaD_call starts once it has counted the call.
Callee(d, t, f) ==
    IF d + 1 = LUAI_MAXCCALLS THEN Failing(t)
    ELSE IF d + 1 >= CLimit THEN Throwing(t, "errerr") ELSE Act("enter", t, f, 0)

LEMMA CalleeType ==
  ASSUME NEW d, NEW t \in Thread, NEW f \in Function
  PROVE  /\ Callee(d, t, f) \in Activation /\ Callee(d, t, f).th = t
         /\ Callee(d, t, f).k \in {"runerror", "throw", "enter"}
         /\ Callee(d, t, f).why # "gc"
         /\ Callee(d, t, f).k = "throw" => Callee(d, t, f).why \in Errors /\ d + 1 >= CLimit
         /\ Callee(d, t, f).k = "enter" => Callee(d, t, f).why \in Function
         /\ d \in Nat /\ d < CLimit /\ Callee(d, t, f).k # "throw" => d + 1 < CLimit
<1>1. "runerror" \in Kinds /\ "throw" \in Kinds /\ "enter" \in Kinds BY DEF Kinds
<1>2. f \in Whys /\ f # "gc" /\ "plain" \in Whys /\ "errerr" \in Whys
  BY DEF Function, Whys, Errors
<1>3. CLimit \in Nat /\ LUAI_MAXCCALLS \in Nat /\ LUAI_MAXCCALLS < CLimit BY CallsAssumption DEF CLimit
<1>4. CASE d + 1 = LUAI_MAXCCALLS
  <2> DEFINE a == Act("runerror", t, "plain", 0)
  <2>1. Callee(d, t, f) = a BY <1>4 DEF Callee, Failing
  <2>2. a \in Activation /\ a.k = "runerror" /\ a.th = t /\ a.why = "plain" BY <1>1, <1>2, ActType
  <2> HIDE DEF a
  <2> QED BY <1>3, <1>4, <2>1, <2>2
<1>5. CASE d + 1 # LUAI_MAXCCALLS /\ d + 1 >= CLimit
  <2> DEFINE a == Act("throw", t, "errerr", 0)
  <2>1. Callee(d, t, f) = a BY <1>5 DEF Callee, Throwing
  <2>2. a \in Activation /\ a.k = "throw" /\ a.th = t /\ a.why = "errerr" BY <1>1, <1>2, ActType
  <2> HIDE DEF a
  <2> QED BY <1>5, <2>1, <2>2 DEF Errors
<1>6. CASE d + 1 # LUAI_MAXCCALLS /\ ~(d + 1 >= CLimit)
  <2> DEFINE a == Act("enter", t, f, 0)
  <2>1. Callee(d, t, f) = a BY <1>6 DEF Callee
  <2>2. a \in Activation /\ a.k = "enter" /\ a.th = t /\ a.why = f BY <1>1, <1>2, ActType
  <2> HIDE DEF a
  <2> QED BY <1>2, <1>3, <1>6, <2>1, <2>2
<1> QED BY <1>4, <1>5, <1>6

\* a is a luaD_call by t, which turns the hooks off if it calls a finalizer.
CallOn(a, t, hook, hook2) ==
    /\ a.k = "call" /\ a.th = t
    /\ a.why = "gc" => a.old.allowhook = hook
    /\ hook2 = TRUE <=> hook = TRUE /\ a.why # "gc"

\* luaD_call on top of the first i - 1 activations.
LEMMA CallRight ==
  ASSUME NEW r \in Seq(Activation), NEW i \in 2 .. Len(r) - 1, NEW t \in Thread, NEW d \in Nat, d < CLimit,
         NEW fs, NEW hook, NEW h, RightAt(r, i - 1, t, d, fs, hook, h), r[i - 1].th = t,
         NEW hook2, CallOn(r[i], t, hook, hook2), NEW f \in Function, r[i + 1] = Callee(d, t, f)
  PROVE  /\ Sound(r, i) /\ Sound(r, i + 1) /\ r[i].k # "resume" /\ r[i + 1].k # "resume"
         /\ RightAt(r, i + 1, t, d + 1, fs, hook2, h)
         /\ d + 1 <= CLimit /\ (r[i + 1].k # "throw" => d + 1 < CLimit)
<1> USE DEF CallOn
<1>1. Above(r[i - 1], r[i]) BY DEF Above
<1>2. DepthOf(r[i]) = 1 /\ (Disables(r[i]) <=> r[i].why = "gc") BY DEF DepthOf, Disables
<1>3. i \in 2 .. Len(r) /\ i + 1 \in 2 .. Len(r) /\ (i + 1) - 1 = i OBVIOUS
<1>4. Sound(r, i) /\ RightAt(r, i, t, d + 1, fs, hook2, h)
  <2>1. Saves(r[i], t, d, fs, hook, h) BY DEF Saves
  <2>2. Sets(r[i], d, hook, h, d + 1, hook2, h) BY <1>2 DEF Sets
  <2> QED BY <1>1, <1>3, <2>1, <2>2, AddOne
<1>5. /\ r[i + 1].th = t /\ r[i + 1].k \in {"runerror", "throw", "enter"} /\ r[i + 1].why # "gc"
      /\ r[i + 1].k = "throw" => r[i + 1].why \in Errors
      /\ r[i + 1].k = "enter" => r[i + 1].why \in Function
      /\ r[i + 1].k # "throw" => d + 1 < CLimit
  <2>1. PICK c : c = Callee(d, t, f) OBVIOUS
  <2>2. /\ c.th = t /\ c.k \in {"runerror", "throw", "enter"} /\ c.why # "gc"
        /\ c.k = "throw" => c.why \in Errors
        /\ c.k = "enter" => c.why \in Function
        /\ c.k # "throw" => d + 1 < CLimit
    BY ONLY <2>1, CalleeType, t \in Thread, f \in Function, d \in Nat, d < CLimit
  <2> QED BY <2>1, <2>2
<1>6. Above(r[i], r[i + 1]) BY <1>5 DEF Above
<1>7. DepthOf(r[i + 1]) = 0 /\ ~Disables(r[i + 1]) BY <1>5 DEF DepthOf, Disables
<1>8. Sound(r, i + 1) /\ RightAt(r, i + 1, t, d + 1, fs, hook2, h)
  <2> DEFINE k == i + 1
  <2>1. k \in 2 .. Len(r) /\ RightAt(r, k - 1, t, d + 1, fs, hook2, h) /\ Above(r[k - 1], r[k])
    BY <1>3, <1>4, <1>6
  <2>2. Saves(r[k], t, d + 1, fs, hook2, h) BY <1>5 DEF Saves
  <2>4. Sets(r[k], d + 1, hook2, h, d + 1, hook2, h) BY <1>5, <1>7 DEF Sets
  <2> HIDE DEF k
  <2>3. Sound(r, k) /\ RightAt(r, k, t, d + 1, fs, hook2, h) BY <2>1, <2>2, <2>4, AddOne
  <2> QED BY <2>3 DEF k
<1>9. CLimit \in Nat BY CallsAssumption DEF CLimit
<1> QED BY <1>4, <1>5, <1>8, <1>9

-----------------------------------------------------------------------------
(* The actions of the running thread.                                      *)

OthersKept(t) ==
    \A u \in Thread \ {t} : /\ ci'[u] = ci[u] /\ allowhook'[u] = allowhook[u]
                            /\ errfunc'[u] = errfunc[u] /\ openupval'[u] = openupval[u]
                            /\ nCcalls'[u] = nCcalls[u]
NoResume(s, m) == \A j \in m + 1 .. Len(s) : s[j].k # "resume"
NewSound(s, m) == \A j \in m + 1 .. Len(s) : Sound(s, j) /\ s[j].k # "resume"
Within(s, d) == d <= CLimit /\ (s[Len(s)].k # "throw" => d < CLimit)

LEMMA StepRight ==
  ASSUME CallInv, TypeOK', cstack # <<>>, NEW t, t = L,
         NEW m \in 1 .. Len(cstack), Agree(cstack, cstack', m), NoResume(cstack, m), NewSound(cstack', m),
         OthersKept(t), UNCHANGED coVars,
         RightAt(cstack', Len(cstack'), t, nCcalls'[t], ci'[t], allowhook'[t], errfunc'[t]),
         Within(cstack', nCcalls'[t]), Live(ci'[t], openupval'[t])
  PROVE  CallInv'
<1>1. TopRight(cstack', t, nCcalls'[t], ci'[t], allowhook'[t], errfunc'[t], openupval'[t])
  BY DEF TopRight, RightAt, Within
<1>2. \A j \in m + 1 .. Len(cstack) : cstack[j].k # "resume" BY DEF NoResume
<1>3. \A j \in m + 1 .. Len(cstack') : Sound(cstack', j) /\ cstack'[j].k # "resume" BY DEF NewSound
<1>4. \A u \in Thread \ {t} : /\ ci'[u] = ci[u] /\ allowhook'[u] = allowhook[u]
                              /\ errfunc'[u] = errfunc[u] /\ openupval'[u] = openupval[u]
                              /\ nCcalls'[u] = nCcalls[u]
  BY DEF OthersKept
<1> QED BY <1>1, <1>2, <1>3, <1>4, OneThread

LEMMA Start ==
  ASSUME CallInv, cstack # <<>>, NEW t, t = L
  PROVE  /\ cstack \in Seq(Activation) /\ Len(cstack) \in Nat \ {0}
         /\ t = cstack[Len(cstack)].th /\ t \in Thread /\ Top = cstack[Len(cstack)] /\ Top \in Activation
         /\ Sound(cstack, Len(cstack)) /\ SoundStack(cstack)
         /\ RightAt(cstack, Len(cstack), t, nCcalls[t], ci[t], allowhook[t], errfunc[t])
         /\ Live(ci[t], openupval[t]) /\ Within(cstack, nCcalls[t])
         /\ nCcalls[t] \in Nat /\ ci[t] \in Seq(Function) /\ allowhook[t] \in BOOLEAN
         /\ errfunc[t] \in Handlers /\ openupval[t] \in SUBSET Nat
         /\ Agree(cstack, cstack, Len(cstack)) /\ NoResume(cstack, Len(cstack))
         /\ NewSound(cstack, Len(cstack)) /\ CLimit \in Nat
<1>1. /\ Len(cstack) \in 1 .. Len(cstack) /\ Len(cstack) \in Nat /\ t \in Thread
      /\ Top = cstack[Len(cstack)] /\ Top \in Activation /\ L = Top.th /\ SoundStack(cstack)
      /\ TopRight(cstack, t, nCcalls[t], ci[t], allowhook[t], errfunc[t], openupval[t])
  BY TopFacts
<1>2. Sound(cstack, Len(cstack)) BY <1>1 DEF SoundStack
<1>3. CLimit \in Nat BY CallsAssumption DEF CLimit
<1>4. /\ cstack \in Seq(Activation) /\ nCcalls[t] \in Nat /\ ci[t] \in Seq(Function) /\ allowhook[t] \in BOOLEAN
      /\ errfunc[t] \in Handlers /\ openupval[t] \in SUBSET Nat
  BY <1>1 DEF CallInv, TypeOK
<1>5. /\ RightAt(cstack, Len(cstack), t, nCcalls[t], ci[t], allowhook[t], errfunc[t])
      /\ Live(ci[t], openupval[t]) /\ Within(cstack, nCcalls[t])
  BY <1>1 DEF TopRight, RightAt, Within
<1>6. Len(cstack) + 1 .. Len(cstack) = {} BY <1>1
<1>7. Agree(cstack, cstack, Len(cstack)) /\ NoResume(cstack, Len(cstack)) /\ NewSound(cstack, Len(cstack))
  BY <1>1, <1>6 DEF Agree, NoResume, NewSound
<1> QED BY <1>1, <1>2, <1>3, <1>4, <1>5, <1>7

LEMMA CallStep ==
  ASSUME CallInv, Running({"C", "host", "hook", "parse", "exec"}), NEW t, t = L,
         NEW a \in Activation, a.k = "call", a.th = t, a.why = "gc" => a.old.allowhook = allowhook[t],
         NEW f \in Function, Push(CallActs(a, f)), CountCall,
         allowhook' = IF a.why = "gc" THEN [allowhook EXCEPT ![t] = FALSE] ELSE allowhook,
         UNCHANGED <<frameVars, errfunc, coVars>>
  PROVE  CallInv'
<1> DEFINE n == Len(cstack)
           d == nCcalls[t]
           r == cstack'
<1>1. cstack # <<>> BY DEF Running
<1>2. /\ cstack \in Seq(Activation) /\ n \in Nat \ {0} /\ t \in Thread /\ Top = cstack[n] /\ t = cstack[n].th
      /\ RightAt(cstack, n, t, d, ci[t], allowhook[t], errfunc[t]) /\ Live(ci[t], openupval[t])
      /\ Within(cstack, d) /\ d \in Nat /\ ci[t] \in Seq(Function) /\ allowhook[t] \in BOOLEAN
      /\ NoResume(cstack, n)
  BY <1>1, Start
<1>3. d < CLimit BY <1>2 DEF Running, Within
<1>4. CallActs(a, f) = <<a, Callee(d, t, f)>> BY DEF CallActs, Callee, CLimit
<1>5. Callee(d, t, f) \in Activation BY <1>2, CalleeType
<1>6. /\ r \in Seq(Activation) /\ Len(r) = n + 2 /\ (\A j \in 1 .. n : r[j] = cstack[j])
      /\ r[n + 1] = a /\ r[n + 2] = Callee(d, t, f)
  BY <1>2, <1>4, <1>5, Push2 DEF Push
<1>7. Agree(cstack, r, n) BY <1>2, <1>6 DEF Agree
<1>8. nCcalls'[t] = d + 1 /\ allowhook'[t] \in BOOLEAN /\ (allowhook'[t] = TRUE <=> allowhook[t] = TRUE /\ a.why # "gc")
      /\ ci' = ci /\ openupval' = openupval /\ errfunc' = errfunc /\ size_ci' = size_ci
  BY <1>2 DEF CountCall, CallInv, TypeOK, frameVars
<1>9. /\ Sound(r, n + 1) /\ Sound(r, n + 2) /\ r[n + 2].k # "resume"
      /\ RightAt(r, n + 2, t, d + 1, ci[t], allowhook'[t], errfunc[t])
      /\ d + 1 <= CLimit /\ (r[n + 2].k # "throw" => d + 1 < CLimit)
  <2>1. n \in Nat /\ n \in 0 .. n /\ n \in 1 .. n BY <1>2
  <2>2. RightAt(r, n, t, d, ci[t], allowhook[t], errfunc[t]) BY <1>2, <1>6, <1>7, <2>1, RightAgree
  <2>3. r[n].th = t BY <1>2, <1>6, <2>1
  <2>4. CallOn(a, t, allowhook[t], allowhook'[t]) BY <1>8 DEF CallOn
  <2>5. PICK i : i = n + 1 OBVIOUS
  <2>6. i \in 2 .. Len(r) - 1 /\ i - 1 = n /\ i + 1 = n + 2 BY <1>2, <1>6, <2>5
  <2>7. /\ RightAt(r, i - 1, t, d, ci[t], allowhook[t], errfunc[t]) /\ r[i - 1].th = t
        /\ CallOn(r[i], t, allowhook[t], allowhook'[t]) /\ r[i + 1] = Callee(d, t, f)
    BY <1>6, <2>2, <2>3, <2>4, <2>5, <2>6
  <2> HIDE DEF r, n, d
  <2>8. /\ Sound(r, i) /\ Sound(r, i + 1) /\ r[i].k # "resume" /\ r[i + 1].k # "resume"
        /\ RightAt(r, i + 1, t, d + 1, ci[t], allowhook'[t], errfunc[t])
        /\ d + 1 <= CLimit /\ (r[i + 1].k # "throw" => d + 1 < CLimit)
    BY <1>2, <1>3, <1>6, <2>6, <2>7, CallRight
  <2> QED BY <2>5, <2>6, <2>8
<1>10. NewSound(r, n)
  <2>1. \A j \in n + 1 .. Len(r) : j = n + 1 \/ j = n + 2 BY <1>2, <1>6
  <2> QED BY <1>6, <1>9, <2>1 DEF NewSound
<1>11. RightAt(r, Len(r), t, nCcalls'[t], ci'[t], allowhook'[t], errfunc'[t]) /\ Within(r, nCcalls'[t])
  BY <1>6, <1>8, <1>9 DEF Within
<1>12. OthersKept(t) BY <1>8 DEF OthersKept, CountCall, CallInv, TypeOK
<1>13. TypeOK'
  <2>1. nCcalls' \in [Thread -> Nat] BY <1>2 DEF CallInv, TypeOK, CountCall
  <2>2. allowhook' \in [Thread -> BOOLEAN] BY <1>2 DEF CallInv, TypeOK
  <2> QED BY <1>6, <1>8, <2>1, <2>2 DEF CallInv, TypeOK, coVars
<1>14. Live(ci'[t], openupval'[t]) /\ UNCHANGED coVars BY <1>2, <1>8
<1>15. n \in 1 .. n BY <1>2
<1> QED BY <1>1, <1>2, <1>7, <1>10, <1>11, <1>12, <1>13, <1>14, <1>15, StepRight

\* The stack is cut at m.
LEMMA CutStep ==
  ASSUME CallInv, TypeOK', cstack # <<>>, NEW t, t = L,
         NEW m \in 1 .. Len(cstack), Agree(cstack, cstack', m), NoResume(cstack, m), Len(cstack') = m,
         OthersKept(t), UNCHANGED coVars,
         RightAt(cstack, m, t, nCcalls'[t], ci'[t], allowhook'[t], errfunc'[t]),
         nCcalls'[t] < CLimit, Live(ci'[t], openupval'[t])
  PROVE  CallInv'
<1>1. cstack \in Seq(Activation) /\ cstack' \in Seq(Activation) BY DEF CallInv, TypeOK
<1>2. m \in Nat /\ m \in 0 .. m OBVIOUS
<1>3. RightAt(cstack', m, t, nCcalls'[t], ci'[t], allowhook'[t], errfunc'[t]) BY <1>1, <1>2, RightAgree
<1>4. nCcalls'[t] \in Nat /\ CLimit \in Nat
  <2>1. t \in Thread BY Start
  <2> QED BY <2>1, CallsAssumption DEF TypeOK, CLimit
<1>5. Within(cstack', nCcalls'[t]) BY <1>4 DEF Within
<1>6. NewSound(cstack', m)
  <2>1. m + 1 .. m = {} BY <1>2
  <2> QED BY <2>1 DEF NewSound
<1> QED BY <1>3, <1>5, <1>6, StepRight

\* The stack is cut at m and an activation that stands for no frame is added.
LEMMA PushStep ==
  ASSUME CallInv, TypeOK', cstack # <<>>, NEW t, t = L,
         NEW m \in 1 .. Len(cstack), Agree(cstack, cstack', m), NoResume(cstack, m), Len(cstack') = m + 1,
         OthersKept(t), UNCHANGED coVars,
         NEW d, NEW hook, NEW h, RightAt(cstack, m, t, d, ci'[t], hook, h),
         NEW a, a = cstack'[m + 1], Above(cstack[m], a), Saves(a, t, d, ci'[t], hook, h),
         Sets(a, d, hook, h, nCcalls'[t], allowhook'[t], errfunc'[t]),
         Within(cstack', nCcalls'[t]), Live(ci'[t], openupval'[t])
  PROVE  CallInv'
<1>1. cstack \in Seq(Activation) /\ cstack' \in Seq(Activation) BY DEF CallInv, TypeOK
<1>2. PICK i : i = m + 1 OBVIOUS
<1>3. m \in Nat /\ m \in 0 .. m /\ i - 1 = m /\ i \in 2 .. Len(cstack') BY <1>2
<1>4. RightAt(cstack', i - 1, t, d, ci'[t], hook, h) BY <1>1, <1>3, RightAgree
<1>5. Above(cstack'[i - 1], cstack'[i]) /\ cstack'[i] = a BY <1>2, <1>3 DEF Agree
<1>6. Sound(cstack', i) /\ RightAt(cstack', i, t, nCcalls'[t], ci'[t], allowhook'[t], errfunc'[t])
  BY <1>1, <1>3, <1>4, <1>5, AddOne
<1>7. NewSound(cstack', m)
  <2>1. \A j \in m + 1 .. m + 1 : j = i BY <1>2, <1>3
  <2>2. cstack'[i].k # "resume" BY <1>5 DEF Saves
  <2> QED BY <1>6, <2>1, <2>2 DEF NewSound
<1> QED BY <1>2, <1>6, <1>7, StepRight

\* A push, and a replacement of the top, of one activation.
LEMMA PushActions ==
  ASSUME CallInv, cstack # <<>>, NEW t, t = L, Top.k # "throw",
         NEW a \in Activation, Push(<<a>>), Above(Top, a),
         Saves(a, t, nCcalls[t], ci[t], allowhook[t], errfunc[t]), a.k \notin {"call", "parse"},
         Sets(a, nCcalls[t], allowhook[t], errfunc[t], nCcalls[t], allowhook'[t], errfunc[t]),
         \A u \in Thread \ {t} : allowhook'[u] = allowhook[u], allowhook' \in [Thread -> BOOLEAN],
         UNCHANGED <<frameVars, nCcalls, errfunc, coVars>>
  PROVE  CallInv'
<1> DEFINE n == Len(cstack)
<1>1. /\ cstack \in Seq(Activation) /\ n \in Nat \ {0} /\ Top = cstack[n]
      /\ RightAt(cstack, n, t, nCcalls[t], ci[t], allowhook[t], errfunc[t])
      /\ Live(ci[t], openupval[t]) /\ Within(cstack, nCcalls[t]) /\ NoResume(cstack, n) /\ nCcalls[t] \in Nat /\ CLimit \in Nat
  BY Start
<1>2. /\ cstack' \in Seq(Activation) /\ Len(cstack') = n + 1 /\ (\A j \in 1 .. n : cstack'[j] = cstack[j])
      /\ cstack'[n + 1] = a
  BY <1>1, Push1 DEF Push
<1>3. Agree(cstack, cstack', n) /\ n \in 1 .. n BY <1>1, <1>2 DEF Agree
<1>4. Within(cstack', nCcalls[t]) BY <1>1, <1>2 DEF Within
<1>5. ci' = ci /\ openupval' = openupval /\ errfunc' = errfunc /\ nCcalls' = nCcalls /\ size_ci' = size_ci
  BY DEF frameVars
<1>6. OthersKept(t) BY <1>5 DEF OthersKept
<1>7. TypeOK' BY <1>2, <1>5 DEF CallInv, TypeOK, coVars
<1>8. UNCHANGED coVars OBVIOUS
<1> HIDE DEF n
<1>9. /\ RightAt(cstack, n, t, nCcalls[t], ci'[t], allowhook[t], errfunc[t])
      /\ Saves(a, t, nCcalls[t], ci'[t], allowhook[t], errfunc[t])
      /\ Sets(a, nCcalls[t], allowhook[t], errfunc[t], nCcalls'[t], allowhook'[t], errfunc'[t])
      /\ Within(cstack', nCcalls'[t]) /\ Live(ci'[t], openupval'[t]) /\ Above(cstack[n], a)
  BY <1>1, <1>4, <1>5
<1>10. n \in 1 .. Len(cstack) BY <1>3 DEF n
<1> QED BY <1>1, <1>2, <1>3, <1>6, <1>7, <1>8, <1>9, <1>10, PushStep

LEMMA KindFacts ==
  /\ {"callop", "tailcall", "hook", "throw", "runerror", "call", "pcall", "parse", "exec", "C", "resume", "enter"} \subseteq Kinds
  /\ {"plain", "api", "gc", "handler", "line", "call", "errmem", "errsyntax", "errrun", "errerr"} \subseteq Whys
  /\ Function \subseteq Whys /\ Handlers \subseteq Whys /\ Errors \subseteq Whys /\ "gc" \notin Function \cup Handlers \cup Errors
BY DEF Kinds, Whys, Errors, Function, Handlers

LEMMA LuaCallStep == ASSUME CallInv, NEW f \in Function, lua_call(f) PROVE CallInv'
<1> USE DEF lua_call
<1>1. cstack # <<>> BY DEF Running
<1>2. L \in Thread BY <1>1, Start
<1>3. PICK a : a = Act("call", L, "api", 0) OBVIOUS
<1>0. "call" \in Kinds /\ "api" \in Whys BY KindFacts
<1>4. a \in Activation /\ a.k = "call" /\ a.th = L /\ a.why = "api" BY <1>0, <1>2, <1>3, ActType
<1>5. Push(CallActs(a, f)) /\ Running({"C", "host", "hook", "parse", "exec"}) BY <1>3
<1>6. allowhook' = IF a.why = "gc" THEN [allowhook EXCEPT ![L] = FALSE] ELSE allowhook BY <1>4
<1>7. CountCall /\ UNCHANGED <<frameVars, errfunc, coVars>> OBVIOUS
<1> QED BY <1>4, <1>5, <1>6, <1>7, CallStep

LEMMA GCTMStep == ASSUME CallInv, NEW f \in Function, GCTM(f) PROVE CallInv'
<1> USE DEF GCTM
<1>1. cstack # <<>> BY DEF Running
<1>2. L \in Thread BY <1>1, Start
<1>3. PICK b : b = Act("call", L, "gc", 0) OBVIOUS
<1>0. "call" \in Kinds /\ "gc" \in Whys BY KindFacts
<1>4. b \in Activation /\ b.k = "call" /\ b.th = L /\ b.why = "gc" BY <1>0, <1>2, <1>3, ActType
<1>5. PICK a : a = Saving(b) OBVIOUS
<1>6. a \in Activation /\ a.k = "call" /\ a.th = L /\ a.why = "gc" /\ a.old.allowhook = allowhook[L]
  BY <1>4, <1>5, SavingType DEF CallInv
<1>7. Push(CallActs(a, f)) BY <1>3, <1>5
<1>8. allowhook' = IF a.why = "gc" THEN [allowhook EXCEPT ![L] = FALSE] ELSE allowhook BY <1>6
<1>9. CountCall /\ UNCHANGED <<frameVars, errfunc, coVars>> OBVIOUS
<1>10. Running({"C", "host", "hook", "parse", "exec"}) BY DEF Running
<1> QED BY <1>6, <1>7, <1>8, <1>9, <1>10, CallStep

LEMMA SetsNothing ==
  ASSUME NEW a, NEW d \in Nat, NEW hook, NEW h, a.k \notin {"call", "resume", "parse", "pcall", "hook"}, a.why # "gc"
  PROVE  Sets(a, d, hook, h, d, hook, h)
BY DEF Sets, DepthOf, Disables

\* A push that changes nothing else.
LEMMA PlainPush ==
  ASSUME CallInv, cstack # <<>>, Top.k # "throw", NEW a \in Activation, Push(<<a>>),
         a.k \in {"callop", "tailcall", "throw", "runerror"}, a.th = L, a.why # "gc", Above(Top, a),
         UNCHANGED <<frameVars, nCcalls, allowhook, errfunc, coVars>>
  PROVE  CallInv'
<1>1. PICK t : t = L OBVIOUS
<1>2. nCcalls[t] \in Nat BY <1>1, Start
<1>3. Saves(a, t, nCcalls[t], ci[t], allowhook[t], errfunc[t]) BY <1>1 DEF Saves
<1>4. Sets(a, nCcalls[t], allowhook[t], errfunc[t], nCcalls[t], allowhook[t], errfunc[t])
  BY <1>2, SetsNothing
<1>5. allowhook' = allowhook /\ allowhook \in [Thread -> BOOLEAN] /\ a.k \notin {"call", "parse"}
      /\ UNCHANGED <<frameVars, nCcalls, errfunc, coVars>>
  BY DEF CallInv, TypeOK
<1>6. allowhook' \in [Thread -> BOOLEAN] /\ allowhook'[t] = allowhook[t] /\ \A u \in Thread \ {t} : allowhook'[u] = allowhook[u]
  BY <1>5
<1>7. Sets(a, nCcalls[t], allowhook[t], errfunc[t], nCcalls[t], allowhook'[t], errfunc[t]) BY <1>4, <1>6
<1> QED BY <1>1, <1>3, <1>5, <1>6, <1>7, PushActions

LEMMA OpCallStep ==
  ASSUME CallInv, NEW op \in {"callop", "tailcall"}, NEW f \in Function, OpCall(op, f) PROVE CallInv'
<1>0. Push(<<Act(op, L, f, 0)>>) /\ UNCHANGED <<frameVars, nCcalls, allowhook, errfunc, coVars>> BY DEF OpCall
<1>1. cstack # <<>> /\ Top.k = "exec" BY DEF Running, OpCall
<1>2. L \in Thread /\ L = Top.th BY <1>1, Start
<1>3. PICK a : a = Act(op, L, f, 0) OBVIOUS
<1>4. op \in Kinds /\ f \in Whys /\ f # "gc" BY KindFacts
<1>5. a \in Activation /\ a.k = op /\ a.th = L /\ a.why = f BY <1>2, <1>3, <1>4, ActType
<1>6. Above(Top, a) BY <1>1, <1>2, <1>5 DEF Above
<1> QED BY <1>0, <1>1, <1>3, <1>4, <1>5, <1>6, PlainPush

LEMMA ThrowStep ==
  ASSUME CallInv, NEW e \in {"errmem", "errsyntax"}, Throw(e) PROVE CallInv'
<1> USE DEF Throw
<1>1. cstack # <<>> /\ Top.k # "throw" BY DEF Running
<1>2. L \in Thread /\ L = Top.th BY <1>1, Start
<1>3. PICK a : a = Act("throw", L, e, 0) OBVIOUS
<1>4. "throw" \in Kinds /\ e \in Whys /\ e # "gc" /\ e \in Errors BY KindFacts DEF Errors
<1>5. a \in Activation /\ a.k = "throw" /\ a.th = L /\ a.why = e BY <1>2, <1>3, <1>4, ActType
<1>6. Above(Top, a) BY <1>2, <1>4, <1>5 DEF Above
<1>7. Push(<<a>>) BY <1>3 DEF Throwing
<1> QED BY <1>1, <1>4, <1>5, <1>6, <1>7, PlainPush

LEMMA FailStep ==
  ASSUME CallInv, cstack # <<>>, Top.k # "throw", Push(<<Failing(L)>>),
         UNCHANGED <<frameVars, nCcalls, allowhook, errfunc, coVars>>
  PROVE  CallInv'
<1>2. L \in Thread /\ L = Top.th BY Start
<1>3. PICK a : a = Act("runerror", L, "plain", 0) OBVIOUS
<1>4. "runerror" \in Kinds /\ "plain" \in Whys BY KindFacts
<1>5. a \in Activation /\ a.k = "runerror" /\ a.th = L /\ a.why = "plain" BY <1>2, <1>3, <1>4, ActType
<1>6. Above(Top, a) BY <1>2, <1>5 DEF Above
<1>7. Push(<<a>>) BY <1>3 DEF Failing
<1> QED BY <1>5, <1>6, <1>7, PlainPush

LEMMA ErrorStep == ASSUME CallInv, lua_error PROVE CallInv'
BY FailStep DEF lua_error, Running

LEMMA CallhookStep ==
  ASSUME CallInv, NEW event \in {"line", "call"}, luaD_callhook(event) PROVE CallInv'
<1> USE DEF luaD_callhook
<1>1. cstack # <<>> /\ Top.k \in {"exec", "C"} /\ (event = "line" => Top.k = "exec") BY DEF Running
<1>2. L \in Thread /\ L = Top.th /\ nCcalls[L] \in Nat /\ allowhook[L] \in BOOLEAN BY <1>1, Start
<1>3. PICK a : a = Act("hook", L, event, 0) OBVIOUS
<1>4. "hook" \in Kinds /\ event \in Whys /\ event # "gc" BY KindFacts
<1>5. a \in Activation /\ a.k = "hook" /\ a.th = L /\ a.why = event BY <1>2, <1>3, <1>4, ActType
<1>6. Above(Top, a) BY <1>1, <1>2, <1>5 DEF Above
<1>7. Push(<<a>>) /\ Top.k # "throw" /\ a.k \notin {"call", "parse"} BY <1>1, <1>3, <1>5
<1>8. PICK t : t = L OBVIOUS
<1>9. allowhook[t] = TRUE BY <1>2, <1>8
<1>10. Saves(a, t, nCcalls[t], ci[t], allowhook[t], errfunc[t]) BY <1>4, <1>5, <1>8, <1>9 DEF Saves
<1>11. allowhook'[t] = FALSE /\ (\A u \in Thread \ {t} : allowhook'[u] = allowhook[u]) /\ allowhook' \in [Thread -> BOOLEAN]
  BY <1>2, <1>8 DEF CallInv, TypeOK
<1>12. Sets(a, nCcalls[t], allowhook[t], errfunc[t], nCcalls[t], allowhook'[t], errfunc[t])
  BY <1>2, <1>5, <1>8, <1>11 DEF Sets, DepthOf, Disables
<1>13. UNCHANGED <<frameVars, nCcalls, errfunc, coVars>> OBVIOUS
<1> QED BY <1>1, <1>5, <1>6, <1>7, <1>8, <1>10, <1>11, <1>12, <1>13, PushActions

\* The activation below the top.
LEMMA Below ==
  ASSUME CallInv, cstack # <<>>, Top.k # "host"
  PROVE  /\ Len(cstack) \in 2 .. Len(cstack) /\ Len(cstack) - 1 \in 1 .. Len(cstack) /\ Len(cstack) - 1 \in Nat
         /\ Above(cstack[Len(cstack) - 1], Top)
         /\ Top.k # "resume" => NoResume(cstack, Len(cstack) - 1) /\ cstack[Len(cstack) - 1].th = L
<1>0. PICK n : n = Len(cstack) OBVIOUS
<1>1. n \in Nat \ {0} /\ Sound(cstack, n) /\ Top = cstack[n] /\ L = Top.th BY <1>0, Start
<1>2. n # 1 BY <1>1 DEF Sound
<1>3. n > 1 /\ n \in 2 .. n /\ n - 1 \in 1 .. n /\ n - 1 \in Nat BY <1>1, <1>2
<1>4. Above(cstack[n - 1], Top) BY <1>1, <1>3 DEF Sound
<1>5. Top.k # "resume" => NoResume(cstack, n - 1)
  <2>1. \A j \in n - 1 + 1 .. n : j = n BY <1>1
  <2> QED BY <1>0, <1>1, <2>1 DEF NoResume
<1>6. Top.k # "resume" => cstack[n - 1].th = L BY <1>1, <1>4 DEF Above
<1> QED BY <1>0, <1>3, <1>4, <1>5, <1>6

LEMMA Returned ==
  ASSUME CallInv, cstack # <<>>, Return
  PROVE  /\ cstack' \in Seq(Activation) /\ Len(cstack') = Len(cstack) - 1
         /\ Agree(cstack, cstack', Len(cstack) - 1)
<1>1. cstack \in Seq(Activation) BY Start
<1>2. /\ Front(cstack) \in Seq(Activation) /\ Len(Front(cstack)) = Len(cstack) - 1 /\ Len(cstack) \in Nat \ {0}
      /\ \A j \in 1 .. Len(cstack) - 1 : Front(cstack)[j] = cstack[j]
  BY <1>1, FrontSeq
<1>3. cstack' = Front(cstack) BY <1>2, ConcatEmptySeq DEF Return, Goto
<1> QED BY <1>2, <1>3 DEF Agree

\* An activation that stands for no frame returns.
LEMMA ReturnStep ==
  ASSUME CallInv, cstack # <<>>, NEW t, t = L, Top.k \notin {"host", "resume", "exec", "C", "throw"}, Return,
         nCcalls' \in [Thread -> Nat], allowhook' \in [Thread -> BOOLEAN], errfunc' \in [Thread -> Handlers],
         PutsBack(Top, nCcalls[t], allowhook[t], errfunc[t], nCcalls'[t], allowhook'[t], errfunc'[t]),
         ci' = ci, size_ci' = size_ci, openupval' \in [Thread -> SUBSET Nat], openupval'[t] \subseteq openupval[t],
         OthersKept(t), UNCHANGED coVars
  PROVE  CallInv'
<1> DEFINE n == Len(cstack)
           m == Len(cstack) - 1
<1>1. /\ cstack \in Seq(Activation) /\ n \in Nat \ {0} /\ t \in Thread /\ t = cstack[n].th /\ Top = cstack[n]
      /\ Sound(cstack, n) /\ RightAt(cstack, n, t, nCcalls[t], ci[t], allowhook[t], errfunc[t])
      /\ Live(ci[t], openupval[t]) /\ Within(cstack, nCcalls[t]) /\ nCcalls[t] \in Nat /\ CLimit \in Nat
  BY Start
<1>2. n \in 2 .. n /\ m \in 1 .. n /\ NoResume(cstack, m) BY Below
<1>3. cstack' \in Seq(Activation) /\ Len(cstack') = m /\ Agree(cstack, cstack', m) BY Returned
<1>4. RightAt(cstack, m, t, nCcalls'[t], ci'[t], allowhook'[t], errfunc'[t])
  <2>1. cstack[n].k \notin {"exec", "C"} /\ PutsBack(cstack[n], nCcalls[t], allowhook[t], errfunc[t], nCcalls'[t], allowhook'[t], errfunc'[t])
    BY <1>1
  <2> QED BY <1>1, <1>2, <2>1, DropOne
<1>5. nCcalls'[t] < CLimit
  <2>1. DepthOf(cstack[n]) \in Nat BY <1>1, <1>2, ActNat
  <2>2. nCcalls[t] < CLimit BY <1>1 DEF Within
  <2>3. nCcalls'[t] = nCcalls[t] - DepthOf(cstack[n]) BY <1>1 DEF PutsBack
  <2> QED BY <1>1, <2>1, <2>2, <2>3
<1>6. Live(ci'[t], openupval'[t]) BY <1>1 DEF Live
<1>7. OthersKept(t) OBVIOUS
<1>8. TypeOK' BY <1>3 DEF CallInv, TypeOK, coVars
<1> HIDE DEF n, m
<1>9. m \in 1 .. Len(cstack) BY <1>2 DEF n
<1> QED BY <1>2, <1>3, <1>4, <1>5, <1>6, <1>7, <1>8, <1>9, CutStep

LEMMA CallReturnsStep == ASSUME CallInv, CallReturns PROVE CallInv'
<1> USE DEF CallReturns
<1>1. PICK t : t = L OBVIOUS
<1>2. cstack # <<>> /\ Top.k = "call" BY DEF Running
<1>3. /\ t \in Thread /\ Top \in Activation /\ nCcalls[t] \in Nat /\ Top = cstack[Len(cstack)] /\ Len(cstack) \in Nat \ {0}
      /\ cstack \in Seq(Activation)
      /\ RightAt(cstack, Len(cstack), t, nCcalls[t], ci[t], allowhook[t], errfunc[t])
  BY <1>1, <1>2, Start
<1>4. DepthOf(Top) = 1 BY <1>2 DEF DepthOf
<1>5. nCcalls[t] - 1 \in Nat BY <1>3, <1>4, DepthStep DEF RightAt
<1>6. Top.old.allowhook \in BOOLEAN BY <1>3 DEF Activation, Locals
<1>7. /\ nCcalls' \in [Thread -> Nat] /\ nCcalls'[t] = nCcalls[t] - DepthOf(Top)
      /\ \A u \in Thread \ {t} : nCcalls'[u] = nCcalls[u]
  BY <1>1, <1>3, <1>4, <1>5 DEF CallInv, TypeOK, UncountCall
<1>8. /\ allowhook' \in [Thread -> BOOLEAN]
      /\ allowhook'[t] = IF Top.why = "gc" THEN Top.old.allowhook ELSE allowhook[t]
      /\ \A u \in Thread \ {t} : allowhook'[u] = allowhook[u]
  BY <1>1, <1>3, <1>6 DEF CallInv, TypeOK
<1>9. errfunc' = errfunc /\ errfunc \in [Thread -> Handlers] /\ ci' = ci /\ size_ci' = size_ci /\ openupval' = openupval
      /\ openupval \in [Thread -> SUBSET Nat] /\ UNCHANGED coVars
  BY DEF CallInv, TypeOK, frameVars
<1>10. Return OBVIOUS
<1>11. PutsBack(Top, nCcalls[t], allowhook[t], errfunc[t], nCcalls'[t], allowhook'[t], errfunc'[t]) /\ OthersKept(t)
  BY <1>2, <1>7, <1>8, <1>9 DEF PutsBack, OthersKept
<1> QED BY <1>1, <1>2, <1>7, <1>8, <1>9, <1>10, <1>11, ReturnStep

LEMMA HookReturnsStep == ASSUME CallInv, HookReturns PROVE CallInv'
<1> USE DEF HookReturns
<1>1. PICK t : t = L OBVIOUS
<1>2. cstack # <<>> /\ Top.k = "hook" BY DEF Running
<1>3. t \in Thread /\ nCcalls[t] \in Nat BY <1>1, <1>2, Start
<1>4. DepthOf(Top) = 0 BY <1>2 DEF DepthOf
<1>5. /\ allowhook' \in [Thread -> BOOLEAN] /\ allowhook'[t] = TRUE
      /\ \A u \in Thread \ {t} : allowhook'[u] = allowhook[u]
  BY <1>1, <1>3 DEF CallInv, TypeOK
<1>6. /\ errfunc' = errfunc /\ errfunc \in [Thread -> Handlers] /\ ci' = ci /\ size_ci' = size_ci /\ openupval' = openupval
      /\ openupval \in [Thread -> SUBSET Nat] /\ nCcalls' = nCcalls /\ nCcalls \in [Thread -> Nat]
      /\ UNCHANGED coVars
  BY DEF CallInv, TypeOK, frameVars
<1>7. Return OBVIOUS
<1>8. PutsBack(Top, nCcalls[t], allowhook[t], errfunc[t], nCcalls'[t], allowhook'[t], errfunc'[t]) /\ OthersKept(t)
  <2>1. nCcalls'[t] = nCcalls[t] - DepthOf(Top) BY <1>3, <1>4, <1>6
  <2>2. allowhook'[t] = IF Top.k = "hook" THEN TRUE ELSE IF Top.why = "gc" THEN Top.old.allowhook ELSE allowhook[t]
    BY <1>2, <1>5, Zenon
  <2>3. errfunc'[t] = IF Top.k = "pcall" THEN Top.old.errfunc ELSE errfunc[t] BY <1>2, <1>6
  <2>4. OthersKept(t) BY <1>5, <1>6 DEF OthersKept
  <2> QED BY <2>1, <2>2, <2>3, <2>4, Zenon DEF PutsBack
<1> QED BY <1>1, <1>2, <1>5, <1>6, <1>7, <1>8, ReturnStep

LEMMA PcallReturnsStep == ASSUME CallInv, PcallReturns PROVE CallInv'
<1> USE DEF PcallReturns
<1>1. PICK t : t = L OBVIOUS
<1>2. cstack # <<>> /\ Top.k = "pcall" BY DEF Running
<1>3. t \in Thread /\ nCcalls[t] \in Nat /\ Top \in Activation /\ Top = cstack[Len(cstack)] /\ Sound(cstack, Len(cstack))
  BY <1>1, <1>2, Start
<1>4. DepthOf(Top) = 0 /\ Top.why # "gc" BY <1>2, <1>3 DEF DepthOf, Sound, Keeps
<1>5. Top.old.errfunc \in Handlers BY <1>3 DEF Activation, Locals
<1>6. /\ errfunc' \in [Thread -> Handlers] /\ errfunc'[t] = Top.old.errfunc
      /\ \A u \in Thread \ {t} : errfunc'[u] = errfunc[u]
  BY <1>1, <1>3, <1>5 DEF CallInv, TypeOK
<1>7. /\ allowhook' = allowhook /\ allowhook \in [Thread -> BOOLEAN] /\ ci' = ci /\ size_ci' = size_ci /\ openupval' = openupval
      /\ openupval \in [Thread -> SUBSET Nat] /\ nCcalls' = nCcalls /\ nCcalls \in [Thread -> Nat]
      /\ UNCHANGED coVars
  BY DEF CallInv, TypeOK, frameVars
<1>8. Return OBVIOUS
<1>9. PutsBack(Top, nCcalls[t], allowhook[t], errfunc[t], nCcalls'[t], allowhook'[t], errfunc'[t]) /\ OthersKept(t)
  BY <1>2, <1>3, <1>4, <1>6, <1>7 DEF PutsBack, OthersKept
<1> QED BY <1>1, <1>2, <1>6, <1>7, <1>8, <1>9, ReturnStep

LEMMA ParseEndsStep == ASSUME CallInv, ParseEnds PROVE CallInv'
<1> USE DEF ParseEnds
<1>1. PICK t : t = L OBVIOUS
<1>2. cstack # <<>> /\ Top.k = "parse" /\ Top.n = 0 BY DEF Running
<1>3. t \in Thread /\ nCcalls[t] \in Nat /\ Top = cstack[Len(cstack)] /\ Sound(cstack, Len(cstack))
  BY <1>1, <1>2, Start
<1>4. DepthOf(Top) = 0 /\ Top.why # "gc" BY <1>2, <1>3 DEF DepthOf, Sound, Keeps
<1>5. /\ allowhook' = allowhook /\ allowhook \in [Thread -> BOOLEAN] /\ ci' = ci /\ size_ci' = size_ci /\ openupval' = openupval
      /\ openupval \in [Thread -> SUBSET Nat] /\ nCcalls' = nCcalls /\ nCcalls \in [Thread -> Nat]
      /\ errfunc' = errfunc /\ errfunc \in [Thread -> Handlers] /\ UNCHANGED coVars
  BY DEF CallInv, TypeOK, frameVars
<1>6. Return OBVIOUS
<1>7. PutsBack(Top, nCcalls[t], allowhook[t], errfunc[t], nCcalls'[t], allowhook'[t], errfunc'[t]) /\ OthersKept(t)
  BY <1>2, <1>3, <1>4, <1>5 DEF PutsBack, OthersKept
<1> QED BY <1>1, <1>2, <1>5, <1>6, <1>7, ReturnStep

LEMMA TopFrame ==
  ASSUME NEW s \in Seq(Activation), NEW n \in 1 .. Len(s), NEW t, NEW fs, FramesRight(s, t, n, fs),
         s[n].th = t, FramesIn(s[n]) >= 1
  PROVE  Len(fs) \in Nat /\ Len(fs) >= 1 /\ fs[Len(fs)] = FrameOf(s[n])
<1>1. Level(s, t, n - 1) \in Nat /\ FramesIn(s[n]) \in Nat /\ Level(s, t, n) = Level(s, t, n - 1) + FramesIn(s[n])
  BY LevelStep
<1>2. Len(fs) = Level(s, t, n - 1) + FramesIn(s[n]) BY <1>1 DEF FramesRight
<1>3. FramesIn(s[n]) \in 1 .. FramesIn(s[n]) /\ n \in 1 .. n BY <1>1
<1>4. fs[Level(s, t, n - 1) + FramesIn(s[n])] = FrameOf(s[n]) BY <1>3 DEF FramesRight
<1> QED BY <1>1, <1>2, <1>4

\* The frame of the function on top.
LEMMA OnTop ==
  ASSUME CallInv, cstack # <<>>, NEW t, t = L, Top.k \in {"exec", "C"}
  PROVE  /\ Len(ci[t]) \in Nat \ {0} /\ ci[t][Len(ci[t])] = IF Top.k = "exec" THEN "Lua" ELSE "C"
         /\ Top.k = "exec" => Top.n \in Nat \ {0}
         /\ nCcalls[t] < CLimit
<1>1. PICK n : n = Len(cstack) OBVIOUS
<1>0. /\ cstack \in Seq(Activation) /\ n \in Nat \ {0} /\ t = cstack[n].th /\ Top = cstack[n] /\ Top \in Activation
      /\ RightAt(cstack, n, t, nCcalls[t], ci[t], allowhook[t], errfunc[t]) /\ Within(cstack, nCcalls[t])
  BY <1>1, Start
<1>2. /\ cstack \in Seq(Activation) /\ n \in Nat \ {0} /\ n \in 1 .. Len(cstack) /\ t = cstack[n].th /\ Top = cstack[n] /\ Top \in Activation
      /\ FramesRight(cstack, t, n, ci[t]) /\ Within(cstack, nCcalls[t]) /\ n = Len(cstack)
  BY <1>0, <1>1 DEF RightAt
<1>3. Above(cstack[n - 1], Top) BY <1>1, Below
<1>4. Top.n \in Nat BY <1>2 DEF Activation
<1>5. Top.k = "exec" => Top.n \in Nat \ {0} BY <1>3, <1>4 DEF Above
<1>6. FramesIn(cstack[n]) >= 1 BY <1>2, <1>5 DEF FramesIn
<1>7. Len(ci[t]) \in Nat /\ Len(ci[t]) >= 1 /\ ci[t][Len(ci[t])] = FrameOf(cstack[n]) BY <1>2, <1>6, TopFrame
<1>8. nCcalls[t] < CLimit BY <1>2 DEF Within
<1> QED BY <1>2, <1>5, <1>7, <1>8 DEF FrameOf

LEMMA FindUpvalStep == ASSUME CallInv, FindUpval PROVE CallInv'
<1> USE DEF FindUpval
<1>1. PICK t : t = L OBVIOUS
<1>2. cstack # <<>> /\ Top.k = "exec" BY DEF Running
<1>3. PICK n : n = Len(cstack) OBVIOUS
<1>4. /\ t \in Thread /\ n \in Nat \ {0} /\ RightAt(cstack, n, t, nCcalls[t], ci[t], allowhook[t], errfunc[t])
      /\ Live(ci[t], openupval[t]) /\ Agree(cstack, cstack, n) /\ NoResume(cstack, n)
  BY <1>1, <1>2, <1>3, Start
<1>5. Len(ci[t]) \in Nat \ {0} /\ ci[t][Len(ci[t])] = "Lua" /\ nCcalls[t] < CLimit BY <1>1, <1>2, OnTop
<1>6. openupval'[t] = openupval[t] \cup {Len(ci[t])} /\ \A u \in Thread \ {t} : openupval'[u] = openupval[u]
  BY <1>1, <1>4 DEF CallInv, TypeOK
<1>7. /\ cstack' = cstack /\ ci' = ci /\ size_ci' = size_ci /\ nCcalls' = nCcalls /\ allowhook' = allowhook /\ errfunc' = errfunc
      /\ UNCHANGED coVars
  OBVIOUS
<1>8. openupval' \in [Thread -> SUBSET Nat] BY <1>1, <1>4, <1>5 DEF CallInv, TypeOK
<1>9. TypeOK' BY <1>7, <1>8 DEF CallInv, TypeOK, coVars
<1>10. OthersKept(t) BY <1>6, <1>7 DEF OthersKept
<1>11. Live(ci'[t], openupval'[t]) BY <1>4, <1>5, <1>6, <1>7 DEF Live
<1>12. /\ Agree(cstack, cstack', n) /\ Len(cstack') = n /\ n \in 1 .. Len(cstack) /\ nCcalls'[t] < CLimit
       /\ RightAt(cstack, n, t, nCcalls'[t], ci'[t], allowhook'[t], errfunc'[t])
  BY <1>3, <1>4, <1>5, <1>7
<1> QED BY <1>1, <1>2, <1>4, <1>7, <1>9, <1>10, <1>11, <1>12, CutStep

\* The frame of a function that returns is removed.
PopFrame(t) == ci' = [ci EXCEPT ![t] = Front(@)]

LEMMA FrameLeft ==
  ASSUME CallInv, cstack # <<>>, NEW t, t = L, Top.k \in {"exec", "C"}, PopFrame(t)
  PROVE  /\ ci'[t] = Front(ci[t]) /\ ci' \in [Thread -> Seq(Function)]
         /\ Len(ci'[t]) = Len(ci[t]) - 1 /\ (\A x \in 1 .. Len(ci[t]) - 1 : ci'[t][x] = ci[t][x])
         /\ \A u \in Thread \ {t} : ci'[u] = ci[u]
         /\ \A u \in Thread : Len(ci'[u]) < size_ci[u]
<1>1. t \in Thread /\ ci[t] \in Seq(Function) BY Start
<1>2. Len(ci[t]) \in Nat \ {0} BY OnTop
<1>3. ci[t] # <<>> BY <1>2
<1>4. /\ Front(ci[t]) \in Seq(Function) /\ Len(Front(ci[t])) = Len(ci[t]) - 1
      /\ \A x \in 1 .. Len(ci[t]) - 1 : Front(ci[t])[x] = ci[t][x]
  BY <1>1, <1>3, FrontSeq
<1>5. ci'[t] = Front(ci[t]) /\ \A u \in Thread \ {t} : ci'[u] = ci[u] BY <1>1 DEF CallInv, TypeOK, PopFrame
<1>6. ci' \in [Thread -> Seq(Function)] BY <1>1, <1>4 DEF CallInv, TypeOK, PopFrame
<1>7. \A u \in Thread : Len(ci'[u]) < size_ci[u]
  <2> TAKE u \in Thread
  <2>1. Len(ci[u]) < size_ci[u] /\ size_ci[u] \in Int BY DEF CallInv, TypeOK
  <2> QED BY <1>2, <1>4, <1>5, <2>1
<1> QED BY <1>4, <1>5, <1>6, <1>7

LEMMA CReturnStep == ASSUME CallInv, CReturn PROVE CallInv'
<1> USE DEF CReturn
<1>1. PICK t : t = L OBVIOUS
<1>2. cstack # <<>> /\ Top.k = "C" BY DEF Running
<1>3. PICK n : n = Len(cstack) OBVIOUS
<1>4. /\ cstack \in Seq(Activation) /\ t \in Thread /\ n \in Nat \ {0} /\ Top = cstack[n] /\ t = cstack[n].th
      /\ RightAt(cstack, n, t, nCcalls[t], ci[t], allowhook[t], errfunc[t])
      /\ Live(ci[t], openupval[t]) /\ Sound(cstack, n) /\ ci[t] \in Seq(Function)
  BY <1>1, <1>2, <1>3, Start
<1>5. n \in 2 .. Len(cstack) /\ n - 1 \in 1 .. Len(cstack) /\ NoResume(cstack, n - 1) BY <1>2, <1>3, Below
<1>6. Len(ci[t]) \in Nat \ {0} /\ ci[t][Len(ci[t])] = "C" /\ nCcalls[t] < CLimit BY <1>1, <1>2, OnTop
<1>7. cstack' \in Seq(Activation) /\ Len(cstack') = n - 1 /\ Agree(cstack, cstack', n - 1) BY <1>2, <1>3, Returned
<1>8. /\ ci'[t] = Front(ci[t]) /\ ci' \in [Thread -> Seq(Function)]
      /\ Len(ci'[t]) = Len(ci[t]) - 1 /\ (\A x \in 1 .. Len(ci[t]) - 1 : ci'[t][x] = ci[t][x])
      /\ \A u \in Thread \ {t} : ci'[u] = ci[u]
      /\ \A u \in Thread : Len(ci'[u]) < size_ci[u]
  <2>1. PopFrame(t) BY <1>1 DEF PopFrame
  <2> QED BY <1>1, <1>2, <2>1, FrameLeft
<1>9. /\ openupval' = openupval /\ size_ci' = size_ci /\ nCcalls' = nCcalls /\ allowhook' = allowhook /\ errfunc' = errfunc
      /\ UNCHANGED coVars
  OBVIOUS
<1>10. TypeOK' BY <1>7, <1>8, <1>9 DEF CallInv, TypeOK, coVars
<1>11. OthersKept(t) BY <1>8, <1>9 DEF OthersKept
<1>12. Live(ci'[t], openupval'[t])
  <2>1. ASSUME NEW l \in openupval[t] PROVE l \in 1 .. Len(ci'[t]) /\ ci'[t][l] = "Lua"
    <3>1. l \in 1 .. Len(ci[t]) /\ ci[t][l] = "Lua" BY <1>4 DEF Live
    <3>2. l # Len(ci[t]) BY <1>6, <3>1
    <3>3. l \in 1 .. Len(ci[t]) - 1 BY <1>6, <3>1, <3>2
    <3> QED BY <1>8, <3>1, <3>3
  <2> QED BY <1>9, <2>1 DEF Live
<1>13. RightAt(cstack, n - 1, t, nCcalls[t], Front(ci[t]), allowhook[t], errfunc[t])
  <2>1. cstack[n].k = "C" \/ (cstack[n].k = "exec" /\ cstack[n].n = 1) BY <1>2, <1>4
  <2> QED BY <1>4, <1>5, <2>1, DropFunction
<1>14. RightAt(cstack, n - 1, t, nCcalls'[t], ci'[t], allowhook'[t], errfunc'[t]) /\ nCcalls'[t] < CLimit
  BY <1>6, <1>8, <1>9, <1>13
<1> QED BY <1>1, <1>2, <1>5, <1>7, <1>9, <1>10, <1>11, <1>12, <1>14, CutStep

\* luaF_close from the frame on top.
LEMMA Closed ==
  ASSUME TypeOK, NEW t \in Thread, NEW level \in Int, luaF_close(t, level)
  PROVE  /\ openupval' \in [Thread -> SUBSET Nat]
         /\ openupval'[t] = {l \in openupval[t] : l < level}
         /\ \A u \in Thread \ {t} : openupval'[u] = openupval[u]
BY DEF TypeOK, luaF_close

LEMMA OpReturnStep == ASSUME CallInv, OpReturn PROVE CallInv'
<1>1. PICK t : t = L OBVIOUS
<1>2. cstack # <<>> /\ Top.k = "exec" BY DEF Running, OpReturn
<1>3. PICK n : n = Len(cstack) OBVIOUS
<1>4. /\ cstack \in Seq(Activation) /\ t \in Thread /\ n \in Nat \ {0} /\ Top = cstack[n] /\ t = cstack[n].th /\ Top \in Activation
      /\ RightAt(cstack, n, t, nCcalls[t], ci[t], allowhook[t], errfunc[t])
      /\ Live(ci[t], openupval[t]) /\ Sound(cstack, n) /\ ci[t] \in Seq(Function)
  BY <1>1, <1>2, <1>3, Start
<1>5. n \in 2 .. Len(cstack) /\ n - 1 \in 1 .. Len(cstack) /\ NoResume(cstack, n - 1) BY <1>2, <1>3, Below
<1>6. Len(ci[t]) \in Nat \ {0} /\ Top.n \in Nat \ {0} /\ nCcalls[t] < CLimit BY <1>1, <1>2, OnTop
<1>7. /\ ci'[t] = Front(ci[t]) /\ ci' \in [Thread -> Seq(Function)]
      /\ Len(ci'[t]) = Len(ci[t]) - 1 /\ (\A x \in 1 .. Len(ci[t]) - 1 : ci'[t][x] = ci[t][x])
      /\ \A u \in Thread \ {t} : ci'[u] = ci[u]
      /\ \A u \in Thread : Len(ci'[u]) < size_ci[u]
  <2>1. PopFrame(t) /\ Top.k \in {"exec", "C"} BY <1>1, <1>2 DEF OpReturn, PopFrame
  <2> QED BY <1>1, <1>2, <2>1, FrameLeft
<1>8. /\ openupval' \in [Thread -> SUBSET Nat]
      /\ openupval'[t] = {l \in openupval[t] : l < Len(ci[t])}
      /\ \A u \in Thread \ {t} : openupval'[u] = openupval[u]
  <2>1. luaF_close(t, Len(ci[t])) /\ Len(ci[t]) \in Int BY <1>1, <1>6 DEF OpReturn
  <2> QED BY <1>4, <2>1, Closed DEF CallInv
<1>9. /\ size_ci' = size_ci /\ nCcalls' = nCcalls /\ allowhook' = allowhook /\ errfunc' = errfunc /\ UNCHANGED coVars
  BY DEF OpReturn
<1>10. Live(ci'[t], openupval'[t])
  <2>1. ASSUME NEW l \in openupval'[t] PROVE l \in 1 .. Len(ci'[t]) /\ ci'[t][l] = "Lua"
    <3>1. l \in 1 .. Len(ci[t]) /\ ci[t][l] = "Lua" /\ l < Len(ci[t]) BY <1>4, <1>8 DEF Live
    <3>2. l \in 1 .. Len(ci[t]) - 1 BY <1>6, <3>1
    <3> QED BY <1>7, <3>1, <3>2
  <2> QED BY <2>1 DEF Live
<1>11. OthersKept(t) BY <1>7, <1>8, <1>9 DEF OthersKept
<1>12. CASE Top.n = 1
  <2>1. Return BY <1>12 DEF OpReturn, Return
  <2>2. cstack' \in Seq(Activation) /\ Len(cstack') = n - 1 /\ Agree(cstack, cstack', n - 1) BY <1>2, <1>3, <2>1, Returned
  <2>3. TypeOK' BY <1>7, <1>8, <1>9, <2>2 DEF CallInv, TypeOK, coVars
  <2>4. RightAt(cstack, n - 1, t, nCcalls[t], Front(ci[t]), allowhook[t], errfunc[t])
    <3>1. cstack[n].k = "C" \/ (cstack[n].k = "exec" /\ cstack[n].n = 1) BY <1>2, <1>4, <1>12
    <3> QED BY <1>4, <1>5, <3>1, DropFunction
  <2>5. RightAt(cstack, n - 1, t, nCcalls'[t], ci'[t], allowhook'[t], errfunc'[t]) /\ nCcalls'[t] < CLimit
    BY <1>6, <1>7, <1>9, <2>4
  <2> QED BY <1>1, <1>2, <1>5, <1>9, <1>10, <1>11, <2>2, <2>3, <2>5, CutStep
<1>13. CASE Top.n # 1
  <2>1. PICK a : a = [Top EXCEPT !.n = @ - 1] OBVIOUS
  <2>2. Top.n - 1 \in Nat \ {0} BY <1>6, <1>13
  <2>3. a \in Activation /\ a.k = "exec" /\ a.th = t /\ a.n = Top.n - 1 /\ a.why = Top.why
    BY <1>2, <1>4, <2>1, <2>2 DEF Activation
  <2>4. cstack' = Front(cstack) \o <<a>> BY <1>13, <2>1 DEF OpReturn, Goto
  <2>5. /\ Front(cstack) \in Seq(Activation) /\ Len(Front(cstack)) = n - 1
        /\ \A j \in 1 .. n - 1 : Front(cstack)[j] = cstack[j]
    BY <1>2, <1>3, <1>4, FrontSeq
  <2>6. cstack' \in Seq(Activation) /\ Len(cstack') = n /\ cstack'[n] = a /\ Agree(cstack, cstack', n - 1)
    <3>1. PICK s : s = Front(cstack) OBVIOUS
    <3>2. /\ s \o <<a>> \in Seq(Activation) /\ Len(s \o <<a>>) = Len(s) + 1
          /\ (\A j \in 1 .. Len(s) : (s \o <<a>>)[j] = s[j]) /\ (s \o <<a>>)[Len(s) + 1] = a
      BY <2>3, <2>5, <3>1, Push1
    <3>3. cstack' = s \o <<a>> /\ Len(s) = n - 1 /\ Len(s) + 1 = n BY <1>4, <2>4, <2>5, <3>1
    <3>4. Len(cstack') = n /\ n - 1 <= Len(cstack) /\ \A j \in 1 .. n - 1 : cstack'[j] = cstack[j]
      BY <1>4, <1>5, <2>5, <3>1, <3>2, <3>3
    <3>5. cstack' \in Seq(Activation) /\ cstack'[n] = a BY ONLY <3>2, <3>3
    <3>6. n - 1 <= n BY <1>4
    <3>7. Agree(cstack, cstack', n - 1) BY ONLY <3>4, <3>6 DEF Agree
    <3> QED BY ONLY <3>4, <3>5, <3>7
  <2>7. TypeOK' BY <1>7, <1>8, <1>9, <2>6 DEF CallInv, TypeOK, coVars
  <2>8. Sound(cstack', n) /\ RightAt(cstack', n, t, nCcalls[t], ci'[t], allowhook[t], errfunc[t])
    <3>1. Len(ci'[t]) = Len(ci[t]) - Top.n + (Top.n - 1) BY <1>6, <1>7
    <3>2. \A y \in 1 .. Len(ci'[t]) : ci'[t][y] = IF y <= Len(ci[t]) THEN ci[t][y] ELSE "Lua" BY <1>6, <1>7
    <3>3. PICK x : x = Top.n - 1 OBVIOUS
    <3>4. n <= Len(cstack') /\ Rerun(cstack[n], cstack'[n], t, x) /\ x \in Nat \ {0} BY <1>2, <1>4, <2>2, <2>3, <2>6, <3>3 DEF Rerun
    <3>5. Reframed(ci'[t], ci[t], cstack[n].n, x) BY <1>4, <3>1, <3>2, <3>3 DEF Reframed
    <3>6. /\ cstack \in Seq(Activation) /\ cstack' \in Seq(Activation) /\ n \in 2 .. Len(cstack) /\ Agree(cstack, cstack', n - 1)
          /\ Sound(cstack, n) /\ RightAt(cstack, n, t, nCcalls[t], ci[t], allowhook[t], errfunc[t])
      BY <1>4, <1>5, <2>6
    <3> QED BY <3>4, <3>5, <3>6, Recount
  <2>9. NewSound(cstack', n - 1)
    <3>1. \A j \in n - 1 + 1 .. n : j = n BY <1>4
    <3> QED BY <2>3, <2>6, <2>8, <3>1 DEF NewSound
  <2>10. Within(cstack', nCcalls'[t])
    <3>1. nCcalls[t] \in Nat /\ CLimit \in Nat BY <1>1, <1>2, Start
    <3> QED BY <1>6, <1>9, <3>1 DEF Within
  <2>11. RightAt(cstack', Len(cstack'), t, nCcalls'[t], ci'[t], allowhook'[t], errfunc'[t]) BY <1>9, <2>6, <2>8
  <2> QED BY <1>1, <1>2, <1>5, <1>9, <1>10, <1>11, <2>6, <2>7, <2>9, <2>10, <2>11, StepRight
<1> QED BY <1>12, <1>13

\* An activation in the place of the top.
LEMMA Replaced ==
  ASSUME CallInv, cstack # <<>>, NEW a \in Activation, Goto(<<a>>)
  PROVE  /\ cstack' \in Seq(Activation) /\ Len(cstack') = Len(cstack) /\ cstack'[Len(cstack)] = a
         /\ Agree(cstack, cstack', Len(cstack) - 1)
<1>1. cstack \in Seq(Activation) BY Start
<1>2. PICK s : s = Front(cstack) OBVIOUS
<1>3. /\ s \in Seq(Activation) /\ Len(s) = Len(cstack) - 1 /\ Len(cstack) \in Nat \ {0}
      /\ \A j \in 1 .. Len(cstack) - 1 : s[j] = cstack[j]
  BY <1>1, <1>2, FrontSeq
<1>4. /\ s \o <<a>> \in Seq(Activation) /\ Len(s \o <<a>>) = Len(s) + 1
      /\ (\A j \in 1 .. Len(s) : (s \o <<a>>)[j] = s[j]) /\ (s \o <<a>>)[Len(s) + 1] = a
  BY <1>3, Push1
<1>5. cstack' = s \o <<a>> BY <1>2 DEF Goto
<1>6. Len(s) + 1 = Len(cstack) /\ Len(cstack) - 1 <= Len(cstack) BY <1>3
<1> QED BY <1>3, <1>4, <1>5, <1>6 DEF Agree

\* Without the top, which has saved and counted nothing.
LEMMA Dropped ==
  ASSUME CallInv, cstack # <<>>, NEW t, t = L, Top.k \in {"enter", "callop", "tailcall", "runerror"}
  PROVE  /\ Len(cstack) \in 2 .. Len(cstack) /\ Len(cstack) - 1 \in 1 .. Len(cstack) /\ Len(cstack) - 1 \in Nat
         /\ RightAt(cstack, Len(cstack) - 1, t, nCcalls[t], ci[t], allowhook[t], errfunc[t])
         /\ NoResume(cstack, Len(cstack) - 1) /\ cstack[Len(cstack) - 1].th = t
         /\ Above(cstack[Len(cstack) - 1], Top) /\ nCcalls[t] < CLimit
         /\ nCcalls[t] \in Nat /\ CLimit \in Nat
         /\ PutsBack(Top, nCcalls[t], allowhook[t], errfunc[t], nCcalls[t], allowhook[t], errfunc[t])
<1>1. PICK n : n = Len(cstack) OBVIOUS
<1>2. /\ cstack \in Seq(Activation) /\ n \in Nat \ {0} /\ t = cstack[n].th /\ Top = cstack[n]
      /\ Sound(cstack, n) /\ RightAt(cstack, n, t, nCcalls[t], ci[t], allowhook[t], errfunc[t])
      /\ Within(cstack, nCcalls[t]) /\ nCcalls[t] \in Nat /\ CLimit \in Nat
  BY <1>1, Start
<1>3. n \in 2 .. n /\ n - 1 \in 1 .. n /\ n - 1 \in Nat /\ NoResume(cstack, n - 1)
      /\ cstack[n - 1].th = t /\ Above(cstack[n - 1], Top)
  BY <1>1, Below
<1>4. Top.why # "gc" /\ DepthOf(Top) = 0 BY <1>2 DEF Sound, Keeps, DepthOf
<1>5. PutsBack(Top, nCcalls[t], allowhook[t], errfunc[t], nCcalls[t], allowhook[t], errfunc[t])
  <2>1. nCcalls[t] = nCcalls[t] - DepthOf(Top) BY <1>2, <1>4
  <2>2. Top.k # "hook" /\ Top.k # "pcall" OBVIOUS
  <2> QED BY <1>4, <2>1, <2>2, Zenon DEF PutsBack
<1>6. RightAt(cstack, n - 1, t, nCcalls[t], ci[t], allowhook[t], errfunc[t])
  <2>1. /\ PutsBack(cstack[n], nCcalls[t], allowhook[t], errfunc[t], nCcalls[t], allowhook[t], errfunc[t])
        /\ cstack[n].k \notin {"exec", "C"} /\ n \in 2 .. Len(cstack)
    BY <1>1, <1>2, <1>3, <1>5
  <2> QED BY <1>2, <2>1, DropOne
<1>7. nCcalls[t] < CLimit BY <1>1, <1>2 DEF Within
<1> QED BY <1>1, <1>2, <1>3, <1>5, <1>6, <1>7

\* An error in the place of the top.
LEMMA FailInstead ==
  ASSUME CallInv, cstack # <<>>, NEW t, t = L, Top.k \in {"enter", "callop", "tailcall", "runerror"},
         NEW a \in Activation, a.k \in {"throw", "runerror"}, a.th = t, a.why \in {"plain"} \cup Errors,
         a.k = "throw" => a.why \in Errors, Goto(<<a>>),
         ci' = ci, openupval' = openupval, size_ci' \in [Thread -> 2 .. 2 * LUAI_MAXCALLS],
         \A u \in Thread : Len(ci[u]) < size_ci'[u],
         UNCHANGED <<nCcalls, allowhook, errfunc, coVars>>
  PROVE  CallInv'
<1>1. PICK m : m = Len(cstack) - 1 OBVIOUS
<1>2. /\ m \in 1 .. Len(cstack) /\ m \in Nat /\ m + 1 = Len(cstack)
      /\ RightAt(cstack, m, t, nCcalls[t], ci[t], allowhook[t], errfunc[t])
      /\ NoResume(cstack, m) /\ cstack[m].th = t /\ nCcalls[t] < CLimit
      /\ nCcalls[t] \in Nat /\ CLimit \in Nat
  BY <1>1, Dropped
<1>3. cstack' \in Seq(Activation) /\ Len(cstack') = m + 1 /\ cstack'[m + 1] = a /\ Agree(cstack, cstack', m)
  BY <1>1, <1>2, Replaced
<1>4. nCcalls' = nCcalls /\ allowhook' = allowhook /\ errfunc' = errfunc /\ UNCHANGED coVars OBVIOUS
<1>5. TypeOK' BY <1>3 DEF CallInv, TypeOK, coVars
<1>6. OthersKept(t) BY <1>4 DEF OthersKept
<1>7. a.why # "gc" /\ Above(cstack[m], a) BY <1>2, KindFacts DEF Above
<1>8. Saves(a, t, nCcalls[t], ci'[t], allowhook[t], errfunc[t]) BY <1>7 DEF Saves
<1>9. Sets(a, nCcalls[t], allowhook[t], errfunc[t], nCcalls'[t], allowhook'[t], errfunc'[t])
  <2>1. a.k \notin {"call", "resume", "parse", "pcall", "hook"} OBVIOUS
  <2>2. Sets(a, nCcalls[t], allowhook[t], errfunc[t], nCcalls[t], allowhook[t], errfunc[t])
    BY <1>2, <1>7, <2>1, SetsNothing
  <2> QED BY <1>4, <2>2
<1>10. Within(cstack', nCcalls'[t]) BY <1>2, <1>4 DEF Within
<1>11. Live(ci'[t], openupval'[t]) BY Start
<1>12. RightAt(cstack, m, t, nCcalls[t], ci'[t], allowhook[t], errfunc[t]) BY <1>2
<1>13. a = cstack'[m + 1] BY <1>3
<1> QED BY <1>2, <1>3, <1>4, <1>5, <1>6, <1>7, <1>8, <1>9, <1>10, <1>11, <1>12, <1>13, PushStep

\* growCI: the size of the CallInfo array after luaD_precall has asked for one
\* more; `fits' if it is there.
SizeOf(t, size, over) ==
    size = IF Len(ci[t]) = size_ci[t] - 1 /\ ~over THEN [size_ci EXCEPT ![t] = 2 * size_ci[t]] ELSE size_ci
FrameFits(t, over) ==
    Len(ci[t]) # size_ci[t] - 1 \/ (~over /\ 2 * size_ci[t] <= LUAI_MAXCALLS)

LEMMA Grown ==
  ASSUME TypeOK, NEW t \in Thread, NEW size, SizeOf(t, size, Overflown(t))
  PROVE  /\ size \in [Thread -> 2 .. 2 * LUAI_MAXCALLS]
         /\ \A u \in Thread : Len(ci[u]) < size[u]
         /\ FrameFits(t, Overflown(t)) => Len(ci[t]) + 1 < size[t]
<1>1. /\ size_ci \in [Thread -> 2 .. 2 * LUAI_MAXCALLS] /\ LUAI_MAXCALLS \in Nat
      /\ \A u \in Thread : Len(ci[u]) < size_ci[u] /\ Len(ci[u]) \in Nat
  BY CallsAssumption DEF TypeOK
<1>2. CASE Len(ci[t]) = size_ci[t] - 1 /\ ~Overflown(t)
  <2>1. size = [size_ci EXCEPT ![t] = 2 * size_ci[t]] BY <1>2 DEF SizeOf
  <2>2. size_ci[t] \in 2 .. LUAI_MAXCALLS BY <1>1, <1>2 DEF Overflown
  <2>3. 2 * size_ci[t] \in 2 .. 2 * LUAI_MAXCALLS BY <1>1, <2>2
  <2>4. size \in [Thread -> 2 .. 2 * LUAI_MAXCALLS] BY <1>1, <2>1, <2>3
  <2>5. size[t] = 2 * size_ci[t] /\ \A u \in Thread \ {t} : size[u] = size_ci[u] BY <1>1, <2>1
  <2>6. Len(ci[t]) + 1 < size[t] BY <1>1, <1>2, <2>2, <2>5
  <2>7. \A u \in Thread : Len(ci[u]) < size[u] BY <1>1, <2>5, <2>6
  <2> QED BY <2>4, <2>6, <2>7
<1>3. CASE ~(Len(ci[t]) = size_ci[t] - 1 /\ ~Overflown(t))
  <2>1. size = size_ci BY <1>3 DEF SizeOf
  <2>2. FrameFits(t, Overflown(t)) => Len(ci[t]) # size_ci[t] - 1 BY <1>3 DEF FrameFits
  <2>3. size_ci[t] \in Nat BY <1>1
  <2> QED BY <1>1, <2>1, <2>2, <2>3
<1> QED BY <1>2, <1>3

\* The callee goes on in the frame of its caller.
LEMMA TailCallStep ==
  ASSUME CallInv, cstack # <<>>, NEW t, t = L, Top.k = "tailcall", Return, luaF_close(t, Len(ci[t])), ci' = ci,
         size_ci' \in [Thread -> 2 .. 2 * LUAI_MAXCALLS], \A u \in Thread : Len(ci[u]) < size_ci'[u],
         UNCHANGED <<nCcalls, allowhook, errfunc, coVars>>
  PROVE  CallInv'
<1>1. PICK m : m = Len(cstack) - 1 OBVIOUS
<1>2. /\ m \in 1 .. Len(cstack) /\ m \in Nat
      /\ RightAt(cstack, m, t, nCcalls[t], ci[t], allowhook[t], errfunc[t])
      /\ NoResume(cstack, m) /\ nCcalls[t] < CLimit
  BY <1>1, Dropped
<1>3. cstack' \in Seq(Activation) /\ Len(cstack') = m /\ Agree(cstack, cstack', m) BY <1>1, Returned
<1>4. t \in Thread /\ Live(ci[t], openupval[t]) /\ Len(ci[t]) \in Int
  <2>1. ci[t] \in Seq(Function) BY Start
  <2> QED BY <2>1, Start
<1>5. /\ openupval' \in [Thread -> SUBSET Nat] /\ openupval'[t] = {l \in openupval[t] : l < Len(ci[t])}
      /\ \A u \in Thread \ {t} : openupval'[u] = openupval[u]
  BY <1>4, Closed DEF CallInv
<1>6. nCcalls' = nCcalls /\ allowhook' = allowhook /\ errfunc' = errfunc /\ UNCHANGED coVars OBVIOUS
<1>7. TypeOK' BY <1>3, <1>5 DEF CallInv, TypeOK, coVars
<1>8. OthersKept(t) BY <1>5, <1>6 DEF OthersKept
<1>9. Live(ci'[t], openupval'[t]) BY <1>4, <1>5 DEF Live
<1>10. RightAt(cstack, m, t, nCcalls'[t], ci'[t], allowhook'[t], errfunc'[t]) /\ nCcalls'[t] < CLimit BY <1>2, <1>6
<1> QED BY <1>2, <1>3, <1>6, <1>7, <1>8, <1>9, <1>10, CutStep

\* A frame for f is added.
AddFrame(t, f) == ci' = [ci EXCEPT ![t] = Append(@, f)]

LEMMA FrameAdded ==
  ASSUME CallInv, cstack # <<>>, NEW t, t = L, NEW f \in Function, AddFrame(t, f),
         \A u \in Thread : Len(ci[u]) < size_ci'[u], Len(ci[t]) + 1 < size_ci'[t]
  PROVE  /\ ci'[t] = Append(ci[t], f) /\ ci' \in [Thread -> Seq(Function)]
         /\ Len(ci'[t]) = Len(ci[t]) + 1 /\ Len(ci[t]) \in Nat
         /\ (\A x \in 1 .. Len(ci[t]) : ci'[t][x] = ci[t][x]) /\ ci'[t][Len(ci[t]) + 1] = f
         /\ \A u \in Thread \ {t} : ci'[u] = ci[u]
         /\ \A u \in Thread : Len(ci'[u]) < size_ci'[u]
         /\ Live(ci'[t], openupval[t])
<1>1. t \in Thread /\ ci[t] \in Seq(Function) /\ Live(ci[t], openupval[t]) /\ Len(ci[t]) \in Nat
  <2>1. ci[t] \in Seq(Function) BY Start
  <2> QED BY <2>1, Start
<1>2. ci'[t] = Append(ci[t], f) /\ \A u \in Thread \ {t} : ci'[u] = ci[u] BY <1>1 DEF CallInv, TypeOK, AddFrame
<1>3. /\ Append(ci[t], f) \in Seq(Function) /\ Len(Append(ci[t], f)) = Len(ci[t]) + 1
      /\ (\A x \in 1 .. Len(ci[t]) : Append(ci[t], f)[x] = ci[t][x]) /\ Append(ci[t], f)[Len(ci[t]) + 1] = f
  BY <1>1, AppendProperties
<1>4. ci' \in [Thread -> Seq(Function)] BY <1>1, <1>3 DEF CallInv, TypeOK, AddFrame
<1>5. \A u \in Thread : Len(ci'[u]) < size_ci'[u] BY <1>2, <1>3
<1>6. Live(ci'[t], openupval[t])
  <2> SUFFICES ASSUME NEW l \in openupval[t] PROVE l \in 1 .. Len(ci'[t]) /\ ci'[t][l] = "Lua" BY DEF Live
  <2>1. l \in 1 .. Len(ci[t]) /\ ci[t][l] = "Lua" BY <1>1 DEF Live
  <2> QED BY <1>1, <1>2, <1>3, <2>1
<1> QED BY <1>1, <1>2, <1>3, <1>4, <1>5, <1>6

\* A C function, or a new luaV_execute, starts.
LEMMA FunctionStarts ==
  ASSUME CallInv, cstack # <<>>, NEW t, t = L, Top.k \in {"enter", "callop", "tailcall"},
         NEW f \in Function, Top.why = f, AddFrame(t, f),
         NEW a \in Activation, Goto(<<a>>), a.th = t, a.why = "plain",
         f = "C" => a.k = "C", f = "Lua" => Top.k = "enter" /\ a.k = "exec" /\ a.n = 1,
         size_ci' \in [Thread -> 2 .. 2 * LUAI_MAXCALLS],
         \A u \in Thread : Len(ci[u]) < size_ci'[u], Len(ci[t]) + 1 < size_ci'[t],
         UNCHANGED <<openupval, nCcalls, allowhook, errfunc, coVars>>
  PROVE  CallInv'
<1>1. PICK m : m = Len(cstack) - 1 OBVIOUS
<1>2. /\ m \in 1 .. Len(cstack) /\ m \in Nat /\ m + 1 = Len(cstack)
      /\ RightAt(cstack, m, t, nCcalls[t], ci[t], allowhook[t], errfunc[t])
      /\ NoResume(cstack, m) /\ cstack[m].th = t /\ nCcalls[t] < CLimit
      /\ nCcalls[t] \in Nat /\ CLimit \in Nat /\ Above(cstack[m], Top)
  BY <1>1, Dropped
<1>3. cstack' \in Seq(Activation) /\ Len(cstack') = m + 1 /\ cstack'[m + 1] = a /\ Agree(cstack, cstack', m)
  BY <1>1, <1>2, Replaced
<1>4. /\ ci'[t] = Append(ci[t], f) /\ ci' \in [Thread -> Seq(Function)]
      /\ \A u \in Thread \ {t} : ci'[u] = ci[u]
      /\ \A u \in Thread : Len(ci'[u]) < size_ci'[u]
      /\ Live(ci'[t], openupval[t])
  BY FrameAdded
<1>5. nCcalls' = nCcalls /\ allowhook' = allowhook /\ errfunc' = errfunc /\ openupval' = openupval /\ UNCHANGED coVars OBVIOUS
<1>6. TypeOK' BY <1>3, <1>4, <1>5 DEF CallInv, TypeOK, coVars
<1>7. OthersKept(t) BY <1>4, <1>5 DEF OthersKept
<1>8. f = "C" \/ f = "Lua" BY DEF Function
<1>9. (a.k = "C" \/ (a.k = "exec" /\ a.n = 1)) /\ FrameOf(a) = f BY <1>8 DEF FrameOf
<1>10. Above(cstack[m], a)
  <2>1. f = "C" => cstack[m].k \in {"call", "exec"} BY <1>2 DEF Above
  <2>2. f = "Lua" => cstack[m].k \in {"call", "resume"} BY <1>2 DEF Above
  <2> QED BY <1>2, <1>8, <2>1, <2>2 DEF Above
<1>11. cstack \in Seq(Activation) /\ ci[t] \in Seq(Function) BY Start
<1>12. PICK i : i = m + 1 OBVIOUS
<1>13. i \in 2 .. Len(cstack') /\ i - 1 = m /\ m \in 0 .. m BY <1>2, <1>3, <1>12
<1>14. RightAt(cstack', i - 1, t, nCcalls[t], ci[t], allowhook[t], errfunc[t]) BY <1>2, <1>3, <1>11, <1>13, RightAgree
<1>15. /\ cstack'[i].th = t /\ (cstack'[i].k = "C" \/ (cstack'[i].k = "exec" /\ cstack'[i].n = 1))
       /\ Above(cstack'[i - 1], cstack'[i]) /\ cstack'[i].why # "gc" /\ FrameOf(cstack'[i]) = f
  <2>1. cstack'[i] = a BY <1>3, <1>12
  <2>2. cstack'[i - 1] = cstack[m] BY <1>2, <1>3, <1>13 DEF Agree
  <2> QED BY <1>9, <1>10, <2>1, <2>2
<1>16. Sound(cstack', i) /\ RightAt(cstack', i, t, nCcalls[t], Append(ci[t], FrameOf(cstack'[i])), allowhook[t], errfunc[t])
  BY <1>2, <1>3, <1>11, <1>13, <1>14, <1>15, AddFunction
<1>17. RightAt(cstack', Len(cstack'), t, nCcalls'[t], ci'[t], allowhook'[t], errfunc'[t])
  BY <1>3, <1>4, <1>5, <1>12, <1>15, <1>16
<1>18. NewSound(cstack', m)
  <2>1. \A j \in m + 1 .. m + 1 : j = i BY <1>2, <1>12
  <2> QED BY <1>3, <1>15, <1>16, <2>1 DEF NewSound
<1>19. Within(cstack', nCcalls'[t]) /\ Live(ci'[t], openupval'[t]) BY <1>2, <1>4, <1>5 DEF Within
<1> QED BY <1>2, <1>3, <1>5, <1>6, <1>7, <1>17, <1>18, <1>19, StepRight

\* A Lua function goes on in the luaV_execute of its caller.
LEMMA SameLoop ==
  ASSUME CallInv, cstack # <<>>, NEW t, t = L, Top.k = "callop", AddFrame(t, "Lua"),
         NEW b, b = Front(cstack), cstack' = Append(Front(b), [Last(b) EXCEPT !.n = @ + 1]),
         size_ci' \in [Thread -> 2 .. 2 * LUAI_MAXCALLS],
         \A u \in Thread : Len(ci[u]) < size_ci'[u], Len(ci[t]) + 1 < size_ci'[t],
         UNCHANGED <<openupval, nCcalls, allowhook, errfunc, coVars>>
  PROVE  CallInv'
<1>1. PICK n : n = Len(cstack) - 1 OBVIOUS
<1>2. /\ n \in 1 .. Len(cstack) /\ n \in Nat /\ n + 1 = Len(cstack)
      /\ RightAt(cstack, n, t, nCcalls[t], ci[t], allowhook[t], errfunc[t])
      /\ NoResume(cstack, n) /\ cstack[n].th = t /\ nCcalls[t] < CLimit
      /\ nCcalls[t] \in Nat /\ CLimit \in Nat /\ Above(cstack[n], Top)
  BY <1>1, Dropped
<1>3. cstack[n].k = "exec" BY <1>2 DEF Above
<1>4. cstack \in Seq(Activation) /\ SoundStack(cstack) BY Start
<1>5. Sound(cstack, n) /\ cstack[n] \in Activation BY <1>2, <1>4, ActNat DEF SoundStack
<1>6. n # 1 /\ Above(cstack[n - 1], cstack[n])
  <2>1. n # 1 BY <1>3, <1>5 DEF Sound
  <2> QED BY <1>2, <1>5, <2>1 DEF Sound
<1>7. n \in 2 .. Len(cstack) /\ n - 1 \in 1 .. Len(cstack) /\ n - 1 \in Nat BY <1>2, <1>6
<1>8. PICK a : a = [cstack[n] EXCEPT !.n = @ + 1] OBVIOUS
<1>9. cstack[n].n \in Nat BY <1>5 DEF Activation
<1>10. a \in Activation /\ a.k = "exec" /\ a.th = t /\ a.n = cstack[n].n + 1 /\ a.why = cstack[n].why
  <2>1. cstack[n] \in Activation /\ cstack[n].n + 1 \in Nat /\ cstack[n].k = "exec" /\ cstack[n].th = t
    BY <1>2, <1>3, <1>5, <1>9
  <2> QED BY ONLY <1>8, <2>1 DEF Activation
<1>11. b \in Seq(Activation) /\ Len(b) = n /\ \A j \in 1 .. n : b[j] = cstack[j]
  BY <1>1, <1>4, FrontSeq
<1>12. b # <<>> /\ Last(b) = cstack[n] BY <1>2, <1>11 DEF Last
<1>13. PICK c : c = Front(b) OBVIOUS
<1>14. c \in Seq(Activation) /\ Len(c) = n - 1 /\ \A j \in 1 .. n - 1 : c[j] = cstack[j]
  <2>1. c \in Seq(Activation) /\ Len(c) = n - 1 /\ \A j \in 1 .. n - 1 : c[j] = b[j]
    BY <1>11, <1>12, <1>13, FrontSeq
  <2>2. \A j \in 1 .. n - 1 : j \in 1 .. n BY <1>2
  <2> QED BY <1>11, <2>1, <2>2
<1>15. cstack' = Append(c, a) BY <1>8, <1>12, <1>13
<1>16. cstack' \in Seq(Activation) /\ Len(cstack') = n /\ cstack'[n] = a /\ Agree(cstack, cstack', n - 1)
  <2>1. /\ Append(c, a) \in Seq(Activation) /\ Len(Append(c, a)) = Len(c) + 1
        /\ (\A x \in 1 .. Len(c) : Append(c, a)[x] = c[x]) /\ Append(c, a)[Len(c) + 1] = a
    BY <1>10, <1>14, AppendProperties
  <2>2. Len(c) + 1 = n BY <1>2, <1>14
  <2>3. n - 1 <= n /\ n - 1 <= Len(cstack) BY <1>2
  <2>4. \A x \in 1 .. n - 1 : cstack'[x] = cstack[x] BY <1>14, <1>15, <2>1
  <2> QED BY <1>15, <2>1, <2>2, <2>3, <2>4 DEF Agree
<1>17. /\ Len(ci'[t]) = Len(ci[t]) + 1 /\ Len(ci[t]) \in Nat /\ ci' \in [Thread -> Seq(Function)]
       /\ (\A x \in 1 .. Len(ci[t]) : ci'[t][x] = ci[t][x]) /\ ci'[t][Len(ci[t]) + 1] = "Lua"
       /\ \A u \in Thread \ {t} : ci'[u] = ci[u]
       /\ \A u \in Thread : Len(ci'[u]) < size_ci'[u]
       /\ Live(ci'[t], openupval[t])
  <2>1. "Lua" \in Function BY DEF Function
  <2> QED BY <2>1, FrameAdded
<1>18. nCcalls' = nCcalls /\ allowhook' = allowhook /\ errfunc' = errfunc /\ openupval' = openupval /\ UNCHANGED coVars OBVIOUS
<1>19. TypeOK' BY <1>16, <1>17, <1>18 DEF CallInv, TypeOK, coVars
<1>20. OthersKept(t) BY <1>17, <1>18 DEF OthersKept
<1>21. Sound(cstack', n) /\ RightAt(cstack', n, t, nCcalls[t], ci'[t], allowhook[t], errfunc[t])
  <2>1. PICK x : x = cstack[n].n + 1 OBVIOUS
  <2>2. n <= Len(cstack') /\ Rerun(cstack[n], cstack'[n], t, x) /\ x \in Nat \ {0}
    <3>1. n <= Len(cstack') /\ x \in Nat \ {0} BY <1>2, <1>9, <1>16, <2>1
    <3>2. cstack'[n].k = "exec" /\ cstack'[n].th = t /\ cstack'[n].n = x /\ cstack'[n].why = cstack[n].why
      BY <1>10, <1>16, <2>1, Zenon
    <3>3. cstack[n].k = "exec" /\ cstack[n].th = t BY <1>2, <1>3
    <3> QED BY <3>1, <3>2, <3>3, Zenon DEF Rerun
  <2>3. Len(ci'[t]) = Len(ci[t]) - cstack[n].n + x BY <1>9, <1>17, <2>1
  <2>4. \A y \in 1 .. Len(ci'[t]) : ci'[t][y] = IF y <= Len(ci[t]) THEN ci[t][y] ELSE "Lua"
    <3> TAKE y \in 1 .. Len(ci'[t])
    <3>1. y \in 1 .. Len(ci[t]) \/ y = Len(ci[t]) + 1 BY <1>17
    <3> QED BY <1>17, <3>1
  <2>5. Reframed(ci'[t], ci[t], cstack[n].n, x) BY <2>3, <2>4 DEF Reframed
  <2>6. /\ RightAt(cstack, n, t, nCcalls[t], ci[t], allowhook[t], errfunc[t]) /\ Sound(cstack, n)
        /\ Agree(cstack, cstack', n - 1)
    BY <1>2, <1>5, <1>16
  <2> QED BY ONLY <1>4, <1>7, <1>16, <2>2, <2>5, <2>6, Recount
<1>22. RightAt(cstack', Len(cstack'), t, nCcalls'[t], ci'[t], allowhook'[t], errfunc'[t]) BY <1>16, <1>18, <1>21
<1>23. NewSound(cstack', n - 1)
  <2>1. \A j \in n - 1 + 1 .. n : j = n BY <1>2
  <2>2. cstack'[n].k # "resume" /\ Len(cstack') = n BY <1>10, <1>16
  <2> QED BY <1>21, <2>1, <2>2, SMTT(30) DEF NewSound
<1>24. NoResume(cstack, n - 1)
  <2>1. \A j \in n - 1 + 1 .. Len(cstack) : j = n \/ j \in n + 1 .. Len(cstack) BY <1>2
  <2> QED BY <1>2, <1>3, <2>1 DEF NoResume
<1>25. Within(cstack', nCcalls'[t]) /\ Live(ci'[t], openupval'[t]) BY <1>2, <1>17, <1>18 DEF Within
<1> QED BY <1>7, <1>16, <1>18, <1>19, <1>20, <1>22, <1>23, <1>24, <1>25, StepRight

LEMMA PrecallStep == ASSUME CallInv, luaD_precall PROVE CallInv'
<1> DEFINE over == Overflown(L)
           full == Len(ci[L]) = size_ci[L] - 1
<1>1. cstack # <<>> /\ Top.k \in {"enter", "callop", "tailcall"} BY DEF luaD_precall, Running
<1>2. L \in Thread /\ Top \in Activation BY <1>1, Start
<1>3. PICK n : n = Len(cstack) - 1 OBVIOUS
<1>4. Top.why \in Function /\ (Top.why = "Lua" \/ Top.why = "C")
  <2>1. Above(cstack[n], Top) BY <1>1, <1>3, Dropped
  <2> QED BY <1>1, <2>1 DEF Above, Function
<1>5. UNCHANGED <<nCcalls, allowhook, errfunc, coVars>> BY DEF luaD_precall
<1>6. SizeOf(L, size_ci', over) BY DEF luaD_precall, SizeOf
<1>7. /\ size_ci' \in [Thread -> 2 .. 2 * LUAI_MAXCALLS] /\ \A u \in Thread : Len(ci[u]) < size_ci'[u]
      /\ FrameFits(L, over) => Len(ci[L]) + 1 < size_ci'[L]
  BY <1>2, <1>6, Grown DEF CallInv
<1>8. CASE FrameFits(L, over) /\ Enter(Top.k, Top.why)
  <2>1. Len(ci[L]) + 1 < size_ci'[L] BY <1>7, <1>8
  <2>2. CASE Top.why = "Lua" /\ Top.k = "tailcall"
    <3>1. Return /\ luaF_close(L, Len(ci[L])) /\ ci' = ci BY <1>8, <2>2 DEF Enter
    <3> QED BY <1>1, <1>5, <1>7, <2>2, <3>1, TailCallStep
  <2>3. CASE Top.why = "C"
    <3>1. PICK a : a = Act("C", L, "plain", 0) OBVIOUS
    <3>2. "C" \in Kinds /\ "plain" \in Whys BY KindFacts
    <3>3. a \in Activation /\ a.k = "C" /\ a.th = L /\ a.why = "plain" BY <1>2, <3>1, <3>2, ActType
    <3>4. AddFrame(L, Top.why) /\ Goto(<<a>>) /\ openupval' = openupval BY <1>8, <2>3, <3>1 DEF Enter, AddFrame
    <3>5. Top.why = "C" => a.k = "C" BY <3>3
    <3>6. Top.why = "Lua" => Top.k = "enter" /\ a.k = "exec" /\ a.n = 1 BY <2>3
    <3>7. PICK f : f = Top.why OBVIOUS
    <3> QED BY <1>1, <1>4, <1>5, <1>7, <2>1, <3>3, <3>4, <3>5, <3>6, <3>7, FunctionStarts
  <2>4. CASE Top.why = "Lua" /\ Top.k = "enter"
    <3>1. PICK a : a = Act("exec", L, "plain", 1) OBVIOUS
    <3>2. "exec" \in Kinds /\ "plain" \in Whys BY KindFacts
    <3>3. a \in Activation /\ a.k = "exec" /\ a.th = L /\ a.why = "plain" /\ a.n = 1 BY <1>2, <3>1, <3>2, ActType
    <3>4. AddFrame(L, Top.why) /\ Goto(<<a>>) /\ openupval' = openupval BY <1>8, <2>4, <3>1 DEF Enter, AddFrame
    <3>5. Top.why = "C" => a.k = "C" BY <2>4
    <3>6. Top.why = "Lua" => Top.k = "enter" /\ a.k = "exec" /\ a.n = 1 BY <2>4, <3>3
    <3>7. PICK f : f = Top.why OBVIOUS
    <3> QED BY <1>1, <1>4, <1>5, <1>7, <2>1, <3>3, <3>4, <3>5, <3>6, <3>7, FunctionStarts
  <2>5. CASE Top.why = "Lua" /\ Top.k = "callop"
    <3>1. PICK b : b = Front(cstack) OBVIOUS
    <3>2. AddFrame(L, "Lua") /\ openupval' = openupval /\ cstack' = Append(Front(b), [Last(b) EXCEPT !.n = @ + 1])
      BY <1>8, <2>5, <3>1 DEF Enter, AddFrame
    <3> QED BY <1>1, <1>5, <1>7, <2>1, <2>5, <3>1, <3>2, SameLoop
  <2> QED BY <1>1, <1>4, <2>2, <2>3, <2>4, <2>5
<1>9. CASE /\ Goto(<<IF over THEN Throwing(L, "errerr") ELSE Failing(L)>>)
           /\ UNCHANGED <<ci, openupval>>
  <2>1. PICK a : a = IF over THEN Act("throw", L, "errerr", 0) ELSE Act("runerror", L, "plain", 0) OBVIOUS
  <2>2. {"throw", "runerror"} \subseteq Kinds /\ {"errerr", "plain"} \subseteq Whys BY KindFacts
  <2>3. CASE over
    <3>1. a = Act("throw", L, "errerr", 0) BY <2>1, <2>3
    <3>2. a \in Activation /\ a.k = "throw" /\ a.th = L /\ a.why = "errerr" BY <1>2, <2>2, <3>1, ActType
    <3>3. a.why \in Errors BY <3>2 DEF Errors
    <3>4. Goto(<<a>>) BY <1>9, <2>3, <3>1 DEF Throwing
    <3> QED BY <1>1, <1>5, <1>7, <1>9, <3>2, <3>3, <3>4, FailInstead
  <2>4. CASE ~over
    <3>1. a = Act("runerror", L, "plain", 0) BY <2>1, <2>4
    <3>2. a \in Activation /\ a.k = "runerror" /\ a.th = L /\ a.why = "plain" BY <1>2, <2>2, <3>1, ActType
    <3>4. Goto(<<a>>) BY <1>9, <2>4, <3>1 DEF Failing
    <3> QED BY <1>1, <1>5, <1>7, <1>9, <3>2, <3>4, FailInstead
  <2> QED BY <2>3, <2>4
<1> QED BY <1>8, <1>9 DEF luaD_precall, FrameFits

-----------------------------------------------------------------------------
(* Protected calls, the parser and the error handler.                      *)

\* The stack is cut at m; an activation and a luaD_call are added.
LEMMA PushAndCall ==
  ASSUME CallInv, TypeOK', cstack # <<>>, NEW t, t = L,
         NEW m \in 1 .. Len(cstack), Agree(cstack, cstack', m), NoResume(cstack, m), Len(cstack') = m + 3,
         OthersKept(t), UNCHANGED coVars,
         NEW d \in Nat, NEW hook, NEW h, RightAt(cstack, m, t, d, ci'[t], hook, h), d < CLimit,
         NEW a, a = cstack'[m + 1], Above(cstack[m], a), Saves(a, t, d, ci'[t], hook, h),
         Sets(a, d, hook, h, d, hook, errfunc'[t]),
         CallOn(cstack'[m + 2], t, hook, hook), NEW f \in Function, cstack'[m + 3] = Callee(d, t, f),
         nCcalls'[t] = d + 1, allowhook'[t] = hook, Live(ci'[t], openupval'[t])
  PROVE  CallInv'
<1> DEFINE r == cstack'
<1>1. cstack \in Seq(Activation) /\ r \in Seq(Activation) /\ t \in Thread
  <2>1. t \in Thread BY Start
  <2> QED BY <2>1 DEF CallInv, TypeOK
<1>2. PICK i : i = m + 1 OBVIOUS
<1>3. PICK k : k = m + 2 OBVIOUS
<1>4. /\ m \in Nat /\ m \in 0 .. m /\ i - 1 = m /\ i \in 2 .. Len(r)
      /\ k - 1 = i /\ k \in 2 .. Len(r) - 1 /\ k + 1 = m + 3 /\ k + 1 = Len(r)
  BY <1>2, <1>3
<1>5. RightAt(r, i - 1, t, d, ci'[t], hook, h) BY <1>1, <1>4, RightAgree
<1>6. Above(r[i - 1], r[i]) /\ r[i] = a BY <1>2, <1>4 DEF Agree
<1>7. Sound(r, i) /\ RightAt(r, i, t, d, ci'[t], hook, errfunc'[t]) BY ONLY <1>1, <1>4, <1>5, <1>6, AddOne,
      Saves(a, t, d, ci'[t], hook, h), Sets(a, d, hook, h, d, hook, errfunc'[t])
<1>8. a.th = t /\ a.k # "resume" BY DEF Saves
<1>9. /\ RightAt(r, k - 1, t, d, ci'[t], hook, errfunc'[t]) /\ r[k - 1].th = t
      /\ CallOn(r[k], t, hook, hook) /\ r[k + 1] = Callee(d, t, f)
  BY <1>3, <1>4, <1>6, <1>7, <1>8
<1> HIDE DEF r
<1>10. /\ Sound(r, k) /\ Sound(r, k + 1) /\ r[k].k # "resume" /\ r[k + 1].k # "resume"
       /\ RightAt(r, k + 1, t, d + 1, ci'[t], hook, errfunc'[t])
       /\ d + 1 <= CLimit /\ (r[k + 1].k # "throw" => d + 1 < CLimit)
  BY ONLY <1>1, <1>4, <1>9, CallRight, d \in Nat, d < CLimit, f \in Function
<1>11. NewSound(r, m)
  <2>1. \A j \in m + 1 .. Len(r) : j = i \/ j = k \/ j = k + 1 BY ONLY <1>2, <1>3, <1>4
  <2> QED BY <1>6, <1>7, <1>8, <1>10, <2>1 DEF NewSound
<1>12. RightAt(r, Len(r), t, nCcalls'[t], ci'[t], allowhook'[t], errfunc'[t]) /\ Within(r, nCcalls'[t])
  BY <1>4, <1>10 DEF Within
<1> QED BY <1>11, <1>12, StepRight DEF r

\* luaD_pcall keeps the fields of the thread in its locals.
LEMMA PcallSaves ==
  ASSUME CallInv, cstack # <<>>, NEW t, t = L, NEW h \in Handlers, NEW p, p = Saving(Act("pcall", t, h, 0)),
         Top.k \in {"C", "host"}
  PROVE  /\ p \in Activation /\ p.k = "pcall" /\ p.th = t /\ p.why = h /\ Above(Top, p)
         /\ Saves(p, t, nCcalls[t], ci[t], allowhook[t], errfunc[t])
         /\ Sets(p, nCcalls[t], allowhook[t], errfunc[t], nCcalls[t], allowhook[t], h)
<1>1. t \in Thread /\ t = Top.th /\ nCcalls[t] \in Nat BY Start
<1>2. PICK b : b = Act("pcall", t, h, 0) OBVIOUS
<1>3. "pcall" \in Kinds /\ h \in Whys /\ h # "gc" BY KindFacts
<1>4. b \in Activation /\ b.k = "pcall" /\ b.th = t /\ b.why = h BY <1>1, <1>2, <1>3, ActType
<1>5. /\ p \in Activation /\ p.k = "pcall" /\ p.th = t /\ p.why = h
      /\ p.old.nCcalls = nCcalls[t] /\ p.old.ci = Len(ci[t])
      /\ p.old.allowhook = allowhook[t] /\ p.old.errfunc = errfunc[t]
  BY <1>2, <1>4, SavingType DEF CallInv
<1>6. Above(Top, p) BY <1>1, <1>5 DEF Above
<1>7. Saves(p, t, nCcalls[t], ci[t], allowhook[t], errfunc[t]) BY <1>3, <1>5 DEF Saves
<1>8. Sets(p, nCcalls[t], allowhook[t], errfunc[t], nCcalls[t], allowhook[t], h)
  <2>1. nCcalls[t] = nCcalls[t] + DepthOf(p) BY <1>1, <1>5 DEF DepthOf
  <2>2. ~Disables(p) BY <1>3, <1>5 DEF Disables
  <2> QED BY <1>5, <2>1, <2>2, Zenon DEF Sets
<1> QED BY <1>5, <1>6, <1>7, <1>8

LEMMA LuaPcallStep ==
  ASSUME CallInv, NEW h \in Handlers, NEW f \in Function, lua_pcall(h, f) PROVE CallInv'
<1>1. PICK t : t = L OBVIOUS
<1>2. cstack # <<>> /\ Top.k \in {"C", "host"} BY DEF lua_pcall, Running
<1>3. PICK n : n = Len(cstack) OBVIOUS
<1>4. /\ cstack \in Seq(Activation) /\ n \in Nat \ {0} /\ t \in Thread /\ Top = cstack[n] /\ t = cstack[n].th
      /\ RightAt(cstack, n, t, nCcalls[t], ci[t], allowhook[t], errfunc[t]) /\ Live(ci[t], openupval[t])
      /\ Within(cstack, nCcalls[t]) /\ nCcalls[t] \in Nat /\ NoResume(cstack, n)
  BY <1>1, <1>2, <1>3, Start
<1>5. nCcalls[t] < CLimit BY <1>2, <1>3, <1>4 DEF Within
<1>6. PICK p : p = Saving(Act("pcall", t, h, 0)) OBVIOUS
<1>7. PICK c : c = Act("call", t, "api", 0) OBVIOUS
<1>8. PICK e : e = Callee(nCcalls[t], t, f) OBVIOUS
<1>9. /\ p \in Activation /\ Above(Top, p) /\ Saves(p, t, nCcalls[t], ci[t], allowhook[t], errfunc[t])
      /\ Sets(p, nCcalls[t], allowhook[t], errfunc[t], nCcalls[t], allowhook[t], h)
  BY <1>1, <1>2, <1>6, PcallSaves
<1>10. c \in Activation /\ c.k = "call" /\ c.th = t /\ c.why = "api"
  <2>1. "call" \in Kinds /\ "api" \in Whys BY KindFacts
  <2> QED BY <1>4, <1>7, <2>1, ActType
<1>11. e \in Activation BY <1>4, <1>8, CalleeType
<1>12. cstack' = cstack \o <<p, c, e>>
  <2>1. CallActs(c, f) = <<c, e>> BY <1>8, <1>10 DEF CallActs, Callee, CLimit
  <2>2. <<p>> \o <<c, e>> = <<p, c, e>> BY <1>9, <1>10, <1>11, Join3
  <2>3. cstack' = cstack \o (<<p>> \o CallActs(c, f)) BY <1>1, <1>6, <1>7 DEF lua_pcall, Push
  <2> QED BY <2>1, <2>2, <2>3
<1>13. /\ cstack' \in Seq(Activation) /\ Len(cstack') = n + 3 /\ (\A j \in 1 .. n : cstack'[j] = cstack[j])
       /\ cstack'[n + 1] = p /\ cstack'[n + 2] = c /\ cstack'[n + 3] = e
  BY <1>3, <1>4, <1>9, <1>10, <1>11, <1>12, Push3
<1>14. Agree(cstack, cstack', n) /\ n \in 1 .. Len(cstack) BY <1>3, <1>4, <1>13 DEF Agree
<1>15. /\ nCcalls' \in [Thread -> Nat] /\ nCcalls'[t] = nCcalls[t] + 1 /\ errfunc' \in [Thread -> Handlers] /\ errfunc'[t] = h
       /\ \A u \in Thread \ {t} : nCcalls'[u] = nCcalls[u] /\ errfunc'[u] = errfunc[u]
  BY <1>1, <1>4 DEF lua_pcall, CountCall, CallInv, TypeOK
<1>16. ci' = ci /\ openupval' = openupval /\ size_ci' = size_ci /\ allowhook' = allowhook /\ UNCHANGED coVars
  BY DEF lua_pcall, frameVars
<1>17. TypeOK' BY <1>13, <1>15, <1>16 DEF CallInv, TypeOK, coVars
<1>18. OthersKept(t) BY <1>15, <1>16 DEF OthersKept
<1>19. CallOn(cstack'[n + 2], t, allowhook[t], allowhook[t])
  <2>1. c.why # "gc" /\ CallOn(c, t, allowhook[t], allowhook[t]) BY <1>10 DEF CallOn
  <2> QED BY <1>13, <2>1
<1>20. /\ RightAt(cstack, n, t, nCcalls[t], ci'[t], allowhook[t], errfunc[t]) /\ p = cstack'[n + 1] /\ Above(cstack[n], p)
       /\ Saves(p, t, nCcalls[t], ci'[t], allowhook[t], errfunc[t])
       /\ Sets(p, nCcalls[t], allowhook[t], errfunc[t], nCcalls[t], allowhook[t], errfunc'[t])
       /\ cstack'[n + 3] = Callee(nCcalls[t], t, f) /\ allowhook'[t] = allowhook[t]
       /\ Live(ci'[t], openupval'[t])
  BY <1>4, <1>8, <1>9, <1>13, <1>15, <1>16
<1>21. nCcalls'[t] = nCcalls[t] + 1 /\ Len(cstack') = n + 3 /\ UNCHANGED coVars BY <1>13, <1>15, <1>16
<1>22. nCcalls[t] \in Nat /\ NoResume(cstack, n) BY <1>4
<1> QED
  BY ONLY CallInv, f \in Function, <1>1, <1>2, <1>5, <1>14, <1>17, <1>18, <1>19, <1>20, <1>21, <1>22, PushAndCall

LEMMA ProtectedParserStep == ASSUME CallInv, luaD_protectedparser PROVE CallInv'
<1>1. PICK t : t = L OBVIOUS
<1>2. cstack # <<>> /\ Top.k \in {"C", "host"} BY DEF luaD_protectedparser, Running
<1>3. PICK n : n = Len(cstack) OBVIOUS
<1>4. /\ cstack \in Seq(Activation) /\ n \in Nat \ {0} /\ t \in Thread /\ Top = cstack[n] /\ t = cstack[n].th
      /\ RightAt(cstack, n, t, nCcalls[t], ci[t], allowhook[t], errfunc[t]) /\ Live(ci[t], openupval[t])
      /\ Within(cstack, nCcalls[t]) /\ nCcalls[t] \in Nat /\ NoResume(cstack, n) /\ errfunc[t] \in Handlers /\ CLimit \in Nat
  BY <1>1, <1>2, <1>3, Start
<1>5. nCcalls[t] < CLimit BY <1>2, <1>3, <1>4 DEF Within
<1>6. PICK p : p = Saving(Act("pcall", t, errfunc[t], 0)) OBVIOUS
<1>7. PICK q : q = Act("parse", t, "plain", 0) OBVIOUS
<1>8. /\ p \in Activation /\ Above(Top, p) /\ Saves(p, t, nCcalls[t], ci[t], allowhook[t], errfunc[t]) /\ p.th = t /\ p.k = "pcall"
      /\ Sets(p, nCcalls[t], allowhook[t], errfunc[t], nCcalls[t], allowhook[t], errfunc[t])
  BY <1>1, <1>2, <1>4, <1>6, PcallSaves
<1>9. q \in Activation /\ q.k = "parse" /\ q.th = t /\ q.why = "plain" /\ q.n = 0
  <2>1. "parse" \in Kinds /\ "plain" \in Whys BY KindFacts
  <2> QED BY <1>4, <1>7, <2>1, ActType
<1>10. cstack' = cstack \o <<p, q>> BY <1>1, <1>6, <1>7 DEF luaD_protectedparser, Push
<1>11. /\ cstack' \in Seq(Activation) /\ Len(cstack') = n + 2 /\ (\A j \in 1 .. n : cstack'[j] = cstack[j])
       /\ cstack'[n + 1] = p /\ cstack'[n + 2] = q
  BY <1>3, <1>4, <1>8, <1>9, <1>10, Push2
<1>12. Agree(cstack, cstack', n) /\ n \in 1 .. Len(cstack) BY <1>3, <1>4, <1>11 DEF Agree
<1>13. ci' = ci /\ openupval' = openupval /\ size_ci' = size_ci /\ allowhook' = allowhook /\ nCcalls' = nCcalls
       /\ errfunc' = errfunc /\ UNCHANGED coVars
  BY DEF luaD_protectedparser, frameVars
<1>14. TypeOK' BY <1>11, <1>13 DEF CallInv, TypeOK, coVars
<1>15. OthersKept(t) BY <1>13 DEF OthersKept
<1>16. PICK i : i = n + 1 OBVIOUS
<1>17. PICK k : k = n + 2 OBVIOUS
<1>18. n \in Nat /\ n \in 0 .. n /\ i - 1 = n /\ i \in 2 .. Len(cstack') /\ k - 1 = i /\ k \in 2 .. Len(cstack')
  BY <1>4, <1>11, <1>16, <1>17
<1>19. RightAt(cstack', i - 1, t, nCcalls[t], ci[t], allowhook[t], errfunc[t]) BY <1>4, <1>11, <1>12, <1>18, RightAgree
<1>20. Above(cstack'[i - 1], cstack'[i]) /\ cstack'[i] = p /\ cstack'[k] = q /\ cstack'[k - 1] = p
  BY <1>4, <1>8, <1>11, <1>12, <1>16, <1>17, <1>18 DEF Agree
<1>21. Sound(cstack', i) /\ RightAt(cstack', i, t, nCcalls[t], ci[t], allowhook[t], errfunc[t])
  <2>1. /\ Saves(cstack'[i], t, nCcalls[t], ci[t], allowhook[t], errfunc[t])
        /\ Sets(cstack'[i], nCcalls[t], allowhook[t], errfunc[t], nCcalls[t], allowhook[t], errfunc[t])
    BY <1>8, <1>20
  <2> QED BY <1>11, <1>18, <1>19, <1>20, <2>1, AddOne
<1>22. Above(p, q) BY <1>8, <1>9 DEF Above
<1>23. Saves(q, t, nCcalls[t], ci[t], allowhook[t], errfunc[t]) BY <1>9 DEF Saves
<1>24. Sets(q, nCcalls[t], allowhook[t], errfunc[t], nCcalls[t], allowhook[t], errfunc[t])
  <2>1. nCcalls[t] = nCcalls[t] + DepthOf(q) BY <1>4, <1>9 DEF DepthOf
  <2>2. ~Disables(q) BY <1>9 DEF Disables
  <2> QED BY <1>9, <2>1, <2>2, Zenon DEF Sets
<1>25. Sound(cstack', k) /\ RightAt(cstack', k, t, nCcalls[t], ci[t], allowhook[t], errfunc[t])
  <2>1. RightAt(cstack', k - 1, t, nCcalls[t], ci[t], allowhook[t], errfunc[t]) BY <1>18, <1>21
  <2>2. /\ Above(cstack'[k - 1], cstack'[k]) /\ Saves(cstack'[k], t, nCcalls[t], ci[t], allowhook[t], errfunc[t])
        /\ Sets(cstack'[k], nCcalls[t], allowhook[t], errfunc[t], nCcalls[t], allowhook[t], errfunc[t])
    BY <1>20, <1>22, <1>23, <1>24
  <2> QED BY <1>11, <1>18, <2>1, <2>2, AddOne
<1>26. NewSound(cstack', n)
  <2>1. \A j \in n + 1 .. Len(cstack') : j = i \/ j = k BY <1>4, <1>11, <1>16, <1>17
  <2> QED BY <1>8, <1>9, <1>20, <1>21, <1>25, <2>1 DEF NewSound
<1>27. RightAt(cstack', Len(cstack'), t, nCcalls'[t], ci'[t], allowhook'[t], errfunc'[t]) /\ Within(cstack', nCcalls'[t])
       /\ Live(ci'[t], openupval'[t])
  BY <1>4, <1>5, <1>11, <1>13, <1>17, <1>25 DEF Within
<1> QED BY <1>1, <1>2, <1>4, <1>12, <1>13, <1>14, <1>15, <1>26, <1>27, StepRight

\* The parser on top, as it counts x levels.
AtLevel(b, x) == [b EXCEPT !.n = x]

LEMMA ParserTop ==
  ASSUME CallInv, cstack # <<>>, NEW t, t = L, Top.k = "parse"
  PROVE  /\ Len(cstack) - 1 \in 1 .. Len(cstack) /\ Len(cstack) - 1 \in Nat /\ Len(cstack) \in Nat
         /\ RightAt(cstack, Len(cstack) - 1, t, nCcalls[t] - Top.n, ci[t], allowhook[t], errfunc[t])
         /\ nCcalls[t] - Top.n \in Nat /\ nCcalls[t] \in Nat /\ CLimit \in Nat /\ Top.n \in Nat /\ nCcalls[t] < CLimit
         /\ NoResume(cstack, Len(cstack) - 1) /\ Top.why # "gc"
         /\ cstack[Len(cstack) - 1].th = t /\ Top.th = t /\ Top \in Activation
<1>1. PICK n : n = Len(cstack) OBVIOUS
<1>2. /\ cstack \in Seq(Activation) /\ n \in Nat \ {0} /\ t = cstack[n].th /\ Top = cstack[n] /\ Top \in Activation
      /\ Sound(cstack, n) /\ RightAt(cstack, n, t, nCcalls[t], ci[t], allowhook[t], errfunc[t])
      /\ Within(cstack, nCcalls[t]) /\ nCcalls[t] \in Nat /\ CLimit \in Nat
  BY <1>1, Start
<1>3. n \in 2 .. n /\ n - 1 \in 1 .. n /\ n - 1 \in Nat /\ NoResume(cstack, n - 1) /\ cstack[n - 1].th = t
  BY <1>1, Below
<1>4. Top.why # "gc" /\ DepthOf(Top) = Top.n /\ Top.n \in Nat BY <1>2 DEF Sound, Keeps, DepthOf, Activation
<1>5. PICK d : d = nCcalls[t] - Top.n OBVIOUS
<1>6. PutsBack(cstack[n], nCcalls[t], allowhook[t], errfunc[t], d, allowhook[t], errfunc[t])
  <2>1. d = nCcalls[t] - DepthOf(cstack[n]) BY <1>2, <1>4, <1>5
  <2>2. cstack[n].k # "hook" /\ cstack[n].k # "pcall" /\ cstack[n].why # "gc" BY <1>2, <1>4
  <2> QED BY <2>1, <2>2, Zenon DEF PutsBack
<1>7. RightAt(cstack, n - 1, t, d, ci[t], allowhook[t], errfunc[t]) /\ d \in Nat
  <2>1. cstack[n].k \notin {"exec", "C"} /\ n \in 2 .. Len(cstack) BY <1>1, <1>2, <1>3
  <2> QED BY <1>2, <1>6, <2>1, DropOne
<1>8. nCcalls[t] < CLimit BY <1>1, <1>2 DEF Within
<1> QED BY <1>1, <1>2, <1>3, <1>4, <1>5, <1>7, <1>8

LEMMA Reparsed ==
  ASSUME NEW b \in Activation, NEW x \in Nat, NEW a, a = AtLevel(b, x)
  PROVE  a \in Activation /\ a.k = b.k /\ a.th = b.th /\ a.n = x /\ a.why = b.why
BY DEF Activation, AtLevel

LEMMA ParserCounts ==
  ASSUME NEW a, a.k = "parse", a.why # "gc", NEW d, NEW e, e = d + a.n, NEW fs, NEW hook, NEW h
  PROVE  Saves(a, a.th, d, fs, hook, h) /\ Sets(a, d, hook, h, e, hook, h)
<1>1. e = d + DepthOf(a) /\ ~Disables(a) BY DEF DepthOf, Disables
<1>2. Saves(a, a.th, d, fs, hook, h) BY DEF Saves
<1> QED BY <1>1, <1>2, Zenon DEF Sets

\* The parser at another level, alone or with an error on top.
LEMMA LevelStepOfParser ==
  ASSUME CallInv, cstack # <<>>, NEW t, t = L, Top.k = "parse", NEW x \in Nat,
         NEW a, a = AtLevel(Top, x), Goto(<<a>>),
         nCcalls' \in [Thread -> Nat], nCcalls'[t] = nCcalls[t] - Top.n + x, nCcalls'[t] < CLimit,
         \A u \in Thread \ {t} : nCcalls'[u] = nCcalls[u],
         UNCHANGED <<frameVars, allowhook, errfunc, coVars>>
  PROVE  CallInv'
<1>1. PICK m : m = Len(cstack) - 1 OBVIOUS
<1>2. PICK d : d = nCcalls[t] - Top.n OBVIOUS
<1>3. /\ m \in 1 .. Len(cstack) /\ m \in Nat /\ m + 1 = Len(cstack)
      /\ RightAt(cstack, m, t, d, ci[t], allowhook[t], errfunc[t])
      /\ d \in Nat /\ NoResume(cstack, m) /\ Top.why # "gc" /\ cstack[m].th = t /\ Top.th = t /\ Top \in Activation
      /\ CLimit \in Nat
  BY <1>1, <1>2, ParserTop
<1>0. PICK e : e = d + x OBVIOUS
<1>4. /\ a \in Activation /\ a.k = "parse" /\ a.th = t /\ Saves(a, t, d, ci[t], allowhook[t], errfunc[t])
      /\ Sets(a, d, allowhook[t], errfunc[t], e, allowhook[t], errfunc[t])
  <2>1. a \in Activation /\ a.k = "parse" /\ a.th = t /\ a.n = x /\ a.why # "gc"
    <3>1. a \in Activation /\ a.k = Top.k /\ a.th = Top.th /\ a.n = x /\ a.why = Top.why
      <4>1. PICK b : b = Top OBVIOUS
      <4>2. b \in Activation /\ a = AtLevel(b, x) BY <1>3, <4>1
      <4>3. a \in Activation /\ a.k = b.k /\ a.th = b.th /\ a.n = x /\ a.why = b.why BY ONLY <4>2, x \in Nat, Reparsed
      <4> QED BY <4>1, <4>3
    <3> QED BY <1>3, <3>1
  <2> QED BY <1>0, <2>1, ParserCounts
<1>5. cstack' \in Seq(Activation) /\ Len(cstack') = m + 1 /\ cstack'[m + 1] = a /\ Agree(cstack, cstack', m)
  BY <1>1, <1>3, <1>4, Replaced
<1>6. ci' = ci /\ openupval' = openupval /\ size_ci' = size_ci /\ allowhook' = allowhook /\ errfunc' = errfunc /\ UNCHANGED coVars
  BY DEF frameVars
<1>7. TypeOK' BY <1>5, <1>6 DEF CallInv, TypeOK, coVars
<1>8. OthersKept(t) BY <1>6 DEF OthersKept
<1>9. Above(cstack[m], a) BY <1>3, <1>4 DEF Above
<1>10. /\ Saves(a, t, d, ci'[t], allowhook[t], errfunc[t])
       /\ Sets(a, d, allowhook[t], errfunc[t], nCcalls'[t], allowhook'[t], errfunc'[t])
       /\ RightAt(cstack, m, t, d, ci'[t], allowhook[t], errfunc[t]) /\ a = cstack'[m + 1]
  BY <1>0, <1>2, <1>3, <1>4, <1>5, <1>6
<1>11. Within(cstack', nCcalls'[t]) /\ Live(ci'[t], openupval'[t])
  <2>1. Live(ci[t], openupval[t]) /\ t \in Thread BY Start
  <2>2. nCcalls'[t] \in Nat BY <2>1
  <2> QED BY <1>3, <1>6, <2>1, <2>2 DEF Within
<1> QED BY <1>3, <1>5, <1>6, <1>7, <1>8, <1>9, <1>10, <1>11, PushStep

LEMMA LeavelevelStep == ASSUME CallInv, leavelevel PROVE CallInv'
<1>1. PICK t : t = L OBVIOUS
<1>2. cstack # <<>> /\ Top.k = "parse" /\ Top.n > 0 BY DEF leavelevel, Running
<1>3. nCcalls[t] - Top.n \in Nat /\ nCcalls[t] \in Nat /\ Top.n \in Nat /\ CLimit \in Nat /\ nCcalls[t] < CLimit
  BY <1>1, <1>2, ParserTop
<1>4. t \in Thread BY <1>1, <1>2, Start
<1>5. PICK x : x = Top.n - 1 OBVIOUS
<1>6. x \in Nat BY <1>2, <1>3, <1>5
<1>7. PICK a : a = AtLevel(Top, x) OBVIOUS
<1>8. Goto(<<a>>) BY <1>5, <1>7 DEF leavelevel, AtLevel
<1>9. nCcalls[t] - 1 \in Nat BY <1>2, <1>3
<1>10. nCcalls' \in [Thread -> Nat] /\ nCcalls'[t] = nCcalls[t] - 1 /\ \A u \in Thread \ {t} : nCcalls'[u] = nCcalls[u]
  BY <1>1, <1>4, <1>9 DEF leavelevel, UncountCall, CallInv, TypeOK
<1>11. nCcalls'[t] = nCcalls[t] - Top.n + x /\ nCcalls'[t] < CLimit BY <1>3, <1>5, <1>10
<1>12. UNCHANGED <<frameVars, allowhook, errfunc, coVars>> BY DEF leavelevel
<1> QED BY <1>1, <1>2, <1>6, <1>7, <1>8, <1>10, <1>11, <1>12, LevelStepOfParser

LEMMA Replaced2 ==
  ASSUME CallInv, cstack # <<>>, NEW a \in Activation, NEW b \in Activation, Goto(<<a, b>>)
  PROVE  /\ cstack' \in Seq(Activation) /\ Len(cstack') = Len(cstack) + 1 /\ cstack'[Len(cstack)] = a
         /\ cstack'[Len(cstack) + 1] = b /\ Agree(cstack, cstack', Len(cstack) - 1)
<1>1. cstack \in Seq(Activation) BY Start
<1>2. PICK s : s = Front(cstack) OBVIOUS
<1>3. /\ s \in Seq(Activation) /\ Len(s) = Len(cstack) - 1 /\ Len(cstack) \in Nat \ {0}
      /\ \A j \in 1 .. Len(cstack) - 1 : s[j] = cstack[j]
  BY <1>1, <1>2, FrontSeq
<1>4. /\ s \o <<a, b>> \in Seq(Activation) /\ Len(s \o <<a, b>>) = Len(s) + 2
      /\ (\A j \in 1 .. Len(s) : (s \o <<a, b>>)[j] = s[j]) /\ (s \o <<a, b>>)[Len(s) + 1] = a
      /\ (s \o <<a, b>>)[Len(s) + 2] = b
  BY <1>3, Push2
<1>5. cstack' = s \o <<a, b>> BY <1>2 DEF Goto
<1>6. Len(s) + 1 = Len(cstack) /\ Len(s) + 2 = Len(cstack) + 1 /\ Len(cstack) - 1 <= Len(cstack) /\ Len(cstack) - 1 <= Len(cstack) + 1
  BY <1>3
<1> QED BY <1>3, <1>4, <1>5, <1>6 DEF Agree

LEMMA EnterlevelStep == ASSUME CallInv, enterlevel PROVE CallInv'
<1>1. PICK t : t = L OBVIOUS
<1>2. cstack # <<>> /\ Top.k = "parse" BY DEF enterlevel, Running
<1>3. nCcalls[t] - Top.n \in Nat /\ nCcalls[t] \in Nat /\ Top.n \in Nat /\ CLimit \in Nat /\ nCcalls[t] < CLimit
  BY <1>1, <1>2, ParserTop
<1>4. t \in Thread BY <1>1, <1>2, Start
<1>5. PICK x : x = Top.n + 1 OBVIOUS
<1>6. x \in Nat BY <1>3, <1>5
<1>7. PICK a : a = AtLevel(Top, x) OBVIOUS
<1>8. nCcalls' \in [Thread -> Nat] /\ nCcalls'[t] = nCcalls[t] + 1 /\ \A u \in Thread \ {t} : nCcalls'[u] = nCcalls[u]
  BY <1>1, <1>3, <1>4 DEF enterlevel, CountCall, CallInv, TypeOK
<1>9. nCcalls'[t] = nCcalls[t] - Top.n + x BY <1>3, <1>5, <1>8
<1>10. UNCHANGED <<frameVars, allowhook, errfunc, coVars>> BY DEF enterlevel
<1>11. CASE ~(nCcalls[t] + 1 > LUAI_MAXCCALLS)
  <2>1. Goto(<<a>>) BY <1>1, <1>5, <1>7, <1>11 DEF enterlevel, AtLevel
  <2>2. nCcalls'[t] < CLimit BY <1>3, <1>8, <1>11, CallsAssumption DEF CLimit
  <2> QED BY <1>1, <1>2, <1>6, <1>7, <1>8, <1>9, <1>10, <2>1, <2>2, LevelStepOfParser
<1>12. CASE nCcalls[t] + 1 > LUAI_MAXCCALLS
  <2>1. PICK b : b = Act("throw", t, "errsyntax", 0) OBVIOUS
  <2>2. Goto(<<a, b>>) BY <1>1, <1>5, <1>7, <1>12, <2>1 DEF enterlevel, Throwing, AtLevel
  <2>3. b \in Activation /\ b.k = "throw" /\ b.th = t /\ b.why = "errsyntax"
    <3>1. "throw" \in Kinds /\ "errsyntax" \in Whys BY KindFacts
    <3> QED BY <1>4, <2>1, <3>1, ActType
  <2>4. PICK m : m = Len(cstack) - 1 OBVIOUS
  <2>5. PICK d : d = nCcalls[t] - Top.n OBVIOUS
  <2>6. /\ m \in 1 .. Len(cstack) /\ m \in Nat /\ m + 1 = Len(cstack) /\ m + 2 = Len(cstack) + 1
        /\ RightAt(cstack, m, t, d, ci[t], allowhook[t], errfunc[t])
        /\ d \in Nat /\ NoResume(cstack, m) /\ Top.why # "gc" /\ cstack[m].th = t /\ Top.th = t /\ Top \in Activation
    BY <1>1, <1>2, <2>4, <2>5, ParserTop
  <2>15. PICK e : e = d + x OBVIOUS
  <2>7. /\ a \in Activation /\ a.k = "parse" /\ a.th = t /\ Saves(a, t, d, ci[t], allowhook[t], errfunc[t])
        /\ Sets(a, d, allowhook[t], errfunc[t], e, allowhook[t], errfunc[t])
    <3>0. Top \in Activation /\ Top.th = t /\ Top.why # "gc" BY <2>6
    <3>1. a \in Activation /\ a.k = "parse" /\ a.th = t /\ a.n = x /\ a.why # "gc"
      BY ONLY <1>2, <1>6, <1>7, <3>0, Reparsed
    <3> QED BY <2>15, <3>1, ParserCounts
  <2>8. /\ cstack' \in Seq(Activation) /\ Len(cstack') = m + 2 /\ cstack'[m + 1] = a /\ cstack'[m + 2] = b
        /\ Agree(cstack, cstack', m)
    BY <1>2, <2>2, <2>3, <2>4, <2>6, <2>7, Replaced2
  <2>9. ci' = ci /\ openupval' = openupval /\ size_ci' = size_ci /\ allowhook' = allowhook /\ errfunc' = errfunc /\ UNCHANGED coVars
    BY <1>10 DEF frameVars
  <2>10. TypeOK' BY <1>8, <2>8, <2>9 DEF CallInv, TypeOK, coVars
  <2>11. OthersKept(t) BY <1>8, <2>9 DEF OthersKept
  <2>12. PICK i : i = m + 1 OBVIOUS
  <2>13. PICK k : k = m + 2 OBVIOUS
  <2>14. m \in 0 .. m /\ i - 1 = m /\ i \in 2 .. Len(cstack') /\ k - 1 = i /\ k \in 2 .. Len(cstack')
    BY <2>6, <2>8, <2>12, <2>13
  <2>16. e \in Nat /\ e = nCcalls'[t] /\ cstack \in Seq(Activation)
    <3>1. e \in Nat BY ONLY <1>6, <2>6, <2>15
    <3>2. e = nCcalls'[t] BY ONLY <1>9, <2>5, <2>15
    <3> QED BY <3>1, <3>2 DEF CallInv, TypeOK
  <2>17. Sound(cstack', i) /\ RightAt(cstack', i, t, e, ci[t], allowhook[t], errfunc[t])
    <3>1. RightAt(cstack', i - 1, t, d, ci[t], allowhook[t], errfunc[t]) BY <2>6, <2>8, <2>14, <2>16, RightAgree
    <3>2. Above(cstack[m], a) BY <2>6, <2>7 DEF Above
    <3>3. cstack'[i - 1] = cstack[m] /\ cstack'[i] = a BY <2>6, <2>8, <2>12, <2>14 DEF Agree
    <3>4. /\ Above(cstack'[i - 1], cstack'[i]) /\ Saves(cstack'[i], t, d, ci[t], allowhook[t], errfunc[t])
          /\ Sets(cstack'[i], d, allowhook[t], errfunc[t], e, allowhook[t], errfunc[t])
      BY <2>7, <2>15, <3>2, <3>3
    <3> QED BY <2>8, <2>14, <3>1, <3>4, AddOne
  <2>18. Sound(cstack', k) /\ RightAt(cstack', k, t, e, ci[t], allowhook[t], errfunc[t])
    <3>1. RightAt(cstack', k - 1, t, e, ci[t], allowhook[t], errfunc[t]) BY <2>14, <2>17
    <3>2. "errsyntax" \in Errors BY DEF Errors
    <3>3. Above(a, b) BY <2>3, <2>7, <3>2 DEF Above
    <3>4. Saves(b, t, e, ci[t], allowhook[t], errfunc[t]) BY <2>3 DEF Saves
    <3>5. Sets(b, e, allowhook[t], errfunc[t], e, allowhook[t], errfunc[t]) BY <2>3, <2>16, SetsNothing
    <3>6. cstack'[k - 1] = a /\ cstack'[k] = b BY <2>8, <2>12, <2>13, <2>14
    <3>7. /\ Above(cstack'[k - 1], cstack'[k]) /\ Saves(cstack'[k], t, e, ci[t], allowhook[t], errfunc[t])
          /\ Sets(cstack'[k], e, allowhook[t], errfunc[t], e, allowhook[t], errfunc[t])
      BY <3>3, <3>4, <3>5, <3>6
    <3> QED BY <2>8, <2>14, <3>1, <3>7, AddOne
  <2>19. NewSound(cstack', m)
    <3>1. \A j \in m + 1 .. m + 2 : j = i \/ j = k BY <2>6, <2>12, <2>13
    <3> QED BY <2>3, <2>7, <2>8, <2>12, <2>13, <2>17, <2>18, <3>1 DEF NewSound
  <2>20. Within(cstack', nCcalls'[t]) /\ Live(ci'[t], openupval'[t])
    <3>1. Live(ci[t], openupval[t]) BY <1>1, <1>2, Start
    <3>2. nCcalls'[t] <= CLimit BY <1>3, <1>8
    <3> QED BY <2>3, <2>8, <2>9, <3>1, <3>2 DEF Within
  <2>21. RightAt(cstack', Len(cstack'), t, nCcalls'[t], ci'[t], allowhook'[t], errfunc'[t])
    BY <2>8, <2>9, <2>13, <2>16, <2>18
  <2> QED BY <1>1, <1>2, <2>6, <2>8, <2>9, <2>10, <2>11, <2>19, <2>20, <2>21, StepRight
<1> QED BY <1>11, <1>12

LEMMA Replaced3 ==
  ASSUME CallInv, cstack # <<>>, NEW a \in Activation, NEW b \in Activation, NEW c \in Activation, Goto(<<a, b, c>>)
  PROVE  /\ cstack' \in Seq(Activation) /\ Len(cstack') = Len(cstack) + 2 /\ cstack'[Len(cstack)] = a
         /\ cstack'[Len(cstack) + 1] = b /\ cstack'[Len(cstack) + 2] = c
         /\ Agree(cstack, cstack', Len(cstack) - 1)
<1>1. cstack \in Seq(Activation) BY Start
<1>2. PICK s : s = Front(cstack) OBVIOUS
<1>3. /\ s \in Seq(Activation) /\ Len(s) = Len(cstack) - 1 /\ Len(cstack) \in Nat \ {0}
      /\ \A j \in 1 .. Len(cstack) - 1 : s[j] = cstack[j]
  BY <1>1, <1>2, FrontSeq
<1>4. /\ s \o <<a, b, c>> \in Seq(Activation) /\ Len(s \o <<a, b, c>>) = Len(s) + 3
      /\ (\A j \in 1 .. Len(s) : (s \o <<a, b, c>>)[j] = s[j]) /\ (s \o <<a, b, c>>)[Len(s) + 1] = a
      /\ (s \o <<a, b, c>>)[Len(s) + 2] = b /\ (s \o <<a, b, c>>)[Len(s) + 3] = c
  BY <1>3, Push3
<1>5. cstack' = s \o <<a, b, c>> BY <1>2 DEF Goto
<1>6. /\ Len(s) + 1 = Len(cstack) /\ Len(s) + 2 = Len(cstack) + 1 /\ Len(s) + 3 = Len(cstack) + 2
      /\ Len(cstack) - 1 <= Len(cstack) /\ Len(cstack) - 1 <= Len(cstack) + 2
  BY <1>3
<1> QED BY <1>3, <1>4, <1>5, <1>6 DEF Agree

LEMMA ErrormsgStep == ASSUME CallInv, NEW f \in Function, luaG_errormsg(f) PROVE CallInv'
<1>1. PICK t : t = L OBVIOUS
<1>2. cstack # <<>> /\ Top.k = "runerror" BY DEF luaG_errormsg, Running
<1>3. t \in Thread /\ errfunc[t] \in Handlers /\ Live(ci[t], openupval[t]) BY <1>1, <1>2, Start
<1>4. ci' = ci /\ openupval' = openupval /\ size_ci' = size_ci /\ allowhook' = allowhook /\ errfunc' = errfunc /\ UNCHANGED coVars
  BY DEF luaG_errormsg, frameVars
<1>5. \A u \in Thread : Len(ci[u]) < size_ci[u] BY DEF CallInv, TypeOK
<1>6. size_ci \in [Thread -> 2 .. 2 * LUAI_MAXCALLS] BY DEF CallInv, TypeOK
<1>7. "throw" \in Kinds /\ "errrun" \in Whys /\ "errerr" \in Whys /\ "errrun" \in Errors /\ "errerr" \in Errors BY KindFacts DEF Errors
<1>8. CASE errfunc[t] # "function"
  <2>1. PICK e : e = IF errfunc[t] = "none" THEN "errrun" ELSE "errerr" OBVIOUS
  <2>2. e \in Errors /\ e \in Whys BY <1>7, <2>1
  <2>3. PICK a : a = Act("throw", t, e, 0) OBVIOUS
  <2>4. a \in Activation /\ a.k = "throw" /\ a.th = t /\ a.why = e BY <1>3, <1>7, <2>2, <2>3, ActType
  <2>5. Goto(<<a>>) /\ nCcalls' = nCcalls
    <3>1. CASE errfunc[t] = "none"
      <4>1. e = "errrun" BY <2>1, <3>1
      <4> QED BY <1>1, <2>3, <3>1, <4>1 DEF luaG_errormsg, Throwing
    <3>2. CASE errfunc[t] = "other"
      <4>1. e = "errerr" BY <2>1, <3>2
      <4> QED BY <1>1, <2>3, <3>2, <4>1 DEF luaG_errormsg, Throwing
    <3> QED BY <1>3, <1>8, <3>1, <3>2 DEF Handlers
  <2>6. size_ci' \in [Thread -> 2 .. 2 * LUAI_MAXCALLS] /\ \A u \in Thread : Len(ci[u]) < size_ci'[u] BY <1>4, <1>5, <1>6
  <2>7. UNCHANGED <<nCcalls, allowhook, errfunc, coVars>> BY <1>4, <2>5
  <2> QED BY <1>1, <1>2, <1>4, <2>2, <2>4, <2>5, <2>6, <2>7, FailInstead
<1>9. CASE errfunc[t] = "function"
  <2>1. PICK m : m = Len(cstack) - 1 OBVIOUS
  <2>2. /\ m \in 1 .. Len(cstack) /\ m \in Nat /\ m + 1 = Len(cstack) /\ m + 2 = Len(cstack) + 1 /\ m + 3 = Len(cstack) + 2
        /\ RightAt(cstack, m, t, nCcalls[t], ci[t], allowhook[t], errfunc[t])
        /\ NoResume(cstack, m) /\ cstack[m].th = t /\ nCcalls[t] < CLimit
        /\ nCcalls[t] \in Nat /\ CLimit \in Nat
    BY <1>1, <1>2, <2>1, Dropped
  <2>3. PICK a : a = Act("throw", t, "errrun", 0) OBVIOUS
  <2>4. a \in Activation /\ a.k = "throw" /\ a.th = t /\ a.why = "errrun" BY <1>3, <1>7, <2>3, ActType
  <2>5. PICK c : c = Act("call", t, "handler", 0) OBVIOUS
  <2>6. c \in Activation /\ c.k = "call" /\ c.th = t /\ c.why = "handler"
    <3>1. "call" \in Kinds /\ "handler" \in Whys BY KindFacts
    <3> QED BY <1>3, <2>5, <3>1, ActType
  <2>7. PICK e : e = Callee(nCcalls[t], t, f) OBVIOUS
  <2>8. e \in Activation BY <1>3, <2>7, CalleeType
  <2>9. Goto(<<a, c, e>>)
    <3>1. CallActs(c, f) = <<c, e>> BY <2>6, <2>7 DEF CallActs, Callee, CLimit
    <3>2. <<a>> \o <<c, e>> = <<a, c, e>> BY <2>4, <2>6, <2>8, Join3
    <3>3. Goto(<<a>> \o CallActs(c, f)) BY <1>1, <1>9, <2>3, <2>5 DEF luaG_errormsg, Throwing
    <3> QED BY <3>1, <3>2, <3>3
  <2>10. /\ cstack' \in Seq(Activation) /\ Len(cstack') = m + 3 /\ cstack'[m + 1] = a /\ cstack'[m + 2] = c
         /\ cstack'[m + 3] = e /\ Agree(cstack, cstack', m)
    BY <1>2, <2>1, <2>2, <2>4, <2>6, <2>8, <2>9, Replaced3
  <2>11. CountCall BY <1>1, <1>9 DEF luaG_errormsg
  <2>12. /\ nCcalls' \in [Thread -> Nat] /\ nCcalls'[t] = nCcalls[t] + 1
         /\ \A u \in Thread \ {t} : nCcalls'[u] = nCcalls[u]
    BY <1>1, <1>3, <2>2, <2>11 DEF CountCall, CallInv, TypeOK
  <2>13. TypeOK' BY <1>4, <2>10, <2>12 DEF CallInv, TypeOK, coVars
  <2>14. OthersKept(t) BY <1>4, <2>12 DEF OthersKept
  <2>15. CallOn(cstack'[m + 2], t, allowhook[t], allowhook[t])
    <3>1. c.why # "gc" /\ CallOn(c, t, allowhook[t], allowhook[t]) BY <2>6 DEF CallOn
    <3> QED BY <2>10, <3>1
  <2>16. Above(cstack[m], a) BY <1>7, <2>2, <2>4 DEF Above
  <2>17. Saves(a, t, nCcalls[t], ci[t], allowhook[t], errfunc[t]) BY <2>4 DEF Saves
  <2>18. Sets(a, nCcalls[t], allowhook[t], errfunc[t], nCcalls[t], allowhook[t], errfunc[t]) BY <2>2, <2>4, SetsNothing
  <2>19. /\ RightAt(cstack, m, t, nCcalls[t], ci'[t], allowhook[t], errfunc[t]) /\ a = cstack'[m + 1]
         /\ Saves(a, t, nCcalls[t], ci'[t], allowhook[t], errfunc[t])
         /\ Sets(a, nCcalls[t], allowhook[t], errfunc[t], nCcalls[t], allowhook[t], errfunc'[t])
         /\ cstack'[m + 3] = Callee(nCcalls[t], t, f) /\ allowhook'[t] = allowhook[t]
         /\ Live(ci'[t], openupval'[t])
    BY <1>3, <1>4, <2>2, <2>7, <2>10, <2>17, <2>18
  <2> QED BY <1>1, <1>2, <1>4, <2>2, <2>10, <2>12, <2>13, <2>14, <2>15, <2>16, <2>19, PushAndCall
<1> QED BY <1>8, <1>9

-----------------------------------------------------------------------------
(* Errors caught.                                                          *)

\* The newest setjmp belongs to the running thread.
LEMMA CatcherTop ==
  ASSUME CallInv, cstack # <<>>, Catchers # {}, NEW M, M = Max(Catchers)
  PROVE  /\ M \in 2 .. Len(cstack) /\ cstack[M] \in Activation /\ cstack[M].k \in {"pcall", "resume"}
         /\ NoResume(cstack, M) /\ cstack[M].th = L
         /\ cstack[M].k = "pcall" => NoResume(cstack, M - 1)
         /\ Sound(cstack, M) /\ cstack[M - 1].k \in {"C", "host"}
         /\ Depth(cstack, M - 1) < CLimit
<1>1. PICK n : n = Len(cstack) OBVIOUS
<1>2. cstack \in Seq(Activation) /\ n \in Nat \ {0} /\ SoundStack(cstack) /\ L = cstack[n].th BY <1>1, Start
<1>3. PICK T : T = Catchers OBVIOUS
<1>4. T \in SUBSET (1 .. n) /\ T # {} /\ \A j \in 1 .. n : j \in T <=> cstack[j].k \in {"pcall", "resume"}
  BY <1>1, <1>2, <1>3 DEF Catchers
<1>5. M \in T /\ \A y \in T : y <= M
  <2>1. n \in Nat BY <1>2
  <2>2. Max(T) \in T /\ \A y \in T : y <= Max(T) BY <1>4, <2>1, BoundedMax
  <2> QED BY <1>3, <2>2
<1>6. M \in 1 .. n /\ cstack[M].k \in {"pcall", "resume"} BY <1>4, <1>5
<1>7. Sound(cstack, M) BY <1>1, <1>2, <1>6 DEF SoundStack
<1>8. M # 1 BY <1>6, <1>7 DEF Sound
<1>9. M \in 2 .. n /\ M - 1 \in 1 .. n /\ M \in Nat BY <1>2, <1>6, <1>8
<1>10. Above(cstack[M - 1], cstack[M]) BY <1>7, <1>9 DEF Sound
<1>11. cstack[M - 1].k \in {"C", "host"} BY <1>6, <1>10 DEF Above
<1>12. Sound(cstack, M - 1) BY <1>1, <1>2, <1>9 DEF SoundStack
<1>13. Depth(cstack, M - 1) < CLimit BY <1>11, <1>12 DEF Sound
<1>14. \A j \in M + 1 .. n : cstack[j].k \notin {"pcall", "resume"}
  <2> TAKE j \in M + 1 .. n
  <2>1. j \in 1 .. n /\ ~(j <= M) BY <1>9
  <2> QED BY <1>4, <1>5, <2>1
<1>15. NoResume(cstack, M) BY <1>1, <1>14 DEF NoResume
<1>16. cstack[M].k = "pcall" => NoResume(cstack, M - 1)
  <2>1. \A j \in M - 1 + 1 .. n : j = M \/ j \in M + 1 .. n BY <1>9
  <2> QED BY <1>1, <1>14, <2>1 DEF NoResume
<1>17. cstack[M].th = L
  <2>1. (\A k \in M + 1 .. n : cstack[k].k # "resume") /\ M \in 1 .. Len(cstack) /\ n \in M .. Len(cstack) BY <1>1, <1>9, <1>14
  <2>2. cstack[n].th = cstack[M].th BY <1>2, <2>1, NoResumeSameThread
  <2> QED BY <1>2, <2>2
<1>18. cstack[M] \in Activation BY <1>1, <1>2, <1>6, ActNat
<1> QED BY <1>1, <1>6, <1>7, <1>9, <1>11, <1>13, <1>15, <1>16, <1>17, <1>18

LEMMA CutSeq ==
  ASSUME NEW S, NEW s \in Seq(S), NEW m \in 0 .. Len(s)
  PROVE  /\ SubSeq(s, 1, m) \in Seq(S) /\ Len(SubSeq(s, 1, m)) = m
         /\ \A j \in 1 .. m : SubSeq(s, 1, m)[j] = s[j]
<1>1. m \in Int /\ 1 \in Int /\ m \in Nat /\ Len(s) \in Nat OBVIOUS
<1>2. \A j \in 1 .. m : s[j] \in S
  <2>1. \A j \in 1 .. m : j \in 1 .. Len(s) BY <1>1
  <2> QED BY <2>1, ElementOfSeq
<1>3. /\ SubSeq(s, 1, m) \in Seq(S) /\ Len(SubSeq(s, 1, m)) = IF 1 <= m THEN m - 1 + 1 ELSE 0
      /\ \A i \in 1 .. m - 1 + 1 : SubSeq(s, 1, m)[i] = s[1 + i - 1]
  BY <1>1, <1>2, SubSeqProperties
<1>4. Len(SubSeq(s, 1, m)) = m
  <2>1. CASE 1 <= m BY <1>1, <1>3, <2>1
  <2>2. CASE ~(1 <= m) BY <1>1, <1>3, <2>2
  <2> QED BY <2>1, <2>2
<1>5. m - 1 + 1 = m /\ \A i \in 1 .. m : 1 + i - 1 = i BY <1>1
<1> QED BY <1>3, <1>4, <1>5

\* The C stack is cut below the i-th activation.
LEMMA CutDown ==
  ASSUME CallInv, NEW i \in 2 .. Len(cstack), CutTo(i)
  PROVE  /\ cstack' \in Seq(Activation) /\ Len(cstack') = i - 1 /\ Agree(cstack, cstack', i - 1)
         /\ i - 1 \in Nat /\ i - 1 \in 1 .. Len(cstack)
<1>1. cstack \in Seq(Activation) /\ Len(cstack) \in Nat BY DEF CallInv, TypeOK
<1>2. PICK m : m = i - 1 OBVIOUS
<1>3. m \in 0 .. Len(cstack) /\ m \in 1 .. Len(cstack) /\ m \in Nat /\ m <= Len(cstack) /\ m <= m BY <1>1, <1>2
<1>4. /\ SubSeq(cstack, 1, m) \in Seq(Activation) /\ Len(SubSeq(cstack, 1, m)) = m
      /\ \A j \in 1 .. m : SubSeq(cstack, 1, m)[j] = cstack[j]
  BY <1>1, <1>3, CutSeq
<1>5. cstack' = SubSeq(cstack, 1, m) BY <1>2 DEF CutTo
<1> QED BY <1>2, <1>3, <1>4, <1>5 DEF Agree

LEMMA CaughtStep ==
  ASSUME CallInv, cstack # <<>>, Catchers # {}, NEW M, M = Max(Catchers), CutTo(M),
         NEW p, p = cstack[M], p.k = "pcall", Caught(p)
  PROVE  CallInv'
<1>1. PICK t : t = L OBVIOUS
<1>2. /\ M \in 2 .. Len(cstack) /\ p \in Activation /\ p.th = t /\ NoResume(cstack, M - 1) /\ Sound(cstack, M)
      /\ Depth(cstack, M - 1) < CLimit
  BY <1>1, CatcherTop
<1>3. PICK n : n = Len(cstack) OBVIOUS
<1>4. /\ cstack \in Seq(Activation) /\ n \in Nat \ {0} /\ t \in Thread
      /\ RightAt(cstack, n, t, nCcalls[t], ci[t], allowhook[t], errfunc[t])
      /\ Live(ci[t], openupval[t]) /\ ci[t] \in Seq(Function)
  BY <1>1, <1>3, Start
<1>5. PICK m : m = M - 1 OBVIOUS
<1>6. cstack' \in Seq(Activation) /\ Len(cstack') = m /\ Agree(cstack, cstack', m) /\ m \in Nat /\ m \in 1 .. Len(cstack)
  BY <1>2, <1>5, CutDown
<1>7. /\ p.old.nCcalls = Depth(cstack, m) /\ p.old.ci = Level(cstack, t, m)
      /\ InForce(cstack, t, m, p.old.errfunc) /\ (p.old.allowhook = TRUE <=> ~Hooked(cstack, t, m))
  <2>1. Keeps(cstack, M) BY <1>2 DEF Sound
  <2> QED BY <1>2, <1>5, <2>1 DEF Keeps
<1>8. p.old.nCcalls \in Nat /\ p.old.ci \in Nat /\ p.old.allowhook \in BOOLEAN /\ p.old.errfunc \in Handlers
  BY <1>2 DEF Activation, Locals
<1>9. PICK c : c = p.old.ci OBVIOUS
<1>10. c \in 0 .. Len(ci[t])
  <2>1. Level(cstack, t, m) <= Level(cstack, t, n)
    <3>1. m \in 0 .. Len(cstack) /\ n \in m .. Len(cstack) BY <1>3, <1>4, <1>6
    <3> QED BY <1>4, <3>1, LevelMonotone
  <2>2. Len(ci[t]) = Level(cstack, t, n) BY <1>4 DEF RightAt, FramesRight
  <2>3. Len(ci[t]) \in Nat BY <1>4
  <2> QED BY <1>7, <1>8, <1>9, <2>1, <2>2, <2>3
<1>11. PICK gs : gs = SubSeq(ci[t], 1, c) OBVIOUS
<1>12. gs \in Seq(Function) /\ Len(gs) = c /\ \A j \in 1 .. c : gs[j] = ci[t][j] BY <1>4, <1>10, <1>11, CutSeq
<1>13. ci'[t] = gs /\ ci' \in [Thread -> Seq(Function)] /\ \A u \in Thread \ {t} : ci'[u] = ci[u]
  BY <1>2, <1>4, <1>9, <1>11, <1>12 DEF Caught, CallInv, TypeOK
<1>14. /\ nCcalls' \in [Thread -> Nat] /\ nCcalls'[t] = p.old.nCcalls
       /\ \A u \in Thread \ {t} : nCcalls'[u] = nCcalls[u]
  BY <1>2, <1>4, <1>8 DEF Caught, RestoreCount, CallInv, TypeOK
<1>15. /\ allowhook' \in [Thread -> BOOLEAN] /\ allowhook'[t] = p.old.allowhook
       /\ \A u \in Thread \ {t} : allowhook'[u] = allowhook[u]
  BY <1>2, <1>4, <1>8 DEF Caught, RestoreHooks, CallInv, TypeOK
<1>16. /\ errfunc' \in [Thread -> Handlers] /\ errfunc'[t] = p.old.errfunc
       /\ \A u \in Thread \ {t} : errfunc'[u] = errfunc[u]
  BY <1>2, <1>4, <1>8 DEF Caught, CallInv, TypeOK
<1>17. /\ openupval' \in [Thread -> SUBSET Nat] /\ openupval'[t] = {l \in openupval[t] : l < c + 1}
       /\ \A u \in Thread \ {t} : openupval'[u] = openupval[u]
  <2>1. PICK k : k = c + 1 OBVIOUS
  <2>2. k \in Int /\ luaF_close(t, k) BY <1>2, <1>8, <1>9, <2>1 DEF Caught
  <2> QED BY <1>4, <2>1, <2>2, Closed DEF CallInv
<1>18. /\ size_ci' \in [Thread -> 2 .. 2 * LUAI_MAXCALLS] /\ c < size_ci'[t]
       /\ \A u \in Thread \ {t} : size_ci'[u] = size_ci[u]
  <2>1. LUAI_MAXCALLS \in 2 .. 2 * LUAI_MAXCALLS
    <3>1. LUAI_MAXCALLS \in Nat /\ LUAI_MAXCALLS >= 2 BY CallsAssumption
    <3> QED BY <3>1
  <2>2. PICK x : x = IF size_ci[t] > LUAI_MAXCALLS /\ p.old.ci + 1 < LUAI_MAXCALLS THEN LUAI_MAXCALLS ELSE size_ci[t]
    OBVIOUS
  <2>3. size_ci' = [size_ci EXCEPT ![t] = x] BY <1>2, <2>2 DEF Caught
  <2>4. size_ci[t] \in 2 .. 2 * LUAI_MAXCALLS /\ Len(ci[t]) < size_ci[t] BY <1>4 DEF CallInv, TypeOK
  <2>5. x \in 2 .. 2 * LUAI_MAXCALLS BY <2>1, <2>2, <2>4
  <2>6. c < x BY <1>4, <1>9, <1>10, <2>1, <2>2, <2>4
  <2> QED BY <1>4, <2>3, <2>5, <2>6 DEF CallInv, TypeOK
<1>19. UNCHANGED coVars BY DEF Caught
<1>20. TypeOK'
  <2>1. \A u \in Thread : Len(ci'[u]) < size_ci'[u] BY <1>12, <1>13, <1>18 DEF CallInv, TypeOK
  <2> QED BY <1>6, <1>13, <1>14, <1>15, <1>16, <1>17, <1>18, <1>19, <2>1 DEF CallInv, TypeOK, coVars
<1>21. OthersKept(t) BY <1>13, <1>14, <1>15, <1>16, <1>17 DEF OthersKept
<1>22. FramesRight(cstack, t, m, gs)
  <2>1. n \in 0 .. Len(cstack) /\ m \in 0 .. n /\ FramesRight(cstack, t, n, ci[t]) BY <1>3, <1>4, <1>6 DEF RightAt
  <2>2. Len(gs) = Level(cstack, t, m) /\ \A x \in 1 .. Level(cstack, t, m) : gs[x] = ci[t][x] BY <1>7, <1>9, <1>12
  <2> QED BY <1>4, <2>1, <2>2, FramesCut
<1>23. RightAt(cstack, m, t, nCcalls'[t], ci'[t], allowhook'[t], errfunc'[t])
  BY <1>7, <1>13, <1>14, <1>15, <1>16, <1>22 DEF RightAt
<1>24. Live(ci'[t], openupval'[t])
  <2> SUFFICES ASSUME NEW l \in openupval'[t] PROVE l \in 1 .. Len(ci'[t]) /\ ci'[t][l] = "Lua" BY DEF Live
  <2>1. l \in openupval[t] /\ l < c + 1 BY <1>17
  <2>2. l \in 1 .. Len(ci[t]) /\ ci[t][l] = "Lua" BY <1>4, <2>1 DEF Live
  <2>3. l \in 1 .. c BY <1>8, <1>9, <2>1, <2>2
  <2> QED BY <1>12, <1>13, <2>2, <2>3
<1>25. nCcalls'[t] < CLimit /\ NoResume(cstack, m) BY <1>2, <1>5, <1>7, <1>14
<1> QED BY <1>1, <1>6, <1>19, <1>20, <1>21, <1>23, <1>24, <1>25, CutStep

-----------------------------------------------------------------------------
(* Coroutines that leave the stack.                                        *)

\* All the fields of the threads but t are as they were.
KeptBut(t) ==
    \A u \in Thread \ {t} : /\ ci'[u] = ci[u] /\ allowhook'[u] = allowhook[u] /\ errfunc'[u] = errfunc[u]
                            /\ openupval'[u] = openupval[u] /\ nCcalls'[u] = nCcalls[u]
                            /\ baseCcalls'[u] = baseCcalls[u] /\ status'[u] = status[u]
                            /\ cotop'[u] = cotop[u] /\ life'[u] = life[u]

\* The stack is cut below M, and the thread that is on top then may raise an error.
CutOrFail(s, r, M) ==
    \/ Len(r) = M - 1
    \/ Len(r) = M /\ r[M].k = "runerror" /\ r[M].th = s[M - 1].th /\ r[M].why = "plain"

\* The threads of the activations around a resume.
LEMMA ResumeAt ==
  ASSUME CallInv, cstack # <<>>, NEW t, t = L, NEW M \in 2 .. Len(cstack), cstack[M].k = "resume", NoResume(cstack, M)
  PROVE  /\ \A j \in M .. Len(cstack) : cstack[j].th = t
         /\ \A j \in 1 .. M - 1 : cstack[j].th # t
         /\ t \in Co /\ t # "main" /\ cstack[M - 1].k \in {"C", "host"} /\ Depth(cstack, M - 1) < CLimit
<1>1. cstack \in Seq(Activation) /\ SoundStack(cstack) /\ Len(cstack) \in Nat /\ t = cstack[Len(cstack)].th BY Start
<1>2. M \in 1 .. Len(cstack) /\ \A k \in M + 1 .. Len(cstack) : cstack[k].k # "resume" BY DEF NoResume
<1>3. \A j \in M .. Len(cstack) : cstack[j].th = cstack[M].th
  <2> TAKE j \in M .. Len(cstack)
  <2>1. \A k \in M + 1 .. j : cstack[k].k # "resume" BY <1>2
  <2> QED BY <1>1, <1>2, <2>1, NoResumeSameThread
<1>4. cstack[M].th = t
  <2>1. Len(cstack) \in M .. Len(cstack) BY <1>1
  <2> QED BY <1>1, <1>3, <2>1
<1>5. Sound(cstack, M) /\ M - 1 \in 1 .. Len(cstack) BY <1>1, <1>2 DEF SoundStack
<1>6. \A j \in 1 .. M - 1 : cstack[j].th # t BY <1>4, <1>5 DEF Sound
<1>7. Above(cstack[M - 1], cstack[M]) BY <1>2, <1>5 DEF Sound
<1>8. t \in Co /\ cstack[M - 1].k \in {"C", "host"} BY <1>4, <1>7 DEF Above
<1>9. Sound(cstack, M - 1) BY <1>1, <1>5 DEF SoundStack
<1>10. Depth(cstack, M - 1) < CLimit BY <1>8, <1>9 DEF Sound
<1>11. t # "main" BY <1>8, CallsAssumption
<1> QED BY <1>3, <1>4, <1>6, <1>8, <1>10, <1>11

LEMMA LeaveStep ==
  ASSUME CallInv, TypeOK', cstack # <<>>, NEW t, t = L, NEW M \in 2 .. Len(cstack), cstack[M].k = "resume",
         NoResume(cstack, M), Agree(cstack, cstack', M - 1), CutOrFail(cstack, cstack', M), KeptBut(t), Idle(t)'
  PROVE  CallInv'
<1> DEFINE s == cstack
           r == cstack'
           m == M - 1
           v == cstack[M - 1].th
<1>1. /\ s \in Seq(Activation) /\ r \in Seq(Activation) /\ Len(s) \in Nat /\ Len(r) \in Nat
      /\ DOMAIN s = 1 .. Len(s) /\ DOMAIN r = 1 .. Len(r)
  BY DEF CallInv, TypeOK
<1>2. /\ \A j \in M .. Len(s) : s[j].th = t
      /\ \A j \in 1 .. m : s[j].th # t
      /\ t \in Co /\ t # "main" /\ s[m].k \in {"C", "host"} /\ Depth(s, m) < CLimit
  BY ResumeAt
<1>3. SoundStack(s) BY Start
<1>4. m \in Nat /\ m \in 1 .. Len(s) /\ m + 1 = M /\ m \in m .. Len(s) /\ m \in m .. Len(r) /\ m \in 0 .. m
      /\ m \in 1 .. Len(r) /\ (Len(r) = m \/ Len(r) = m + 1) /\ M \in Nat \ {0} /\ m \in 0 .. Len(s)
      /\ Len(s) \in m .. Len(s) /\ Len(r) \in m .. Len(r) /\ Len(s) \in Nat
  <2>1. Len(r) = m \/ Len(r) = M BY DEF CutOrFail
  <2>2. M \in Nat \ {0} /\ m + 1 = M /\ m \in Nat /\ m >= 1 /\ m <= Len(s) BY <1>1
  <2>3. m <= Len(r) BY <2>1, <2>2
  <2>4. PICK x : x = Len(s) OBVIOUS
  <2>5. PICK y : y = Len(r) OBVIOUS
  <2>6. x \in Nat /\ y \in Nat /\ (y = m \/ y = M) /\ m <= x /\ m <= y BY <1>1, <2>1, <2>2, <2>3, <2>4, <2>5
  <2> HIDE DEF s, r, m
  <2>7. /\ m \in Nat /\ m \in 1 .. x /\ m + 1 = M /\ m \in m .. x /\ m \in m .. y /\ m \in 0 .. m
        /\ m \in 1 .. y /\ (y = m \/ y = m + 1) /\ M \in Nat \ {0} /\ m \in 0 .. x
        /\ x \in m .. x /\ y \in m .. y /\ x \in Nat
    BY ONLY <2>2, <2>6
  <2> QED BY <2>4, <2>5, <2>7
<1>5. Agree(s, r, m) /\ \A j \in 1 .. m : s[j] = r[j] BY DEF Agree
<1>6. Len(r) = m + 1 => r[m + 1].k = "runerror" /\ r[m + 1].th = v /\ r[m + 1].why = "plain"
  BY <1>4 DEF CutOrFail
<1>7. v # t /\ v \in Thread /\ v = s[m].th
  <2>1. s[m] \in Activation BY <1>1, <1>4, ActNat
  <2> QED BY <1>2, <1>4, <2>1 DEF Activation
<1>8. \A u \in Thread \ {t} :
        /\ \A j \in m + 1 .. Len(s) : s[j].th # u
        /\ u # v => \A j \in m + 1 .. Len(r) : r[j].th # u
  <2>1. \A j \in m + 1 .. Len(s) : j \in M .. Len(s) BY <1>4
  <2>2. \A j \in m + 1 .. Len(r) : Len(r) = m + 1 /\ j = m + 1 BY <1>4
  <2> QED BY <1>2, <1>6, <2>1, <2>2
<1> HIDE DEF s, r, m, v
<1>9. DepthOf(r[m + 1]) = 0 \/ Len(r) = m BY <1>4, <1>6 DEF DepthOf
<1>10. Depth(s, m) = Depth(r, m) /\ Depth(r, Len(r)) = Depth(s, m) /\ Depth(s, m) \in Nat
  <2>1. Depth(s, m) = Depth(r, m) BY <1>1, <1>4, <1>5, DepthAgree
  <2>2. Depth(s, m) \in Nat BY <1>1, <1>4, DepthMonotone
  <2>3. CASE Len(r) = m BY <2>1, <2>2, <2>3
  <2>4. CASE Len(r) = m + 1
    <3>1. PICK i : i = m + 1 OBVIOUS
    <3>2. i \in 1 .. Len(r) /\ i - 1 = m /\ DepthOf(r[i]) = 0 BY <1>4, <1>6, <2>4, <3>1 DEF DepthOf
    <3>3. Depth(r, i) = Depth(r, i - 1) + DepthOf(r[i]) BY <1>1, <3>2, DepthStep
    <3> QED BY <2>1, <2>2, <2>4, <3>1, <3>2, <3>3
  <2> QED BY <1>4, <2>3, <2>4
<1>11. \A i \in 1 .. m : Sound(r, i)
  <2> TAKE i \in 1 .. m
  <2>1. i \in 1 .. Len(s) BY <1>4
  <2>2. Sound(s, i) BY <1>3, <2>1 DEF SoundStack
  <2> QED BY <1>1, <1>4, <1>5, <2>2, SoundAgree
<1>12. ASSUME NEW u \in Thread \ {t}, u \in OnStack PROVE
         RightAt(r, Len(r), u, Depth(r, Len(r)), ci[u], allowhook[u], errfunc[u]) /\ (Len(r) = m + 1 => Sound(r, m + 1))
  <2>1. Active(u) BY <1>12 DEF CallInv, FieldsInv
  <2>2. (\A j \in m + 1 .. Len(s) : s[j].th # u) /\ \A j \in m + 1 .. m : r[j].th # u /\ s[j].th # u BY <1>4, <1>8
  <2>3. FramesRight(r, u, m, ci[u]) BY <1>1, <1>4, <1>5, <2>1, <2>2, FramesAgree DEF Active, s
  <2>4. m <= m /\ m <= Len(s) BY <1>4
  <2>5. allowhook[u] = TRUE <=> ~Hooked(r, u, m)
    <3>1. Hooked(s, u, Len(s)) <=> Hooked(r, u, m) BY <1>4, <1>5, <2>2, <2>4, HookedAgree
    <3> QED BY <2>1, <3>1 DEF Active, s
  <2>6. InForce(r, u, m, errfunc[u])
    <3>1. InForce(s, u, Len(s), errfunc[u]) BY <2>1 DEF Active, s
    <3> QED BY <1>4, <1>5, <2>2, <2>4, <3>1, InForceAgree
  <2>7. CASE Len(r) = m
    <3>1. m # m + 1 BY <1>4
    <3> QED BY <2>3, <2>5, <2>6, <2>7, <3>1 DEF RightAt
  <2>8. CASE Len(r) = m + 1
    <3>1. PICK i : i = m + 1 OBVIOUS
    <3>2. i \in 1 .. Len(r) /\ i - 1 = m /\ i \in 2 .. Len(r) /\ i \in Nat \ {0} BY <1>4, <2>8, <3>1
    <3>3. r[i].k = "runerror" /\ r[i].th = v /\ r[i].why = "plain" BY <1>6, <2>8, <3>1
    <3>4. FramesIn(r[i]) = 0 /\ ~Disables(r[i]) /\ ~PcallOf(r[i], u) BY <3>3 DEF FramesIn, Disables, PcallOf
    <3>5. FramesRight(r, u, i, ci[u]) BY <1>1, <2>3, <3>2, <3>4, FramesSkip
    <3>6. Hooked(r, u, i) <=> Hooked(r, u, m) BY <3>2, <3>4, HookedStep
    <3>7. InForce(r, u, i, errfunc[u]) BY <2>6, <3>2, <3>4, InForceStep
    <3>8. Above(r[i - 1], r[i]) /\ i > 1
      <4>1. r[i - 1].th = v BY <1>4, <1>5, <1>7, <3>2
      <4> QED BY <3>2, <3>3, <4>1 DEF Above
    <3>9. Sound(r, i) BY <3>2, <3>3, <3>8 DEF Sound, Keeps
    <3> QED BY <2>5, <2>8, <3>1, <3>5, <3>6, <3>7, <3>9 DEF RightAt
  <2> QED BY <1>4, <2>7, <2>8
<1>13. v \in OnStack /\ v \in Thread \ {t} BY <1>1, <1>4, <1>7 DEF OnStack, s
<1>14. SoundStack(r)
  <2>1. Len(r) = m + 1 => Sound(r, m + 1) BY <1>12, <1>13
  <2>2. \A i \in 1 .. Len(r) : i \in 1 .. m \/ (i = m + 1 /\ Len(r) = m + 1) BY <1>4
  <2> QED BY <1>11, <2>1, <2>2 DEF SoundStack
<1>15. OnStack' = OnStack \ {t}
  <2>1. OnStack = {s[j].th : j \in 1 .. Len(s)} /\ OnStack' = {r[j].th : j \in 1 .. Len(r)} BY <1>1 DEF OnStack, s, r
  <2>2. \A j \in 1 .. Len(s) : s[j].th = t \/ \E k \in 1 .. Len(r) : s[j].th = r[k].th
    <3> TAKE j \in 1 .. Len(s)
    <3>1. j \in 1 .. m \/ j \in M .. Len(s) BY <1>4
    <3>2. \A k \in 1 .. m : k \in 1 .. Len(r) BY <1>4
    <3> QED BY <1>2, <1>5, <3>1, <3>2
  <2>3. \A j \in 1 .. Len(r) : r[j].th # t /\ \E k \in 1 .. Len(s) : s[k].th = r[j].th
    <3> TAKE j \in 1 .. Len(r)
    <3>1. CASE j \in 1 .. m
      <4>1. j \in 1 .. Len(s) BY <1>4, <3>1
      <4> QED BY <1>2, <1>5, <3>1, <4>1
    <3>2. CASE j = m + 1 /\ Len(r) = m + 1 BY <1>4, <1>6, <1>7, <3>2
    <3> QED BY <1>4, <3>1, <3>2
  <2>4. \A u : u \in OnStack /\ u # t => u \in OnStack' BY <2>1, <2>2
  <2>5. \A u : u \in OnStack' => u \in OnStack /\ u # t BY <2>1, <2>3
  <2> QED BY <2>4, <2>5
<1>16. OnStack \subseteq Thread
  <2>1. \A j \in 1 .. Len(s) : s[j].th \in Thread BY <1>1, ActNat DEF Activation
  <2> QED BY <1>1, <2>1 DEF OnStack, s
<1>17. ASSUME NEW u \in OnStack \ {t} PROVE Active(u)'
  <2>1. u \in Thread \ {t} /\ Active(u) BY <1>16 DEF CallInv, FieldsInv
  <2>2. RightAt(r, Len(r), u, Depth(r, Len(r)), ci[u], allowhook[u], errfunc[u]) BY <1>12, <2>1
  <2>3. /\ ci'[u] = ci[u] /\ allowhook'[u] = allowhook[u] /\ errfunc'[u] = errfunc[u]
        /\ openupval'[u] = openupval[u] /\ status'[u] = status[u] /\ life'[u] = life[u]
    BY <2>1 DEF KeptBut
  <2>4. Live(ci[u], openupval[u]) /\ status[u] = "ok" /\ life[u] = "started" BY <2>1 DEF Active
  <2> QED BY <2>2, <2>3, <2>4 DEF Active, RightAt, r
<1>18. ASSUME NEW u \in Co \ (OnStack \ {t}) PROVE Idle(u)'
  <2>1. CASE u = t BY <2>1
  <2>2. CASE u # t
    <3>1. u \in Thread \ {t} /\ Idle(u) BY <2>2 DEF Thread, CallInv, FieldsInv
    <3>2. /\ ci'[u] = ci[u] /\ allowhook'[u] = allowhook[u] /\ errfunc'[u] = errfunc[u]
          /\ openupval'[u] = openupval[u] /\ status'[u] = status[u] /\ life'[u] = life[u] /\ cotop'[u] = cotop[u]
      BY <3>1 DEF KeptBut
    <3> QED BY <3>1, <3>2 DEF Idle
  <2> QED BY <2>1, <2>2
<1>19. FieldsInv'
  <2>1. "main" \in Thread \ {t} BY <1>2 DEF Thread
  <2>2. life'["main"] = "started" /\ baseCcalls'["main"] = 0 BY <2>1 DEF CallInv, FieldsInv, KeptBut
  <2> QED BY <1>15, <1>17, <1>18, <2>2 DEF FieldsInv
<1>20. ASSUME NEW i \in 1 .. Len(r), Newest(r, i) PROVE nCcalls'[r[i].th] = Depth(r, i)
  <2>1. CASE i = Len(r)
    <3>1. r[i].th = v
      <4>1. CASE Len(r) = m BY <1>4, <1>5, <1>7, <2>1, <4>1
      <4>2. CASE Len(r) = m + 1 BY <1>6, <2>1, <4>2
      <4> QED BY <1>4, <4>1, <4>2
    <3>2. nCcalls[v] = Depth(s, m)
      <4>1. Newest(s, m) BY <1>4 DEF Newest, s
      <4> QED BY <1>4, <1>7, <4>1 DEF CallInv, CountInv, s
    <3>3. nCcalls'[v] = nCcalls[v] BY <1>13 DEF KeptBut
    <3> QED BY <1>10, <2>1, <3>1, <3>2, <3>3
  <2>2. CASE i # Len(r)
    <3>0. r[i + 1].k = "resume" BY <1>20, <2>2 DEF Newest
    <3>1. r[i + 1].k = "resume" /\ i + 1 \in 1 .. Len(r)
      <4>1. PICK x : x = Len(r) OBVIOUS
      <4>2. x \in Nat /\ i \in 1 .. x /\ i # x BY <1>1, <2>2, <4>1
      <4>3. i + 1 \in 1 .. x BY ONLY <4>2
      <4> QED BY <3>0, <4>1, <4>3
    <3>2. i + 1 \in 1 .. m
      <4>1. CASE i + 1 = m + 1 BY <1>4, <1>6, <3>1, <4>1
      <4>2. CASE i + 1 # m + 1 BY <1>4, <3>1, <4>2
      <4> QED BY <4>1, <4>2
    <3>3. i \in 1 .. m /\ i \in 1 .. Len(s) /\ i \in 0 .. m /\ i + 1 # Len(s) + 1 BY <1>4, <3>2
    <3>4. s[i] = r[i] /\ s[i + 1].k = "resume" BY <1>5, <3>1, <3>2, <3>3
    <3>5. nCcalls[s[i].th] = Depth(s, i) BY <3>3, <3>4 DEF CallInv, CountInv, Newest, s
    <3>6. s[i].th \in Thread \ {t} BY <1>1, <1>2, <3>3, ActNat DEF Activation
    <3>7. nCcalls'[s[i].th] = nCcalls[s[i].th] BY <3>6 DEF KeptBut
    <3>8. Depth(s, i) = Depth(r, i)
      <4>1. m \in Nat /\ i \in 0 .. m /\ Agree(s, r, m) BY <1>4, <1>5, <3>3
      <4> QED BY ONLY <1>1, <4>1, DepthAgree
    <3> QED BY <3>4, <3>5, <3>7, <3>8
  <2> QED BY <2>1, <2>2
<1>21. ASSUME NEW i \in 1 .. Len(r), r[i].k = "resume" PROVE baseCcalls'[r[i].th] = Depth(r, i)
  <2>1. i \in 1 .. m
    <3>1. CASE i = m + 1 BY <1>4, <1>6, <1>21, <3>1
    <3>2. CASE i # m + 1 BY <1>4, <3>2
    <3> QED BY <3>1, <3>2
  <2>2. s[i] = r[i] /\ i \in 1 .. Len(s) /\ i \in 0 .. m BY <1>4, <1>5, <2>1
  <2>3. baseCcalls[s[i].th] = Depth(s, i) BY <1>21, <2>2 DEF CallInv, CountInv, s
  <2>4. s[i].th \in Thread \ {t} BY <1>1, <1>2, <2>1, <2>2, ActNat DEF Activation
  <2>5. baseCcalls'[s[i].th] = baseCcalls[s[i].th] BY <2>4 DEF KeptBut
  <2>6. Depth(s, i) = Depth(r, i)
    <3>1. m \in Nat /\ Agree(s, r, m) BY <1>4, <1>5
    <3> QED BY ONLY <1>1, <2>2, <3>1, DepthAgree
  <2> QED BY <2>2, <2>3, <2>5, <2>6
<1>22. CountInv'
  <2>1. Depth(r, Len(r)) < CLimit BY <1>2, <1>10
  <2>2. CLimit \in Nat BY CallsAssumption DEF CLimit
  <2>3. Depth(r, Len(r)) <= CLimit BY <1>10, <2>1, <2>2
  <2> QED BY <1>20, <1>21, <2>1, <2>3 DEF CountInv, r
<1>23. StackInv' BY <1>14 DEF StackInv, SoundStack, r
<1> QED BY <1>19, <1>22, <1>23 DEF CallInv

\* A coroutine on the stack has counted its own resume.
LEMMA Counted ==
  ASSUME CallInv, cstack # <<>>, NEW t, t = L, NEW M \in 2 .. Len(cstack), cstack[M].k = "resume", UncountCall(t)
  PROVE  /\ nCcalls' \in [Thread -> Nat] /\ \A u \in Thread \ {t} : nCcalls'[u] = nCcalls[u]
<1>1. PICK n : n = Len(cstack) OBVIOUS
<1>2. cstack \in Seq(Activation) /\ n \in Nat \ {0} /\ t \in Thread /\ RightAt(cstack, n, t, nCcalls[t], ci[t], allowhook[t], errfunc[t])
      /\ nCcalls[t] \in Nat
  BY <1>1, Start
<1>3. DepthOf(cstack[M]) = 1 BY DEF DepthOf
<1>4. Depth(cstack, M) = Depth(cstack, M - 1) + 1 /\ Depth(cstack, M - 1) \in Nat
  <2>1. M \in 1 .. Len(cstack) OBVIOUS
  <2> QED BY <1>2, <1>3, <2>1, DepthStep
<1>5. Depth(cstack, M) <= Depth(cstack, n)
  <2>1. M \in 0 .. Len(cstack) /\ n \in M .. Len(cstack) BY <1>1, <1>2
  <2> QED BY <1>2, <2>1, DepthMonotone
<1>6. nCcalls[t] = Depth(cstack, n) BY <1>2 DEF RightAt
<1>7. nCcalls[t] - 1 \in Nat BY <1>2, <1>4, <1>5, <1>6
<1> QED BY <1>2, <1>7 DEF UncountCall, CallInv, TypeOK

LEMMA DiesStep ==
  ASSUME CallInv, cstack # <<>>, Top.k = "throw", Catchers # {}, NEW M, M = Max(Catchers), CutTo(M),
         cstack[M].k = "resume", CoroutineDies(cstack[M].th, Top.why)
  PROVE  CallInv'
<1>1. PICK t : t = L OBVIOUS
<1>2. M \in 2 .. Len(cstack) /\ cstack[M].th = t /\ NoResume(cstack, M) BY <1>1, CatcherTop
<1>3. t \in Thread BY <1>1, Start
<1>4. CoroutineDies(t, Top.why) BY <1>2
<1>5. cstack' \in Seq(Activation) /\ Len(cstack') = M - 1 /\ Agree(cstack, cstack', M - 1) BY <1>2, CutDown
<1>6. Top.why \in Errors
  <2>1. Above(cstack[Len(cstack) - 1], Top) BY Below
  <2> QED BY <2>1 DEF Above
<1>7. nCcalls' \in [Thread -> Nat] /\ \A u \in Thread \ {t} : nCcalls'[u] = nCcalls[u]
  <2>1. UncountCall(t) BY <1>4 DEF CoroutineDies
  <2> QED BY <1>1, <1>2, <2>1, Counted
<1>8. /\ status' \in [Thread -> {"ok", "yield"} \cup Errors] /\ status'[t] = Top.why
      /\ \A u \in Thread \ {t} : status'[u] = status[u]
  BY <1>3, <1>4, <1>6 DEF CoroutineDies, MarkDead, CallInv, TypeOK
<1>9. /\ life' \in [Thread -> {"fresh", "started", "yielded", "ended"}] /\ life'[t] = "ended"
      /\ \A u \in Thread \ {t} : life'[u] = life[u]
  BY <1>3, <1>4 DEF CoroutineDies, CallInv, TypeOK
<1>10. /\ ci' = ci /\ openupval' = openupval /\ size_ci' = size_ci /\ allowhook' = allowhook /\ errfunc' = errfunc
       /\ baseCcalls' = baseCcalls /\ cotop' = cotop
  BY <1>4 DEF CoroutineDies, frameVars
<1>11. TypeOK' BY <1>5, <1>7, <1>8, <1>9, <1>10 DEF CallInv, TypeOK
<1>12. KeptBut(t) BY <1>7, <1>8, <1>9, <1>10 DEF KeptBut
<1>13. Idle(t)'
  <2>1. status'[t] \notin {"ok", "yield"} BY <1>6, <1>8 DEF Errors
  <2> QED BY <1>9, <2>1 DEF Idle
<1>14. CutOrFail(cstack, cstack', M) BY <1>5 DEF CutOrFail
<1> QED BY <1>1, <1>2, <1>5, <1>11, <1>12, <1>13, <1>14, LeaveStep

\* Only the main thread is on the stack when no setjmp is.
LEMMA NoCatcher ==
  ASSUME CallInv, Catchers = {}
  PROVE  OnStack \subseteq {"main"}
<1>1. cstack \in Seq(Activation) /\ SoundStack(cstack) /\ DOMAIN cstack = 1 .. Len(cstack)
  BY DEF CallInv, TypeOK, StackInv, SoundStack
<1>2. ASSUME NEW j \in 1 .. Len(cstack), cstack[j].th # "main" PROVE FALSE
  <2>1. PICK k \in 2 .. j : cstack[k].k = "resume" BY <1>1, <1>2, Resumed
  <2>2. k \in Catchers BY <1>1, <2>1 DEF Catchers
  <2> QED BY <2>2
<1> QED BY <1>1, <1>2 DEF OnStack

LEMMA PanicStep ==
  ASSUME CallInv, Catchers = {}, cstack' = <<>>, UNCHANGED <<frameVars, nCcalls, allowhook, errfunc, coVars>>
  PROVE  CallInv'
<1>1. /\ ci' = ci /\ openupval' = openupval /\ size_ci' = size_ci /\ allowhook' = allowhook /\ errfunc' = errfunc
      /\ nCcalls' = nCcalls /\ baseCcalls' = baseCcalls /\ cotop' = cotop /\ status' = status /\ life' = life
  BY DEF frameVars, coVars
<1>2. cstack' \in Seq(Activation) /\ Len(cstack') = 0 /\ DOMAIN cstack' = {} OBVIOUS
<1>3. TypeOK' BY <1>1, <1>2 DEF CallInv, TypeOK
<1>4. StackInv' BY <1>2 DEF StackInv
<1>5. OnStack' = {} BY <1>2 DEF OnStack
<1>6. ASSUME NEW t \in Co PROVE Idle(t)'
  <2>1. t \notin OnStack BY NoCatcher, CallsAssumption
  <2>2. Idle(t) BY <2>1 DEF CallInv, FieldsInv
  <2> QED BY <1>1, <2>2 DEF Idle
<1>7. FieldsInv' BY <1>1, <1>5, <1>6 DEF CallInv, FieldsInv
<1>8. CountInv'
  <2>1. Depth(cstack', Len(cstack')) = 0 BY <1>2, StackStart
  <2>2. CLimit \in Nat /\ 0 <= CLimit BY CallsAssumption DEF CLimit
  <2>3. ~Running(Kinds \ {"throw"})' BY DEF Running
  <2> QED BY <1>2, <2>1, <2>2, <2>3 DEF CountInv
<1> QED BY <1>3, <1>4, <1>7, <1>8 DEF CallInv

LEMMA LuaThrowStep == ASSUME CallInv, luaD_throw PROVE CallInv'
<1>1. cstack # <<>> /\ Top.k = "throw" BY DEF luaD_throw, Running
<1>2. CASE Catchers = {}
  <2>1. cstack' = <<>> /\ UNCHANGED <<frameVars, nCcalls, allowhook, errfunc, coVars>> BY <1>2 DEF luaD_throw
  <2> QED BY <1>2, <2>1, PanicStep
<1>3. CASE Catchers # {}
  <2>1. PICK M : M = Max(Catchers) OBVIOUS
  <2>2. CutTo(M) /\ IF cstack[M].k = "pcall" THEN Caught(cstack[M]) ELSE CoroutineDies(cstack[M].th, Top.why)
    BY <1>3, <2>1 DEF luaD_throw
  <2>3. cstack[M].k \in {"pcall", "resume"} BY <1>1, <1>3, <2>1, CatcherTop
  <2>4. CASE cstack[M].k = "pcall"
    <3>1. PICK p : p = cstack[M] OBVIOUS
    <3>2. p.k = "pcall" /\ Caught(p) BY <2>2, <2>4, <3>1
    <3> QED BY <1>1, <1>3, <2>1, <2>2, <3>1, <3>2, CaughtStep
  <2>5. CASE cstack[M].k = "resume"
    <3>1. CoroutineDies(cstack[M].th, Top.why) BY <2>2, <2>5
    <3> QED BY <1>1, <1>3, <2>1, <2>2, <2>5, <3>1, DiesStep
  <2> QED BY <2>3, <2>4, <2>5
<1> QED BY <1>2, <1>3

-----------------------------------------------------------------------------
(* Coroutines that end and yield.                                          *)

\* On the stack of a coroutine whose newest activations are the resume at M and
\* those above it.
LEMMA CoroutineAt ==
  ASSUME CallInv, cstack # <<>>, NEW t, t = L, NEW M \in 2 .. Len(cstack), cstack[M].k = "resume", NoResume(cstack, M)
  PROVE  /\ Level(cstack, t, M) = 0
         /\ ~Hooked(cstack, t, M)
         /\ \A h : InForce(cstack, t, M, h) => h = "none"
<1>1. cstack \in Seq(Activation) /\ \A j \in 1 .. M - 1 : cstack[j].th # t BY Start, ResumeAt
<1>2. M \in 1 .. Len(cstack) /\ M - 1 \in Nat /\ 0 \in Nat /\ 0 <= M - 1 /\ M \in Nat \ {0} /\ 0 + 1 .. M - 1 = 1 .. M - 1
  OBVIOUS
<1>3. Level(cstack, t, M - 1) = 0
  <2>1. Agree(cstack, cstack, 0) /\ 0 \in 0 .. Len(cstack) /\ M - 1 \in 0 .. Len(cstack) /\ 0 + 1 .. 0 = {}
    BY <1>1 DEF Agree
  <2>2. Level(cstack, t, M - 1) = Level(cstack, t, 0) BY <1>1, <1>2, <2>1, LevelAgree
  <2> QED BY <2>2, StackStart
<1>4. FramesIn(cstack[M]) = 0 BY DEF FramesIn
<1>5. Level(cstack, t, M) = 0 BY <1>1, <1>2, <1>3, <1>4, LevelStep
<1>6. ~Disables(cstack[M])
  <2>1. Sound(cstack, M) BY <1>2, Start DEF SoundStack
  <2> QED BY <2>1 DEF Sound, Keeps, Disables
<1>7. ~Hooked(cstack, t, M) BY <1>1, <1>2, <1>6 DEF Hooked
<1>8. \A j \in 1 .. M : ~PcallOf(cstack[j], t) BY <1>1, <1>2 DEF PcallOf
<1>9. \A h : InForce(cstack, t, M, h) => h = "none" BY <1>8 DEF InForce
<1> QED BY <1>5, <1>7, <1>9

LEMMA CoroutineEndsStep == ASSUME CallInv, NEW fits \in BOOLEAN, CoroutineEnds(fits) PROVE CallInv'
<1>1. PICK t : t = L OBVIOUS
<1>2. cstack # <<>> /\ Top.k = "resume" BY DEF CoroutineEnds, Running
<1>3. PICK M : M = Len(cstack) OBVIOUS
<1>4. /\ cstack \in Seq(Activation) /\ M \in Nat \ {0} /\ t \in Thread /\ Top = cstack[M]
      /\ RightAt(cstack, M, t, nCcalls[t], ci[t], allowhook[t], errfunc[t])
      /\ Live(ci[t], openupval[t]) /\ ci[t] \in Seq(Function) /\ NoResume(cstack, M) /\ allowhook[t] \in BOOLEAN
      /\ openupval[t] \in SUBSET Nat
  BY <1>1, <1>2, <1>3, Start
<1>5. M \in 2 .. Len(cstack) /\ cstack[M].k = "resume" /\ M - 1 \in 1 .. Len(cstack) BY <1>2, <1>3, <1>4, Below
<1>6. status[t] = "ok" BY <1>1, <1>2, TopFacts
<1>7. /\ Level(cstack, t, M) = 0 /\ ~Hooked(cstack, t, M) /\ \A h : InForce(cstack, t, M, h) => h = "none"
  BY <1>1, <1>2, <1>4, <1>5, CoroutineAt
<1>8. ci[t] = <<>> /\ openupval[t] = {} /\ allowhook[t] = TRUE /\ errfunc[t] = "none"
  <2>1. Len(ci[t]) = 0 BY <1>4, <1>7 DEF RightAt, FramesRight
  <2>2. ci[t] = <<>> BY <1>4, <2>1, EmptySeq
  <2>3. openupval[t] = {} BY <1>4, <2>1 DEF Live
  <2>4. allowhook[t] = TRUE BY <1>4, <1>7 DEF RightAt
  <2>5. errfunc[t] = "none" BY <1>4, <1>7 DEF RightAt
  <2> QED BY <2>2, <2>3, <2>4, <2>5
<1>9. /\ nCcalls' \in [Thread -> Nat] /\ \A u \in Thread \ {t} : nCcalls'[u] = nCcalls[u]
  <2>1. UncountCall(t) BY <1>1 DEF CoroutineEnds
  <2> QED BY <1>1, <1>2, <1>5, <2>1, Counted
<1>10. /\ life' \in [Thread -> {"fresh", "started", "yielded", "ended"}] /\ life'[t] = "ended"
       /\ \A u \in Thread \ {t} : life'[u] = life[u]
  BY <1>1, <1>4 DEF CoroutineEnds, CallInv, TypeOK
<1>11. cotop' \in [Thread -> BOOLEAN] /\ \A u \in Thread \ {t} : cotop'[u] = cotop[u]
  BY <1>1, <1>4 DEF CoroutineEnds, CallInv, TypeOK
<1>12. /\ ci' = ci /\ openupval' = openupval /\ size_ci' = size_ci /\ allowhook' = allowhook /\ errfunc' = errfunc
       /\ baseCcalls' = baseCcalls /\ status' = status
  BY DEF CoroutineEnds, frameVars
<1>13. PICK v : v = cstack[M - 1].th OBVIOUS
<1>14. v \in Thread
  <2>1. cstack[M - 1] \in Activation BY <1>4, <1>5, ActNat
  <2> QED BY <1>13, <2>1 DEF Activation
<1>15. cstack' \in Seq(Activation) /\ Agree(cstack, cstack', M - 1) /\ CutOrFail(cstack, cstack', M)
  <2>1. CASE fits
    <3>1. Return BY <2>1 DEF CoroutineEnds, Return
    <3>2. cstack' \in Seq(Activation) /\ Len(cstack') = M - 1 /\ Agree(cstack, cstack', M - 1) BY <1>2, <1>3, <3>1, Returned
    <3> QED BY <3>2 DEF CutOrFail
  <2>2. CASE ~fits
    <3>1. /\ Front(cstack) \in Seq(Activation) /\ Len(Front(cstack)) = M - 1
          /\ \A j \in 1 .. M - 1 : Front(cstack)[j] = cstack[j]
      BY <1>2, <1>3, <1>4, FrontSeq
    <3>2. M - 1 \in 1 .. M - 1 BY <1>5
    <3>3. Last(Front(cstack)) = cstack[M - 1] BY <3>1, <3>2 DEF Last
    <3>4. PICK a : a = Act("runerror", v, "plain", 0) OBVIOUS
    <3>5. Goto(<<a>>) BY <1>13, <2>2, <3>3, <3>4 DEF CoroutineEnds, Failing
    <3>6. a \in Activation /\ a.k = "runerror" /\ a.th = v /\ a.why = "plain"
      <4>1. "runerror" \in Kinds /\ "plain" \in Whys BY KindFacts
      <4> QED BY <1>14, <3>4, <4>1, ActType
    <3>7. cstack' \in Seq(Activation) /\ Len(cstack') = M /\ cstack'[M] = a /\ Agree(cstack, cstack', M - 1)
      BY <1>2, <1>3, <3>5, <3>6, Replaced
    <3> QED BY <1>13, <3>6, <3>7 DEF CutOrFail
  <2> QED BY <2>1, <2>2
<1>16. TypeOK' BY <1>9, <1>10, <1>11, <1>12, <1>15 DEF CallInv, TypeOK
<1>17. KeptBut(t) BY <1>9, <1>10, <1>11, <1>12 DEF KeptBut
<1>18. Idle(t)' BY <1>6, <1>8, <1>10, <1>12 DEF Idle, Errors
<1> QED BY <1>1, <1>2, <1>4, <1>5, <1>15, <1>16, <1>17, <1>18, LeaveStep

\* A yield that is accepted: only the resume, the luaV_execute and the yielding
\* function are left of the coroutine.
Yielding == Running({"C", "hook"}) /\ (Top.k = "hook" => Top.why = "line") /\ MayYield

LEMMA YieldShape ==
  ASSUME CallInv, Yielding, NEW n, n = Len(cstack)
  PROVE  /\ n \in 4 .. n /\ n \in Nat /\ L \in Co
         /\ cstack[n - 2].k = "resume" /\ cstack[n - 1].k = "exec" /\ cstack[n] = Top /\ Top.k \in {"C", "hook"}
         /\ cstack[n].th = L /\ cstack[n - 1].th = L /\ cstack[n - 2].th = L
<1>0. cstack # <<>> /\ Top.k \in {"C", "hook"} /\ (Top.k = "hook" => Top.why = "line") /\ nCcalls[L] <= baseCcalls[L]
  BY DEF Yielding, Running, MayYield
<1>1. PICK t : t = L OBVIOUS
<1>2. /\ cstack \in Seq(Activation) /\ n \in Nat \ {0} /\ t \in Thread /\ Top = cstack[n] /\ t = cstack[n].th
      /\ SoundStack(cstack) /\ nCcalls[t] = Depth(cstack, n) /\ nCcalls[t] \in Nat
  BY <1>0, <1>1, Start DEF RightAt
<1>3. /\ n \in 2 .. n /\ n - 1 \in 1 .. n /\ Above(cstack[n - 1], Top) /\ cstack[n - 1].th = t
  BY <1>0, <1>1, Below
<1>4. baseCcalls[t] \in Nat BY <1>2 DEF CallInv, TypeOK
<1>5. ASSUME NEW k \in 1 .. n, cstack[k].k = "resume", cstack[k].th = t, NEW c \in k + 1 .. n, cstack[c].k = "call"
      PROVE  FALSE
  <2>1. baseCcalls[t] = Depth(cstack, k) BY <1>5 DEF CallInv, CountInv
  <2>2. k \in 0 .. Len(cstack) /\ c - 1 \in k .. Len(cstack) /\ c \in 1 .. Len(cstack) /\ c \in 0 .. Len(cstack) /\ n \in c .. Len(cstack)
    BY <1>2
  <2>3. Depth(cstack, k) <= Depth(cstack, c - 1) BY <1>2, <2>2, DepthMonotone
  <2>4. DepthOf(cstack[c]) = 1 BY <1>5 DEF DepthOf
  <2>5. Depth(cstack, c) = Depth(cstack, c - 1) + 1 /\ Depth(cstack, c - 1) \in Nat BY <1>2, <2>2, <2>4, DepthStep
  <2>6. Depth(cstack, c) <= Depth(cstack, n) /\ Depth(cstack, n) \in Nat BY <1>2, <2>2, DepthMonotone
  <2>7. Depth(cstack, k) \in Nat BY <1>4, <2>1
  <2>8. Depth(cstack, n) <= Depth(cstack, k) BY <1>0, <1>1, <1>2, <2>1
  <2> QED BY <2>3, <2>5, <2>6, <2>7, <2>8
<1>6. ASSUME NEW c \in 1 .. n, cstack[c].k = "call", \A j \in c .. n : cstack[j].k # "resume" PROVE FALSE
  <2>1. CASE t = "main"
    <3>1. baseCcalls[t] = 0 BY <2>1 DEF CallInv, FieldsInv
    <3>2. c \in 1 .. Len(cstack) /\ c \in 0 .. Len(cstack) /\ n \in c .. Len(cstack) BY <1>2
    <3>3. DepthOf(cstack[c]) = 1 BY <1>6 DEF DepthOf
    <3>4. Depth(cstack, c) = Depth(cstack, c - 1) + 1 /\ Depth(cstack, c - 1) \in Nat BY <1>2, <3>2, <3>3, DepthStep
    <3>5. Depth(cstack, c) <= Depth(cstack, n) /\ Depth(cstack, n) \in Nat BY <1>2, <3>2, DepthMonotone
    <3> QED BY <1>0, <1>1, <1>2, <3>1, <3>4, <3>5
  <2>2. CASE t # "main"
    <3>1. n \in 1 .. Len(cstack) /\ cstack[n].th # "main" BY <1>2, <2>2
    <3>2. PICK k \in 2 .. n : cstack[k].k = "resume" /\ cstack[k].th = t BY <1>2, <3>1, Resumed
    <3>3. k \in 1 .. n /\ c \in k + 1 .. n
      <4>1. k \notin c .. n BY <1>6, <3>2
      <4> QED BY <4>1
    <3> QED BY <1>5, <1>6, <3>2, <3>3
  <2> QED BY <2>1, <2>2
<1>7. cstack[n - 1].k = "exec"
  <2>1. cstack[n - 1].k \in {"call", "exec"}
    BY <1>0, <1>3 DEF Above
  <2>2. cstack[n - 1].k # "call"
    <3> SUFFICES ASSUME cstack[n - 1].k = "call" PROVE FALSE OBVIOUS
    <3>1. \A j \in n - 1 .. n : j = n \/ j = n - 1 BY <1>2
    <3>2. \A j \in n - 1 .. n : cstack[j].k # "resume" BY <1>0, <1>2, <3>1
    <3> QED BY <1>3, <1>6, <3>2
  <2> QED BY <2>1, <2>2
<1>8. Sound(cstack, n - 1) /\ n - 1 # 1
  <2>1. n - 1 \in 1 .. Len(cstack) BY <1>3
  <2>2. Sound(cstack, n - 1) BY <1>2, <2>1 DEF SoundStack
  <2> QED BY <1>7, <2>2 DEF Sound
<1>9. n - 2 \in 1 .. n /\ (n - 1) - 1 = n - 2 /\ n - 1 > 1 BY <1>3, <1>8
<1>10. Above(cstack[n - 2], cstack[n - 1]) BY <1>8, <1>9 DEF Sound
<1>11. cstack[n - 2].k \in {"call", "resume"} /\ cstack[n - 2].th = t BY <1>3, <1>7, <1>10 DEF Above
<1>12. cstack[n - 2].k = "resume"
  <2> SUFFICES ASSUME cstack[n - 2].k = "call" PROVE FALSE BY <1>11
  <2>1. \A j \in n - 2 .. n : j = n \/ j = n - 1 \/ j = n - 2 BY <1>2
  <2>2. \A j \in n - 2 .. n : cstack[j].k # "resume" BY <1>0, <1>2, <1>7, <2>1
  <2> QED BY <1>6, <1>9, <2>2
<1>13. Sound(cstack, n - 2) /\ n - 2 # 1
  <2>1. n - 2 \in 1 .. Len(cstack) BY <1>9
  <2>2. Sound(cstack, n - 2) BY <1>2, <2>1 DEF SoundStack
  <2> QED BY <1>12, <2>2 DEF Sound
<1>14. n - 2 > 1 /\ (n - 2) - 1 \in 1 .. n BY <1>9, <1>13
<1>15. Above(cstack[(n - 2) - 1], cstack[n - 2]) BY <1>13, <1>14 DEF Sound
<1>16. t \in Co BY <1>11, <1>12, <1>15 DEF Above
<1>17. n \in 4 .. n BY <1>2, <1>14
<1> QED BY <1>0, <1>1, <1>2, <1>3, <1>7, <1>11, <1>12, <1>16, <1>17

LEMMA YieldCut ==
  ASSUME CallInv, Yielding, NEW n, n = Len(cstack)
  PROVE  /\ Catchers # {} /\ Max(Catchers) = n - 2 /\ NoResume(cstack, n - 2)
<1>1. /\ n \in 4 .. n /\ n \in Nat /\ cstack[n - 2].k = "resume" /\ cstack[n - 1].k = "exec" /\ cstack[n].k \in {"C", "hook"}
  BY YieldShape
<1>2. PICK T : T = Catchers OBVIOUS
<1>3. T \in SUBSET (1 .. n) /\ \A j \in 1 .. n : j \in T <=> cstack[j].k \in {"pcall", "resume"}
  <2>1. DOMAIN cstack = 1 .. n BY DEF CallInv, TypeOK
  <2> QED BY <1>2, <2>1 DEF Catchers
<1>4. PICK x : x = n - 2 OBVIOUS
<1>5. x \in 1 .. n /\ x \in T BY <1>1, <1>3, <1>4
<1>6. \A y \in T : y <= x
  <2> TAKE y \in T
  <2>1. y \in 1 .. n /\ y # n /\ y # n - 1 BY <1>1, <1>3
  <2> QED BY <1>1, <1>4, <2>1
<1>7. Max(T) = x BY <1>1, <1>3, <1>5, <1>6, MaxIs
<1>8. NoResume(cstack, n - 2)
  <2>1. \A j \in n - 2 + 1 .. n : j = n - 1 \/ j = n BY <1>1
  <2> QED BY <1>1, <2>1 DEF NoResume
<1> QED BY <1>2, <1>4, <1>5, <1>7, <1>8

\* The fields and frames that a coroutine leaves when it yields.
Leaves(t) ==
    /\ errfunc[t] = "none" /\ (Top.k # "hook" => allowhook[t] = TRUE)
    /\ Len(ci[t]) > 0 /\ ci[t][1] = "Lua" /\ \A l \in 1 .. Len(ci[t]) - 1 : ci[t][l] = "Lua"

LEMMA YieldFields ==
  ASSUME CallInv, Yielding, NEW t, t = L
  PROVE  Leaves(t)
<1>0. cstack # <<>> BY DEF Yielding, Running
<1>1. PICK n : n = Len(cstack) OBVIOUS
<1>2. /\ n \in 4 .. n /\ n \in Nat /\ cstack[n - 2].k = "resume" /\ cstack[n - 1].k = "exec" /\ cstack[n] = Top
      /\ Top.k \in {"C", "hook"} /\ cstack[n].th = t /\ cstack[n - 1].th = t /\ cstack[n - 2].th = t
  BY <1>1, YieldShape
<1>3. NoResume(cstack, n - 2) BY <1>1, YieldCut
<1>4. /\ cstack \in Seq(Activation) /\ RightAt(cstack, n, t, nCcalls[t], ci[t], allowhook[t], errfunc[t])
      /\ SoundStack(cstack)
  BY <1>0, <1>1, Start
<1>5. PICK M : M = n - 2 OBVIOUS
<1>6. M \in 2 .. Len(cstack) /\ M + 1 = n - 1 /\ M + 2 = n /\ M \in Nat BY <1>1, <1>2, <1>5
<1>7. /\ Level(cstack, t, M) = 0 /\ ~Hooked(cstack, t, M) /\ \A h : InForce(cstack, t, M, h) => h = "none"
  BY <1>0, <1>2, <1>3, <1>5, <1>6, CoroutineAt
<1>8. PICK e : e = M + 1 OBVIOUS
<1>9. e \in 1 .. Len(cstack) /\ e - 1 = M /\ e \in Nat \ {0} /\ n \in 1 .. Len(cstack) /\ n - 1 = e /\ n \in Nat \ {0}
  BY <1>1, <1>2, <1>6, <1>8
<1>10. cstack[e].k = "exec" /\ cstack[e].th = t /\ cstack[n].th = t /\ cstack[n].k \in {"C", "hook"} BY <1>2, <1>6, <1>8
<1>11. Sound(cstack, e) /\ Sound(cstack, n) BY <1>4, <1>9 DEF SoundStack
<1>12. cstack[e].n \in Nat /\ cstack[e].n >= 1
  <2>1. cstack[e] \in Activation BY <1>4, <1>9, ActNat
  <2>2. Above(cstack[e - 1], cstack[e]) BY <1>6, <1>9, <1>11 DEF Sound
  <2> QED BY <1>10, <2>1, <2>2 DEF Activation, Above
<1>13. FramesIn(cstack[e]) = cstack[e].n /\ FrameOf(cstack[e]) = "Lua" BY <1>10 DEF FramesIn, FrameOf
<1>14. Level(cstack, t, e) = cstack[e].n BY <1>4, <1>7, <1>9, <1>10, <1>12, <1>13, LevelStep
<1>15. FramesIn(cstack[n]) \in {0, 1} BY <1>10 DEF FramesIn
<1>16. Level(cstack, t, n) = Level(cstack, t, e) + FramesIn(cstack[n]) BY <1>4, <1>9, <1>10, LevelStep
<1>17. Len(ci[t]) = cstack[e].n \/ Len(ci[t]) = cstack[e].n + 1
  <2>1. Len(ci[t]) = Level(cstack, t, n) BY <1>4 DEF RightAt, FramesRight
  <2> QED BY <1>12, <1>14, <1>15, <1>16, <2>1
<1>18. \A x \in 1 .. cstack[e].n : ci[t][x] = "Lua"
  <2>1. e \in 1 .. n BY <1>1, <1>9
  <2>2. \A x \in 1 .. FramesIn(cstack[e]) : ci[t][Level(cstack, t, e - 1) + x] = FrameOf(cstack[e])
    BY <1>4, <1>10, <2>1 DEF RightAt, FramesRight
  <2>3. Level(cstack, t, e - 1) = 0 /\ \A x \in 1 .. cstack[e].n : 0 + x = x BY <1>7, <1>9, <1>12
  <2> QED BY <1>13, <2>2, <2>3
<1>19. Len(ci[t]) > 0 /\ ci[t][1] = "Lua" /\ \A l \in 1 .. Len(ci[t]) - 1 : ci[t][l] = "Lua"
  BY <1>12, <1>17, <1>18
<1>20. \A i \in {e, n} : ~PcallOf(cstack[i], t) BY <1>10 DEF PcallOf
<1>21. errfunc[t] = "none"
  <2>1. InForce(cstack, t, n, errfunc[t]) BY <1>4 DEF RightAt
  <2>2. InForce(cstack, t, e, errfunc[t]) BY <1>9, <1>20, <2>1, InForceStep
  <2>3. InForce(cstack, t, M, errfunc[t]) BY <1>9, <1>20, <2>2, InForceStep
  <2> QED BY <1>7, <2>3
<1>22. ASSUME Top.k # "hook" PROVE allowhook[t] = TRUE
  <2>1. cstack[e].why # "gc" /\ cstack[n].why # "gc" BY <1>10, <1>11 DEF Sound, Keeps
  <2>2. ~Disables(cstack[e]) /\ ~Disables(cstack[n]) BY <1>2, <1>10, <1>22, <2>1 DEF Disables
  <2>3. ~Hooked(cstack, t, e) BY <1>7, <1>9, <2>2, HookedStep
  <2>4. ~Hooked(cstack, t, n) BY <1>9, <2>2, <2>3, HookedStep
  <2> QED BY <1>4, <2>4 DEF RightAt
<1> QED BY <1>19, <1>21, <1>22 DEF Leaves

LEMMA YieldStep == ASSUME CallInv, lua_yield PROVE CallInv'
<1>0. cstack # <<>> /\ Top.k \in {"C", "hook"} /\ (Top.k = "hook" => Top.why = "line") BY DEF lua_yield, Running
<1>1. CASE ~MayYield
  <2>1. Push(<<Failing(L)>>) /\ UNCHANGED <<frameVars, nCcalls, allowhook, errfunc, coVars>> BY <1>1 DEF lua_yield
  <2> QED BY <1>0, <2>1, FailStep
<1>2. CASE MayYield
  <2>1. Yielding BY <1>2 DEF Yielding, lua_yield
  <2>2. PICK t : t = L OBVIOUS
  <2>3. PICK n : n = Len(cstack) OBVIOUS
  <2>4. /\ n \in 4 .. n /\ n \in Nat /\ t \in Co /\ cstack[n - 2].k = "resume"
    BY <2>1, <2>2, <2>3, YieldShape
  <2>5. Max(Catchers) = n - 2 /\ NoResume(cstack, n - 2) BY <2>1, <2>3, YieldCut
  <2>6. PICK M : M = n - 2 OBVIOUS
  <2>7. M \in 2 .. Len(cstack) /\ cstack[M].k = "resume" /\ NoResume(cstack, M) /\ Max(Catchers) = M
    BY <2>3, <2>4, <2>5, <2>6
  <2>8. /\ CutTo(M) /\ status' = [status EXCEPT ![t] = "yield"] /\ UncountCall(t)
        /\ allowhook' = IF Top.k = "hook" THEN [allowhook EXCEPT ![t] = TRUE] ELSE allowhook
        /\ life' = [life EXCEPT ![t] = "yielded"]
        /\ UNCHANGED <<frameVars, errfunc, baseCcalls, cotop>>
    BY <1>2, <2>2, <2>7 DEF lua_yield
  <2>9. /\ cstack' \in Seq(Activation) /\ Len(cstack') = M - 1 /\ Agree(cstack, cstack', M - 1) BY <2>7, <2>8, CutDown
  <2>10. nCcalls' \in [Thread -> Nat] /\ \A u \in Thread \ {t} : nCcalls'[u] = nCcalls[u]
    BY <1>0, <2>2, <2>7, <2>8, Counted
  <2>11. t \in Thread BY <2>4 DEF Thread
  <2>12. /\ status' \in [Thread -> {"ok", "yield"} \cup Errors] /\ status'[t] = "yield"
         /\ \A u \in Thread \ {t} : status'[u] = status[u]
    BY <2>8, <2>11 DEF CallInv, TypeOK
  <2>13. /\ life' \in [Thread -> {"fresh", "started", "yielded", "ended"}] /\ life'[t] = "yielded"
         /\ \A u \in Thread \ {t} : life'[u] = life[u]
    BY <2>8, <2>11 DEF CallInv, TypeOK
  <2>14. /\ allowhook' \in [Thread -> BOOLEAN] /\ (Top.k = "hook" => allowhook'[t] = TRUE)
         /\ (Top.k # "hook" => allowhook' = allowhook)
         /\ \A u \in Thread \ {t} : allowhook'[u] = allowhook[u]
    BY <2>8, <2>11 DEF CallInv, TypeOK
  <2>15. /\ ci' = ci /\ openupval' = openupval /\ size_ci' = size_ci /\ errfunc' = errfunc
         /\ baseCcalls' = baseCcalls /\ cotop' = cotop
    BY <2>8 DEF frameVars
  <2>16. TypeOK' BY <2>9, <2>10, <2>12, <2>13, <2>14, <2>15 DEF CallInv, TypeOK
  <2>17. KeptBut(t) BY <2>10, <2>12, <2>13, <2>14, <2>15 DEF KeptBut
  <2>18. /\ errfunc[t] = "none" /\ (Top.k # "hook" => allowhook[t] = TRUE)
         /\ Len(ci[t]) > 0 /\ ci[t][1] = "Lua" /\ \A l \in 1 .. Len(ci[t]) - 1 : ci[t][l] = "Lua"
    <3>1. Leaves(t) BY <2>1, <2>2, YieldFields
    <3> QED BY <3>1 DEF Leaves
  <2>19. Live(ci[t], openupval[t]) BY <1>0, <2>2, Start
  <2>20. Idle(t)'
    <3>1. errfunc'[t] = "none" /\ allowhook'[t] = TRUE /\ status'[t] = "yield" /\ life'[t] = "yielded"
      BY <2>12, <2>13, <2>14, <2>15, <2>18
    <3>2. /\ Len(ci'[t]) > 0 /\ ci'[t][1] = "Lua" /\ \A l \in 1 .. Len(ci'[t]) - 1 : ci'[t][l] = "Lua"
          /\ Live(ci'[t], openupval'[t])
      BY <2>15, <2>18, <2>19
    <3> QED BY <3>1, <3>2 DEF Idle, Errors
  <2>21. CutOrFail(cstack, cstack', M) BY <2>9 DEF CutOrFail
  <2> QED BY <1>0, <2>2, <2>7, <2>9, <2>16, <2>17, <2>20, <2>21, LeaveStep
<1> QED BY <1>1, <1>2

-----------------------------------------------------------------------------
(* Coroutines that wait.                                                   *)

\* A coroutine that resumed another waits in a C function.
LEMMA NormalHasFrames ==
  ASSUME CallInv, cstack # <<>>, NEW t \in OnStack \cap Co, t # L
  PROVE  Len(ci[t]) > 0
<1>1. /\ cstack \in Seq(Activation) /\ Len(cstack) \in Nat \ {0} /\ SoundStack(cstack)
      /\ L = cstack[Len(cstack)].th
  BY Start
<1>2. PICK n : n = Len(cstack) OBVIOUS
<1>3. PICK T : T = {i \in 1 .. n : cstack[i].th = t} OBVIOUS
<1>4. T \in SUBSET (1 .. n) /\ T # {} /\ \A j \in 1 .. n : j \in T <=> cstack[j].th = t
  BY <1>1, <1>2, <1>3 DEF OnStack
<1>5. PICK l : l = Max(T) OBVIOUS
<1>6. l \in T /\ \A y \in T : y <= l
  <2>1. n \in Nat BY <1>1, <1>2
  <2> QED BY <1>4, <1>5, <2>1, BoundedMax
<1>7. l \in 1 .. Len(cstack) /\ cstack[l].th = t /\ l # Len(cstack) BY <1>1, <1>2, <1>4, <1>6
<1>8. \A j \in l + 1 .. Len(cstack) : cstack[j].th # t
  <2> TAKE j \in l + 1 .. Len(cstack)
  <2>1. j \in 1 .. n /\ ~(j <= l) BY <1>1, <1>2, <1>7
  <2> QED BY <1>4, <1>6, <2>1
<1>9. cstack[l].k \in {"C", "host"} BY <1>1, <1>7, <1>8, Waits
<1>10. cstack[l].k = "C"
  <2> SUFFICES ASSUME cstack[l].k = "host" PROVE FALSE BY <1>9
  <2>1. Sound(cstack, l) BY <1>1, <1>7 DEF SoundStack
  <2>2. l = 1
    <3> SUFFICES ASSUME l # 1 PROVE FALSE OBVIOUS
    <3>1. l > 1 BY <1>7
    <3>2. Above(cstack[l - 1], cstack[l]) BY <2>1, <3>1 DEF Sound
    <3> QED BY <3>2 DEF Above
  <2>3. t = "main" BY <1>7, <2>1, <2>2 DEF Sound
  <2> QED BY <2>3, CallsAssumption
<1>11. FramesRight(cstack, t, l, ci[t])
  <2>1. FramesRight(cstack, t, Len(cstack), ci[t]) BY DEF CallInv, FieldsInv, Active
  <2>2. l \in Nat /\ Agree(cstack, cstack, l) /\ Len(cstack) \in l .. Len(cstack) /\ l \in l .. Len(cstack) /\ l + 1 .. l = {}
    BY <1>1, <1>7 DEF Agree
  <2> QED BY <1>1, <1>8, <2>1, <2>2, FramesAgree
<1>12. FramesIn(cstack[l]) >= 1 BY <1>10 DEF FramesIn
<1>13. Len(ci[t]) \in Nat /\ Len(ci[t]) >= 1 BY <1>1, <1>7, <1>11, <1>12, TopFrame
<1> QED BY <1>13

\* A suspended coroutine has no activation.
LEMMA SuspendedIsIdle ==
  ASSUME CallInv, cstack # <<>>, NEW co \in Co, costatus(co) = CO_SUS
  PROVE  /\ co \notin OnStack /\ Idle(co) /\ co # L /\ co \in Thread
         /\ status[co] \in {"ok", "yield"} /\ (status[co] = "ok" => ci[co] = <<>>)
<1>1. co # L BY DEF costatus, CO_RUN, CO_SUS
<1>2. status[co] = "yield" \/ (status[co] = "ok" /\ ci[co] = <<>>)
  BY <1>1 DEF costatus, CO_NOR, CO_SUS, CO_DEAD
<1>3. co \notin OnStack
  <2> SUFFICES ASSUME co \in OnStack PROVE FALSE OBVIOUS
  <2>1. Len(ci[co]) > 0 BY <1>1, NormalHasFrames
  <2>2. status[co] = "ok" BY DEF CallInv, FieldsInv, Active
  <2>3. ci[co] = <<>> BY <1>2, <2>2
  <2> QED BY <2>1, <2>3
<1>4. Idle(co) BY <1>3 DEF CallInv, FieldsInv
<1> QED BY <1>1, <1>2, <1>3, <1>4 DEF Thread

LEMMA OnStackThread == ASSUME CallInv PROVE OnStack \subseteq Thread
<1>1. cstack \in Seq(Activation) /\ DOMAIN cstack = 1 .. Len(cstack) BY DEF CallInv, TypeOK
<1>2. \A j \in 1 .. Len(cstack) : cstack[j].th \in Thread BY <1>1, ActNat DEF Activation
<1> QED BY <1>1, <1>2 DEF OnStack

\* Only the fields of a coroutine with no activation change.
LEMMA IdleStep ==
  ASSUME CallInv, TypeOK', NEW co \in Co \ OnStack, cstack' = cstack, KeptBut(co), Idle(co)'
  PROVE  CallInv'
<1>1. PICK s : s = cstack OBVIOUS
<1>2. cstack' = s /\ OnStack' = OnStack BY <1>1 DEF OnStack
<1>3. co \in Thread /\ "main" \in Thread \ {co} BY CallsAssumption DEF Thread
<1>4. StackInv' BY <1>1, <1>2 DEF CallInv, StackInv
<1>5. \A i \in 1 .. Len(s) : s[i].th \in Thread \ {co}
  <2>1. s \in Seq(Activation) /\ DOMAIN s = 1 .. Len(s) BY <1>1 DEF CallInv, TypeOK
  <2> TAKE i \in 1 .. Len(s)
  <2>2. s[i].th \in OnStack BY <1>1, <2>1 DEF OnStack
  <2> QED BY <2>2, OnStackThread
<1>6. CountInv'
  <2>1. /\ \A i \in 1 .. Len(s) : /\ Newest(s, i) => nCcalls[s[i].th] = Depth(s, i)
                                  /\ s[i].k = "resume" => baseCcalls[s[i].th] = Depth(s, i)
        /\ Depth(s, Len(s)) <= CLimit
        /\ Running(Kinds \ {"throw"}) => Depth(s, Len(s)) < CLimit
    BY <1>1 DEF CallInv, CountInv
  <2>2. \A i \in 1 .. Len(s) : nCcalls'[s[i].th] = nCcalls[s[i].th] /\ baseCcalls'[s[i].th] = baseCcalls[s[i].th]
    BY <1>5 DEF KeptBut
  <2>3. Running(Kinds \ {"throw"})' <=> Running(Kinds \ {"throw"}) BY DEF Running, Top
  <2> QED BY <1>2, <2>1, <2>2, <2>3 DEF CountInv
<1>7. ASSUME NEW u \in OnStack PROVE Active(u)'
  <2>1. u \in Thread \ {co} /\ Active(u) BY OnStackThread DEF CallInv, FieldsInv
  <2>2. /\ ci'[u] = ci[u] /\ allowhook'[u] = allowhook[u] /\ errfunc'[u] = errfunc[u]
        /\ openupval'[u] = openupval[u] /\ status'[u] = status[u] /\ life'[u] = life[u]
    BY <2>1 DEF KeptBut
  <2> QED BY <1>1, <1>2, <2>1, <2>2 DEF Active
<1>8. ASSUME NEW u \in Co \ OnStack PROVE Idle(u)'
  <2>1. CASE u = co BY <2>1
  <2>2. CASE u # co
    <3>1. u \in Thread \ {co} /\ Idle(u) BY <2>2 DEF Thread, CallInv, FieldsInv
    <3>2. /\ ci'[u] = ci[u] /\ allowhook'[u] = allowhook[u] /\ errfunc'[u] = errfunc[u]
          /\ openupval'[u] = openupval[u] /\ status'[u] = status[u] /\ life'[u] = life[u] /\ cotop'[u] = cotop[u]
      BY <3>1 DEF KeptBut
    <3> QED BY <3>1, <3>2 DEF Idle
  <2> QED BY <2>1, <2>2
<1>9. FieldsInv'
  <2>1. life'["main"] = "started" /\ baseCcalls'["main"] = 0 BY <1>3 DEF CallInv, FieldsInv, KeptBut
  <2> QED BY <1>2, <1>7, <1>8, <2>1 DEF FieldsInv
<1> QED BY <1>4, <1>6, <1>9 DEF CallInv

LEMMA CreateStep == ASSUME CallInv, NEW co \in Co, luaB_cocreate(co) PROVE CallInv'
<1>1. co \in Thread /\ cstack' = cstack BY DEF luaB_cocreate, Thread
<1>2. co \notin OnStack
  <2>1. co \notin {a.th : a \in {cstack[i] : i \in DOMAIN cstack}} BY DEF luaB_cocreate, Range
  <2> QED BY <2>1 DEF OnStack
<1>3. /\ ci' = [ci EXCEPT ![co] = <<>>] /\ openupval' = [openupval EXCEPT ![co] = {}]
      /\ size_ci' = [size_ci EXCEPT ![co] = BASIC_CI_SIZE]
      /\ nCcalls' = [nCcalls EXCEPT ![co] = 0] /\ baseCcalls' = [baseCcalls EXCEPT ![co] = 0]
      /\ allowhook' = [allowhook EXCEPT ![co] = TRUE] /\ errfunc' = [errfunc EXCEPT ![co] = "none"]
      /\ status' = [status EXCEPT ![co] = "ok"] /\ cotop' = [cotop EXCEPT ![co] = TRUE]
      /\ life' = [life EXCEPT ![co] = "fresh"]
  BY DEF luaB_cocreate
<1>4. /\ ci' \in [Thread -> Seq(Function)] /\ openupval' \in [Thread -> SUBSET Nat]
      /\ nCcalls' \in [Thread -> Nat] /\ baseCcalls' \in [Thread -> Nat]
      /\ ci'[co] = <<>> /\ openupval'[co] = {}
      /\ \A u \in Thread \ {co} : /\ ci'[u] = ci[u] /\ openupval'[u] = openupval[u]
                                  /\ nCcalls'[u] = nCcalls[u] /\ baseCcalls'[u] = baseCcalls[u]
  BY <1>1, <1>3 DEF CallInv, TypeOK
<1>5. /\ allowhook' \in [Thread -> BOOLEAN] /\ errfunc' \in [Thread -> Handlers] /\ cotop' \in [Thread -> BOOLEAN]
      /\ status' \in [Thread -> {"ok", "yield"} \cup Errors]
      /\ life' \in [Thread -> {"fresh", "started", "yielded", "ended"}]
      /\ allowhook'[co] = TRUE /\ errfunc'[co] = "none" /\ cotop'[co] = TRUE /\ status'[co] = "ok" /\ life'[co] = "fresh"
      /\ \A u \in Thread \ {co} : /\ allowhook'[u] = allowhook[u] /\ errfunc'[u] = errfunc[u] /\ cotop'[u] = cotop[u]
                                  /\ status'[u] = status[u] /\ life'[u] = life[u]
  BY <1>1, <1>3 DEF CallInv, TypeOK, Handlers
<1>6. /\ size_ci' \in [Thread -> 2 .. 2 * LUAI_MAXCALLS] /\ \A u \in Thread : Len(ci'[u]) < size_ci'[u]
  <2>1. BASIC_CI_SIZE \in 2 .. 2 * LUAI_MAXCALLS /\ 0 < BASIC_CI_SIZE
    <3>1. LUAI_MAXCALLS \in Nat /\ BASIC_CI_SIZE \in 2 .. LUAI_MAXCALLS BY CallsAssumption
    <3> QED BY <3>1
  <2>2. size_ci' \in [Thread -> 2 .. 2 * LUAI_MAXCALLS] /\ size_ci'[co] = BASIC_CI_SIZE
        /\ \A u \in Thread \ {co} : size_ci'[u] = size_ci[u]
    BY <1>1, <1>3, <2>1 DEF CallInv, TypeOK
  <2>3. Len(ci'[co]) < size_ci'[co] BY <1>4, <2>1, <2>2
  <2> QED BY <1>4, <2>2, <2>3 DEF CallInv, TypeOK
<1>7. TypeOK' BY <1>1, <1>4, <1>5, <1>6 DEF CallInv, TypeOK
<1>8. KeptBut(co) BY <1>4, <1>5 DEF KeptBut
<1>9. Idle(co)' BY <1>4, <1>5 DEF Idle, Errors
<1> QED BY <1>1, <1>2, <1>7, <1>8, <1>9, IdleStep

LEMMA ResumeErrorStep == ASSUME CallInv, NEW co \in Co, resume_error(co) PROVE CallInv'
<1>0. cstack # <<>> /\ costatus(co) = CO_SUS BY DEF resume_error, Running
<1>1. /\ co \notin OnStack /\ Idle(co) /\ co \in Thread /\ status[co] \in {"ok", "yield"}
  BY <1>0, SuspendedIsIdle
<1>2. nCcalls[L] \in Nat BY <1>0, Start
<1>3. /\ nCcalls' = [nCcalls EXCEPT ![co] = nCcalls[L]] /\ cotop' = [cotop EXCEPT ![co] = FALSE]
      /\ life' = [life EXCEPT ![co] = IF status[co] = "ok" THEN "ended" ELSE @]
      /\ cstack' = cstack /\ ci' = ci /\ size_ci' = size_ci /\ openupval' = openupval
      /\ baseCcalls' = baseCcalls /\ status' = status /\ allowhook' = allowhook /\ errfunc' = errfunc
  BY DEF resume_error, frameVars
<1>4. /\ nCcalls' \in [Thread -> Nat] /\ cotop' \in [Thread -> BOOLEAN]
      /\ life' \in [Thread -> {"fresh", "started", "yielded", "ended"}]
      /\ life'[co] = IF status[co] = "ok" THEN "ended" ELSE life[co]
      /\ \A u \in Thread \ {co} : nCcalls'[u] = nCcalls[u] /\ cotop'[u] = cotop[u] /\ life'[u] = life[u]
  BY <1>1, <1>2, <1>3 DEF CallInv, TypeOK
<1>5. TypeOK' BY <1>3, <1>4 DEF CallInv, TypeOK
<1>6. KeptBut(co) BY <1>3, <1>4 DEF KeptBut
<1>7. Idle(co)' BY <1>1, <1>3, <1>4 DEF Idle, Errors
<1> QED BY <1>1, <1>3, <1>5, <1>6, <1>7, IdleStep

-----------------------------------------------------------------------------
(* Coroutines resumed.                                                     *)

\* Activation b stands for all the frames of its thread.
StandsFor(b, fs) == Len(fs) = FramesIn(b) /\ \A x \in 1 .. Len(fs) : fs[x] = FrameOf(b)

\* What is put on the stack to run a coroutine.
Runs(a, b, co) ==
    /\ a.k = "resume" /\ a.th = co /\ a.why # "gc"
    /\ b.k \in {"enter", "exec"} /\ b.th = co /\ b.why # "gc" /\ Above(a, b)

LEMMA ResumedRight ==
  ASSUME NEW s \in Seq(Activation), NEW r \in Seq(Activation), NEW n \in Nat \ {0}, n = Len(s), Len(r) = n + 2,
         Agree(s, r, n), SoundStack(s), NEW co \in Co, Runs(r[n + 1], r[n + 2], co),
         \A j \in 1 .. n : s[j].th # co, s[n].k \in {"C", "host"},
         NEW fs, StandsFor(r[n + 2], fs)
  PROVE  /\ SoundStack(r) /\ Depth(r, n + 1) = Depth(s, n) + 1 /\ Depth(r, n + 2) = Depth(s, n) + 1
         /\ FramesRight(r, co, n + 2, fs) /\ ~Hooked(r, co, n + 2) /\ InForce(r, co, n + 2, "none")
<1> USE DEF Runs
<1>1. PICK i : i = n + 1 OBVIOUS
<1>2. PICK k : k = n + 2 OBVIOUS
<1>3. /\ i \in 1 .. Len(r) /\ i - 1 = n /\ i \in Nat \ {0} /\ k \in 1 .. Len(r) /\ k - 1 = i /\ k \in Nat \ {0}
      /\ i > 1 /\ k > 1 /\ k # 1 /\ i # 1 /\ n \in 1 .. n /\ n \in 0 .. n
  BY <1>1, <1>2
<1>4. \A j \in 1 .. n : r[j] = s[j] BY DEF Agree
<1>5. r[n].k \in {"C", "host"} /\ \A j \in 1 .. n : r[j].th # co BY <1>3, <1>4
<1>6. Depth(r, n) = Depth(s, n) /\ Depth(r, n) \in Nat
  <2>1. Depth(r, n) = Depth(s, n) BY <1>3, DepthAgree
  <2>2. Depth(r, i - 1) \in Nat BY <1>3, DepthStep
  <2> QED BY <1>3, <2>1, <2>2
<1>7. DepthOf(r[i]) = 1 /\ DepthOf(r[k]) = 0 BY <1>1, <1>2 DEF DepthOf
<1>8. Depth(r, i) = Depth(s, n) + 1
  <2>1. Depth(r, i) = Depth(r, i - 1) + DepthOf(r[i]) BY <1>3, DepthStep
  <2> QED BY ONLY <1>3, <1>6, <1>7, <2>1
<1>9. Depth(r, k) = Depth(s, n) + 1
  <2>1. Depth(r, k) = Depth(r, k - 1) + DepthOf(r[k]) /\ Depth(r, k - 1) \in Nat BY <1>3, DepthStep
  <2> QED BY <1>3, <1>7, <1>8, <2>1
<1>10. Above(r[i - 1], r[i]) BY <1>1, <1>3, <1>5 DEF Above
<1>11. Sound(r, i)
  <2>1. \A j \in 1 .. i - 1 : r[j].th # r[i].th BY <1>1, <1>3, <1>5
  <2>2. Keeps(r, i) BY <1>1 DEF Keeps
  <2> QED BY <1>1, <1>3, <1>10, <2>1, <2>2 DEF Sound
<1>12. Sound(r, k)
  <2>1. Keeps(r, k) BY <1>2 DEF Keeps
  <2>2. Above(r[k - 1], r[k]) BY <1>1, <1>2, <1>3
  <2> QED BY <1>2, <1>3, <2>1, <2>2 DEF Sound
<1>13. SoundStack(r)
  <2>1. ASSUME NEW j \in 1 .. n PROVE Sound(r, j)
    <3>1. j \in 1 .. Len(s) /\ n \in Nat OBVIOUS
    <3>2. Sound(s, j) BY <3>1 DEF SoundStack
    <3> QED BY <3>1, <3>2, SoundAgree
  <2>2. \A j \in 1 .. Len(r) : j \in 1 .. n \/ j = i \/ j = k BY <1>1, <1>2
  <2> QED BY <1>11, <1>12, <2>1, <2>2 DEF SoundStack
<1>14. Level(r, co, n) = 0
  <2>1. Agree(r, r, 0) /\ 0 \in 0 .. Len(r) /\ n \in 0 .. Len(r) /\ 0 + 1 .. 0 = {} /\ 0 \in Nat BY DEF Agree
  <2>2. \A j \in 0 + 1 .. n : r[j].th # co BY <1>5
  <2>3. Level(r, co, n) = Level(r, co, 0) BY <2>1, <2>2, LevelAgree
  <2> QED BY <2>3, StackStart
<1>15. Level(r, co, i) = 0
  <2>1. FramesIn(r[i]) = 0 BY <1>1 DEF FramesIn
  <2> QED BY <1>3, <1>14, <2>1, LevelStep
<1>16. Level(r, co, k) = FramesIn(r[k])
  <2>1. r[k].th = co BY <1>2
  <2>2. /\ Level(r, co, k) = Level(r, co, k - 1) + (IF r[k].th = co THEN FramesIn(r[k]) ELSE 0)
        /\ FramesIn(r[k]) \in Nat
    BY <1>3, LevelStep
  <2>3. Level(r, co, k - 1) = 0 BY <1>3, <1>15
  <2> QED BY <2>1, <2>2, <2>3
<1>17. FramesRight(r, co, k, fs)
  <2>1. Len(fs) = Level(r, co, k) BY <1>2, <1>16 DEF StandsFor
  <2>2. ASSUME NEW j \in 1 .. k, r[j].th = co, NEW x \in 1 .. FramesIn(r[j])
        PROVE  fs[Level(r, co, j - 1) + x] = FrameOf(r[j])
    <3>1. j = i \/ j = k
      <4>1. j \in 1 .. n \/ j = i \/ j = k BY <1>1, <1>2
      <4> QED BY <1>5, <2>2, <4>1
    <3>2. j # i
      <4>1. FramesIn(r[i]) = 0 BY <1>1 DEF FramesIn
      <4>2. 1 .. 0 = {} OBVIOUS
      <4> QED BY <2>2, <4>1, <4>2
    <3>3. j = k /\ Level(r, co, j - 1) = 0 BY <1>3, <1>15, <3>1, <3>2
    <3>4. x \in 1 .. Len(fs) /\ 0 + x = x BY <1>2, <2>2, <3>3 DEF StandsFor
    <3> QED BY <1>2, <3>3, <3>4 DEF StandsFor
  <2> QED BY <2>1, <2>2 DEF FramesRight
<1>18. \A j \in 1 .. k : ~(r[j].th = co /\ Disables(r[j])) /\ ~PcallOf(r[j], co)
  <2>1. ~Disables(r[i]) /\ ~Disables(r[k]) BY <1>1, <1>2 DEF Disables
  <2>2. ~PcallOf(r[i], co) /\ ~PcallOf(r[k], co) BY <1>1, <1>2 DEF PcallOf
  <2>3. \A j \in 1 .. k : j \in 1 .. n \/ j = i \/ j = k BY <1>1, <1>2
  <2> QED BY <1>5, <2>1, <2>2, <2>3 DEF PcallOf
<1>19. ~Hooked(r, co, k) /\ InForce(r, co, k, "none") BY <1>18 DEF Hooked, InForce
<1> QED BY <1>1, <1>2, <1>8, <1>9, <1>13, <1>17, <1>19

\* A coroutine with no activation runs.
LEMMA RunStep ==
  ASSUME CallInv, TypeOK', cstack # <<>>, Top.k \in {"C", "host"}, NEW co \in Co \ OnStack,
         NEW a \in Activation, NEW b \in Activation, Push(<<a, b>>), Runs(a, b, co), KeptBut(co),
         StandsFor(b, ci'[co]), allowhook'[co] = TRUE, errfunc'[co] = "none", Live(ci'[co], openupval'[co]),
         status'[co] = "ok", life'[co] = "started",
         NEW d, d = nCcalls[L] + 1, nCcalls'[co] = d, baseCcalls'[co] = d, d < CLimit
  PROVE  CallInv'
<1>1. PICK s : s = cstack OBVIOUS
<1>2. PICK r : r = cstack' OBVIOUS
<1>3. PICK n : n = Len(s) OBVIOUS
<1>4. /\ s \in Seq(Activation) /\ n \in Nat \ {0} /\ Top = s[n] /\ L = s[n].th /\ SoundStack(s) /\ CLimit \in Nat
      /\ nCcalls[L] = Depth(s, n) /\ nCcalls[L] \in Nat
  BY <1>1, <1>3, Start DEF RightAt
<1>5. /\ r \in Seq(Activation) /\ Len(r) = n + 2 /\ (\A j \in 1 .. n : r[j] = s[j]) /\ r[n + 1] = a /\ r[n + 2] = b
  BY <1>1, <1>2, <1>3, <1>4, Push2 DEF Push
<1>6. Agree(s, r, n) BY <1>3, <1>4, <1>5 DEF Agree
<1>7. DOMAIN s = 1 .. n /\ DOMAIN r = 1 .. n + 2 BY <1>3, <1>4, <1>5
<1>8. OnStack = {s[j].th : j \in 1 .. n} /\ OnStack' = {r[j].th : j \in 1 .. n + 2} BY <1>1, <1>2, <1>7 DEF OnStack
<1>9. \A j \in 1 .. n : s[j].th # co BY <1>8
<1>10. /\ SoundStack(r) /\ Depth(r, n + 1) = d /\ Depth(r, n + 2) = d
       /\ FramesRight(r, co, n + 2, ci'[co]) /\ ~Hooked(r, co, n + 2) /\ InForce(r, co, n + 2, "none")
  <2>1. Runs(r[n + 1], r[n + 2], co) /\ StandsFor(r[n + 2], ci'[co]) /\ s[n].k \in {"C", "host"} BY <1>4, <1>5
  <2>2. /\ SoundStack(r) /\ Depth(r, n + 1) = Depth(s, n) + 1 /\ Depth(r, n + 2) = Depth(s, n) + 1
        /\ FramesRight(r, co, n + 2, ci'[co]) /\ ~Hooked(r, co, n + 2) /\ InForce(r, co, n + 2, "none")
    BY <1>3, <1>4, <1>5, <1>6, <1>9, <2>1, ResumedRight
  <2> QED BY <1>4, <2>2
<1>11. r[n + 1].k = "resume" /\ r[n + 1].th = co /\ r[n + 2].th = co /\ r[n + 2].k # "resume" BY <1>5 DEF Runs
<1>12. OnStack' = OnStack \cup {co}
  <2>1. \A j \in 1 .. n + 2 : j \in 1 .. n \/ j = n + 1 \/ j = n + 2 BY <1>4
  <2>2. n + 1 \in 1 .. n + 2 /\ \A j \in 1 .. n : j \in 1 .. n + 2 BY <1>4
  <2>3. OnStack' \subseteq OnStack \cup {co} BY <1>5, <1>8, <1>11, <2>1
  <2>4. OnStack \subseteq OnStack' BY <1>5, <1>8, <2>2
  <2>5. co \in OnStack' BY <1>8, <1>11, <2>2
  <2> QED BY <2>3, <2>4, <2>5
<1>13. ASSUME NEW u \in OnStack' PROVE Active(u)'
  <2>1. CASE u = co BY <1>2, <1>5, <1>10, <2>1 DEF Active
  <2>2. CASE u # co
    <3>1. u \in OnStack /\ u \in Thread \ {co} /\ Active(u) BY <1>12, <2>2, OnStackThread DEF CallInv, FieldsInv
    <3>2. /\ ci'[u] = ci[u] /\ allowhook'[u] = allowhook[u] /\ errfunc'[u] = errfunc[u]
          /\ openupval'[u] = openupval[u] /\ status'[u] = status[u] /\ life'[u] = life[u]
      BY <3>1 DEF KeptBut
    <3>3. \A j \in n + 1 .. n + 2 : r[j].th # u
      <4>1. \A j \in n + 1 .. n + 2 : j = n + 1 \/ j = n + 2 BY <1>4
      <4> QED BY <1>11, <2>2, <4>1
    <3>4. /\ n \in Nat /\ n \in n .. Len(s) /\ n + 2 \in n .. Len(r) /\ n + 2 \in Nat /\ n <= n /\ n <= n + 2
          /\ n + 1 .. n = {}
      BY <1>3, <1>4, <1>5
    <3>5. FramesRight(s, u, n, ci[u]) /\ InForce(s, u, n, errfunc[u]) /\ (allowhook[u] = TRUE <=> ~Hooked(s, u, n))
      BY <1>1, <1>3, <3>1 DEF Active
    <3>6. FramesRight(r, u, n + 2, ci[u])
      <4>1. \A j \in n + 1 .. n : s[j].th # u BY <3>4
      <4>2. s \in Seq(Activation) /\ r \in Seq(Activation) BY <1>4, <1>5
      <4>3. PICK x : x = n + 2 OBVIOUS
      <4>4. x \in n .. Len(r) /\ (\A j \in n + 1 .. x : r[j].th # u) BY <3>3, <3>4, <4>3
      <4>5. FramesRight(r, u, x, ci[u]) BY ONLY <1>6, <3>4, <3>5, <4>1, <4>2, <4>4, FramesAgree
      <4> QED BY <4>3, <4>5
    <3>7. InForce(r, u, n + 2, errfunc[u]) BY <1>6, <3>3, <3>4, <3>5, InForceAgree
    <3>8. Hooked(s, u, n) <=> Hooked(r, u, n + 2) BY <1>6, <3>3, <3>4, HookedAgree
    <3>9. Live(ci[u], openupval[u]) /\ status[u] = "ok" /\ life[u] = "started" BY <3>1 DEF Active
    <3> QED BY <1>2, <1>5, <3>2, <3>5, <3>6, <3>7, <3>8, <3>9 DEF Active
  <2> QED BY <2>1, <2>2
<1>14. ASSUME NEW u \in Co \ OnStack' PROVE Idle(u)'
  <2>1. u \in Thread \ {co} /\ u \notin OnStack BY <1>12 DEF Thread
  <2>2. Idle(u) BY <2>1 DEF CallInv, FieldsInv
  <2>3. /\ ci'[u] = ci[u] /\ allowhook'[u] = allowhook[u] /\ errfunc'[u] = errfunc[u]
        /\ openupval'[u] = openupval[u] /\ status'[u] = status[u] /\ life'[u] = life[u] /\ cotop'[u] = cotop[u]
    BY <2>1 DEF KeptBut
  <2> QED BY <2>2, <2>3 DEF Idle
<1>15. FieldsInv'
  <2>1. "main" \in Thread \ {co} BY CallsAssumption DEF Thread
  <2>2. life'["main"] = "started" /\ baseCcalls'["main"] = 0 BY <2>1 DEF CallInv, FieldsInv, KeptBut
  <2> QED BY <1>13, <1>14, <2>2 DEF FieldsInv
<1>16. \A i \in 1 .. n : s[i].th \in Thread \ {co}
  <2> TAKE i \in 1 .. n
  <2>1. s[i].th \in OnStack BY <1>8
  <2> QED BY <1>9, <2>1, OnStackThread
<1>17. \A i \in 1 .. n : Depth(r, i) = Depth(s, i)
  <2> TAKE i \in 1 .. n
  <2>1. i \in 0 .. n /\ n \in Nat BY <1>4
  <2> QED BY <1>4, <1>5, <1>6, <2>1, DepthAgree
<1>18. ASSUME NEW i \in 1 .. Len(r), Newest(r, i) PROVE nCcalls'[r[i].th] = Depth(r, i)
  <2>1. CASE i = n + 2 BY <1>10, <1>11, <2>1
  <2>2. CASE i = n + 1
    <3>1. i + 1 = n + 2 /\ i # Len(r) BY <1>4, <1>5, <2>2
    <3>2. r[i + 1].k # "resume" BY <1>11, <3>1
    <3> QED BY <1>18, <3>1, <3>2 DEF Newest
  <2>3. CASE i \in 1 .. n
    <3>1. Newest(s, i)
      <4>1. CASE i = n BY <1>3, <4>1 DEF Newest
      <4>2. CASE i # n
        <5>1. i + 1 \in 1 .. n /\ i # Len(r) BY <1>4, <1>5, <2>3, <4>2
        <5>2. r[i + 1].k = "resume" BY <1>18, <5>1 DEF Newest
        <5> QED BY <1>5, <5>1, <5>2 DEF Newest
      <4> QED BY <4>1, <4>2
    <3>2. nCcalls[s[i].th] = Depth(s, i) BY <1>1, <1>3, <2>3, <3>1 DEF CallInv, CountInv
    <3>3. nCcalls'[s[i].th] = nCcalls[s[i].th] BY <1>16, <2>3 DEF KeptBut
    <3> QED BY <1>5, <1>17, <2>3, <3>2, <3>3
  <2> QED BY <1>4, <1>5, <2>1, <2>2, <2>3
<1>19. ASSUME NEW i \in 1 .. Len(r), r[i].k = "resume" PROVE baseCcalls'[r[i].th] = Depth(r, i)
  <2>1. CASE i = n + 2 BY <1>11, <1>19, <2>1
  <2>2. CASE i = n + 1 BY <1>10, <1>11, <2>2
  <2>3. CASE i \in 1 .. n
    <3>1. s[i].k = "resume" BY <1>5, <1>19, <2>3
    <3>2. baseCcalls[s[i].th] = Depth(s, i) BY <1>1, <1>3, <2>3, <3>1 DEF CallInv, CountInv
    <3>3. baseCcalls'[s[i].th] = baseCcalls[s[i].th] BY <1>16, <2>3 DEF KeptBut
    <3> QED BY <1>5, <1>17, <2>3, <3>2, <3>3
  <2> QED BY <1>4, <1>5, <2>1, <2>2, <2>3
<1>20. CountInv'
  <2>1. Depth(r, Len(r)) = d BY <1>5, <1>10
  <2>2. d <= CLimit BY <1>4
  <2> QED BY <1>2, <1>18, <1>19, <2>1, <2>2 DEF CountInv
<1>21. StackInv' BY <1>2, <1>10 DEF StackInv, SoundStack
<1> QED BY <1>15, <1>20, <1>21 DEF CallInv

\* The frames of a suspended coroutine, without the one of its yield.
LEMMA Continues ==
  ASSUME NEW fs \in Seq(Function), Len(fs) > 0, fs[1] = "Lua", \A l \in 1 .. Len(fs) - 1 : fs[l] = "Lua",
         NEW us, Live(fs, us), NEW gs, gs = Continued(fs)
  PROVE  /\ gs \in Seq(Function) /\ Len(gs) \in Nat \ {0} /\ Len(gs) <= Len(fs)
         /\ (\A l \in 1 .. Len(gs) : gs[l] = "Lua") /\ Live(gs, us)
<1>1. PICK n : n = Len(fs) OBVIOUS
<1>2. n \in Nat \ {0} /\ fs # <<>> /\ Last(fs) = fs[n] BY <1>1, EmptySeq DEF Last
<1>3. CASE fs[n] = "C"
  <2>1. gs = Front(fs) BY <1>2, <1>3 DEF Continued
  <2>2. gs \in Seq(Function) /\ Len(gs) = n - 1 /\ \A j \in 1 .. n - 1 : gs[j] = fs[j] BY <1>1, <1>2, <2>1, FrontSeq
  <2>3. n # 1 /\ n - 1 \in Nat \ {0} BY <1>2, <1>3
  <2>4. Live(gs, us)
    <3> SUFFICES ASSUME NEW l \in us PROVE l \in 1 .. Len(gs) /\ gs[l] = "Lua" BY DEF Live
    <3>1. l \in 1 .. n /\ fs[l] = "Lua" BY <1>1 DEF Live
    <3>2. l # n BY <1>3, <3>1
    <3>3. l \in 1 .. n - 1 BY <1>2, <3>1, <3>2
    <3> QED BY <2>2, <3>1, <3>3
  <2> QED BY <1>1, <2>2, <2>3, <2>4
<1>4. CASE fs[n] # "C"
  <2>1. gs = fs BY <1>2, <1>4 DEF Continued
  <2>2. fs[n] = "Lua"
    <3>1. fs[n] \in Function BY <1>1, <1>2, ElementOfSeq
    <3> QED BY <1>4, <3>1 DEF Function
  <2>3. \A l \in 1 .. n : l = n \/ l \in 1 .. n - 1 BY <1>2
  <2> QED BY <1>1, <1>2, <2>1, <2>2, <2>3
<1> QED BY <1>3, <1>4

LEMMA LuaResumeStep == ASSUME CallInv, NEW co \in Co, lua_resume(co) PROVE CallInv'
<1>0. cstack # <<>> /\ Top.k \in {"C", "host"} /\ costatus(co) = CO_SUS /\ nCcalls[L] < LUAI_MAXCCALLS
  BY DEF lua_resume, Running
<1>1. /\ co \notin OnStack /\ Idle(co) /\ co \in Thread /\ status[co] \in {"ok", "yield"}
      /\ (status[co] = "ok" => ci[co] = <<>>)
  BY <1>0, SuspendedIsIdle
<1>2. PICK d : d = nCcalls[L] + 1 OBVIOUS
<1>3. PICK rest : rest = Continued(ci[co]) OBVIOUS
<1>4. d \in Nat /\ d < CLimit
  <2>1. nCcalls[L] \in Nat BY <1>0, Start
  <2>2. LUAI_MAXCCALLS \in Nat /\ SpareCcalls \in Nat \ {0} BY CallsAssumption
  <2> QED BY <1>0, <1>2, <2>1, <2>2 DEF CLimit
<1>5. ci[co] \in Seq(Function) /\ openupval[co] \in SUBSET Nat BY <1>1 DEF CallInv, TypeOK
<1>6. PICK a : a = Act("resume", co, "plain", 0) OBVIOUS
<1>7. PICK b : b = IF status[co] = "ok" THEN Act("enter", co, "Lua", 0) ELSE Act("exec", co, "plain", Len(rest))
  OBVIOUS
<1>8. "resume" \in Kinds /\ "enter" \in Kinds /\ "exec" \in Kinds /\ "plain" \in Whys /\ "Lua" \in Whys /\ 0 \in Nat
  BY KindFacts DEF Function
<1>9. a \in Activation /\ a.k = "resume" /\ a.th = co /\ a.why = "plain" BY <1>1, <1>6, <1>8, ActType
<1>10. /\ b \in Activation /\ Runs(a, b, co) /\ rest \in Seq(Function) /\ Len(rest) <= Len(ci[co])
       /\ StandsFor(b, rest) /\ Live(rest, openupval[co])
  <2>1. CASE status[co] = "ok"
    <3>1. ci[co] = <<>> /\ openupval[co] = {} BY <1>1, <2>1 DEF Idle
    <3>2. rest = <<>> BY <1>3, <3>1 DEF Continued
    <3>3. b \in Activation /\ b.k = "enter" /\ b.th = co /\ b.why = "Lua" BY <1>1, <1>7, <1>8, <2>1, ActType
    <3>4. Above(a, b) BY <1>9, <3>3 DEF Above, Function
    <3>5. Runs(a, b, co) BY <1>9, <3>3, <3>4 DEF Runs
    <3>6. rest \in Seq(Function) /\ Len(rest) = 0 /\ Len(ci[co]) = 0 BY <3>1, <3>2
    <3>7. StandsFor(b, rest) BY <3>3, <3>6 DEF StandsFor, FramesIn
    <3>8. Live(rest, openupval[co]) BY <3>1 DEF Live
    <3> QED BY <3>3, <3>5, <3>6, <3>7, <3>8
  <2>2. CASE status[co] = "yield"
    <3>1. /\ Len(ci[co]) > 0 /\ ci[co][1] = "Lua" /\ \A l \in 1 .. Len(ci[co]) - 1 : ci[co][l] = "Lua"
          /\ Live(ci[co], openupval[co])
      BY <1>1, <2>2 DEF Idle
    <3>2. PICK fs : fs = ci[co] OBVIOUS
    <3>3. PICK us : us = openupval[co] OBVIOUS
    <3>4. /\ fs \in Seq(Function) /\ Len(fs) > 0 /\ fs[1] = "Lua" /\ Live(fs, us) /\ rest = Continued(fs)
          /\ \A l \in 1 .. Len(fs) - 1 : fs[l] = "Lua"
      BY <1>3, <1>5, <3>1, <3>2, <3>3
    <3>5. /\ rest \in Seq(Function) /\ Len(rest) \in Nat \ {0} /\ Len(rest) <= Len(fs)
          /\ (\A l \in 1 .. Len(rest) : rest[l] = "Lua") /\ Live(rest, us)
      BY ONLY <3>4, Continues
    <3>6. PICK m : m = Len(rest) OBVIOUS
    <3>7. m \in Nat \ {0} /\ m \in Nat BY <3>5, <3>6
    <3>8. b = Act("exec", co, "plain", m) BY <1>7, <2>2, <3>6
    <3>9. b \in Activation /\ b.k = "exec" /\ b.th = co /\ b.why = "plain" /\ b.n = m BY <1>1, <1>8, <3>7, <3>8, ActType
    <3>10. Above(a, b) BY <1>9, <3>7, <3>9 DEF Above
    <3>11. Runs(a, b, co) BY <1>9, <3>9, <3>10 DEF Runs
    <3>12. FramesIn(b) = m /\ FrameOf(b) = "Lua" BY <3>9 DEF FramesIn, FrameOf
    <3>13. StandsFor(b, rest) BY <3>5, <3>6, <3>12 DEF StandsFor
    <3> QED BY <3>2, <3>3, <3>5, <3>9, <3>11, <3>13
  <2> QED BY <1>1, <2>1, <2>2
<1>11. Push(<<a, b>>) BY <1>3, <1>6, <1>7 DEF lua_resume
<1>12. /\ nCcalls' = [nCcalls EXCEPT ![co] = d] /\ baseCcalls' = [baseCcalls EXCEPT ![co] = d]
       /\ status' = [status EXCEPT ![co] = "ok"] /\ life' = [life EXCEPT ![co] = "started"]
       /\ cotop' = [cotop EXCEPT ![co] = FALSE] /\ ci' = [ci EXCEPT ![co] = rest]
       /\ size_ci' = size_ci /\ openupval' = openupval /\ allowhook' = allowhook /\ errfunc' = errfunc
  BY <1>2, <1>3 DEF lua_resume
<1>13. /\ nCcalls' \in [Thread -> Nat] /\ baseCcalls' \in [Thread -> Nat] /\ ci' \in [Thread -> Seq(Function)]
       /\ nCcalls'[co] = d /\ baseCcalls'[co] = d /\ ci'[co] = rest
       /\ \A u \in Thread \ {co} : nCcalls'[u] = nCcalls[u] /\ baseCcalls'[u] = baseCcalls[u] /\ ci'[u] = ci[u]
  BY <1>1, <1>4, <1>10, <1>12 DEF CallInv, TypeOK
<1>14. /\ status' \in [Thread -> {"ok", "yield"} \cup Errors] /\ cotop' \in [Thread -> BOOLEAN]
       /\ life' \in [Thread -> {"fresh", "started", "yielded", "ended"}]
       /\ status'[co] = "ok" /\ life'[co] = "started"
       /\ \A u \in Thread \ {co} : status'[u] = status[u] /\ cotop'[u] = cotop[u] /\ life'[u] = life[u]
  BY <1>1, <1>12 DEF CallInv, TypeOK
<1>15. \A u \in Thread : Len(ci'[u]) < size_ci'[u]
  <2>1. \A u \in Thread : Len(ci[u]) < size_ci[u] /\ size_ci[u] \in Nat
    <3>1. 2 * LUAI_MAXCALLS \in Nat BY CallsAssumption
    <3> QED BY <3>1 DEF CallInv, TypeOK
  <2>2. Len(rest) \in Nat /\ Len(ci[co]) \in Nat BY <1>5, <1>10
  <2>3. Len(ci'[co]) < size_ci'[co] BY <1>1, <1>10, <1>12, <1>13, <2>1, <2>2
  <2>4. \A u \in Thread \ {co} : Len(ci'[u]) < size_ci'[u] BY <1>12, <1>13, <2>1
  <2> QED BY <2>3, <2>4
<1>16. cstack' \in Seq(Activation)
  <2>1. cstack \in Seq(Activation) BY DEF CallInv, TypeOK
  <2> QED BY <1>9, <1>10, <1>11, <2>1, Push2 DEF Push
<1>17. TypeOK' BY <1>12, <1>13, <1>14, <1>15, <1>16 DEF CallInv, TypeOK
<1>18. KeptBut(co) BY <1>12, <1>13, <1>14 DEF KeptBut
<1>19. allowhook'[co] = TRUE /\ errfunc'[co] = "none" BY <1>1, <1>12 DEF Idle
<1>20. Live(ci'[co], openupval'[co]) /\ StandsFor(b, ci'[co]) BY <1>10, <1>12, <1>13
<1> QED BY <1>0, <1>1, <1>2, <1>4, <1>9, <1>10, <1>11, <1>13, <1>14, <1>17, <1>18, <1>19, <1>20, RunStep

LEMMA Unchanged == ASSUME CallInv, UNCHANGED callVars PROVE CallInv'
<1>1. /\ cstack' = cstack /\ ci' = ci /\ openupval' = openupval /\ size_ci' = size_ci /\ allowhook' = allowhook
      /\ errfunc' = errfunc /\ nCcalls' = nCcalls /\ baseCcalls' = baseCcalls /\ cotop' = cotop /\ status' = status
      /\ life' = life
  BY DEF callVars, frameVars, coVars
<1>2. TypeOK' BY <1>1 DEF CallInv, TypeOK
<1>3. OnStack' = OnStack BY <1>1 DEF OnStack
<1>4. StackInv' BY <1>1 DEF CallInv, StackInv
<1>5. \A t : (Active(t) => Active(t)') /\ (Idle(t) => Idle(t)') BY <1>1 DEF Active, Idle
<1>6. FieldsInv' BY <1>1, <1>3, <1>5 DEF CallInv, FieldsInv
<1>7. CountInv' BY <1>1 DEF CallInv, CountInv, Running, Top
<1> QED BY <1>2, <1>4, <1>6, <1>7 DEF CallInv

-----------------------------------------------------------------------------
(* The invariant holds.                                                    *)

LEMMA InitInv == Init => CallInv
<1> SUFFICES ASSUME Init PROVE CallInv OBVIOUS
<1> USE DEF Init
<1>1. "main" \in Thread BY DEF Thread
<1>2. PICK a : a = Act("host", "main", "plain", 0) OBVIOUS
<1>3. "host" \in Kinds /\ "plain" \in Whys BY KindFacts DEF Kinds
<1>4. a \in Activation /\ a.k = "host" /\ a.th = "main" /\ a.why = "plain" BY <1>1, <1>2, <1>3, ActType
<1>5. cstack \in Seq(Activation) /\ Len(cstack) = 1 /\ cstack[1] = a /\ DOMAIN cstack = 1 .. 1 BY <1>2, <1>4
<1>6. LUAI_MAXCCALLS \in Nat \ {0} /\ SpareCcalls \in Nat \ {0} /\ LUAI_MAXCALLS \in Nat
      /\ BASIC_CI_SIZE \in 2 .. LUAI_MAXCALLS /\ "main" \notin Co
  BY CallsAssumption
<1>7. TypeOK
  <2>1. BASIC_CI_SIZE \in 2 .. 2 * LUAI_MAXCALLS /\ 0 < BASIC_CI_SIZE BY <1>6
  <2>2. <<>> \in Seq(Function) /\ Len(<<>>) = 0 OBVIOUS
  <2>3. ci \in [Thread -> Seq(Function)] /\ \A t \in Thread : Len(ci[t]) = 0 BY <2>2
  <2>4. size_ci \in [Thread -> 2 .. 2 * LUAI_MAXCALLS] /\ \A t \in Thread : size_ci[t] = BASIC_CI_SIZE BY <2>1
  <2>5. \A t \in Thread : Len(ci[t]) < size_ci[t] BY <2>1, <2>3, <2>4
  <2>6. status \in [Thread -> {"ok", "yield"} \cup Errors] /\ errfunc \in [Thread -> Handlers]
        /\ life \in [Thread -> {"fresh", "started", "yielded", "ended"}]
    BY DEF Handlers
  <2> QED BY <1>5, <2>3, <2>4, <2>5, <2>6 DEF TypeOK
<1>8. Depth(cstack, 0) = 0 /\ Level(cstack, "main", 0) = 0 BY StackStart
<1>9. 1 \in 1 .. Len(cstack) /\ 1 - 1 = 0 /\ 1 \in Nat \ {0} BY <1>5
<1>10. DepthOf(cstack[1]) = 0 /\ FramesIn(cstack[1]) = 0 /\ ~Disables(cstack[1]) BY <1>4, <1>5 DEF DepthOf, FramesIn, Disables
<1>11. Depth(cstack, 1) = 0
  <2>1. Depth(cstack, 1) = Depth(cstack, 1 - 1) + DepthOf(cstack[1]) BY <1>5, <1>9, DepthStep
  <2> QED BY <1>8, <1>9, <1>10, <2>1
<1>12. Level(cstack, "main", 1) = 0
  <2>1. Level(cstack, "main", 1) = Level(cstack, "main", 1 - 1) + FramesIn(cstack[1])
    BY ONLY <1>4, <1>5, <1>9, LevelStep
  <2> QED BY <1>8, <1>9, <1>10, <2>1
<1>13. CLimit \in Nat \ {0} BY <1>6 DEF CLimit
<1>14. StackInv
  <2>1. Sound(cstack, 1) BY <1>4, <1>5, <1>11, <1>13 DEF Sound, Keeps
  <2>2. \A i \in 1 .. 1 : i = 1 OBVIOUS
  <2> QED BY <1>5, <2>1, <2>2 DEF StackInv
<1>15. OnStack = {"main"} BY <1>4, <1>5 DEF OnStack
<1>16. Active("main")
  <2>1. ci["main"] = <<>> /\ Len(ci["main"]) = 0 BY <1>1
  <2>2. \A j \in 1 .. 1 : cstack[j].th = "main" => \A x \in 1 .. FramesIn(cstack[j]) : FALSE BY <1>10
  <2>3. FramesRight(cstack, "main", 1, ci["main"]) BY <1>12, <2>1, <2>2 DEF FramesRight
  <2>4. ~Hooked(cstack, "main", 1) BY <1>10 DEF Hooked
  <2>5. InForce(cstack, "main", 1, "none") BY <1>4, <1>5 DEF InForce, PcallOf
  <2>6. Live(ci["main"], {}) BY DEF Live
  <2>7. allowhook["main"] = TRUE /\ errfunc["main"] = "none" /\ openupval["main"] = {}
        /\ status["main"] = "ok" /\ life["main"] = "started"
    BY <1>1, <1>6
  <2> QED BY <1>5, <2>3, <2>4, <2>5, <2>6, <2>7 DEF Active
<1>17. ASSUME NEW t \in Co PROVE Idle(t)
  <2>1. t \in Thread BY DEF Thread
  <2>2. /\ status[t] = "ok" /\ allowhook[t] = TRUE /\ errfunc[t] = "none" /\ ci[t] = <<>> /\ openupval[t] = {}
        /\ life[t] = "ended"
    BY <2>1
  <2> QED BY <2>2 DEF Idle, Errors
<1>18. FieldsInv BY <1>1, <1>6, <1>15, <1>16, <1>17 DEF FieldsInv
<1>19. CountInv
  <2>1. nCcalls["main"] = 0 BY <1>1
  <2>2. \A i \in 1 .. 1 : cstack[i] = a BY <1>5
  <2>3. Depth(cstack, Len(cstack)) = 0 BY <1>5, <1>11
  <2>4. \A i \in 1 .. Len(cstack) : i = 1 BY <1>5
  <2> QED BY <1>4, <1>5, <1>11, <1>13, <2>1, <2>2, <2>3, <2>4 DEF CountInv
<1> QED BY <1>7, <1>14, <1>18, <1>19 DEF CallInv

LEMMA NextInv == CallInv /\ [Next]_callVars => CallInv'
<1> SUFFICES ASSUME CallInv, [Next]_callVars PROVE CallInv' OBVIOUS
<1>1. CASE Calls
  BY <1>1, LuaCallStep, OpCallStep, PrecallStep, OpReturnStep, CReturnStep, CallReturnsStep DEF Calls
<1>2. CASE TailCalls BY <1>2, OpCallStep DEF TailCalls
<1>3. CASE Upvalues BY <1>3, FindUpvalStep DEF Upvalues
<1>4. CASE Finalizers BY <1>4, GCTMStep DEF Finalizers
<1>5. CASE Hooks BY <1>5, CallhookStep, HookReturnsStep DEF Hooks
<1>6. CASE ErrorsAndCatches BY <1>6, ErrorStep, LuaThrowStep, ErrormsgStep, PcallReturnsStep DEF ErrorsAndCatches
<1>7. CASE Protected
  <2>1. PICK f \in Function : lua_pcall("none", f) BY <1>7 DEF Protected
  <2>2. "none" \in Handlers BY DEF Handlers
  <2> QED BY <2>1, <2>2, LuaPcallStep
<1>8. CASE ErrorHandlers BY <1>8, LuaPcallStep DEF ErrorHandlers
<1>9. CASE Memory BY <1>9, ThrowStep DEF Memory
<1>10. CASE Parser
  BY <1>10, ProtectedParserStep, EnterlevelStep, LeavelevelStep, ParseEndsStep, ThrowStep DEF Parser
<1>11. CASE Coroutines(Co)
  BY <1>11, CreateStep, LuaResumeStep, ResumeErrorStep, YieldStep, CoroutineEndsStep DEF Coroutines
<1>12. CASE Exited BY <1>12, Unchanged DEF Exited
<1>13. CASE UNCHANGED callVars BY <1>13, Unchanged
<1> QED BY <1>1, <1>2, <1>3, <1>4, <1>5, <1>6, <1>7, <1>8, <1>9, <1>10, <1>11, <1>12, <1>13 DEF Next

LEMMA SpecInv == Spec => []CallInv
BY InitInv, NextInv, PTL DEF Spec

\* Every field of every thread keeps its type, and the CallInfo array its bound:
\* luaD_precall and luaD_growCI never put a frame outside it.
THEOREM CallsTyped == Spec => []TypeOK
<1>1. CallInv => TypeOK BY DEF CallInv
<1> QED BY <1>1, SpecInv, PTL

\* The CallInfo frames of a thread are those of the luaV_execute and C function
\* activations on the C stack, after any calls, errors, tail calls and yields.
THEOREM FramesAgreeWithStack == Spec => []FramesMatch
<1>1. ASSUME CallInv, NEW t \in Thread, t \in OnStack PROVE FramesRight(cstack, t, Len(cstack), ci[t])
  BY <1>1 DEF CallInv, FieldsInv, Active
<1>2. ASSUME CallInv, NEW t \in Thread, life[t] = "yielded"
      PROVE  /\ Len(ci[t]) > 0 /\ ci[t][1] = "Lua"
             /\ \A l \in 1 .. Len(ci[t]) - 1 : ci[t][l] = "Lua"
  <2>1. t \notin OnStack BY <1>2 DEF CallInv, FieldsInv, Active
  <2>2. t # "main" BY <1>2 DEF CallInv, FieldsInv
  <2>3. t \in Co /\ Idle(t) BY <1>2, <2>1, <2>2 DEF Thread, CallInv, FieldsInv
  <2>4. status[t] \in {"ok", "yield"} \cup Errors BY <1>2 DEF CallInv, TypeOK
  <2>5. status[t] = "yield" BY <1>2, <2>3, <2>4 DEF Idle
  <2> QED BY <2>3, <2>5 DEF Idle
<1>3. CallInv => FramesMatch BY <1>1, <1>2 DEF FramesMatch
<1> QED BY <1>3, SpecInv, PTL

\* The newest activation of a thread.
LEMMA LastIsNewest ==
  ASSUME CallInv, NEW t \in OnStack
  PROVE  /\ LastOf(t) \in 1 .. Len(cstack) /\ cstack[LastOf(t)].th = t /\ Newest(cstack, LastOf(t))
         /\ \A j \in 1 .. Len(cstack) : cstack[j].th = t => j <= LastOf(t)
<1>1. cstack \in Seq(Activation) /\ Len(cstack) \in Nat /\ DOMAIN cstack = 1 .. Len(cstack) /\ SoundStack(cstack)
  BY DEF CallInv, TypeOK, StackInv, SoundStack
<1>2. PICK n : n = Len(cstack) OBVIOUS
<1>3. PICK T : T = {i \in 1 .. n : cstack[i].th = t} OBVIOUS
<1>4. T \in SUBSET (1 .. n) /\ T # {} /\ (\A j \in 1 .. n : j \in T <=> cstack[j].th = t)
  BY <1>1, <1>2, <1>3 DEF OnStack
<1>5. PICK l : l = Max(T) OBVIOUS
<1>6. l = LastOf(t) BY <1>1, <1>2, <1>3, <1>5 DEF LastOf
<1>7. l \in T /\ \A y \in T : y <= l
  <2>1. n \in Nat BY <1>1, <1>2
  <2> QED BY <1>4, <1>5, <2>1, BoundedMax
<1>8. l \in 1 .. n /\ cstack[l].th = t /\ \A j \in 1 .. n : cstack[j].th = t => j <= l BY <1>4, <1>7
<1>9. \A j \in l + 1 .. Len(cstack) : cstack[j].th # cstack[l].th
  <2> TAKE j \in l + 1 .. Len(cstack)
  <2>1. j \in 1 .. n /\ ~(j <= l) BY <1>1, <1>2, <1>8
  <2> QED BY <1>8, <2>1
<1>10. Newest(cstack, l) BY <1>1, <1>2, <1>8, <1>9, Waits
<1> QED BY <1>2, <1>6, <1>8, <1>10

\* nCcalls is the depth of the C stack below the newest activation of its thread,
\* and luaD_call, the parser and lua_resume keep it within the spare room, however
\* errors and yields cut the stack.
THEOREM CountIsDepth == Spec => []CDepth
<1>1. ASSUME CallInv, NEW t \in OnStack
      PROVE  nCcalls[t] = Depth(cstack, LastOf(t)) /\ nCcalls[t] <= LUAI_MAXCCALLS + SpareCcalls
  <2>1. PICK l : l = LastOf(t) OBVIOUS
  <2>2. l \in 1 .. Len(cstack) /\ cstack[l].th = t /\ Newest(cstack, l) BY <1>1, <2>1, LastIsNewest
  <2>3. nCcalls[t] = Depth(cstack, l) BY <1>1, <2>2 DEF CallInv, CountInv
  <2>4. Depth(cstack, l) <= Depth(cstack, Len(cstack)) /\ Depth(cstack, l) \in Nat /\ Depth(cstack, Len(cstack)) \in Nat
    <3>1. cstack \in Seq(Activation) /\ Len(cstack) \in Nat BY <1>1 DEF CallInv, TypeOK
    <3>2. l \in 0 .. Len(cstack) /\ Len(cstack) \in l .. Len(cstack) BY <2>2, <3>1
    <3> QED BY <3>1, <3>2, DepthMonotone
  <2>5. Depth(cstack, Len(cstack)) <= CLimit BY <1>1 DEF CallInv, CountInv
  <2>6. CLimit \in Nat BY CallsAssumption DEF CLimit
  <2>7. nCcalls[t] <= CLimit BY <2>3, <2>4, <2>5, <2>6
  <2> QED BY <2>1, <2>3, <2>7 DEF CLimit
<1>2. CallInv => CDepth BY <1>1 DEF CDepth
<1> QED BY <1>2, SpecInv, PTL

\* A thread that is not on the stack, with its fields, when it has yielded.
LEMMA Yielded ==
  ASSUME CallInv, NEW t \in Thread, life[t] \in {"fresh", "yielded"}
  PROVE  /\ t \in Co /\ t \notin OnStack /\ Idle(t) /\ status[t] \in {"ok", "yield"}
         /\ allowhook[t] = TRUE /\ errfunc[t] = "none"
<1>1. t \notin OnStack BY DEF CallInv, FieldsInv, Active
<1>2. t \in Co BY DEF CallInv, FieldsInv, Thread
<1>3. Idle(t) BY <1>1, <1>2 DEF CallInv, FieldsInv
<1>4. status[t] \in {"ok", "yield"} \cup Errors BY DEF CallInv, TypeOK
<1>5. status[t] \notin Errors BY <1>3 DEF Idle
<1>6. status[t] \in {"ok", "yield"} BY <1>4, <1>5
<1> QED BY <1>1, <1>2, <1>3, <1>6 DEF Idle

\* What a longjmp past a hook, a finalizer or a protected call leaves in the fields
\* of the thread is right all the same: luaD_pcall puts back the hooks and the
\* error handler and closes the upvalues of the functions it abandons.
THEOREM FieldsAgreeWithStack == Spec => []FieldsMatch
<1>1. ASSUME CallInv, NEW t \in Thread, t \in OnStack \/ life[t] = "yielded"
      PROVE  allowhook[t] = ~ \E i \in DOMAIN cstack :
               cstack[i].th = t /\ (cstack[i].k = "hook" \/ cstack[i].why = "gc")
  <2>1. DOMAIN cstack = 1 .. Len(cstack) BY <1>1 DEF CallInv, TypeOK
  <2>2. (\E i \in DOMAIN cstack : cstack[i].th = t /\ (cstack[i].k = "hook" \/ cstack[i].why = "gc"))
          <=> Hooked(cstack, t, Len(cstack))
    BY <2>1 DEF Hooked, Disables
  <2>3. allowhook[t] \in BOOLEAN BY <1>1 DEF CallInv, TypeOK
  <2>4. allowhook[t] = TRUE <=> ~Hooked(cstack, t, Len(cstack))
    <3>1. CASE t \in OnStack BY <1>1, <3>1 DEF CallInv, FieldsInv, Active
    <3>2. CASE t \notin OnStack
      <4>1. allowhook[t] = TRUE BY <1>1, <3>2, Yielded
      <4>2. ~Hooked(cstack, t, Len(cstack)) BY <2>1, <3>2 DEF Hooked, OnStack
      <4> QED BY <4>1, <4>2
    <3> QED BY <3>1, <3>2
  <2> QED BY <2>2, <2>3, <2>4, Zenon
<1>2. ASSUME CallInv, NEW t \in Thread, t \in OnStack \/ life[t] \in {"fresh", "yielded"},
             NEW ps, ps = {i \in DOMAIN cstack : cstack[i].k = "pcall" /\ cstack[i].th = t}
      PROVE  errfunc[t] = IF ps = {} THEN "none" ELSE cstack[Max(ps)].why
  <2>1. DOMAIN cstack = 1 .. Len(cstack) /\ Len(cstack) \in Nat BY <1>2 DEF CallInv, TypeOK
  <2>2. PICK n : n = Len(cstack) OBVIOUS
  <2>3. ps \in SUBSET (1 .. n) /\ \A j \in 1 .. n : j \in ps <=> PcallOf(cstack[j], t)
    BY <1>2, <2>1, <2>2 DEF PcallOf
  <2>4. InForce(cstack, t, n, errfunc[t])
    <3>1. CASE t \in OnStack BY <1>2, <2>2, <3>1 DEF CallInv, FieldsInv, Active
    <3>2. CASE t \notin OnStack
      <4>1. errfunc[t] = "none" BY <1>2, <3>2, Yielded
      <4>2. \A j \in 1 .. n : ~PcallOf(cstack[j], t) BY <2>1, <2>2, <3>2 DEF PcallOf, OnStack
      <4> QED BY <4>1, <4>2 DEF InForce
    <3> QED BY <3>1, <3>2
  <2>5. CASE ps = {} BY <2>3, <2>4, <2>5 DEF InForce
  <2>6. CASE ps # {}
    <3>1. PICK p \in 1 .. n : /\ PcallOf(cstack[p], t) /\ errfunc[t] = cstack[p].why
                              /\ \A j \in p + 1 .. n : ~PcallOf(cstack[j], t)
      BY <2>3, <2>4, <2>6 DEF InForce
    <3>2. n \in Nat /\ p \in ps BY <2>1, <2>2, <2>3, <3>1
    <3>3. \A y \in ps : y <= p
      <4> TAKE y \in ps
      <4>1. y \in 1 .. n /\ y \notin p + 1 .. n BY <2>3, <3>1
      <4> QED BY <3>2, <4>1
    <3>4. Max(ps) = p BY <2>3, <3>2, <3>3, MaxIs
    <3> QED BY <2>6, <3>1, <3>4
  <2> QED BY <2>5, <2>6
<1>3. ASSUME CallInv, NEW t \in Thread, t \in OnStack \/ life[t] = "yielded"
      PROVE  \A l \in openupval[t] : l \in 1 .. Len(ci[t]) /\ ci[t][l] = "Lua"
  <2>1. Live(ci[t], openupval[t])
    <3>1. CASE t \in OnStack BY <1>3, <3>1 DEF CallInv, FieldsInv, Active
    <3>2. CASE t \notin OnStack
      <4>1. Idle(t) /\ status[t] \in {"ok", "yield"} /\ life[t] = "yielded" BY <1>3, <3>2, Yielded
      <4> QED BY <4>1 DEF Idle
    <3> QED BY <3>1, <3>2
  <2> QED BY <2>1 DEF Live
<1>4. CallInv => HooksMatch BY <1>1 DEF HooksMatch
<1>5. CallInv => HandlerRight BY <1>2 DEF HandlerRight
<1>6. CallInv => OpenUpvalsLive BY <1>3 DEF OpenUpvalsLive
<1>7. CallInv => FieldsMatch BY <1>4, <1>5, <1>6 DEF FieldsMatch
<1> QED BY <1>7, SpecInv, PTL

\* costatus (coroutine.status, and the guard of coroutine.resume) tells from the
\* fields of a coroutine alone whether it runs, waits, is suspended or is dead.
THEOREM StatusTellsTheTruth == Spec => []StatusRight
<1>1. ASSUME CallInv, cstack # <<>>, NEW t \in Co
      PROVE  costatus(t) = Truth(t) \/ (life[t] = "ended" /\ cotop[t])
  <2>1. CASE t = L
    <3>1. t \in OnStack BY <1>1, <2>1, TopFacts
    <3>3. costatus(t) = CO_RUN BY <2>1 DEF costatus
    <3>4. Truth(t) = CO_RUN BY <2>1, <3>1 DEF Truth
    <3> QED BY <3>3, <3>4
  <2>2. CASE t # L /\ t \in OnStack
    <3>1. status[t] = "ok" BY <1>1, <2>2 DEF CallInv, FieldsInv, Active
    <3>2. Len(ci[t]) > 0 BY <1>1, <2>2, NormalHasFrames
    <3>3. ci[t] # <<>> BY <3>2
    <3> QED BY <2>2, <3>1, <3>3 DEF costatus, Truth
  <2>3. CASE t # L /\ t \notin OnStack
    <3>1. t \in Thread BY DEF Thread
    <3>2. Idle(t) BY <1>1, <2>3 DEF CallInv, FieldsInv
    <3>3. status[t] \in {"ok", "yield"} \cup Errors BY <1>1, <3>1 DEF CallInv, TypeOK
    <3>4. CASE status[t] = "yield" BY <2>3, <3>2, <3>4 DEF Idle, costatus, Truth
    <3>5. CASE status[t] = "ok"
      <4>1. ci[t] = <<>> /\ life[t] \in {"fresh", "ended"} /\ (life[t] = "fresh" => cotop[t] = TRUE) BY <3>2, <3>5 DEF Idle
      <4>2. costatus(t) = IF cotop[t] THEN CO_SUS ELSE CO_DEAD BY <2>3, <3>5, <4>1 DEF costatus
      <4>3. Truth(t) = IF life[t] \in {"fresh", "yielded"} THEN CO_SUS ELSE CO_DEAD BY <2>3 DEF Truth
      <4> QED BY <4>1, <4>2, <4>3
    <3>6. CASE status[t] \in Errors
      <4>1. life[t] = "ended" BY <3>2, <3>6 DEF Idle
      <4>2. costatus(t) = CO_DEAD BY <2>3, <3>6 DEF costatus, Errors
      <4> QED BY <2>3, <4>1, <4>2 DEF Truth
    <3> QED BY <3>3, <3>4, <3>5, <3>6
  <2> QED BY <2>1, <2>2, <2>3
<1>2. CallInv => StatusRight BY <1>1 DEF StatusRight
<1> QED BY <1>2, SpecInv, PTL

-----------------------------------------------------------------------------
(* What a step may do to the C stack and to the states of the coroutines.  *)

\* It grows or keeps its length, is cut, or a called Lua function goes on in the
\* luaV_execute of its caller.
Moves ==
    \/ Len(cstack') >= Len(cstack)
    \/ Agree(cstack, cstack', Len(cstack'))
    \/ Top.k = "callop" /\ Len(cstack') = Len(cstack) - 1

LEMMA PushMoves ==
  ASSUME CallInv, NEW S, NEW w \in Seq(S), Push(w)
  PROVE  Moves
<1>1. cstack \in Seq(Activation) /\ Len(cstack) \in Nat /\ Len(w) \in Nat BY DEF CallInv, TypeOK
<1>2. Len(cstack') = Len(cstack) + Len(w) BY <1>1 DEF Push
<1> QED BY <1>1, <1>2 DEF Moves

LEMMA GotoMoves ==
  ASSUME CallInv, cstack # <<>>, NEW S, NEW w \in Seq(S), Goto(w)
  PROVE  Moves
<1>1. cstack \in Seq(Activation) /\ Len(w) \in Nat BY DEF CallInv, TypeOK
<1>2. Front(cstack) \in Seq(Activation) /\ Len(Front(cstack)) = Len(cstack) - 1 /\ Len(cstack) \in Nat \ {0}
      /\ \A j \in 1 .. Len(cstack) - 1 : Front(cstack)[j] = cstack[j]
  BY <1>1, FrontSeq
<1>3. Len(cstack') = Len(cstack) - 1 + Len(w)
  <2>1. PICK f : f = Front(cstack) OBVIOUS
  <2>2. f \in Seq(Activation) /\ cstack' = f \o w BY <1>2, <2>1 DEF Goto
  <2>3. Len(f \o w) = Len(f) + Len(w) BY <2>2
  <2> QED BY <1>2, <2>1, <2>2, <2>3
<1>4. CASE Len(w) = 0
  <2>1. w = <<>> BY <1>4, EmptySeq
  <2>2. cstack' = Front(cstack) BY <1>2, <2>1 DEF Goto
  <2> QED BY <1>2, <2>2 DEF Moves, Agree
<1>5. CASE Len(w) # 0 BY <1>1, <1>2, <1>3, <1>5 DEF Moves
<1> QED BY <1>4, <1>5

LEMMA ReturnMoves == ASSUME CallInv, cstack # <<>>, Return PROVE Moves
<1>1. <<>> \in Seq({}) OBVIOUS
<1> QED BY <1>1, GotoMoves DEF Return

LEMMA CutMoves == ASSUME CallInv, NEW i \in 2 .. Len(cstack), CutTo(i) PROVE Moves
BY CutDown DEF Moves

LEMMA SameMoves == ASSUME CallInv, cstack' = cstack PROVE Moves
<1>1. Len(cstack) \in Nat BY DEF CallInv, TypeOK
<1> QED BY <1>1 DEF Moves

LEMMA TupleTypes ==
  ASSUME NEW a, NEW b, NEW c
  PROVE  /\ <<a>> \in Seq({a, b, c}) /\ <<a, b>> \in Seq({a, b, c}) /\ <<>> \in Seq({a, b, c})
         /\ <<a>> \o <<b, c>> \in Seq({a, b, c})
OBVIOUS

\* The state of a coroutine becomes "yield" only by lua_yield.
KeepsStates == \A t \in Thread : status[t] # "yield" => status'[t] # "yield"

LEMMA SameStates == ASSUME CallInv, status' = status PROVE KeepsStates
BY DEF KeepsStates

LEMMA SetStates ==
  ASSUME CallInv, NEW t, NEW x, x # "yield", status' = [status EXCEPT ![t] = x] PROVE KeepsStates
BY DEF KeepsStates, CallInv, TypeOK

LEMMA CallsMove == ASSUME CallInv, Calls \/ TailCalls \/ Upvalues PROVE Moves /\ KeepsStates
<1>1. ASSUME NEW f \in Function, lua_call(f) PROVE Moves /\ KeepsStates
  <2>1. PICK a : a = Act("call", L, "api", 0) OBVIOUS
  <2>2. PICK c : c = IF nCcalls[a.th] + 1 = LUAI_MAXCCALLS THEN Failing(a.th)
                     ELSE IF nCcalls[a.th] + 1 >= LUAI_MAXCCALLS + SpareCcalls
                     THEN Throwing(a.th, "errerr") ELSE Act("enter", a.th, f, 0)
    OBVIOUS
  <2>3. Push(<<a, c>>) BY <1>1, <2>1, <2>2 DEF lua_call, CallActs
  <2>4. Moves BY <2>3, TupleTypes, PushMoves
  <2> QED BY <1>1, <2>4, SameStates DEF lua_call, coVars
<1>2. ASSUME NEW op, NEW f \in Function, OpCall(op, f) PROVE Moves /\ KeepsStates
  <2>1. PICK a : a = Act(op, L, f, 0) OBVIOUS
  <2>2. Push(<<a>>) BY <1>2, <2>1 DEF OpCall
  <2>3. Moves BY <2>2, TupleTypes, PushMoves
  <2> QED BY <1>2, <2>3, SameStates DEF OpCall, coVars
<1>3. ASSUME luaD_precall PROVE Moves /\ KeepsStates
  <2>1. cstack # <<>> BY <1>3 DEF luaD_precall, Running
  <2>2. Moves
    <3>1. Top.why \in Function /\ Top.k \in {"enter", "callop", "tailcall"} /\ Len(cstack) - 1 \in 1 .. Len(cstack)
      <4>1. Top.k \in {"enter", "callop", "tailcall"} BY <1>3 DEF luaD_precall, Running
      <4>2. Above(cstack[Len(cstack) - 1], Top) /\ Len(cstack) - 1 \in 1 .. Len(cstack) BY <2>1, <4>1, Below
      <4> QED BY <4>1, <4>2 DEF Above
    <3>2. ASSUME Enter(Top.k, Top.why) PROVE Moves
      <4>1. CASE Top.k = "tailcall" /\ Top.why = "Lua" BY <2>1, <3>2, <4>1, ReturnMoves DEF Enter
      <4>2. CASE ~(Top.k = "tailcall" /\ Top.why = "Lua") /\ Top.why = "C"
        <5>1. PICK a : a = Act("C", L, "plain", 0) OBVIOUS
        <5>2. Goto(<<a>>) BY <3>2, <4>2, <5>1 DEF Enter
        <5> QED BY <2>1, <5>2, TupleTypes, GotoMoves
      <4>3. CASE Top.k = "enter" /\ Top.why # "C"
        <5>1. PICK a : a = Act("exec", L, "plain", 1) OBVIOUS
        <5>2. Goto(<<a>>) BY <3>2, <4>3, <5>1 DEF Enter
        <5> QED BY <2>1, <5>2, TupleTypes, GotoMoves
      <4>4. CASE Top.k = "callop" /\ Top.why = "Lua"
        <5>1. PICK s : s = Front(cstack) OBVIOUS
        <5>2. s \in Seq(Activation) /\ Len(s) = Len(cstack) - 1 /\ Len(cstack) \in Nat
          <6>1. cstack \in Seq(Activation) BY DEF CallInv, TypeOK
          <6> QED BY <2>1, <5>1, <6>1, FrontSeq
        <5>3. s # <<>> BY <3>1, <5>2
        <5>4. PICK f : f = Front(s) OBVIOUS
        <5>5. f \in Seq(Activation) /\ Len(f) = Len(cstack) - 2
          <6>1. f \in Seq(Activation) /\ Len(f) = Len(s) - 1 BY <5>2, <5>3, <5>4, FrontSeq
          <6> QED BY <5>2, <6>1
        <5>6. PICK b : b = [Last(s) EXCEPT !.n = @ + 1] OBVIOUS
        <5>7. cstack' = Append(f, b) BY <3>2, <4>4, <5>1, <5>4, <5>6 DEF Enter
        <5>8. Len(cstack') = Len(cstack) - 1 BY <5>2, <5>5, <5>7
        <5> QED BY <4>4, <5>8 DEF Moves
      <4> QED BY <3>1, <4>1, <4>2, <4>3, <4>4 DEF Function
    <3>3. ASSUME ~Enter(Top.k, Top.why) PROVE Moves
      <4>1. PICK a : a = IF Overflown(L) THEN Throwing(L, "errerr") ELSE Failing(L) OBVIOUS
      <4>2. Goto(<<a>>) BY <1>3, <3>3, <4>1 DEF luaD_precall
      <4> QED BY <2>1, <4>2, TupleTypes, GotoMoves
    <3> QED BY <3>2, <3>3
  <2> QED BY <1>3, <2>2, SameStates DEF luaD_precall, coVars
<1>4. ASSUME OpReturn PROVE Moves /\ KeepsStates
  <2>1. cstack # <<>> BY <1>4 DEF OpReturn, Running
  <2>2. PICK a : a = [Top EXCEPT !.n = @ - 1] OBVIOUS
  <2>3. Goto(<<>>) \/ Goto(<<a>>) BY <1>4, <2>2 DEF OpReturn
  <2>4. Moves BY <2>1, <2>3, TupleTypes, GotoMoves
  <2> QED BY <1>4, <2>4, SameStates DEF OpReturn, coVars
<1>5. ASSUME CReturn \/ CallReturns PROVE Moves /\ KeepsStates
  <2>1. cstack # <<>> /\ Return /\ status' = status BY <1>5 DEF CReturn, CallReturns, Running, coVars
  <2> QED BY <2>1, ReturnMoves, SameStates
<1>6. ASSUME FindUpval PROVE Moves /\ KeepsStates
  BY <1>6, SameMoves, SameStates DEF FindUpval, coVars
<1> QED BY <1>1, <1>2, <1>3, <1>4, <1>5, <1>6 DEF Calls, TailCalls, Upvalues

LEMMA ErrorsMove ==
  ASSUME CallInv, Finalizers \/ Hooks \/ ErrorsAndCatches \/ Protected \/ ErrorHandlers \/ Memory PROVE Moves /\ KeepsStates
<1>1. ASSUME NEW f \in Function, GCTM(f) PROVE Moves /\ KeepsStates
  <2>1. PICK a : a = Saving(Act("call", L, "gc", 0)) OBVIOUS
  <2>2. PICK c : c = IF nCcalls[a.th] + 1 = LUAI_MAXCCALLS THEN Failing(a.th)
                     ELSE IF nCcalls[a.th] + 1 >= LUAI_MAXCCALLS + SpareCcalls
                     THEN Throwing(a.th, "errerr") ELSE Act("enter", a.th, f, 0)
    OBVIOUS
  <2>3. Push(<<a, c>>) BY <1>1, <2>1, <2>2 DEF GCTM, CallActs
  <2>4. Moves BY <2>3, TupleTypes, PushMoves
  <2> QED BY <1>1, <2>4, SameStates DEF GCTM, coVars
<1>2. ASSUME NEW event, luaD_callhook(event) PROVE Moves /\ KeepsStates
  <2>1. PICK a : a = Act("hook", L, event, 0) OBVIOUS
  <2>2. Push(<<a>>) BY <1>2, <2>1 DEF luaD_callhook
  <2>3. Moves BY <2>2, TupleTypes, PushMoves
  <2> QED BY <1>2, <2>3, SameStates DEF luaD_callhook, coVars
<1>3. ASSUME HookReturns \/ PcallReturns PROVE Moves /\ KeepsStates
  <2>1. cstack # <<>> /\ Return /\ status' = status BY <1>3 DEF HookReturns, PcallReturns, Running, coVars
  <2> QED BY <2>1, ReturnMoves, SameStates
<1>4. ASSUME lua_error PROVE Moves /\ KeepsStates
  <2>1. PICK a : a = Failing(L) OBVIOUS
  <2>2. Push(<<a>>) BY <1>4, <2>1 DEF lua_error
  <2>3. Moves BY <2>2, TupleTypes, PushMoves
  <2> QED BY <1>4, <2>3, SameStates DEF lua_error, coVars
<1>5. ASSUME NEW e, Throw(e) PROVE Moves /\ KeepsStates
  <2>1. PICK a : a = Throwing(L, e) OBVIOUS
  <2>2. Push(<<a>>) BY <1>5, <2>1 DEF Throw
  <2>3. Moves BY <2>2, TupleTypes, PushMoves
  <2> QED BY <1>5, <2>3, SameStates DEF Throw, coVars
<1>6. ASSUME NEW f \in Function, luaG_errormsg(f) PROVE Moves /\ KeepsStates
  <2>1. cstack # <<>> BY <1>6 DEF luaG_errormsg, Running
  <2>2. PICK w : w = CASE errfunc[L] = "none" -> <<Throwing(L, "errrun")>>
                       [] errfunc[L] = "other" -> <<Throwing(L, "errerr")>>
                       [] errfunc[L] = "function" ->
                            <<Throwing(L, "errrun")>>
                            \o CallActs(Act("call", L, "handler", 0), f)
    OBVIOUS
  <2>3. Goto(w) BY <1>6, <2>2 DEF luaG_errormsg
  <2>4. errfunc[L] \in {"none", "other", "function"} BY <2>1, Start DEF Handlers
  <2>5. PICK a : a = Act("call", L, "handler", 0) OBVIOUS
  <2>6. PICK c : c = IF nCcalls[a.th] + 1 = LUAI_MAXCCALLS THEN Failing(a.th)
                     ELSE IF nCcalls[a.th] + 1 >= LUAI_MAXCCALLS + SpareCcalls
                     THEN Throwing(a.th, "errerr") ELSE Act("enter", a.th, f, 0)
    OBVIOUS
  <2>7. PICK x : x = Throwing(L, "errrun") OBVIOUS
  <2>8. PICK y : y = Throwing(L, "errerr") OBVIOUS
  <2>9. CallActs(a, f) = <<a, c>> BY <2>6 DEF CallActs
  <2>10. w = <<x>> \/ w = <<y>> \/ w = <<x>> \o <<a, c>> BY <2>2, <2>4, <2>5, <2>7, <2>8, <2>9
  <2>11. Moves
    <3>1. CASE w = <<x>>
      <4>1. w \in Seq({x}) BY <3>1
      <4> QED BY <2>1, <2>3, <4>1, GotoMoves
    <3>2. CASE w = <<y>>
      <4>1. w \in Seq({y}) BY <3>2
      <4> QED BY <2>1, <2>3, <4>1, GotoMoves
    <3>3. CASE w = <<x>> \o <<a, c>>
      <4>1. w \in Seq({x, a, c}) BY <3>3, TupleTypes
      <4> QED BY <2>1, <2>3, <4>1, GotoMoves
    <3> QED BY <2>10, <3>1, <3>2, <3>3
  <2> QED BY <1>6, <2>11, SameStates DEF luaG_errormsg, coVars
<1>7. ASSUME luaD_throw PROVE Moves /\ KeepsStates
  <2>0. cstack # <<>> BY <1>7 DEF luaD_throw, Running
  <2>1. CASE Catchers = {}
    <3>1. cstack' = <<>> /\ status' = status BY <1>7, <2>1 DEF luaD_throw, coVars
    <3>2. Len(cstack) \in Nat BY DEF CallInv, TypeOK
    <3>3. Moves BY <3>1, <3>2 DEF Moves, Agree
    <3> QED BY <3>1, <3>3, SameStates
  <2>2. CASE Catchers # {}
    <3>1. PICK M : M = Max(Catchers) OBVIOUS
    <3>2. M \in 2 .. Len(cstack) BY <2>0, <2>2, <3>1, CatcherTop
    <3>3. CutTo(M) BY <1>7, <2>2, <3>1 DEF luaD_throw
    <3>4. Moves BY <3>2, <3>3, CutMoves
    <3>5. KeepsStates
      <4>1. CASE cstack[M].k = "pcall"
        <5>1. Caught(cstack[M]) BY <1>7, <2>2, <3>1, <4>1 DEF luaD_throw
        <5> QED BY <5>1, SameStates DEF Caught, coVars
      <4>2. CASE cstack[M].k # "pcall"
        <5>1. CoroutineDies(cstack[M].th, Top.why) BY <1>7, <2>2, <3>1, <4>2 DEF luaD_throw
        <5>2. Top.k = "throw" BY <1>7 DEF luaD_throw, Running
        <5>3. Above(cstack[Len(cstack) - 1], Top) BY <2>0, <5>2, Below
        <5>4. Top.why # "yield" BY <5>2, <5>3 DEF Above, Errors
        <5> QED BY <5>1, <5>4, SetStates DEF CoroutineDies, MarkDead
      <4> QED BY <4>1, <4>2
    <3> QED BY <3>4, <3>5
  <2> QED BY <2>1, <2>2
<1>8. ASSUME NEW h, NEW f \in Function, lua_pcall(h, f) PROVE Moves /\ KeepsStates
  <2>1. PICK a : a = Act("call", L, "api", 0) OBVIOUS
  <2>2. PICK c : c = IF nCcalls[a.th] + 1 = LUAI_MAXCCALLS THEN Failing(a.th)
                     ELSE IF nCcalls[a.th] + 1 >= LUAI_MAXCCALLS + SpareCcalls
                     THEN Throwing(a.th, "errerr") ELSE Act("enter", a.th, f, 0)
    OBVIOUS
  <2>3. PICK p : p = Saving(Act("pcall", L, h, 0)) OBVIOUS
  <2>4. CallActs(a, f) = <<a, c>> BY <2>2 DEF CallActs
  <2>5. Push(<<p>> \o <<a, c>>) BY <1>8, <2>1, <2>3, <2>4 DEF lua_pcall
  <2>6. Moves BY <2>5, TupleTypes, PushMoves
  <2> QED BY <1>8, <2>6, SameStates DEF lua_pcall, coVars
<1> QED BY <1>1, <1>2, <1>3, <1>4, <1>5, <1>6, <1>7, <1>8
        DEF Finalizers, Hooks, ErrorsAndCatches, Protected, ErrorHandlers, Memory

LEMMA ParserMoves == ASSUME CallInv, Parser PROVE Moves /\ KeepsStates
<1>1. ASSUME luaD_protectedparser PROVE Moves /\ KeepsStates
  <2>1. PICK a : a = Saving(Act("pcall", L, errfunc[L], 0)) OBVIOUS
  <2>2. PICK b : b = Act("parse", L, "plain", 0) OBVIOUS
  <2>3. Push(<<a, b>>) BY <1>1, <2>1, <2>2 DEF luaD_protectedparser
  <2>4. Moves BY <2>3, TupleTypes, PushMoves
  <2> QED BY <1>1, <2>4, SameStates DEF luaD_protectedparser, coVars
<1>2. ASSUME enterlevel PROVE Moves /\ KeepsStates
  <2>0. cstack # <<>> BY <1>2 DEF enterlevel, Running
  <2>1. PICK a : a = [Top EXCEPT !.n = @ + 1] OBVIOUS
  <2>2. PICK b : b = Throwing(L, "errsyntax") OBVIOUS
  <2>3. Goto(<<a, b>>) \/ Goto(<<a>>) BY <1>2, <2>1, <2>2 DEF enterlevel
  <2>4. Moves BY <2>0, <2>3, TupleTypes, GotoMoves
  <2> QED BY <1>2, <2>4, SameStates DEF enterlevel, coVars
<1>3. ASSUME leavelevel PROVE Moves /\ KeepsStates
  <2>0. cstack # <<>> BY <1>3 DEF leavelevel, Running
  <2>1. PICK a : a = [Top EXCEPT !.n = @ - 1] OBVIOUS
  <2>2. Goto(<<a>>) BY <1>3, <2>1 DEF leavelevel
  <2>3. Moves BY <2>0, <2>2, TupleTypes, GotoMoves
  <2> QED BY <1>3, <2>3, SameStates DEF leavelevel, coVars
<1>4. ASSUME ParseEnds PROVE Moves /\ KeepsStates
  <2>1. cstack # <<>> /\ Return /\ status' = status BY <1>4 DEF ParseEnds, Running, coVars
  <2> QED BY <2>1, ReturnMoves, SameStates
<1>5. ASSUME Throw("errsyntax") PROVE Moves /\ KeepsStates
  <2>1. PICK a : a = Throwing(L, "errsyntax") OBVIOUS
  <2>2. Push(<<a>>) BY <1>5, <2>1 DEF Throw
  <2>3. Moves BY <2>2, TupleTypes, PushMoves
  <2> QED BY <1>5, <2>3, SameStates DEF Throw, coVars
<1> QED BY <1>1, <1>2, <1>3, <1>4, <1>5 DEF Parser

LEMMA CoroutinesMove == ASSUME CallInv, Coroutines(Co) \/ Exited PROVE Moves /\ (KeepsStates \/ lua_yield)
<1>1. ASSUME NEW co \in Co, luaB_cocreate(co) PROVE Moves /\ KeepsStates
  BY <1>1, SameMoves, SetStates DEF luaB_cocreate
<1>2. ASSUME NEW co \in Co, lua_resume(co) PROVE Moves /\ KeepsStates
  <2>1. PICK a : a = Act("resume", co, "plain", 0) OBVIOUS
  <2>2. PICK b : b = IF status[co] = "ok" THEN Act("enter", co, "Lua", 0)
                     ELSE Act("exec", co, "plain", Len(Continued(ci[co])))
    OBVIOUS
  <2>3. Push(<<a, b>>) BY <1>2, <2>1, <2>2 DEF lua_resume
  <2>4. Moves BY <2>3, TupleTypes, PushMoves
  <2>5. status' = [status EXCEPT ![co] = "ok"] BY <1>2 DEF lua_resume
  <2> QED BY <2>4, <2>5, SetStates
<1>3. ASSUME NEW co \in Co, resume_error(co) PROVE Moves /\ KeepsStates
  BY <1>3, SameMoves, SameStates DEF resume_error
<1>4. ASSUME lua_yield PROVE Moves
  <2>1. CASE ~MayYield
    <3>1. PICK a : a = Failing(L) OBVIOUS
    <3>2. Push(<<a>>) BY <1>4, <2>1, <3>1 DEF lua_yield
    <3> QED BY <3>2, TupleTypes, PushMoves
  <2>2. CASE MayYield
    <3>1. Yielding BY <1>4, <2>2 DEF Yielding, lua_yield
    <3>2. PICK n : n = Len(cstack) OBVIOUS
    <3>3. n \in 4 .. n /\ n \in Nat /\ Max(Catchers) = n - 2 BY <3>1, <3>2, YieldShape, YieldCut
    <3>4. PICK M : M = n - 2 OBVIOUS
    <3>5. CutTo(M) /\ M \in 2 .. Len(cstack) BY <1>4, <2>2, <3>2, <3>3, <3>4 DEF lua_yield
    <3> QED BY <3>5, CutMoves
  <2> QED BY <2>1, <2>2
<1>5. ASSUME NEW fits \in BOOLEAN, CoroutineEnds(fits) PROVE Moves /\ KeepsStates
  <2>0. cstack # <<>> BY <1>5 DEF CoroutineEnds, Running
  <2>1. PICK a : a = Failing(Last(Front(cstack)).th) OBVIOUS
  <2>2. Goto(<<>>) \/ Goto(<<a>>) BY <1>5, <2>1 DEF CoroutineEnds
  <2>3. Moves BY <2>0, <2>2, TupleTypes, GotoMoves
  <2> QED BY <1>5, <2>3, SameStates DEF CoroutineEnds
<1>6. ASSUME Exited PROVE Moves /\ KeepsStates
  BY <1>6, SameMoves, SameStates DEF Exited, callVars, coVars
<1> QED BY <1>1, <1>2, <1>3, <1>4, <1>5, <1>6 DEF Coroutines

LEMMA NextMoves == ASSUME CallInv, Next PROVE Moves /\ (KeepsStates \/ lua_yield)
BY CallsMove, ErrorsMove, ParserMoves, CoroutinesMove DEF Next

\* Only one handler is in force.
LEMMA OneInForce ==
  ASSUME NEW s, NEW t, NEW n \in Nat, NEW h, NEW g, InForce(s, t, n, h), InForce(s, t, n, g)
  PROVE  h = g
<1>1. CASE \A j \in 1 .. n : ~PcallOf(s[j], t) BY <1>1 DEF InForce
<1>2. CASE \E j \in 1 .. n : PcallOf(s[j], t)
  <2>1. PICK p \in 1 .. n : /\ PcallOf(s[p], t) /\ h = s[p].why
                            /\ \A j \in p + 1 .. n : ~PcallOf(s[j], t)
    BY <1>2 DEF InForce
  <2>2. PICK q \in 1 .. n : /\ PcallOf(s[q], t) /\ g = s[q].why
                            /\ \A j \in q + 1 .. n : ~PcallOf(s[j], t)
    BY <1>2 DEF InForce
  <2>3. p \notin q + 1 .. n /\ q \notin p + 1 .. n BY <2>1, <2>2
  <2>4. p = q BY <2>3
  <2> QED BY <2>1, <2>2, <2>4
<1> QED BY <1>1, <1>2

\* Where a protected call ends, its thread is on top with the fields it had.
LEMMA Restored ==
  ASSUME CallInv, CallInv', Next, NEW i \in 1 .. Len(cstack), cstack[i].k = "pcall", i = Len(cstack') + 1,
         NEW t, t = cstack[i].th, NEW old, old = cstack[i].old
  PROVE  /\ nCcalls'[t] = old.nCcalls /\ Len(ci'[t]) = old.ci
         /\ allowhook'[t] = old.allowhook /\ errfunc'[t] = old.errfunc
         /\ \A l \in openupval'[t] : l <= old.ci
<1>1. PICK s : s = cstack OBVIOUS
<1>2. PICK r : r = cstack' OBVIOUS
<1>3. PICK m : m = Len(r) OBVIOUS
<1>4. /\ s \in Seq(Activation) /\ r \in Seq(Activation) /\ m \in Nat /\ Len(s) \in Nat /\ SoundStack(s)
      /\ DOMAIN r = 1 .. m
  BY <1>1, <1>2, <1>3 DEF CallInv, TypeOK, StackInv, SoundStack
<1>5. i \in 1 .. Len(s) /\ i - 1 = m /\ i = m + 1 /\ s[i].k = "pcall" /\ t = s[i].th /\ old = s[i].old
  BY <1>1, <1>2, <1>3, <1>4
<1>6. Sound(s, i) BY <1>4, <1>5 DEF SoundStack
<1>7. i # 1 /\ m \in 1 .. m
  <2>1. i # 1 BY <1>5, <1>6 DEF Sound
  <2> QED BY <1>4, <1>5, <2>1
<1>8. Above(s[m], s[i]) BY <1>4, <1>5, <1>6, <1>7 DEF Sound
<1>9. s[m].th = t BY <1>5, <1>8 DEF Above
<1>10. Agree(s, r, m)
  <2>1. Moves BY NextMoves
  <2>2. ~(Len(cstack') >= Len(cstack)) BY <1>1, <1>2, <1>3, <1>4, <1>5
  <2>3. CASE Agree(cstack, cstack', Len(cstack')) BY <1>1, <1>2, <1>3, <2>3
  <2>4. CASE Top.k = "callop" /\ Len(cstack') = Len(cstack) - 1
    <3>1. i = Len(cstack) BY <1>1, <1>2, <1>3, <1>4, <1>5, <2>4
    <3>2. Top = cstack[i] BY <3>1 DEF Top, Last
    <3> QED BY <1>1, <1>5, <2>4, <3>2
  <2> QED BY <2>1, <2>2, <2>3, <2>4 DEF Moves
<1>11. r[m].th = t BY <1>7, <1>9, <1>10 DEF Agree
<1>12. m \in 0 .. m /\ m \in m .. m /\ m <= m /\ m + 1 .. m = {} /\ m \in m .. Len(s) /\ m \in m .. Len(r)
  BY <1>3, <1>4, <1>5, <1>7
<1>13. Depth(s, m) = Depth(r, m) BY <1>4, <1>10, <1>12, DepthAgree
<1>14. Level(s, t, m) = Level(r, t, m) BY <1>4, <1>10, <1>12, LevelAgree
<1>15. Hooked(s, t, m) <=> Hooked(r, t, m) BY <1>4, <1>10, <1>12, HookedAgree
<1>16. InForce(r, t, m, old.errfunc)
  <2>1. InForce(s, t, m, old.errfunc) BY <1>5, <1>6 DEF Sound, Keeps
  <2> QED BY <1>4, <1>10, <1>12, <2>1, InForceAgree
<1>17. /\ old.nCcalls = Depth(r, m) /\ old.ci = Level(r, t, m)
       /\ (old.allowhook = TRUE <=> ~Hooked(r, t, m))
  BY <1>5, <1>6, <1>13, <1>14, <1>15 DEF Sound, Keeps
<1>18. t \in Thread /\ old.ci \in Nat /\ old.allowhook \in BOOLEAN
  <2>1. s[i] \in Activation BY <1>4, <1>5, ActNat
  <2> QED BY <1>5, <2>1 DEF Activation, Locals
<1>19. nCcalls'[t] = Depth(r, m)
  <2>1. Newest(r, m) BY <1>3 DEF Newest
  <2>2. \A j \in 1 .. Len(r) : Newest(r, j) => nCcalls'[r[j].th] = Depth(r, j) BY <1>2 DEF CallInv, CountInv
  <2> QED BY <1>3, <1>7, <1>11, <2>1, <2>2
<1>20. Active(t)'
  <2>1. t \in OnStack' BY <1>2, <1>4, <1>7, <1>11 DEF OnStack
  <2> QED BY <2>1 DEF CallInv, FieldsInv
<1>21. /\ Len(ci'[t]) = Level(r, t, m) /\ (allowhook'[t] = TRUE <=> ~Hooked(r, t, m))
       /\ InForce(r, t, m, errfunc'[t]) /\ Live(ci'[t], openupval'[t])
  BY <1>2, <1>3, <1>20 DEF Active, FramesRight
<1>22. errfunc'[t] = old.errfunc BY <1>4, <1>16, <1>21, OneInForce
<1>23. allowhook'[t] = old.allowhook
  <2>1. allowhook'[t] \in BOOLEAN BY <1>18 DEF CallInv, TypeOK
  <2>2. allowhook'[t] = TRUE <=> old.allowhook = TRUE BY <1>17, <1>21
  <2> QED BY <1>18, <2>1, <2>2
<1>24. \A l \in openupval'[t] : l <= old.ci
  <2> TAKE l \in openupval'[t]
  <2>1. l \in 1 .. Len(ci'[t]) BY <1>21 DEF Live
  <2>2. Len(ci'[t]) = old.ci BY <1>17, <1>21
  <2> QED BY <1>18, <2>1, <2>2
<1> QED BY <1>17, <1>19, <1>21, <1>22, <1>23, <1>24

\* luaD_pcall, luaD_protectedparser and lua_pcall give their thread back as it was,
\* its counter of C calls, frames, hooks and error handler, whether the call
\* returned or a longjmp ended it, and no upvalue of an abandoned function is open.
THEOREM ProtectedCallsRestore == Spec => PcallRestores
<1>1. ASSUME CallInv, CallInv', [Next]_callVars
      PROVE  [\A i \in DOMAIN cstack :
                cstack[i].k = "pcall" /\ i = Len(cstack') + 1 =>
                  LET t == cstack[i].th  old == cstack[i].old
                  IN  /\ nCcalls'[t] = old.nCcalls /\ Len(ci'[t]) = old.ci
                      /\ allowhook'[t] = old.allowhook /\ errfunc'[t] = old.errfunc
                      /\ \A l \in openupval'[t] : l <= old.ci]_callVars
  <2>1. CASE UNCHANGED callVars BY <2>1
  <2>2. CASE Next
    <3>1. DOMAIN cstack = 1 .. Len(cstack) BY <1>1 DEF CallInv, TypeOK
    <3> QED BY <1>1, <2>2, <3>1, Restored
  <2> QED BY <1>1, <2>1, <2>2
<1> QED BY <1>1, InitInv, NextInv, PTL DEF Spec, PcallRestores

\* What an accepted yield cuts off.
CutClean(dropped, t) ==
    /\ Len(dropped) = 3 /\ dropped[1].k = "resume" /\ dropped[2].k = "exec"
    /\ \A i \in 1 .. 3 : dropped[i].th = t

LEMMA YieldDrops ==
  ASSUME CallInv, lua_yield, NEW t \in Co, status[t] # "yield", status'[t] = "yield",
         NEW dropped, dropped = SubSeq(cstack, Len(cstack') + 1, Len(cstack))
  PROVE  CutClean(dropped, t)
<1>1. MayYield
  <2> SUFFICES ASSUME ~MayYield PROVE FALSE OBVIOUS
  <2>1. status' = status BY DEF lua_yield, coVars
  <2> QED BY <2>1
<1>2. Yielding BY <1>1 DEF Yielding, lua_yield
<1>3. PICK n : n = Len(cstack) OBVIOUS
<1>4. /\ n \in 4 .. n /\ n \in Nat /\ L \in Co
      /\ cstack[n - 2].k = "resume" /\ cstack[n - 1].k = "exec"
      /\ cstack[n].th = L /\ cstack[n - 1].th = L /\ cstack[n - 2].th = L /\ Max(Catchers) = n - 2
  BY <1>2, <1>3, YieldShape, YieldCut
<1>5. t = L
  <2>1. status' = [status EXCEPT ![L] = "yield"] BY <1>1 DEF lua_yield
  <2> SUFFICES ASSUME t # L PROVE FALSE OBVIOUS
  <2>2. status'[t] = status[t] BY <2>1 DEF CallInv, TypeOK, Thread
  <2> QED BY <2>2
<1>6. PICK M : M = n - 2 OBVIOUS
<1>7. CutTo(M) /\ M \in 2 .. Len(cstack) BY <1>1, <1>3, <1>4, <1>6 DEF lua_yield
<1>8. Len(cstack') + 1 = M BY <1>7, CutDown
<1>9. dropped = SubSeq(cstack, M, n) BY <1>3, <1>8
<1>10. /\ cstack \in Seq(Activation) /\ M \in Int /\ n \in Int /\ M <= n /\ n - M + 1 = 3
       /\ \A i \in M .. n : cstack[i] \in Activation
  <2>1. cstack \in Seq(Activation) BY DEF CallInv, TypeOK
  <2>2. \A i \in M .. n : i \in 1 .. Len(cstack) BY <1>3, <1>7
  <2> QED BY <1>4, <1>6, <2>1, <2>2, ElementOfSeq
<1>11. Len(dropped) = 3 /\ \A i \in 1 .. 3 : dropped[i] = cstack[M + i - 1]
  <2>1. /\ SubSeq(cstack, M, n) \in Seq(Activation)
        /\ Len(SubSeq(cstack, M, n)) = IF M <= n THEN n - M + 1 ELSE 0
        /\ \A i \in 1 .. n - M + 1 : SubSeq(cstack, M, n)[i] = cstack[M + i - 1]
    BY <1>10, SubSeqProperties
  <2> QED BY <1>9, <1>10, <2>1
<1>12. M + 1 - 1 = n - 2 /\ M + 2 - 1 = n - 1 /\ M + 3 - 1 = n /\ 1 \in 1 .. 3 /\ 2 \in 1 .. 3 /\ 3 \in 1 .. 3
  BY <1>4, <1>6
<1>13. \A i \in 1 .. 3 : i = 1 \/ i = 2 \/ i = 3 OBVIOUS
<1>14. dropped[1] = cstack[n - 2] /\ dropped[2] = cstack[n - 1] /\ dropped[3] = cstack[n] BY <1>11, <1>12
<1>15. /\ cstack[n - 2].k = "resume" /\ cstack[n - 1].k = "exec"
       /\ cstack[n].th = t /\ cstack[n - 1].th = t /\ cstack[n - 2].th = t
  BY <1>4, <1>5
<1>16. dropped[1].k = "resume" /\ dropped[2].k = "exec" BY <1>14, <1>15
<1>17. \A i \in 1 .. 3 : dropped[i].th = t BY <1>13, <1>14, <1>15
<1> QED BY <1>11, <1>16, <1>17 DEF CutClean

\* A yield that lua_yield accepts cuts off lua_resume, one luaV_execute and the
\* yielding function, all of the coroutine that yields: its test of nCcalls against
\* baseCcalls leaves no luaD_call to be lost, not even one by a hook or finalizer.
THEOREM YieldsAreClean == Spec => YieldClean
<1>1. ASSUME CallInv, [Next]_callVars
      PROVE  [\A t \in Co : status[t] # "yield" /\ status'[t] = "yield" =>
                LET dropped == SubSeq(cstack, Len(cstack') + 1, Len(cstack))
                IN  /\ Len(dropped) = 3
                    /\ dropped[1].k = "resume" /\ dropped[2].k = "exec"
                    /\ \A i \in 1 .. 3 : dropped[i].th = t]_callVars
  <2>1. CASE UNCHANGED callVars BY <2>1
  <2>2. CASE Next
    <3>1. CASE KeepsStates
      <4>1. \A t \in Co : status[t] # "yield" => status'[t] # "yield" BY <3>1 DEF KeepsStates, Thread
      <4> QED BY <4>1
    <3>2. CASE lua_yield
      <4>1. PICK dropped : dropped = SubSeq(cstack, Len(cstack') + 1, Len(cstack)) OBVIOUS
      <4>2. ASSUME NEW t \in Co, status[t] # "yield", status'[t] = "yield"
            PROVE  /\ Len(dropped) = 3 /\ dropped[1].k = "resume" /\ dropped[2].k = "exec"
                   /\ \A i \in 1 .. 3 : dropped[i].th = t
        <5>1. CutClean(dropped, t) BY <1>1, <3>2, <4>1, <4>2, YieldDrops
        <5> QED BY <5>1 DEF CutClean
      <4> QED BY <4>1, <4>2
    <3> QED BY <1>1, <2>2, <3>1, <3>2, NextMoves
  <2> QED BY <1>1, <2>1, <2>2
<1> QED BY <1>1, InitInv, NextInv, PTL DEF Spec, YieldClean
=============================================================================
