---------------------------- MODULE LuaGC_proofs ----------------------------
(***************************************************************************)
(* The collector: the types of its state, marking, and that its steps preserve *)
(* the inductive invariant IInv.                                              *)
(***************************************************************************)
EXTENDS LuaGCInv, WellFoundedInduction, TLAPS

-----------------------------------------------------------------------------
(* Marking.                                                                *)

LEMMA UpValueType ==
  ASSUME TypeOK, NEW u \in Upv
  PROVE  /\ UpValue(u) \in Val
         /\ IsOpen(u) => home[u] \in Thr \X Reg /\ home[u][1] \in Thr /\ home[u][2] \in Reg
<1>1. CASE IsOpen(u)
  <2>1. home[u] \in Thr \X Reg
    BY <1>1 DEF IsOpen, TypeOK
  <2>2. home[u][1] \in Thr /\ home[u][2] \in Reg
    BY <2>1
  <2> QED BY <1>1, <2>1, <2>2 DEF UpValue, TypeOK
<1>2. CASE ~IsOpen(u)
  BY <1>2 DEF UpValue, TypeOK
<1> QED BY <1>1, <1>2

\* Marking returns white objects, the white ones it was asked for among them,
\* and is closed: a marked upvalue or userdata has no white child left.
LEMMA MarkFacts ==
  ASSUME TypeOK, NEW S, NEW W \in SUBSET Obj
  PROVE  LET M == reallymarkobject(S, W)
         IN  /\ M \subseteq W /\ S \cap W \subseteq M
             /\ \A o \in M \cap (Upv \cup Udt) : Children(o) \cap W \subseteq M
<1> DEFINE a == S \cap W
           b == a \cup {r \in W : \E u \in a \cap Upv : r \in Children(u)}
           M == b \cup {r \in W : \E d \in b \cap Udt : r \in Children(d)}
<1>1. M \subseteq W /\ a \subseteq M
  OBVIOUS
<1>2. \A u \in Upv : Children(u) \cap Upv = {}
  BY UpValueType, ConstAssumption DEF Children, Val
<1>3. \A d \in Udt : Children(d) \subseteq Tab
  BY ConstAssumption DEF Children, TypeOK, Obj
<1>4. ASSUME NEW o \in M \cap Upv PROVE Children(o) \cap W \subseteq M
  <2>1. o \in a
    BY <1>2, <1>3, ConstAssumption
  <2> QED BY <2>1
<1>5. ASSUME NEW o \in M \cap Udt PROVE Children(o) \cap W \subseteq M
  <2>1. o \in b
    BY <1>3, ConstAssumption
  <2> QED BY <2>1
<1> QED BY <1>1, <1>4, <1>5 DEF reallymarkobject

LEMMA PaintType ==
  ASSUME TypeOK, NEW M PROVE Paint(M) \in [Obj -> Colors]
BY DEF Paint, TypeOK, Colors

\* Painting M, white until then, leaves the other objects as they were.
LEMMA PaintFacts ==
  ASSUME TypeOK, NEW M \in SUBSET Obj, color' = Paint(M)
  PROVE  /\ White' = White \ M
         /\ NonWhite' = NonWhite \cup M
         /\ \A o \in Obj : o \notin M => color'[o] = color[o]
         /\ \A o \in M : color'[o] \in {"gray", "black"}
         /\ \A o \in M \cap Listed : color'[o] = "gray"
         /\ \A o \in M \cap Udt : color'[o] = "black"
         /\ \A o \in M \cap Upv : color'[o] = IF IsOpen(o) THEN "gray" ELSE "black"
BY ConstAssumption DEF Paint, White, NonWhite, TypeOK, Colors, Listed, Obj

-----------------------------------------------------------------------------
(* Type correctness.                                                       *)

LEMMA InitTypeOK == Init => TypeOK
BY ConstAssumption DEF Init, TypeOK, InitColor, InitMt, InitEnv, InitVal, InitStack, InitRest,
     NoValues, NoKeys, NoStack, Val, Colors, Phases, Obj

LEMMA markrootType == TypeOK /\ markroot /\ full' \in {"no", "sweep", "mark"} => TypeOK'
BY PaintType DEF markroot, TypeOK, Phases, MarkPhases, Listed, heapVars, udVars

LEMMA BarrierfType ==
  ASSUME TypeOK, NEW o \in Obj, NEW v, barrierf(o, v)
  PROVE  color' \in [Obj -> Colors] /\ gray' \subseteq Listed
<1>1. color \in [Obj -> Colors] /\ gray \subseteq Listed /\ currentwhite \in Colors
  BY DEF TypeOK, Colors
<1> QED BY <1>1, PaintType DEF barrierf

LEMMA BarrierbackType ==
  ASSUME TypeOK, NEW t \in Tab, NEW vs, barrierback(t, vs)
  PROVE  color' \in [Obj -> Colors] /\ grayagain' \subseteq Listed
<1>1. color \in [Obj -> Colors] /\ grayagain \subseteq Listed /\ t \in Listed /\ "gray" \in Colors
  BY DEF TypeOK, Colors, Listed
<1> QED BY <1>1 DEF barrierback

LEMMA CollectorType == TypeOK /\ Collector => TypeOK'
<1> SUFFICES ASSUME TypeOK, Collector PROVE TypeOK'
  OBVIOUS
<1>1. CASE StartCycle
  BY <1>1, markrootType DEF StartCycle
<1>2. CASE RestartFull
  BY <1>2, markrootType DEF RestartFull
<1>3. CASE remarkupvals
  BY <1>3, PaintType DEF remarkupvals, TypeOK, Phases, MarkPhases, AtomicPhases, Listed, heapVars, udVars
<1>4. CASE remarkweak
  BY <1>4, PaintType DEF remarkweak, TypeOK, Phases, MarkPhases, AtomicPhases, Listed, heapVars, udVars
<1>5. CASE remarkgrayagain
  BY <1>5 DEF remarkgrayagain, TypeOK, Phases, MarkPhases, AtomicPhases, Listed, heapVars, udVars
<1>6. CASE separatetmu
  BY <1>6, PaintType DEF separatetmu, TypeOK, Phases, MarkPhases, AtomicPhases, Listed, heapVars, Unfinalized
<1>7. CASE cleartable
  <2>1. /\ val' \in [Tab -> [Node -> Val \cup {prim}]]
        /\ key' \in [Tab -> [Node -> Val \cup {prim, dead}]]
        /\ \A t \in Tab, n \in Array : key'[t][n] = prim
    BY <1>7, ConstAssumption DEF cleartable, TypeOK, Val
  <2> QED BY <1>7, <2>1 DEF cleartable, TypeOK, Phases, SweepPhases, Colors, otherwhite,
          SweepList, heapVars, listVars, udVars
<1>8. CASE EndCycle
  BY <1>8 DEF EndCycle, TypeOK, Phases, heapVars, listVars, udVars
<1>9. ASSUME NEW o \in Listed, propagatemark(o) PROVE TypeOK'
  <2>1. /\ key' \in [Tab -> [Node -> Val \cup {prim, dead}]]
        /\ \A t \in Tab, n \in Array : key'[t][n] = prim
    BY <1>9, ConstAssumption DEF propagatemark, TypeOK, Val, removeentry
  <2>2. weak' \subseteq Tab /\ weakbits' \in [Tab -> SUBSET {"k", "v"}]
    BY <1>9 DEF propagatemark, TypeOK, Mode
  <2>3. color' \in [Obj -> Colors]
    BY <1>9, PaintType DEF propagatemark, Colors
  <2> QED BY <1>9, <2>1, <2>2, <2>3 DEF propagatemark, TypeOK, Listed, udVars
<1>10. ASSUME NEW S \in SUBSET Obj, sweeplist(S), phase' \in Phases, full' = full PROVE TypeOK'
  <2> DEFINE ups == {u \in Upv : IsOpen(u) /\ home[u][1] \in S}
             F == {o \in S \cup ups : Swept(o)}
             closed == {u \in ups \ F : home[u][1] \in F}
  <2>1. color' \in [Obj -> Colors]
    BY <1>10 DEF sweeplist, TypeOK, Colors
  <2>2. uval' = [u \in Upv |-> IF u \in F THEN nil ELSE IF u \in closed THEN UpValue(u) ELSE uval[u]]
    BY <1>10 DEF sweeplist
  <2>3. uval' \in [Upv -> Val]
    BY <2>2, UpValueType DEF TypeOK, Val
  <2>4. home' = Clean(home, F \cup closed, nil) /\ freeobj(F)
    BY <1>10 DEF sweeplist
  <2> HIDE DEF F, closed
  <2>5. home' \in [Upv -> (Thr \X Reg) \cup {nil}]
    BY <2>4 DEF Clean, TypeOK
  <2>6. /\ mt' \in [Tab \cup Udt -> Tab \cup {nil}]
        /\ env' \in [Cls \cup Udt \cup Thr -> Tab \cup {nil}]
        /\ cup' \in [Cls -> Val] /\ upv' \in [Cls -> SUBSET Upv]
    BY <2>4 DEF freeobj, Clean, TypeOK, Val
  <2>7. /\ val' \in [Tab -> [Node -> Val \cup {prim}]]
        /\ key' \in [Tab -> [Node -> Val \cup {prim, dead}]]
        /\ \A t \in Tab, n \in Array : key'[t][n] = prim
        /\ stack' \in [Thr -> [Reg -> Val]]
    BY <2>4, ConstAssumption DEF freeobj, Clean, TypeOK, Val, NoValues, NoKeys, NoStack
  <2>8. /\ tms' \in [Tab -> SUBSET {"k", "v", "gc"}]
        /\ weakbits' \in [Tab -> SUBSET {"k", "v"}]
        /\ finalized' \subseteq Udt
    BY <2>4 DEF freeobj, Clean, TypeOK
  <2> QED BY <1>10, <2>1, <2>3, <2>5, <2>6, <2>7, <2>8 DEF sweeplist, TypeOK
<1>11. ASSUME NEW S \in SUBSET Str, SweepString(S) PROVE TypeOK'
  BY <1>10, <1>11 DEF SweepString, Phases, SweepPhases, Obj, TypeOK
<1>12. ASSUME NEW S \in {{}} \cup {{o} : o \in Obj}, SweepRoot(S) PROVE TypeOK'
  BY <1>10, <1>12 DEF SweepRoot, Phases, SweepPhases, TypeOK
<1>13. ASSUME NEW u \in Udt, NEW s \in Reg, GCTM(u, s) PROVE TypeOK'
  <2>1. stack' \in [Thr -> [Reg -> Val]]
    BY <1>13, ConstAssumption DEF GCTM, TypeOK, Val, Obj
  <2> QED BY <1>13, <2>1 DEF GCTM, TypeOK, Colors, listVars
<1> QED BY <1>1, <1>2, <1>3, <1>4, <1>5, <1>6, <1>7, <1>8, <1>9, <1>11, <1>12, <1>13 DEF Collector

LEMMA RegsType == TypeOK => /\ Regs \subseteq Val /\ CurrEnv \subseteq Tab \cup {nil}
                            /\ RegVal \subseteq Val
BY DEF TypeOK, Regs, CurrEnv, RegVal, Val

LEMMA MutatorType == TypeOK /\ Mutator => TypeOK'
<1> SUFFICES ASSUME TypeOK, Mutator PROVE TypeOK'
  OBVIOUS
<1> USE DEF mutUnchanged, udVars, push
<1>1. ASSUME NEW o \in Obj \ Upv, NEW s \in Reg, link(o, s)
      PROVE  color' \in [Obj -> Colors] /\ stack' \in [Thr -> [Reg -> Val]]
  BY <1>1 DEF link, TypeOK, Colors, Val
<1> Tab \cup Udt \cup Cls \cup Thr \cup Str \subseteq Obj \ Upv
  BY ConstAssumption DEF Obj
<1>2. ASSUME NEW t \in Tab, NEW s \in Reg, luaH_new(t, s) PROVE TypeOK'
  BY <1>1, <1>2 DEF luaH_new, link, TypeOK
<1>3. ASSUME NEW u \in Udt, NEW e \in Tab, NEW s \in Reg, luaS_newudata(u, e, s) PROVE TypeOK'
  BY <1>1, <1>3 DEF luaS_newudata, link, TypeOK
<1>4. ASSUME NEW th \in Thr, NEW s \in Reg, luaE_newthread(th, s) PROVE TypeOK'
  BY <1>1, <1>4 DEF luaE_newthread, link, TypeOK
<1>5. ASSUME NEW x \in Str, NEW s \in Reg, luaS_newlstr(x, s) PROVE TypeOK'
  BY <1>5 DEF luaS_newlstr, TypeOK, Colors, Val
<1>6. ASSUME NEW c \in Cls, NEW e \in Tab, NEW v \in Val, NEW s \in Reg, luaF_newCclosure(c, e, v, s)
      PROVE  TypeOK'
  BY <1>1, <1>6 DEF luaF_newCclosure, link, TypeOK
<1>7. ASSUME NEW c \in Cls, NEW u \in Upv, NEW s \in Reg, f_parser(c, u, s) PROVE TypeOK'
  <2>1. color' \in [Obj -> Colors] BY <1>7 DEF f_parser, TypeOK, Colors
  <2>2. stack' \in [Thr -> [Reg -> Val]] BY <1>7 DEF f_parser, TypeOK, Val
  <2>3. env' \in [Cls \cup Udt \cup Thr -> Tab \cup {nil}] /\ upv' \in [Cls -> SUBSET Upv]
    BY <1>7 DEF f_parser, TypeOK
  <2> QED BY <1>7, <2>1, <2>2, <2>3 DEF f_parser, TypeOK
<1>8. ASSUME NEW c \in Cls, NEW e \in Tab, NEW u \in Upv, NEW l \in Reg, NEW s \in Reg,
             luaF_newLclosure(c, e, u, l, s)
      PROVE  TypeOK'
  <2>1. home' \in [Upv -> (Thr \X Reg) \cup {nil}]
    BY <1>8 DEF luaF_newLclosure, luaF_findupval, TypeOK
  <2>2. color' \in [Obj -> Colors]
    BY <1>8 DEF luaF_newLclosure, TypeOK, Colors
  <2>3. stack' \in [Thr -> [Reg -> Val]]
    BY <1>8 DEF luaF_newLclosure, TypeOK, Val
  <2>4. env' \in [Cls \cup Udt \cup Thr -> Tab \cup {nil}] /\ upv' \in [Cls -> SUBSET Upv]
    BY <1>8 DEF luaF_newLclosure, TypeOK
  <2> QED BY <1>8, <2>1, <2>2, <2>3, <2>4 DEF luaF_newLclosure, TypeOK
<1>9. ASSUME NEW c \in Cls, NEW d \in Cls, NEW u \in Upv, NEW s \in Reg, ShareUpval(c, d, u, s)
      PROVE  TypeOK'
  <2>1. color' \in [Obj -> Colors] /\ stack' \in [Thr -> [Reg -> Val]]
    BY <1>1, <1>9 DEF ShareUpval
  <2>2. env' \in [Cls \cup Udt \cup Thr -> Tab \cup {nil}] /\ upv' \in [Cls -> SUBSET Upv]
    BY <1>9 DEF ShareUpval, TypeOK
  <2> QED BY <1>9, <2>1, <2>2 DEF ShareUpval, link, TypeOK
<1>10. ASSUME NEW v \in Val, NEW s \in Reg, Load(v, s) PROVE TypeOK'
  BY <1>10 DEF Load, TypeOK
<1>11. ASSUME NEW th \in Thr, NEW v \in Val, NEW s \in Reg, Resume(th, v, s) PROVE TypeOK'
  BY <1>11 DEF Resume, TypeOK
<1>12. ASSUME NEW v \in Val, NEW s \in Reg, Yield(v, s) PROVE TypeOK'
  BY <1>12 DEF Yield, TypeOK
<1>13. ASSUME NEW t \in Tab, NEW n \in Node, NEW k \in (Obj \ Upv) \cup {prim},
              NEW v \in Val \cup {prim}, SetTable(t, n, k, v)
       PROVE  TypeOK'
  <2>1. color' \in [Obj -> Colors] /\ grayagain' \subseteq Listed
    BY <1>13, BarrierbackType DEF SetTable
  <2>2. /\ val' \in [Tab -> [Node -> Val \cup {prim}]]
        /\ key' \in [Tab -> [Node -> Val \cup {prim, dead}]]
        /\ \A x \in Tab, m \in Array : key'[x][m] = prim
    BY <1>13, ConstAssumption DEF SetTable, TypeOK, Val
  <2> QED BY <1>13, <2>1, <2>2 DEF SetTable, TypeOK
<1>14. ASSUME NEW t \in Tab, NEW m \in Tab \cup {nil}, SetTableMeta(t, m) PROVE TypeOK'
  BY <1>14, BarrierbackType DEF SetTableMeta, TypeOK
<1>15. ASSUME NEW u \in Udt, NEW m \in Tab \cup {nil}, SetUdataMeta(u, m) PROVE TypeOK'
  BY <1>15, BarrierfType DEF SetUdataMeta, TypeOK
<1>16. ASSUME NEW m \in Tab \cup {nil}, SetBasicMeta(m) PROVE TypeOK'
  BY <1>16 DEF SetBasicMeta, TypeOK
<1>17. ASSUME NEW t \in Tab, NEW E \in Events, SetTM(t, E) PROVE TypeOK'
  BY <1>17, ConstAssumption DEF SetTM, TypeOK
<1>18. ASSUME NEW o \in Cls \cup Udt \cup Thr, NEW e \in Tab, SetFenv(o, e) PROVE TypeOK'
  BY <1>18, BarrierfType DEF SetFenv, TypeOK
<1>19. ASSUME NEW c \in Cls, NEW u \in Upv, NEW v \in Val, SetUpval(c, u, v) PROVE TypeOK'
  <2>1. color' \in [Obj -> Colors] /\ gray' \subseteq Listed
    BY <1>19, BarrierfType DEF SetUpval, Obj
  <2>2. stack' \in [Thr -> [Reg -> Val]] /\ uval' \in [Upv -> Val]
    <3>1. WriteUpval(u, v)
      BY <1>19 DEF SetUpval
    <3>0. stack \in [Thr -> [Reg -> Val]] /\ uval \in [Upv -> Val]
      BY DEF TypeOK
    <3>2. CASE IsOpen(u)
      <4> DEFINE th == home[u][1]
                 l == home[u][2]
      <4>1. th \in Thr /\ l \in Reg
        BY <3>2, UpValueType
      <4>2. stack' = [stack EXCEPT ![th][l] = v] /\ uval' = uval
        BY <3>1, <3>2 DEF WriteUpval
      <4> HIDE DEF th, l
      <4> QED BY <3>0, <4>1, <4>2
    <3>3. CASE ~IsOpen(u)
      BY <3>0, <3>1, <3>3 DEF WriteUpval
    <3> QED BY <3>2, <3>3
  <2> QED BY <1>19, <2>1, <2>2 DEF SetUpval, TypeOK
<1>20. ASSUME NEW c \in Cls, NEW v \in Val, SetCUpvalue(c, v) PROVE TypeOK'
  BY <1>20, BarrierfType DEF SetCUpvalue, TypeOK
<1>21. ASSUME NEW l \in Reg, luaF_close(l) PROVE TypeOK'
  <2>1. color' \in [Obj -> Colors]
    BY <1>21, PaintType DEF luaF_close, TypeOK, Colors
  <2>2. uval' \in [Upv -> Val] /\ home' \in [Upv -> (Thr \X Reg) \cup {nil}]
    BY <1>21, UpValueType DEF luaF_close, TypeOK, Clean, Val
  <2> QED BY <1>21, <2>1, <2>2 DEF luaF_close, TypeOK, Listed
<1>22. CASE luaC_fullgc
  <2>1. CASE markroot /\ full' = "mark"
    BY <2>1, markrootType
  <2>2. CASE ~markroot
    BY <1>22, <2>2 DEF luaC_fullgc, TypeOK, SweepList, heapVars, listVars, Phases, SweepPhases
  <2> QED BY <1>22, <2>1, <2>2 DEF luaC_fullgc, TypeOK, SweepList, heapVars, listVars, Phases, SweepPhases
<1> QED BY <1>2, <1>3, <1>4, <1>5, <1>6, <1>7, <1>8, <1>9, <1>10, <1>11, <1>12, <1>13, <1>14,
           <1>15, <1>16, <1>17, <1>18, <1>19, <1>20, <1>21, <1>22 DEF Mutator

LEMMA StepTypeOK == TypeOK /\ [Next]_vars => TypeOK'
<1> SUFFICES ASSUME TypeOK, [Next]_vars PROVE TypeOK'
  OBVIOUS
<1>1. CASE UNCHANGED vars
  BY <1>1 DEF vars, heapVars, listVars, udVars, TypeOK
<1> QED BY <1>1, CollectorType, MutatorType DEF Next

\* The variables keep their types, whatever the sizes of the heap.
THEOREM TypeCorrect == Spec => []TypeOK
BY InitTypeOK, StepTypeOK, PTL DEF Spec

-----------------------------------------------------------------------------
(* Steps that leave the heap alone.                                          *)

\* A step that keeps the set of live objects and every pointer, but for the keys
\* of empty entries, keeps what does not depend on the phase.
LEMMA HeapSame ==
  ASSUME IInv,
         UNCHANGED <<mt, env, val, stack, cup, upv, home, uval, gmt, running, resumer>>,
         key' = key \/ \E t \in Tab : key' = [key EXCEPT ![t] = removeentry(t)],
         \A o \in Obj : (Live(o)' <=> Live(o)) /\ (color'[o] = "free" <=> color[o] = "free"),
         \A u \in tmudata' : u \in Obj /\ Live(u)
  PROVE  NoDangling' /\ FreeBlank' /\ OpenInv' /\ ActiveInv'
<1> USE DEF IInv
<1>1. \A t \in Tab : \A n \in Node : val[t][n] # nil => key'[t][n] = key[t][n]
  <2>1. CASE key' = key
    BY <2>1
  <2>2. ASSUME NEW t0 \in Tab, key' = [key EXCEPT ![t0] = removeentry(t0)]
        PROVE  \A t \in Tab : \A n \in Node : val[t][n] # nil => key'[t][n] = key[t][n]
    BY <2>2 DEF removeentry, TypeOK
  <2> QED BY <2>1, <2>2
<1>2. \A o \in Obj : Refs(o)' = Refs(o)
  BY <1>1 DEF Refs, traverseclosure, traversestack, UpValue, IsOpen
<1>3. NoDangling'
  <2>1. \A o \in (Roots \cup tmudata)' : o \in Obj /\ Live(o)
    BY DEF NoDangling, Roots
  <2> QED BY <1>2, <2>1 DEF NoDangling, Refs
<1>4. FreeBlank'
  BY DEF FreeBlank
<1>5. OpenInv'
  BY UpValueType DEF OpenInv, IsOpen, Obj
<1>6. ActiveInv'
  <2>1. Active' = Active /\ Active \subseteq Obj
    BY ConstAssumption DEF Active, Obj
  <2>2. \A x \in Active' : Live(x)'
    BY <2>1 DEF ActiveInv
  <2> QED BY <2>1, <2>2 DEF ActiveInv
<1> QED BY <1>3, <1>4, <1>5, <1>6

-----------------------------------------------------------------------------
(* Marking steps.                                                          *)

\* Out of the sweep no object is dead, so painting existing objects neither
\* frees nor kills any.
LEMMA MarkStep ==
  ASSUME IInv, phase \notin SweepPhases, UNCHANGED currentwhite,
         NEW M \in SUBSET Obj, \A o \in M : color[o] # "free" /\ color'[o] \in {"gray", "black"},
         \A o \in Obj : o \notin M => color'[o] = color[o]
  PROVE  /\ \A o \in Obj : (Live(o)' <=> Live(o)) /\ (color'[o] = "free" <=> color[o] = "free")
         /\ \A o \in Obj : ~isdead(o) /\ ~isdead(o)'
<1> USE DEF IInv
<1>1. \A o \in Obj : ~isdead(o)
  BY DEF WhiteInv, isdead, otherwhite, TypeOK, Phases
<1>2. otherwhite' = otherwhite /\ otherwhite \in {"w0", "w1"}
  BY DEF otherwhite
<1>3. \A o \in Obj : ~isdead(o)'
  BY <1>1, <1>2 DEF isdead
<1>4. \A o \in Obj : (Live(o)' <=> Live(o)) /\ (color'[o] = "free" <=> color[o] = "free")
  BY <1>1, <1>3 DEF Live, Swept
<1> QED BY <1>1, <1>3, <1>4

LEMMA PaintColorInv ==
  ASSUME IInv, NEW M \in SUBSET Obj, color' = Paint(M), UNCHANGED home
  PROVE  ColorInv'
<1> USE DEF IInv
<1>1. \A o \in Obj : o \notin M => color'[o] = color[o]
  BY PaintFacts
<1>2. \A o \in M \cap Thr : color'[o] = "gray"
  BY PaintFacts DEF Listed
<1>3. \A o \in M \cap Udt : color'[o] = "black"
  BY PaintFacts
<1>4. \A o \in M \cap Upv : color'[o] = IF IsOpen(o) THEN "gray" ELSE "black"
  BY PaintFacts
<1> QED BY <1>1, <1>2, <1>3, <1>4 DEF ColorInv, IsOpen

LEMMA HeldSmall ==
  ASSUME TypeOK, NEW o \in Udt \cup Upv \cup Str
  PROVE  Held(o) = Children(o) /\ (o \in Str => Held(o) = {})
BY ConstAssumption DEF Held, Refs, Children, Obj

LEMMA SameChildren ==
  ASSUME TypeOK, UNCHANGED <<mt, env, val, stack, cup, upv, home, uval, tms, resumer>>,
         key' = key \/ \E t \in Tab : key' = [key EXCEPT ![t] = removeentry(t)]
  PROVE  \A o \in Obj : Children(o)' = Children(o) /\ Held(o)' \subseteq Held(o)
<1>1. ASSUME NEW t \in Tab, NEW n \in Node
      PROVE  /\ val[t][n] # nil => key'[t][n] = key[t][n]
             /\ key'[t][n] \in {key[t][n], dead}
  <2>1. CASE key' = key
    BY <2>1
  <2>2. ASSUME NEW t0 \in Tab, key' = [key EXCEPT ![t0] = removeentry(t0)]
        PROVE  /\ val[t][n] # nil => key'[t][n] = key[t][n]
               /\ key'[t][n] \in {key[t][n], dead}
    BY <2>2 DEF removeentry, TypeOK
  <2> QED BY <2>1, <2>2
<1>2. ASSUME NEW o \in Obj PROVE Children(o)' = Children(o)
  BY <1>1 DEF Children, traversetable, Mode, traverseclosure, traversestack, UpValue, IsOpen
<1>3. ASSUME NEW o \in Obj PROVE Held(o)' \subseteq Held(o)
  BY <1>1, ConstAssumption DEF Held, Refs, traverseclosure, traversestack, UpValue, IsOpen
<1> QED BY <1>2, <1>3

\* What is painted is pending, or small and marked with its children; so it is
\* enough to look at the objects that were marked before.
LEMMA MarkedHold ==
  ASSUME TypeOK, NEW M \in SUBSET Obj, White' = White \ M, NonWhite' = NonWhite \cup M,
         \A o \in M : Held(o)' \subseteq Held(o),
         NEW W, White \subseteq W, weak' \subseteq Tab,
         \A o \in M \cap (Upv \cup Udt) : Children(o) \cap W \subseteq M,
         M \cap Listed \subseteq Pending',
         \A o \in (NonWhite \ M) \ Pending' :
            (IF o \in weak THEN Children(o) ELSE Held(o))' \cap White \subseteq M
  PROVE  \A o \in NonWhite' \ Pending' :
            ((IF o \in weak THEN Children(o) ELSE Held(o)) \cap White)' = {}
<1> SUFFICES ASSUME NEW o \in NonWhite' \ Pending'
             PROVE  ((IF o \in weak THEN Children(o) ELSE Held(o)) \cap White)' = {}
  OBVIOUS
<1>1. CASE o \in M
  <2>1. o \in Udt \cup Upv \cup Str
    BY <1>1 DEF Listed, Obj
  <2>2. o \notin weak'
    BY <2>1, ConstAssumption
  <2>3. Held(o)' \cap White \subseteq M
    BY <1>1, <2>1, HeldSmall
  <2> QED BY <2>2, <2>3
<1>2. CASE o \notin M
  BY <1>2
<1> QED BY <1>1, <1>2

\* A step from one stage of the marking to the next, M being what it paints.
LEMMA MarkingStep ==
  ASSUME IInv, TypeOK', phase \in MarkPhases, phase' \in MarkPhases,
         UNCHANGED <<mt, env, val, stack, cup, upv, home, uval, tms, gmt, running, resumer,
                     currentwhite, unswept>>,
         key' = key \/ \E t \in Tab : key' = [key EXCEPT ![t] = removeentry(t)],
         NEW M \in SUBSET Obj, \A o \in M : color[o] # "free" /\ color'[o] \in {"gray", "black"},
         \A o \in Obj : o \notin M => color'[o] = color[o],
         tmudata' \subseteq finalized', \A u \in tmudata' : color[u] # "free"
  PROVE  NoDangling' /\ FreeBlank' /\ OpenInv' /\ ActiveInv' /\ WhiteInv' /\ TmuInv'
<1> USE DEF IInv
<1>1. phase \notin SweepPhases /\ phase' \notin SweepPhases /\ unswept = {}
  BY DEF MarkPhases, SweepPhases, AtomicPhases, TmuInv
<1>2. /\ \A o \in Obj : (Live(o)' <=> Live(o)) /\ (color'[o] = "free" <=> color[o] = "free")
      /\ \A o \in Obj : ~isdead(o) /\ ~isdead(o)'
  BY <1>1, MarkStep
<1>3. \A u \in tmudata' : u \in Obj /\ Live(u)
  BY <1>2 DEF Live, Swept, TypeOK, Obj
<1>4. NoDangling' /\ FreeBlank' /\ OpenInv' /\ ActiveInv'
  BY <1>2, <1>3, HeapSame
<1>5. WhiteInv'
  BY <1>2 DEF WhiteInv
<1>6. TmuInv'
  BY <1>1, <1>2, <1>3 DEF TmuInv
<1> QED BY <1>4, <1>5, <1>6

LEMMA markrootSafe ==
  ASSUME IInv, phase \in {"pause", "finalize"}, markroot, full' \in {"no", "sweep", "mark"}
  PROVE  IInv'
<1> USE DEF IInv
<1> DEFINE M == reallymarkobject({main, env[main], registry, gmt}, White)
<1>1. TypeOK'
  BY markrootType
<1>2. M \subseteq White /\ {main, env[main], registry, gmt} \cap White \subseteq M
  BY MarkFacts DEF White
<1>3. \A o \in M \cap (Upv \cup Udt) : Children(o) \cap White \subseteq M
  BY MarkFacts DEF White
<1>4. color' = Paint(M) /\ gray' = M \cap Listed /\ UNCHANGED <<heapVars, currentwhite, tmudata, finalized, unswept>>
      /\ phase' = "propagate" /\ grayagain' = {} /\ weak' = {}
  BY DEF markroot, udVars
<1> HIDE DEF M
<1>5. M \subseteq Obj /\ \A o \in M : color[o] # "free"
  BY <1>2 DEF White
<1>10. /\ \A o \in Obj : o \notin M => color'[o] = color[o]
       /\ \A o \in M : color'[o] \in {"gray", "black"}
       /\ \A o \in M \cap Listed : color'[o] = "gray"
       /\ NonWhite' = NonWhite \cup M /\ White' = White \ M
  BY <1>4, <1>5, PaintFacts
<1>6. /\ \A o \in Obj : (Live(o)' <=> Live(o)) /\ (color'[o] = "free" <=> color[o] = "free")
      /\ \A o \in Obj : ~isdead(o) /\ ~isdead(o)'
      /\ ColorInv'
  BY <1>4, <1>5, <1>10, MarkStep, PaintColorInv DEF heapVars, SweepPhases
<1>7. NoDangling' /\ FreeBlank' /\ OpenInv' /\ ActiveInv'
  BY <1>4, <1>6, HeapSame DEF heapVars, TmuInv, TypeOK, Obj
<1>8. WhiteInv' /\ TmuInv'
  BY <1>4, <1>6 DEF WhiteInv, TmuInv, MarkPhases, SweepPhases, TypeOK, Obj
<1>9. NonWhite \subseteq tmudata /\ White \cap {main, registry} = {main, registry}
  <2>1. color[main] # "free" /\ color[registry] # "free"
    BY ConstAssumption DEF NoDangling, Roots, Live, Obj
  <2>2. phase \notin MarkPhases /\ phase \notin SweepPhases
    BY DEF MarkPhases, SweepPhases, AtomicPhases
  <2>3. \A o \in Obj : color[o] \notin {"free", currentwhite} => o \in tmudata
    BY <2>2 DEF WhiteInv
  <2>4. main \notin tmudata /\ registry \notin tmudata
    BY ConstAssumption DEF TypeOK
  <2>5. main \in Obj /\ registry \in Obj /\ currentwhite \in {"w0", "w1"}
    BY ConstAssumption DEF TypeOK, Obj
  <2>6. NonWhite \subseteq tmudata
    BY <2>3, <2>5 DEF NonWhite
  <2> QED BY <2>1, <2>3, <2>4, <2>5, <2>6 DEF White
<1>11. GrayInv' /\ OneGclist'
  BY <1>4, <1>9, <1>10, <1>6, ConstAssumption DEF GrayInv, OneGclist, ColorInv, NonWhite, IsOpen, Listed, TypeOK, Obj
<1>13. KeyInv'
  <2>1. \A t \in Tab : t \in Obj /\ t \notin NonWhite
    BY <1>9, ConstAssumption DEF TypeOK, Obj
  <2>2. \A t \in Tab : color'[t] # "black"
    BY <1>10, <2>1 DEF NonWhite, Listed
  <2> QED BY <2>2 DEF KeyInv, isblack
<1>12. MarkInv'
  <2>1. tmudata \cup (M \cap Listed) \subseteq Pending'
    BY <1>4 DEF Pending
  <2>2. \A o \in NonWhite' \ Pending' :
            ((IF o \in weak THEN Children(o) ELSE Held(o)) \cap White)' = {}
    <3>1. NonWhite \subseteq Pending'
      BY <1>9, <2>1
    <3>2. \A o \in Obj : Held(o)' \subseteq Held(o)
      BY <1>4, SameChildren DEF heapVars
    <3> QED BY <1>3, <1>4, <1>5, <1>10, <2>1, <3>1, <3>2, MarkedHold
  <2>3. {main, registry} \subseteq NonWhite'
    BY <1>2, <1>9, <1>10
  <2> QED BY <1>4, <2>2, <2>3 DEF MarkInv
<1> QED BY <1>1, <1>6, <1>7, <1>8, <1>11, <1>12, <1>13

LEMMA propagatemarkSafe ==
  ASSUME IInv, NEW o \in Listed, propagatemark(o), TypeOK'
  PROVE  IInv'
<1> USE DEF IInv
<1> DEFINE M == reallymarkobject(Children(o), White)
           isweak == o \in Tab /\ Mode(o) # {}
           strong == o \in Cls \/ (o \in Tab /\ Mode(o) = {})
<1>1. M \subseteq White /\ Children(o) \cap White \subseteq M
  BY MarkFacts DEF White
<1>2. \A x \in M \cap (Upv \cup Udt) : Children(x) \cap White \subseteq M
  BY MarkFacts DEF White
<1>3. /\ phase \in MarkPhases /\ phase' = phase /\ o \in gray
      /\ UNCHANGED <<full, currentwhite, unswept, tmudata, finalized, mt, env, val, stack,
                     cup, upv, home, uval, tms, gmt, running, resumer>>
      /\ color' = [Paint(M) EXCEPT ![o] = IF o \in Thr \/ isweak THEN "gray" ELSE "black"]
      /\ gray' = (gray \ {o}) \cup (M \cap Listed)
      /\ grayagain' = (IF o \in Thr THEN grayagain \cup {o} ELSE grayagain)
      /\ weak' = (IF isweak THEN weak \cup {o} ELSE weak)
      /\ weakbits' = (IF isweak THEN [weakbits EXCEPT ![o] = Mode(o)] ELSE weakbits)
      /\ key' = (IF o \in Tab /\ Mode(o) # {"k", "v"}
                 THEN [key EXCEPT ![o] = removeentry(o)] ELSE key)
  BY DEF propagatemark, udVars
<1> HIDE DEF M
<1>4. color[o] = "gray" /\ o \notin M /\ o \in Obj /\ o \notin grayagain /\ o \notin weak
  BY <1>1, <1>3 DEF OneGclist, White, Listed, Obj
<1>5. /\ \A x \in Obj : x # o /\ x \notin M => color'[x] = color[x]
      /\ \A x \in M : color[x] # "free" /\ color'[x] \in {"gray", "black"}
      /\ \A x \in M \cap Listed : color'[x] = "gray"
      /\ \A x \in M \cap Udt : color'[x] = "black"
      /\ \A x \in M \cap Upv : color'[x] = IF IsOpen(x) THEN "gray" ELSE "black"
      /\ color'[o] = (IF strong THEN "black" ELSE "gray")
  <2>1. M \subseteq Obj /\ \A x \in M : color[x] # "free"
    BY <1>1 DEF White
  <2>2. \A x \in Obj : x # o => color'[x] = Paint(M)[x]
    BY <1>3, PaintType
  <2>3. color'[o] = (IF o \in Thr \/ isweak THEN "gray" ELSE "black")
    BY <1>3, <1>4, PaintType
  <2>4. color'[o] = (IF strong THEN "black" ELSE "gray")
    BY <2>3, ConstAssumption DEF Listed
  <2>5. \A x \in Obj : Paint(M)[x] =
           IF x \notin M THEN color[x]
           ELSE IF x \in Udt \/ (x \in Upv /\ ~IsOpen(x)) THEN "black" ELSE "gray"
    BY DEF Paint
  <2>6. \A x \in M : x # o /\ (x \in Listed => x \notin Udt \cup Upv) /\ (x \in Upv => x \notin Udt)
    BY <1>4, ConstAssumption DEF Listed
  <2> HIDE DEF strong, isweak
  <2> QED BY <2>1, <2>2, <2>4, <2>5, <2>6
<1>6. M \cup {o} \subseteq Obj /\ White' = White \ M /\ NonWhite' = NonWhite \cup M
  BY <1>1, <1>4, <1>5 DEF White, NonWhite
<1>7. NoDangling' /\ FreeBlank' /\ OpenInv' /\ ActiveInv' /\ WhiteInv' /\ TmuInv'
  <2>1. \A x \in M \cup {o} : color[x] # "free" /\ color'[x] \in {"gray", "black"}
    BY <1>4, <1>5
  <2>2. \A x \in Obj : x \notin M \cup {o} => color'[x] = color[x]
    BY <1>5
  <2>3. key' = key \/ \E t \in Tab : key' = [key EXCEPT ![t] = removeentry(t)]
    BY <1>3
  <2>4. tmudata' \subseteq finalized' /\ \A u \in tmudata' : color[u] # "free"
    BY <1>3 DEF TmuInv, Live
  <2> QED BY <1>3, <1>6, <2>1, <2>2, <2>3, <2>4, MarkingStep
<1>8. ColorInv'
  BY <1>3, <1>4, <1>5, ConstAssumption DEF ColorInv, IsOpen, Listed
<1>9. OneGclist'
  <2>1. \A x \in M : x \notin gray \cup grayagain \cup weak
    BY <1>1, <1>3 DEF OneGclist, White
  <2>2. \A x \in gray' \cup grayagain' \cup weak' :
           x \in Obj /\ (x # o => x \in M \cap Listed \/ (x \notin M /\ color[x] = "gray"))
    BY <1>3, <1>4, <2>1 DEF OneGclist, Listed, TypeOK, Obj
  <2>3. o \in gray' \cup grayagain' \cup weak' => color'[o] = "gray"
    BY <1>3, <1>4, <1>5, ConstAssumption
  <2>4. \A x \in gray' \cup grayagain' \cup weak' : color'[x] = "gray"
    BY <1>5, <2>2, <2>3
  <2>5. gray' \cap grayagain' = {} /\ gray' \cap weak' = {} /\ grayagain' \cap weak' = {}
    BY <1>3, <1>4, <2>1, ConstAssumption DEF OneGclist
  <2> QED BY <2>4, <2>5 DEF OneGclist
<1>10. GrayInv'
  BY <1>3, <1>4, <1>5, ConstAssumption DEF GrayInv, IsOpen, Listed, Obj
<1>11. MarkInv'
  <2>1. \A x \in Obj : Children(x)' = Children(x) /\ Held(x)' \subseteq Held(x)
    BY <1>3, SameChildren
  <2>2. M \cap Listed \subseteq Pending' /\ Pending \ {o} \subseteq Pending'
    BY <1>3, <1>4 DEF Pending, IsOpen
  <2>3. ASSUME o \notin Pending' PROVE (IF o \in weak THEN Children(o) ELSE Held(o))' \cap White \subseteq M
    <3>1. CASE o \in weak'
      BY <1>1, <2>1, <3>1, <1>4
    <3>2. CASE o \notin weak'
      <4>1. CASE o \in Tab
        <5>1. Mode(o) = {} /\ key' = [key EXCEPT ![o] = removeentry(o)]
          BY <1>3, <3>2, <4>1
        <5>2. \A n \in Node : val[o][n] = nil => key'[o][n] \notin Obj
          BY <5>1, <4>1, ConstAssumption DEF removeentry, TypeOK
        <5>3. \A n \in Node : val[o][n] # nil => key'[o][n] = key[o][n]
          BY <5>1, <4>1 DEF removeentry, TypeOK
        <5>4. Held(o)' \subseteq Children(o)
          BY <1>3, <4>1, <5>1, <5>2, <5>3, ConstAssumption DEF Held, Children, traversetable
        <5> QED BY <1>1, <3>2, <5>4
      <4>2. CASE o \notin Tab
        <5>1. Held(o) = Children(o)
          BY <4>2 DEF Held, Refs, Children
        <5> QED BY <1>1, <1>4, <2>1, <3>2, <5>1
      <4> QED BY <4>1, <4>2
    <3> QED BY <3>1, <3>2
  <2>4. ASSUME NEW x \in (NonWhite \ M) \ Pending', x # o
        PROVE  (IF x \in weak THEN Children(x) ELSE Held(x))' \cap White \subseteq M
    <3>1. x \notin Pending /\ (x \in weak <=> x \in weak')
      BY <1>3, <2>2, <2>4
    <3>2. x \in Obj
      BY DEF NonWhite
    <3>3. (IF x \in weak THEN Children(x) ELSE Held(x)) \cap White = {}
      BY <1>3, <3>1 DEF MarkInv
    <3> QED BY <2>1, <3>1, <3>2, <3>3
  <2>5. \A x \in NonWhite' \ Pending' :
            ((IF x \in weak THEN Children(x) ELSE Held(x)) \cap White)' = {}
    <3>1. weak' \subseteq Tab /\ M \subseteq Obj
      BY <1>6 DEF TypeOK
    <3>2. \A x \in M : Held(x)' \subseteq Held(x)
      BY <2>1, <3>1
    <3>3. \A x \in (NonWhite \ M) \ Pending' :
            (IF x \in weak THEN Children(x) ELSE Held(x))' \cap White \subseteq M
      BY <2>3, <2>4
    <3> QED BY <1>2, <1>6, <2>2, <3>1, <3>2, <3>3, MarkedHold
  <2>6. \A t \in Tab : Mode(t)' = Mode(t)
    BY <1>3 DEF Mode
  <2>7. phase \in {"atomic2", "atomic3", "atomic4"} =>
           /\ {running, gmt}' \cap White' = {}
           /\ \A t \in weak' : (weakbits[t] = Mode(t))' /\ Mode(t)' # {}
    BY <1>3, <1>6, <2>6 DEF MarkInv, TypeOK
  <2> QED BY <1>3, <1>6, <2>5, <2>7 DEF MarkInv
<1>12. KeyInv'
  <2> SUFFICES ASSUME phase = "propagate", NEW t \in Tab, color'[t] = "black", NEW n \in Node, key'[t][n] \in Obj
               PROVE  color'[key'[t][n]] # "free"
    BY <1>3 DEF KeyInv, isblack
  <2>1. t \in Obj /\ key'[t][n] = key[t][n]
    BY <1>3, ConstAssumption DEF removeentry, TypeOK, Obj
  <2>2. color[key[t][n]] # "free"
    <3>1. CASE t = o
      <4>1. Mode(o) = {}
        BY <1>5, <3>1, ConstAssumption
      <4>2. val[t][n] # nil
        BY <1>3, <3>1, <4>1, ConstAssumption DEF removeentry, TypeOK
      <4>3. key[t][n] \in Refs(t)
        BY <2>1, <4>2 DEF Refs
      <4>4. Live(t)
        BY <1>4, <3>1 DEF Live, Swept, isdead, otherwhite
      <4> QED BY <2>1, <4>3, <4>4 DEF NoDangling, Live
    <3>2. CASE t # o
      <4>1. isblack(t)
        BY <1>5, <2>1, <3>2 DEF isblack, Listed
      <4> QED BY <2>1, <4>1 DEF KeyInv
    <3> QED BY <3>1, <3>2
  <2> QED BY <1>4, <1>5, <2>1, <2>2
<1> QED BY <1>7, <1>8, <1>9, <1>10, <1>11, <1>12

\* The steps between two stages of `atomic': they paint M, with its children, and
\* move objects between the lists.
LEMMA StageStep ==
  ASSUME IInv, TypeOK', phase \in MarkPhases, phase' \in AtomicPhases,
         UNCHANGED <<heapVars, currentwhite, unswept, weakbits>>,
         NEW M \in SUBSET Obj, color' = Paint(M), \A o \in M : color[o] # "free",
         tmudata' \subseteq finalized', \A u \in tmudata' : color[u] # "free",
         gray' \cap grayagain' = {}, gray' \cap weak' = {}, grayagain' \cap weak' = {},
         \A o \in gray' \cup grayagain' \cup weak' : o \in M \cap Listed \/ (o \notin M /\ color[o] = "gray"),
         M \cap Listed \subseteq gray',
         NEW W, White \subseteq W, \A o \in M \cap (Upv \cup Udt) : Children(o) \cap W \subseteq M,
         \A o \in (NonWhite \ M) \ Pending' :
            (IF o \in weak' THEN Children(o) ELSE Held(o)) \cap White \subseteq M,
         phase' # "atomic1" => /\ {running, gmt} \cap White \subseteq M
                               /\ \A t \in weak' : weakbits[t] = Mode(t) /\ Mode(t) # {},
         phase' = "atomic4" => tmudata' \cap White \subseteq M
  PROVE  IInv'
<1> USE DEF IInv
<1>1. /\ White' = White \ M /\ NonWhite' = NonWhite \cup M
      /\ \A o \in Obj : o \notin M => color'[o] = color[o]
      /\ \A o \in M : color'[o] \in {"gray", "black"}
      /\ \A o \in M \cap Listed : color'[o] = "gray"
  BY PaintFacts
<1>2. phase' \in MarkPhases /\ phase' # "propagate"
  BY DEF MarkPhases, AtomicPhases
<1>3. NoDangling' /\ FreeBlank' /\ OpenInv' /\ ActiveInv' /\ WhiteInv' /\ TmuInv'
  BY <1>1, <1>2, MarkingStep DEF heapVars
<1>4. ColorInv'
  BY PaintColorInv DEF heapVars
<1>5. OneGclist'
  <2>1. \A o \in (gray \cup grayagain \cup weak)' : o \in Obj
    BY DEF TypeOK, Listed, Obj
  <2> QED BY <1>1, <2>1 DEF OneGclist
<1>6. GrayInv' /\ KeyInv'
  BY <1>2 DEF GrayInv, KeyInv
<1>7. MarkInv'
  <2>1. \A o \in Obj : Children(o)' = Children(o) /\ Held(o)' \subseteq Held(o)
    BY SameChildren DEF heapVars
  <2>2. NonWhite \subseteq Obj /\ weak' \subseteq Tab /\ M \cap Listed \subseteq Pending'
    BY DEF NonWhite, TypeOK, Pending
  <2>3. \A o \in (NonWhite \ M) \ Pending' :
            (IF o \in weak THEN Children(o) ELSE Held(o))' \cap White \subseteq M
    BY <2>1, <2>2
  <2>4. \A o \in NonWhite' \ Pending' :
            ((IF o \in weak THEN Children(o) ELSE Held(o)) \cap White)' = {}
    BY <1>1, <2>1, <2>2, <2>3, MarkedHold
  <2>5. \A t \in Tab : Mode(t)' = Mode(t)
    BY DEF Mode, heapVars
  <2>6. phase' \in {"atomic2", "atomic3", "atomic4"} =>
           /\ {running, gmt}' \cap White' = {}
           /\ \A t \in weak' : (weakbits[t] = Mode(t))' /\ Mode(t)' # {}
    BY <1>1, <2>2, <2>5 DEF heapVars
  <2>7. main \in NonWhite' /\ registry \in NonWhite'
    BY <1>1 DEF MarkInv
  <2>8. phase' = "atomic4" => tmudata' \cap White' = {}
    BY <1>1
  <2> QED BY <2>4, <2>6, <2>7, <2>8 DEF MarkInv
<1> QED BY <1>3, <1>4, <1>5, <1>6, <1>7

LEMMA remarkupvalsSafe ==
  ASSUME IInv, remarkupvals, TypeOK'
  PROVE  IInv'
<1> USE DEF IInv
<1> DEFINE V == {UpValue(u) : u \in {x \in Upv : IsOpen(x) /\ color[x] = "gray"}}
           M == reallymarkobject(V, White)
<1>1. M \subseteq White /\ V \cap White \subseteq M
  BY MarkFacts DEF White
<1>2. \A x \in M \cap (Upv \cup Udt) : Children(x) \cap White \subseteq M
  BY MarkFacts DEF White
<1>3. /\ phase = "propagate" /\ gray = {} /\ phase' = "atomic1"
      /\ color' = Paint(M) /\ gray' = M \cap Listed
      /\ UNCHANGED <<currentwhite, grayagain, weak, weakbits, unswept, tmudata, finalized, heapVars>>
  BY DEF remarkupvals, udVars
<1>4. \A u \in Upv : IsOpen(u) /\ color[u] = "gray" => UpValue(u) \in V
  OBVIOUS
<1> HIDE DEF M, V
<1>5. M \subseteq Obj /\ \A x \in M : color[x] # "free" /\ color[x] # "gray"
  BY <1>1 DEF White
<1>6. \A o \in (NonWhite \ M) \ Pending' :
            (IF o \in weak' THEN Children(o) ELSE Held(o)) \cap White \subseteq M
  <2> SUFFICES ASSUME NEW o \in (NonWhite \ M) \ Pending'
               PROVE  (IF o \in weak' THEN Children(o) ELSE Held(o)) \cap White \subseteq M
    OBVIOUS
  <2>1. CASE o \in Upv /\ IsOpen(o)
    <3>1. color[o] = "gray"
      BY <2>1 DEF ColorInv, NonWhite
    <3>2. Held(o) \cap Obj \subseteq {UpValue(o)} /\ o \notin weak'
      BY <2>1, ConstAssumption DEF Held, Refs, TypeOK
    <3> QED BY <1>1, <1>4, <2>1, <3>1, <3>2 DEF White
  <2>2. CASE ~(o \in Upv /\ IsOpen(o))
    <3>1. o \notin Pending
      BY <1>3, <2>2 DEF Pending
    <3> QED BY <1>3, <3>1 DEF MarkInv, MarkPhases
  <2> QED BY <2>1, <2>2
<1>7. \A o \in gray' \cup grayagain' \cup weak' : o \in M \cap Listed \/ (o \notin M /\ color[o] = "gray")
  BY <1>3, <1>5 DEF OneGclist, MarkPhases
<1>8. gray' \cap grayagain' = {} /\ gray' \cap weak' = {} /\ grayagain' \cap weak' = {}
  BY <1>3, <1>5 DEF OneGclist, MarkPhases
<1>9. tmudata' \subseteq finalized' /\ \A u \in tmudata' : color[u] # "free"
  BY <1>3 DEF TmuInv, Live
<1>10. phase \in MarkPhases /\ phase' \in AtomicPhases /\ phase' = "atomic1"
  BY <1>3 DEF MarkPhases, AtomicPhases
<1> QED BY <1>2, <1>3, <1>5, <1>6, <1>7, <1>8, <1>9, <1>10, StageStep

LEMMA remarkweakSafe ==
  ASSUME IInv, remarkweak, TypeOK'
  PROVE  IInv'
<1> USE DEF IInv
<1> DEFINE M == reallymarkobject({running, gmt}, White)
<1>1. M \subseteq White /\ {running, gmt} \cap White \subseteq M
  BY MarkFacts DEF White
<1>2. \A x \in M \cap (Upv \cup Udt) : Children(x) \cap White \subseteq M
  BY MarkFacts DEF White
<1>3. /\ phase = "atomic1" /\ gray = {} /\ phase' = "atomic2"
      /\ color' = Paint(M) /\ gray' = weak \cup (M \cap Listed) /\ weak' = {}
      /\ UNCHANGED <<currentwhite, grayagain, weakbits, unswept, tmudata, finalized, heapVars>>
  BY DEF remarkweak, udVars
<1> HIDE DEF M
<1>4. M \subseteq Obj /\ \A x \in M : color[x] # "free" /\ color[x] # "gray"
  BY <1>1 DEF White
<1>5. phase \in MarkPhases /\ phase' \in AtomicPhases
  BY <1>3 DEF MarkPhases, AtomicPhases
<1>6. \A o \in (NonWhite \ M) \ Pending' :
            (IF o \in weak' THEN Children(o) ELSE Held(o)) \cap White \subseteq M
  <2>1. Pending \subseteq Pending' /\ weak \subseteq Pending'
    BY <1>3 DEF Pending
  <2> QED BY <1>3, <1>5, <2>1 DEF MarkInv
<1>7. \A o \in gray' \cup grayagain' \cup weak' : o \in M \cap Listed \/ (o \notin M /\ color[o] = "gray")
  BY <1>3, <1>4, <1>5 DEF OneGclist
<1>8. gray' \cap grayagain' = {} /\ gray' \cap weak' = {} /\ grayagain' \cap weak' = {}
  BY <1>3, <1>4, <1>5 DEF OneGclist
<1>9. tmudata' \subseteq finalized' /\ \A u \in tmudata' : color[u] # "free"
  BY <1>3 DEF TmuInv, Live
<1> QED BY <1>1, <1>2, <1>3, <1>4, <1>5, <1>6, <1>7, <1>8, <1>9, StageStep

LEMMA remarkgrayagainSafe ==
  ASSUME IInv, remarkgrayagain, TypeOK'
  PROVE  IInv'
<1> USE DEF IInv
<1>1. /\ phase = "atomic2" /\ gray = {} /\ phase' = "atomic3"
      /\ gray' = grayagain /\ grayagain' = {}
      /\ UNCHANGED <<color, currentwhite, weak, weakbits, unswept, tmudata, finalized, heapVars>>
  BY DEF remarkgrayagain, udVars
<1>2. color' = Paint({})
  BY <1>1 DEF Paint, TypeOK
<1>3. phase \in MarkPhases /\ phase' \in AtomicPhases
  BY <1>1 DEF MarkPhases, AtomicPhases
<1>4. \A o \in NonWhite \ Pending' :
            (IF o \in weak' THEN Children(o) ELSE Held(o)) \cap White = {}
  <2>1. Pending \subseteq Pending'
    BY <1>1 DEF Pending
  <2> QED BY <1>1, <1>3, <2>1 DEF MarkInv
<1>5. \A o \in gray' \cup grayagain' \cup weak' : color[o] = "gray"
  BY <1>1, <1>3 DEF OneGclist
<1>6. gray' \cap grayagain' = {} /\ gray' \cap weak' = {} /\ grayagain' \cap weak' = {}
  BY <1>1, <1>3 DEF OneGclist
<1>7. tmudata' \subseteq finalized' /\ \A u \in tmudata' : color[u] # "free"
  BY <1>1 DEF TmuInv, Live
<1>8. {running, gmt} \cap White = {} /\ \A t \in weak' : weakbits[t] = Mode(t) /\ Mode(t) # {}
  BY <1>1, <1>3 DEF MarkInv
<1> QED BY <1>1, <1>2, <1>3, <1>4, <1>5, <1>6, <1>7, <1>8, StageStep

LEMMA separatetmuSafe ==
  ASSUME IInv, separatetmu, TypeOK'
  PROVE  IInv'
<1> USE DEF IInv
<1> DEFINE tmu == tmudata \cup {u \in Unfinalized : HasGC(u)}
           M == reallymarkobject(tmu, White \cup tmu)
<1>1. tmu \subseteq Udt /\ tmu \subseteq Obj
  BY DEF Unfinalized, TypeOK, Obj
<1>2. M \subseteq White \cup tmu /\ tmu \subseteq M
  BY <1>1, MarkFacts DEF White
<1>3. \A x \in M \cap (Upv \cup Udt) : Children(x) \cap (White \cup tmu) \subseteq M
  <2>1. White \cup tmu \in SUBSET Obj /\ TypeOK BY <1>1 DEF White
  <2> HIDE DEF IInv, tmu
  <2> QED BY <2>1, MarkFacts
<1>4. /\ phase = "atomic3" /\ gray = {} /\ phase' = "atomic4"
      /\ color' = Paint(M) /\ gray' = M \cap Listed
      /\ tmudata' = tmu /\ finalized' = finalized \cup Unfinalized
      /\ UNCHANGED <<currentwhite, grayagain, weak, weakbits, unswept, heapVars>>
  BY DEF separatetmu
<1>5. \A u \in tmu : color[u] # "free" /\ u \in finalized'
  BY <1>4 DEF TmuInv, Live, Unfinalized, White
<1>6. tmudata \subseteq tmu
  OBVIOUS
<1> HIDE DEF tmu, M
<1>7. M \subseteq Obj /\ \A x \in M : color[x] # "free" /\ (x \in Listed => color[x] # "gray")
  BY <1>1, <1>2, <1>5, ConstAssumption DEF White, Listed
<1>8. phase \in MarkPhases /\ phase' \in AtomicPhases
  BY <1>4 DEF MarkPhases, AtomicPhases
<1>9. \A o \in (NonWhite \ M) \ Pending' :
            (IF o \in weak' THEN Children(o) ELSE Held(o)) \cap White \subseteq M
  <2>1. Pending \subseteq Pending' \cup M
    BY <1>2, <1>4, <1>6 DEF Pending
  <2> QED BY <1>4, <1>8, <2>1 DEF MarkInv
<1>10. \A o \in gray' \cup grayagain' \cup weak' : o \in M \cap Listed \/ (o \notin M /\ color[o] = "gray")
  BY <1>4, <1>7, <1>8 DEF OneGclist, TypeOK, Listed
<1>11. gray' \cap grayagain' = {} /\ gray' \cap weak' = {} /\ grayagain' \cap weak' = {}
  BY <1>4, <1>7, <1>8 DEF OneGclist
<1>12. {running, gmt} \cap White = {} /\ \A t \in weak' : weakbits[t] = Mode(t) /\ Mode(t) # {}
  BY <1>4, <1>8 DEF MarkInv
<1>13. White \subseteq White \cup tmu /\ tmudata' \subseteq M /\ tmudata' \subseteq finalized' /\ \A u \in tmudata' : color[u] # "free"
  BY <1>2, <1>4, <1>5
<1> QED BY <1>3, <1>4, <1>7, <1>8, <1>9, <1>10, <1>11, <1>12, <1>13, StageStep

-----------------------------------------------------------------------------
(* The end of `atomic', and the sweep.                                       *)

LEMMA NatMin ==
  ASSUME NEW T \in SUBSET Nat, T # {} PROVE \E x \in T : \A y \in T : x <= y
<1> DEFINE R == OpToRel(<, Nat)
<1>1. \E x \in T : \A y \in T : ~(<<y, x>> \in R)
  <2>1. IsWellFoundedOn(R, Nat)
    BY NatLessThanWellFounded
  <2> HIDE DEF R
  <2> QED BY <2>1, WFMin
<1>2. \A x, y \in Nat : <<y, x>> \in R <=> y < x
  BY DEF OpToRel
<1> HIDE DEF R
<1>3. PICK x \in T : \A y \in T : ~(<<y, x>> \in R)
  BY <1>1
<1>4. \A y \in T : ~(y < x)
  BY <1>2, <1>3, Zenon
<1>5. \A y \in T : x <= y
  BY <1>4
<1> QED BY <1>5

\* When `atomic' ends, every thread that runs or waits for one that does is
\* marked: an unmarked one closest to main would be on a marked stack.
LEMMA ActiveMarked ==
  ASSUME IInv, phase = "atomic4", gray = {} PROVE Active \subseteq NonWhite
<1> USE DEF IInv
<1>1. PICK rank \in [Thr -> Nat] : \A x \in Thr : resumer[x] # nil => rank[resumer[x]] < rank[x]
  BY DEF ActiveInv
<1> DEFINE B == Active \ NonWhite
           T == {rank[x] : x \in B}
<1>2. SUFFICES ASSUME B # {} PROVE FALSE
  OBVIOUS
<1>3. Active \subseteq Thr
  BY ConstAssumption DEF Active
<1>4. T \in SUBSET Nat /\ T # {}
  BY <1>2, <1>3
<1>5. PICK x \in B : \A y \in B : rank[x] <= rank[y]
  <2> HIDE DEF T
  <2>1. PICK k \in T : \A j \in T : k <= j
    BY <1>4, NatMin
  <2> USE DEF T
  <2>2. PICK x \in B : k = rank[x]
    BY <2>1
  <2>3. \A y \in B : rank[x] <= rank[y]
    BY <2>1, <2>2
  <2> QED BY <2>3
<1>6. main \in NonWhite
  BY DEF MarkInv, MarkPhases, AtomicPhases
<1> DEFINE r == resumer[x]
<1>7. r # nil /\ r \in Active /\ r \in Thr /\ x \in Thr
  BY <1>3, <1>5, <1>6 DEF Active, ActiveInv
<1>8. r \in NonWhite
  <2>1. rank[r] < rank[x] /\ rank[r] \in Nat /\ rank[x] \in Nat
    BY <1>1, <1>7
  <2>2. r \in B => rank[x] <= rank[r]
    BY <1>5
  <2> QED BY <1>7, <2>1, <2>2
<1>9. r \notin Pending /\ r \notin weak /\ r \notin Tab
  BY <1>7, ConstAssumption DEF Pending, TypeOK
<1>10. Held(r) \cap White = {}
  BY <1>8, <1>9 DEF MarkInv, MarkPhases, AtomicPhases
<1>11. x \in Held(r)
  BY <1>7, <1>9 DEF Held, Refs, traversestack, Obj
<1>12. x \in Obj /\ x \notin White /\ color[x] # "free"
  BY <1>5, <1>7, <1>10, <1>11 DEF ActiveInv, Live, Obj
<1>13. x \in NonWhite
  BY <1>12 DEF NonWhite, White, TypeOK, Colors
<1> QED BY <1>5, <1>13

\* When `atomic' ends, only the marked objects, the strings that cleartable has
\* met and the fixed ones are going to survive.
LEMMA cleartableLive ==
  ASSUME IInv, cleartable, TypeOK'
  PROVE  /\ \A o \in Obj : Live(o)' <=> \/ o \in NonWhite \cup MetStrings
                                        \/ o \in FixedStr /\ color[o] # "free"
         /\ \A o \in Obj : color'[o] = "free" <=> color[o] = "free"
         /\ \A o \in Obj : o \notin Str => color'[o] = color[o]
         /\ \A o \in NonWhite : ~isdead(o)'
<1> USE DEF IInv
<1>1. /\ currentwhite' = otherwhite /\ phase = "atomic4"
      /\ color' = [o \in Obj |-> IF o \in MetStrings THEN "gray" ELSE color[o]]
  BY DEF cleartable
<1>2. otherwhite' = currentwhite /\ currentwhite # otherwhite
  BY <1>1 DEF otherwhite, TypeOK
<1>3. \A o \in Obj : color[o] # otherwhite
  BY <1>1 DEF WhiteInv, isdead, MarkPhases, AtomicPhases
<1>4. MetStrings \subseteq Str \cap White /\ main \in NonWhite /\ main \notin Str
  BY <1>1, ConstAssumption DEF MetStrings, MarkInv, MarkPhases, AtomicPhases
<1>5. \A o \in Obj : o \in NonWhite <=> color[o] # "free" /\ color[o] # currentwhite
  <2>1. CASE currentwhite = "w0"
    BY <1>3, <2>1 DEF NonWhite, TypeOK, Colors, otherwhite
  <2>2. CASE currentwhite = "w1"
    BY <1>3, <2>2 DEF NonWhite, TypeOK, Colors, otherwhite
  <2> QED BY <2>1, <2>2 DEF TypeOK
<1>6. \A o \in MetStrings : o \in Obj /\ color[o] # "free"
  BY <1>4 DEF White
<1>7. \A o \in Obj : Live(o)' <=> color'[o] # "free" /\ (color'[o] # currentwhite \/ o \in FixedStr \/ o = main)
  BY <1>2 DEF Live, Swept, isdead
<1>8. currentwhite \notin {"free", "gray"}
  BY DEF TypeOK
<1>9. \A o \in NonWhite : ~isdead(o)'
  BY <1>1, <1>2, <1>5, <1>8 DEF isdead, NonWhite
<1> QED BY <1>1, <1>4, <1>5, <1>6, <1>7, <1>8, <1>9

LEMMA cleartableSafe ==
  ASSUME IInv, cleartable, TypeOK'
  PROVE  IInv'
<1> USE DEF IInv
<1>1. /\ phase = "atomic4" /\ gray = {} /\ phase' = "sweepstring" /\ unswept' = SweepList
      /\ UNCHANGED <<mt, env, stack, cup, upv, home, uval, gmt, running, resumer, tmudata, finalized>>
      /\ \A t \in Tab \ weak : val'[t] = val[t] /\ key'[t] = key[t]
  BY DEF cleartable, udVars
<1>2. /\ \A o \in Obj : Live(o)' <=> \/ o \in NonWhite \cup MetStrings
                                     \/ o \in FixedStr /\ color[o] # "free"
      /\ \A o \in Obj : color'[o] = "free" <=> color[o] = "free"
      /\ \A o \in Obj : o \notin Str => color'[o] = color[o]
      /\ \A o \in NonWhite : ~isdead(o)'
  BY cleartableLive
<1>3. Active \subseteq NonWhite
  BY <1>1, ActiveMarked
<1>4. \A o \in Obj : Live(o) => o \in NonWhite \/ o \in White
  BY DEF Live, NonWhite, White, TypeOK, Colors
<1>5. Pending = {} /\ weak \subseteq Tab /\ \A t \in weak : t \in NonWhite
  BY <1>1 DEF Pending, TypeOK, OneGclist, MarkPhases, AtomicPhases, NonWhite, Obj
<1>6. /\ \A o \in NonWhite \ weak : Held(o) \cap White = {}
      /\ \A t \in weak : Children(t) \cap White = {} /\ weakbits[t] = Mode(t)
      /\ main \in NonWhite /\ registry \in NonWhite /\ {running, gmt} \cap White = {}
      /\ tmudata \cap White = {}
  BY <1>1, <1>5 DEF MarkInv, MarkPhases, AtomicPhases
<1>7. \A o \in NonWhite : Live(o)
  BY DEF NonWhite, Live, Swept, isdead, otherwhite
<1>8. \A o \in Roots' \cup tmudata' : Live(o)'
  <2>1. Roots' = Roots /\ tmudata' = tmudata /\ Roots \cup tmudata \subseteq Obj
    BY <1>1 DEF Roots, TypeOK, Obj
  <2>2. resumer[running] \in Obj => resumer[running] \in Active
    BY ConstAssumption DEF ActiveInv, TypeOK
  <2>3. \A o \in Roots \cup tmudata : o \in NonWhite
    BY <1>3, <1>4, <1>6, <2>1, <2>2 DEF NoDangling, Roots
  <2> QED BY <1>2, <2>1, <2>3
<1>9. ASSUME NEW o \in Obj, Live(o)', NEW r \in Refs(o)' PROVE Live(r)'
  <2>1. r \in Obj /\ o \notin Str
    BY ConstAssumption DEF Refs, Obj
  <2>2. o \in NonWhite /\ Live(o)
    BY <1>2, <1>7, <1>9, <2>1, ConstAssumption DEF MetStrings
  <2>3. CASE o \notin weak
    <3>1. r \in Refs(o)
      BY <1>1, <2>3 DEF Refs, traverseclosure, traversestack, UpValue, IsOpen
    <3>2. r \in Held(o)
      BY <2>1, <3>1, ConstAssumption DEF Held, Refs
    <3>3. r \in NonWhite
      BY <1>4, <1>6, <2>1, <2>2, <2>3, <3>1, <3>2 DEF NoDangling
    <3> QED BY <1>2, <2>1, <3>3
  <2>4. CASE o \in weak
    <3>1. o \in Tab /\ o \notin Cls \cup Thr \cup Udt \cup Upv
      BY <1>5, <2>4, ConstAssumption
    <3>2. CASE r = mt[o]
      <4>1. r \in Children(o) /\ r \in Refs(o)
        BY <2>1, <3>1, <3>2 DEF Children, traversetable, Refs
      <4> QED BY <1>2, <1>4, <1>6, <2>1, <2>2, <2>4, <4>1 DEF NoDangling
    <3>3. ASSUME NEW n \in Node, val'[o][n] # nil, r = val'[o][n] \/ r = key'[o][n]
          PROVE  Live(r)'
      <4>1. ~ClearNode(o, n) /\ val'[o][n] = val[o][n] /\ key'[o][n] = key[o][n] /\ val[o][n] # nil
        BY <2>4, <3>1, <3>3 DEF cleartable
      <4>2. r \in Refs(o)
        BY <2>1, <3>1, <3>3, <4>1 DEF Refs
      <4>3. r \in NonWhite \cup White
        BY <1>4, <2>1, <2>2, <4>2 DEF NoDangling
      <4>4. r \in White => r \in MetStrings
        <5> SUFFICES ASSUME r \in White PROVE r \in MetStrings
          OBVIOUS
        <5>1. CASE n \in Array
          <6>1. r = val[o][n]
            BY <2>1, <3>1, <3>3, <4>1, <5>1, ConstAssumption DEF TypeOK
          <6>2. "v" \in weakbits[o]
            BY <1>6, <2>1, <2>4, <3>1, <4>1, <6>1 DEF Children, traversetable
          <6>3. r \in Str
            BY <2>1, <4>1, <5>1, <6>1, <6>2 DEF ClearNode, iscleared
          <6> QED BY <2>4, <4>1, <5>1, <6>1, <6>3 DEF MetStrings
        <5>2. CASE n \notin Array
          <6>1. ~iscleared(key[o][n], TRUE) /\ ~iscleared(val[o][n], FALSE)
            BY <4>1, <5>2 DEF ClearNode
          <6>2. r \in Str
            BY <2>1, <3>3, <4>1, <6>1 DEF iscleared
          <6> QED BY <2>4, <3>3, <4>1, <5>2, <6>1, <6>2 DEF MetStrings
        <5> QED BY <5>1, <5>2
      <4> QED BY <1>2, <2>1, <4>3, <4>4
    <3> QED BY <3>1, <3>2, <3>3, <1>1, <1>9 DEF Refs
  <2> QED BY <2>3, <2>4
<1>10. NoDangling'
  BY <1>8, <1>9 DEF NoDangling
<1>11. FreeBlank'
  <2>1. \A t \in Tab : color[t] = "free" => t \notin weak
    BY <1>5 DEF NonWhite
  <2> QED BY <1>1, <1>2, <2>1 DEF FreeBlank
<1>12. ColorInv'
  BY <1>1, <1>2, ConstAssumption DEF ColorInv, IsOpen
<1>13. OpenInv'
  BY <1>1, <1>2, UpValueType DEF OpenInv, IsOpen, Obj
<1>14. ActiveInv'
  <2>1. Active' = Active /\ Active \subseteq Obj
    BY <1>1, ConstAssumption DEF Active, Obj
  <2>2. \A x \in Active' : Live(x)'
    BY <1>2, <1>3, <2>1
  <2> QED BY <1>1, <2>1, <2>2 DEF ActiveInv
<1>15. WhiteInv'
  <2> SUFFICES ASSUME NEW o \in Obj, color'[o] # "free"
               PROVE  NotReached(o)' \/ (o \in tmudata /\ ~isdead(o)')
    BY <1>1 DEF WhiteInv, MarkPhases, AtomicPhases, SweepPhases
  <2>1. color[o] # "free"
    BY <1>2
  <2>2. CASE o \in tmudata
    <3>1. o \in NonWhite
      BY <1>4, <1>6, <2>2 DEF TmuInv
    <3> QED BY <1>2, <2>2, <3>1
  <2>3. CASE o \notin tmudata /\ ~(o \in Upv /\ IsOpen(o))
    BY <1>1, <2>1, <2>3 DEF SweepList, NotReached
  <2>4. CASE o \in Upv /\ IsOpen(o)
    <3>1. home[o][1] \in Thr /\ color[home[o][1]] # "free"
      BY <2>4, UpValueType DEF OpenInv
    <3>2. home[o][1] \in SweepList
      BY <3>1, ConstAssumption DEF SweepList, TypeOK, Obj
    <3> QED BY <1>1, <2>4, <3>2 DEF NotReached, IsOpen
  <2> QED BY <2>2, <2>3, <2>4
<1>16. TmuInv'
  <2>1. \A u \in tmudata' : Live(u)'
    BY <1>8
  <2>2. \A o \in unswept' : color'[o] # "free" /\ o \notin tmudata' /\ (o \in Upv => ~IsOpen(o)')
    BY <1>1, <1>2 DEF SweepList, IsOpen
  <2> QED BY <1>1, <2>1, <2>2 DEF TmuInv, SweepPhases
<1>17. GrayInv' /\ OneGclist' /\ KeyInv' /\ MarkInv'
  BY <1>1 DEF GrayInv, OneGclist, KeyInv, MarkInv, MarkPhases, AtomicPhases
<1> QED BY <1>10, <1>11, <1>12, <1>13, <1>14, <1>15, <1>16, <1>17

\* The sweep frees only what is not live, and an upvalue that loses its thread
\* keeps its value.
LEMMA sweeplistSafe ==
  ASSUME IInv, TypeOK', phase \in SweepPhases, NEW S \in SUBSET unswept, sweeplist(S),
         phase' \in SweepPhases \/ (phase' = "finalize" /\ unswept \subseteq S)
  PROVE  IInv'
<1> USE DEF IInv
<1> DEFINE ups == {u \in Upv : IsOpen(u) /\ home[u][1] \in S}
           F == {o \in S \cup ups : Swept(o)}
           closed == {u \in ups \ F : home[u][1] \in F}
<1>1. /\ color' = [o \in Obj |-> IF o \in F THEN "free"
                                 ELSE IF o \in S \cup ups THEN currentwhite ELSE color[o]]
      /\ uval' = [u \in Upv |-> IF u \in F THEN nil
                                ELSE IF u \in closed THEN UpValue(u) ELSE uval[u]]
      /\ home' = Clean(home, F \cup closed, nil)
      /\ freeobj(F)
      /\ unswept' = unswept \ S
      /\ UNCHANGED <<tmudata, currentwhite, gmt, running, resumer>>
  BY DEF sweeplist
<1>2. /\ S \cup ups \subseteq Obj /\ F \subseteq S \cup ups /\ closed \subseteq ups \ F
      /\ \A u \in ups : u \in Upv /\ IsOpen(u) /\ home[u][1] \in S
      /\ \A u \in Upv : IsOpen(u) /\ home[u][1] \in S => u \in ups
      /\ \A o \in S \cup ups : o \in F <=> Swept(o)
      /\ \A u \in ups : u \in closed <=> u \notin F /\ home[u][1] \in F
  BY DEF TypeOK, Obj
<1> HIDE DEF ups, F, closed
<1>3. otherwhite' = otherwhite /\ currentwhite # otherwhite /\ currentwhite # "free" /\ otherwhite # "free"
  BY <1>1 DEF otherwhite, TypeOK
<1>4. \A o \in S \cup ups : color[o] # "free"
  BY <1>2 DEF TmuInv, OpenInv
<1>5. /\ \A o \in Obj : Live(o)' <=> Live(o)
      /\ \A o \in F : ~Live(o)
  <2>1. \A o \in F : color'[o] = "free" /\ ~Live(o)
    BY <1>1, <1>2 DEF Live
  <2>2. \A o \in (S \cup ups) \ F : color'[o] = currentwhite /\ ~Swept(o)
    BY <1>1, <1>2
  <2>3. \A o \in Obj \ (S \cup ups) : color'[o] = color[o]
    BY <1>1, <1>2
  <2> QED BY <1>2, <1>3, <1>4, <2>1, <2>2, <2>3 DEF Live, Swept, isdead
<1>6. /\ \A o \in (Tab \cup Udt) \ F : mt'[o] = mt[o]
      /\ \A o \in (Cls \cup Udt \cup Thr) \ F : env'[o] = env[o]
      /\ \A o \in Tab \ F : val'[o] = val[o] /\ key'[o] = key[o]
      /\ \A o \in Thr \ F : stack'[o] = stack[o]
      /\ \A o \in Cls \ F : cup'[o] = cup[o] /\ upv'[o] = upv[o]
      /\ \A o \in Upv \ (F \cup closed) : home'[o] = home[o] /\ uval'[o] = uval[o]
      /\ \A o \in Upv \cap F : home'[o] = nil /\ uval'[o] = nil
      /\ \A o \in closed : home'[o] = nil /\ uval'[o] = UpValue(o)
  BY <1>1, <1>2 DEF freeobj, Clean, TypeOK
<1>7. /\ \A o \in (Tab \cup Udt) \cap F : mt'[o] = nil
      /\ \A o \in Tab \cap F : val'[o] = NoValues
      /\ \A o \in Thr \cap F : stack'[o] = NoStack
      /\ \A o \in Cls \cap F : cup'[o] = nil /\ upv'[o] = {}
      /\ finalized' = finalized \ F
  BY <1>1 DEF freeobj, Clean, TypeOK
<1>8. \A u \in Upv : IsOpen(u) /\ u \notin F \cup closed => home[u][1] \in Thr /\ home[u][1] \notin F
  <2> SUFFICES ASSUME NEW u \in Upv, IsOpen(u), u \notin F \cup closed, home[u][1] \in F PROVE FALSE
    BY UpValueType
  <2>1. home[u][1] \in Thr
    BY UpValueType
  <2>2. home[u][1] \in S
    BY <1>2, <2>1, ConstAssumption
  <2> QED BY <1>2, <2>2
<1>9. \A u \in Upv \ F : UpValue(u)' = UpValue(u) /\ (IsOpen(u)' <=> IsOpen(u) /\ u \notin closed)
  <2> SUFFICES ASSUME NEW u \in Upv \ F
               PROVE  UpValue(u)' = UpValue(u) /\ (IsOpen(u)' <=> IsOpen(u) /\ u \notin closed)
    OBVIOUS
  <2>1. CASE u \in closed
    BY <1>6, <2>1 DEF UpValue, IsOpen
  <2>2. CASE u \notin closed /\ ~IsOpen(u)
    BY <1>6, <2>2 DEF UpValue, IsOpen
  <2>3. CASE u \notin closed /\ IsOpen(u)
    BY <1>6, <1>8, <2>3 DEF UpValue, IsOpen
  <2> QED BY <2>1, <2>2, <2>3
<1>10. \A o \in Obj \ F : Refs(o)' = Refs(o)
  BY <1>1, <1>6, <1>9 DEF Refs, traverseclosure, traversestack
<1>11. NoDangling'
  <2>1. \A o \in (Roots \cup tmudata)' : o \in Obj /\ Live(o)'
    BY <1>1, <1>5 DEF NoDangling, Roots, TypeOK, Obj
  <2>2. ASSUME NEW o \in Obj, Live(o)', NEW r \in Refs(o)' PROVE Live(r)'
    BY <1>5, <1>10, <2>2 DEF NoDangling, Refs
  <2> QED BY <2>1, <2>2 DEF NoDangling
<1>12. \A o \in Obj : color'[o] = "free" <=> o \in F \/ color[o] = "free"
  BY <1>1, <1>2, <1>3, <1>4
<1>13. FreeBlank'
  <2> SUFFICES ASSUME NEW o \in Obj, color'[o] = "free"
               PROVE  /\ o \in Tab \cup Udt => mt'[o] = nil
                      /\ o \in Tab => val'[o] = NoValues
                      /\ o \in Thr => stack'[o] = NoStack
                      /\ o \in Cls => cup'[o] = nil /\ upv'[o] = {}
                      /\ o \in Upv => home'[o] = nil /\ uval'[o] = nil
    BY DEF FreeBlank, NoValues, NoStack
  <2>1. CASE o \in F
    BY <1>6, <1>7, <2>1
  <2>2. CASE o \notin F
    <3>1. color[o] = "free" /\ o \notin closed
      BY <1>2, <1>4, <1>12, <2>2
    <3> QED BY <1>6, <2>2, <3>1 DEF FreeBlank
  <2> QED BY <2>1, <2>2
<1>14. ColorInv'
  <2> SUFFICES ASSUME NEW o \in Obj
               PROVE  /\ o \in Udt => color'[o] # "gray"
                      /\ o \in Thr => color'[o] # "black"
                      /\ o \in Upv => IF IsOpen(o)' THEN color'[o] # "black" ELSE color'[o] # "gray"
    BY DEF ColorInv
  <2>1. CASE o \in S \cup ups
    BY <1>1, <2>1 DEF TypeOK
  <2>2. CASE o \notin S \cup ups
    <3>1. color'[o] = color[o] /\ o \notin F /\ o \notin closed
      BY <1>1, <1>2, <2>2
    <3> QED BY <1>9, <3>1 DEF ColorInv
  <2> QED BY <2>1, <2>2
<1>15. OpenInv'
  <2> SUFFICES ASSUME NEW u \in Upv, IsOpen(u)'
               PROVE  /\ color'[u] # "free" /\ color'[home'[u][1]] # "free"
                      /\ \A w \in Upv : home'[w] = home'[u] => w = u
    BY DEF OpenInv
  <2>1. u \notin F
    BY <1>6 DEF IsOpen
  <2>2. u \notin closed /\ IsOpen(u) /\ home'[u] = home[u]
    BY <1>6, <1>9, <2>1
  <2>3. home[u][1] \in Obj /\ home[u][1] \notin F /\ u \in Obj
    BY <1>8, <2>1, <2>2 DEF Obj
  <2>4. \A w \in Upv : home'[w] = home'[u] => home[w] = home[u]
    BY <1>6, <2>2 DEF IsOpen
  <2> QED BY <1>12, <2>1, <2>2, <2>3, <2>4 DEF OpenInv
<1>16. ActiveInv'
  <2>1. Active' = Active /\ Active \subseteq Obj
    BY <1>1, ConstAssumption DEF Active, Obj
  <2>2. \A x \in Active' : Live(x)'
    BY <1>5, <2>1 DEF ActiveInv
  <2> QED BY <1>1, <2>1, <2>2 DEF ActiveInv
<1>17. WhiteInv'
  <2>1. phase' \notin MarkPhases /\ phase \notin MarkPhases
    BY DEF MarkPhases, SweepPhases, AtomicPhases
  <2> SUFFICES ASSUME NEW o \in Obj, color'[o] # "free", color'[o] # currentwhite
               PROVE  \/ phase' \in SweepPhases /\ NotReached(o)'
                      \/ o \in tmudata /\ ~isdead(o)'
    BY <1>1, <2>1 DEF WhiteInv
  <2>2. o \notin S \cup ups /\ color'[o] = color[o]
    BY <1>1, <1>2
  <2>3. CASE o \in tmudata /\ ~isdead(o)
    BY <1>3, <2>2, <2>3 DEF isdead
  <2>4. CASE NotReached(o)
    <3>1. CASE o \in unswept
      BY <1>1, <2>2, <3>1 DEF NotReached
    <3>2. CASE o \in Upv /\ IsOpen(o) /\ home[o][1] \in unswept
      <4>1. home[o][1] \notin S /\ home'[o] = home[o]
        BY <1>2, <1>6, <2>2, <3>2
      <4> QED BY <1>1, <3>2, <4>1 DEF NotReached, IsOpen
    <3> QED BY <2>4, <3>1, <3>2 DEF NotReached
  <2> QED BY <2>1, <2>2, <2>3, <2>4 DEF WhiteInv
<1>18. TmuInv'
  <2>1. \A u \in tmudata : u \in Obj /\ Live(u) /\ Live(u)' /\ u \notin F
    BY <1>5 DEF TmuInv, TypeOK, Obj
  <2>2. phase' \notin SweepPhases => unswept' = {}
    BY <1>1 DEF SweepPhases
  <2>3. ASSUME NEW o \in unswept' PROVE color'[o] # "free" /\ (o \in Upv => ~IsOpen(o)')
    <3>1. o \in unswept /\ o \in Obj /\ o \notin S /\ color[o] # "free" /\ (o \in Upv => ~IsOpen(o))
      BY <1>1 DEF TmuInv, TypeOK
    <3>2. o \notin ups /\ o \notin F
      BY <1>2, <3>1
    <3> QED BY <1>9, <1>12, <3>1, <3>2
  <2> QED BY <1>1, <1>7, <2>1, <2>2, <2>3 DEF TmuInv
<1>19. GrayInv' /\ OneGclist' /\ KeyInv' /\ MarkInv'
  BY DEF GrayInv, OneGclist, KeyInv, MarkInv, MarkPhases, AtomicPhases, SweepPhases
<1> QED BY <1>11, <1>13, <1>14, <1>15, <1>16, <1>17, <1>18, <1>19

\* A userdata handed to its finalizer is live, and white again.
LEMMA GCTMSafe ==
  ASSUME IInv, TypeOK', NEW u \in Udt, NEW s \in Reg, GCTM(u, s)
  PROVE  IInv'
<1> USE DEF IInv
<1>1. /\ phase = "finalize" /\ phase' = phase /\ u \in tmudata /\ tmudata' = tmudata \ {u}
      /\ color' = [color EXCEPT ![u] = currentwhite]
      /\ stack' = (IF HasGC(u) THEN [stack EXCEPT ![running][s] = u] ELSE stack)
      /\ UNCHANGED <<currentwhite, unswept, finalized, mt, env, val, key, cup, upv, home, uval,
                     gmt, running, resumer>>
  BY DEF GCTM
<1>2. u \in Obj /\ Live(u) /\ color[u] # "free" /\ currentwhite # "free"
  BY <1>1 DEF TmuInv, Live, TypeOK, Obj
<1>3. otherwhite' = otherwhite /\ currentwhite # otherwhite
  BY <1>1 DEF otherwhite, TypeOK
<1>4. \A o \in Obj : color'[o] = IF o = u THEN currentwhite ELSE color[o]
  BY <1>1 DEF TypeOK
<1>5. \A o \in Obj : (Live(o)' <=> Live(o)) /\ (color'[o] = "free" <=> color[o] = "free")
  BY <1>2, <1>3, <1>4 DEF Live, Swept, isdead
<1>6. \A th \in Thr, l \in Reg : stack'[th][l] \in {stack[th][l], u}
  BY <1>1 DEF TypeOK
<1>7. \A o \in Obj : Refs(o)' \subseteq Refs(o) \cup {u}
  <2>1. \A x \in Upv : UpValue(x)' \in {UpValue(x), u}
    BY <1>1, <1>6, UpValueType DEF UpValue, IsOpen
  <2> QED BY <1>1, <1>6, <2>1 DEF Refs, traverseclosure, traversestack
<1>8. NoDangling'
  <2>1. \A o \in (Roots \cup tmudata)' : o \in Obj /\ Live(o)
    BY <1>1 DEF NoDangling, Roots, TypeOK, Obj
  <2> QED BY <1>2, <1>5, <1>7, <2>1 DEF NoDangling, Refs
<1>9. FreeBlank'
  <2>1. color[running] # "free"
    BY DEF ActiveInv, Live
  <2>2. \A th \in Thr : color[th] = "free" => stack'[th] = stack[th]
    BY <1>1, <2>1 DEF TypeOK
  <2> QED BY <1>1, <1>5, <2>2 DEF FreeBlank, Obj
<1>10. ColorInv'
  BY <1>1, <1>4, ConstAssumption DEF ColorInv, IsOpen, TypeOK
<1>11. OpenInv'
  BY <1>1, <1>5, UpValueType DEF OpenInv, IsOpen, Obj
<1>12. ActiveInv'
  <2>1. Active' = Active /\ Active \subseteq Obj
    BY <1>1, ConstAssumption DEF Active, Obj
  <2>2. \A x \in Active' : Live(x)'
    BY <1>5, <2>1 DEF ActiveInv
  <2> QED BY <1>1, <2>1, <2>2 DEF ActiveInv
<1>13. phase \notin MarkPhases /\ phase \notin SweepPhases
  BY <1>1 DEF MarkPhases, AtomicPhases, SweepPhases
<1>14. WhiteInv'
  BY <1>1, <1>3, <1>4, <1>13 DEF WhiteInv, isdead
<1>15. TmuInv'
  <2>1. \A x \in tmudata' : x \in tmudata /\ x \in Obj
    BY <1>1 DEF TypeOK, Obj
  <2> QED BY <1>1, <1>5, <1>13, <2>1 DEF TmuInv
<1>16. GrayInv' /\ OneGclist' /\ KeyInv' /\ MarkInv'
  BY <1>1, <1>13 DEF GrayInv, OneGclist, KeyInv, MarkInv, MarkPhases
<1> QED BY <1>8, <1>9, <1>10, <1>11, <1>12, <1>14, <1>15, <1>16

\* Steps that change neither heap nor colors, and do not mark.
LEMMA QuietStep ==
  ASSUME IInv, TypeOK', phase' \notin MarkPhases,
         UNCHANGED <<color, heapVars, currentwhite, udVars>>,
         \/ unswept' = unswept /\ phase' = phase
         \/ unswept' = unswept /\ phase = "finalize" /\ phase' = "pause"
         \/ phase \notin SweepPhases /\ unswept' = SweepList /\ phase' \in SweepPhases
  PROVE  IInv'
<1> USE DEF IInv
<1>1. /\ \A o \in Obj : (Live(o)' <=> Live(o)) /\ (color'[o] = "free" <=> color[o] = "free")
      /\ \A o \in Obj : isdead(o)' <=> isdead(o)
  BY DEF Live, Swept, isdead, otherwhite
<1>2. NoDangling' /\ FreeBlank' /\ OpenInv' /\ ActiveInv'
  BY <1>1, HeapSame DEF heapVars, udVars, TmuInv, TypeOK, Obj
<1>3. ColorInv'
  BY DEF ColorInv, IsOpen, heapVars
<1>4. GrayInv' /\ OneGclist' /\ KeyInv' /\ MarkInv'
  BY DEF GrayInv, OneGclist, KeyInv, MarkInv, MarkPhases
<1>5. CASE unswept' = unswept /\ (phase' = phase \/ (phase = "finalize" /\ phase' = "pause"))
  <2>1. unswept' = {} \/ (phase' \in SweepPhases /\ phase' = phase)
    BY <1>5 DEF TmuInv, SweepPhases
  <2>2. TmuInv'
    BY <1>1, <1>5, <2>1 DEF TmuInv, udVars, heapVars, TypeOK, Obj, IsOpen
  <2>3. WhiteInv'
    <3> SUFFICES ASSUME NEW o \in Obj, color[o] # "free", color[o] # currentwhite
                 PROVE  \/ phase' \in SweepPhases /\ NotReached(o)'
                        \/ o \in tmudata /\ ~isdead(o)
      BY <1>1 DEF WhiteInv, udVars
    <3>1. phase \notin MarkPhases /\ (phase \in SweepPhases => phase' \in SweepPhases)
      BY <1>5 DEF MarkPhases, AtomicPhases, SweepPhases, SweepList
    <3>2. NotReached(o)' <=> NotReached(o)
      BY <1>5 DEF NotReached, IsOpen, heapVars
    <3> QED BY <3>1, <3>2 DEF WhiteInv
  <2> QED BY <1>2, <1>3, <1>4, <2>2, <2>3
<1>6. CASE unswept' = SweepList /\ phase' \in SweepPhases /\ phase \notin SweepPhases
  <2>1. TmuInv'
    BY <1>1, <1>6 DEF TmuInv, SweepList, udVars, heapVars, TypeOK, Obj, IsOpen
  <2>2. WhiteInv'
    <3> SUFFICES ASSUME NEW o \in Obj, color[o] # "free", color[o] # currentwhite
                 PROVE  NotReached(o)' \/ (o \in tmudata /\ ~isdead(o))
      BY <1>1, <1>6 DEF WhiteInv, udVars
    <3>1. ~isdead(o)
      BY <1>6 DEF WhiteInv
    <3>2. CASE o \notin tmudata /\ ~(o \in Upv /\ IsOpen(o))
      BY <1>6, <3>2 DEF SweepList, NotReached
    <3>3. CASE o \in Upv /\ IsOpen(o)
      <4>1. home[o][1] \in Thr /\ color[home[o][1]] # "free"
        BY <3>3, UpValueType DEF OpenInv
      <4>2. home[o][1] \in SweepList
        BY <4>1, ConstAssumption DEF SweepList, TypeOK, Obj
      <4> QED BY <1>6, <3>3, <4>2 DEF NotReached, IsOpen, heapVars
    <3> QED BY <3>1, <3>2, <3>3
  <2> QED BY <1>2, <1>3, <1>4, <2>1, <2>2
<1> QED BY <1>5, <1>6

LEMMA CollectorSafe == IInv /\ Collector => IInv'
<1> SUFFICES ASSUME IInv, Collector PROVE IInv'
  OBVIOUS
<1>1. TypeOK /\ TypeOK'
  BY CollectorType DEF IInv
<1>2. CASE StartCycle
  BY <1>1, <1>2, markrootSafe DEF StartCycle, TypeOK
<1>3. CASE RestartFull
  BY <1>3, markrootSafe DEF RestartFull
<1>4. CASE remarkupvals
  BY <1>1, <1>4, remarkupvalsSafe
<1>5. CASE remarkweak
  BY <1>1, <1>5, remarkweakSafe
<1>6. CASE remarkgrayagain
  BY <1>1, <1>6, remarkgrayagainSafe
<1>7. CASE separatetmu
  BY <1>1, <1>7, separatetmuSafe
<1>8. CASE cleartable
  BY <1>1, <1>8, cleartableSafe
<1>9. CASE EndCycle
  BY <1>1, <1>9, QuietStep DEF EndCycle, MarkPhases, AtomicPhases
<1>10. ASSUME NEW o \in Listed, propagatemark(o) PROVE IInv'
  BY <1>1, <1>10, propagatemarkSafe
<1>11. ASSUME NEW S \in SUBSET Str, SweepString(S) PROVE IInv'
  BY <1>1, <1>11, sweeplistSafe DEF SweepString, SweepPhases
<1>12. ASSUME NEW S \in {{}} \cup {{o} : o \in Obj}, SweepRoot(S) PROVE IInv'
  BY <1>1, <1>12, sweeplistSafe DEF SweepRoot, SweepPhases
<1>13. ASSUME NEW u \in Udt, NEW s \in Reg, GCTM(u, s) PROVE IInv'
  BY <1>1, <1>13, GCTMSafe
<1> QED BY <1>2, <1>3, <1>4, <1>5, <1>6, <1>7, <1>8, <1>9, <1>10, <1>11, <1>12, <1>13 DEF Collector
=============================================================================
