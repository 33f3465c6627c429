---------------------------- MODULE LuaGC_safety ----------------------------
(***************************************************************************)
(* The collector never leaves a dangling pointer: the program's steps keep   *)
(* the inductive invariant IInv too, and NoDangling is one of its conjuncts. *)
(***************************************************************************)
EXTENDS LuaGC_proofs

-----------------------------------------------------------------------------
(* The mutator only gets hold of live objects.                               *)

LEMMA ReachLive ==
  ASSUME IInv
  PROVE  /\ \A o \in (Index \cup RegVal \cup CurrEnv \cup {gmt}) \cap Obj : Live(o)
         /\ \A o \in Index : \A v \in Obj : Readable(o, v) => Live(v)
         /\ \A c \in Regs \cap Cls : \A u \in upv[c] : Live(u)
         /\ \A s \in Reg : stack[running][s] \in Obj => Live(stack[running][s])
<1> USE DEF IInv
<1>1. Live(main) /\ Live(registry) /\ Live(running) /\ (gmt \in Obj => Live(gmt))
  BY ConstAssumption DEF NoDangling, Roots, TypeOK, Obj
<1>2. \A o \in Regs \cap Obj : Live(o)
  BY <1>1, ConstAssumption DEF NoDangling, Refs, Regs, traversestack, TypeOK, Obj
<1>3. env[running] \in Obj => Live(env[running])
  BY <1>1, ConstAssumption DEF NoDangling, Refs, traversestack, TypeOK, Obj
<1>4. \A o \in Index \cap Obj : Live(o)
  BY <1>1, <1>2, <1>3 DEF Index
<1>5. \A c \in Regs \cap Cls : env[c] \in Obj => Live(env[c])
  BY <1>2, ConstAssumption DEF NoDangling, Refs, traverseclosure, TypeOK, Obj
<1>6. \A c \in Cls : Live(c) => \A u \in upv[c] : Live(u)
  BY ConstAssumption DEF NoDangling, Refs, traverseclosure, TypeOK, Obj
<1>7. \A u \in Upv : Live(u) => (UpValue(u) \in Obj => Live(UpValue(u)))
  BY ConstAssumption DEF NoDangling, Refs, Obj
<1>8. ASSUME NEW o \in Index, NEW v \in Obj, Readable(o, v) PROVE Live(v)
  <2>1. o \in Obj => Live(o)
    BY <1>4
  <2>2. CASE o \in Cls
    BY <2>1, <2>2, <1>6, <1>7, <1>8, ConstAssumption
       DEF NoDangling, Refs, Readable, traverseclosure, TypeOK, Obj
  <2>3. CASE o \notin Cls
    BY <2>1, <2>3, <1>8, ConstAssumption DEF NoDangling, Refs, Readable, traversestack, TypeOK, Obj
  <2> QED BY <2>2, <2>3
<1> QED BY <1>1, <1>2, <1>3, <1>4, <1>5, <1>6, <1>8, ConstAssumption DEF Index, RegVal, CurrEnv, Regs, Obj


\* While the program runs and the collector marks, an object that is not pending
\* is a string or black, and all that it holds is marked.
LEMMA SettledFacts ==
  ASSUME IInv, phase = "propagate", NEW o \in NonWhite \ Pending
  PROVE  /\ o \in Obj /\ o \notin Thr /\ o \notin weak /\ o \notin tmudata
         /\ o \in Str \/ isblack(o)
         /\ o \in Upv => ~IsOpen(o)
         /\ Held(o) \subseteq NonWhite
<1> USE DEF IInv
<1>1. o \in Obj /\ Live(o) /\ o \notin gray /\ o \notin grayagain /\ o \notin weak /\ o \notin tmudata
      /\ (o \in Upv => ~IsOpen(o))
  BY DEF NonWhite, Live, Swept, isdead, otherwhite, Pending
<1>2. o \in Str \/ isblack(o)
  BY <1>1 DEF GrayInv, NonWhite, isblack
<1>3. o \notin Thr
  BY <1>1, <1>2, ConstAssumption DEF ColorInv, isblack
<1>4. Held(o) \cap White = {} /\ Held(o) \subseteq Obj
  BY <1>1 DEF MarkInv, MarkPhases, Held, Refs
<1>5. \A r \in Held(o) : color[r] # "free"
  <2>1. CASE o \in Tab
    <3>1. isblack(o)
      BY <1>2, <2>1, ConstAssumption
    <3>2. \A n \in Node : val[o][n] \in Obj => val[o][n] \in Refs(o)
      BY <2>1, ConstAssumption DEF Refs
    <3>3. mt[o] \in Obj => mt[o] \in Refs(o)
      BY <2>1 DEF Refs
    <3> QED BY <1>1, <2>1, <3>1, <3>2, <3>3 DEF Held, KeyInv, NoDangling, Live
  <2>2. CASE o \notin Tab
    BY <1>1, <1>4, <2>2 DEF Held, NoDangling, Live
  <2> QED BY <2>1, <2>2
<1> QED BY <1>1, <1>2, <1>3, <1>4, <1>5 DEF NonWhite, White, TypeOK, Colors

\* So the marking invariant is kept by a step that leaves marked what was marked,
\* and adds to no settled object a reference to a white one.
LEMMA SettledStep ==
  ASSUME IInv, phase \notin AtomicPhases, UNCHANGED <<phase, weak, weakbits, tmudata>>,
         phase = "propagate" => NonWhite \subseteq NonWhite',
         phase = "propagate" => \A o \in NonWhite' \ Pending' :
             \/ o \in NonWhite \ Pending /\ Held(o)' \subseteq Held(o) \cup NonWhite'
             \/ Held(o)' \subseteq NonWhite'
  PROVE  MarkInv'
<1> USE DEF IInv
<1> SUFFICES ASSUME phase = "propagate" PROVE MarkInv'
  BY DEF MarkInv, MarkPhases
<1>1. White' \cap NonWhite' = {}
  BY DEF White, NonWhite
<1>2. weak' \subseteq Pending'
  BY DEF Pending
<1>3. \A o \in NonWhite' \ Pending' : Held(o)' \subseteq NonWhite'
  BY SettledFacts
<1>4. {main, registry} \subseteq NonWhite'
  BY DEF MarkInv, MarkPhases
<1> QED BY <1>1, <1>2, <1>3, <1>4 DEF MarkInv

-----------------------------------------------------------------------------
(* Steps that create objects, and steps that only write stacks.              *)

\* N are the objects that are created, or resurrected; they, and the slots that
\* are written, refer to live objects only.
LEMMA AllocStep ==
  ASSUME IInv, TypeOK', phase \notin AtomicPhases,
         UNCHANGED <<phase, currentwhite, unswept, weak, weakbits, tmudata, finalized, gray,
                     grayagain, mt, val, key, uval>>,
         NEW N \in SUBSET Obj,
         \A o \in N : color'[o] = currentwhite /\ (color[o] = "free" \/ (isdead(o) /\ o \in Str \cup Upv)),
         \A o \in Obj \ N : color'[o] = color[o],
         \A o \in (Cls \cup Udt \cup Thr) \ N : env'[o] = env[o],
         \A c \in Cls \ N : cup'[c] = cup[c] /\ upv'[c] = upv[c],
         \A u, w \in N \cap Upv : u = w,
         \A u \in Upv : \/ home'[u] = home[u]
                        \/ u \in N /\ color[u] = "free" /\ home'[u] # nil
                           /\ home'[u][1] = running /\ \A w \in Upv : home[w] # home'[u],
         \A th \in Thr, s \in Reg : \/ stack'[th][s] = stack[th][s]
                                    \/ /\ color[th] # "free"
                                       /\ stack'[th][s] \in Obj => Live(stack[th][s])',
         \A o \in N \cap (Cls \cup Udt \cup Thr) : env'[o] \in Obj => Live(env[o])',
         \A c \in N \cap Cls : (cup'[c] \in Obj => Live(cup[c])') /\ \A u \in upv'[c] : Live(u)',
         \A u \in N \cap Upv : UpValue(u)' \in Obj => Live(UpValue(u))',
         gmt' \in Obj => Live(gmt)',
         UNCHANGED <<running, resumer>> \/ ActiveInv'
  PROVE  IInv'
<1> USE DEF IInv
<1>1. otherwhite' = otherwhite /\ currentwhite # otherwhite /\ currentwhite \in {"w0", "w1"}
  BY DEF otherwhite, TypeOK
<1>2. /\ \A o \in Obj : Live(o)' <=> Live(o) \/ o \in N
      /\ \A o \in Obj : color'[o] = "free" <=> color[o] = "free" /\ o \notin N
  BY <1>1 DEF Live, Swept, isdead
<1>3. NonWhite' = NonWhite /\ N \cap NonWhite = {}
  <2>1. \A o \in N : o \notin NonWhite /\ o \notin NonWhite'
    BY <1>1 DEF NonWhite, isdead, otherwhite
  <2> QED BY <2>1 DEF NonWhite
<1>4. ActiveInv'
  <2> SUFFICES ASSUME UNCHANGED <<running, resumer>> PROVE ActiveInv'
    OBVIOUS
  <2>1. Active' = Active /\ Active \subseteq Obj
    BY ConstAssumption DEF Active, Obj
  <2>2. \A x \in Active' : Live(x)'
    BY <1>2, <2>1 DEF ActiveInv
  <2> QED BY <2>1, <2>2 DEF ActiveInv
<1>5. \A u \in Upv : u \notin N => home'[u] = home[u] /\ (IsOpen(u)' <=> IsOpen(u))
  BY DEF IsOpen
<1>6. \A u \in Upv \ N : \/ UpValue(u)' = UpValue(u)
                         \/ UpValue(u)' \in Obj => Live(UpValue(u))'
  <2> SUFFICES ASSUME NEW u \in Upv \ N
               PROVE  \/ UpValue(u)' = UpValue(u)
                      \/ UpValue(u)' \in Obj => Live(UpValue(u))'
    OBVIOUS
  <2>1. CASE ~IsOpen(u)
    BY <1>5, <2>1 DEF UpValue
  <2>2. CASE IsOpen(u)
    <3>1. home[u][1] \in Thr /\ home[u][2] \in Reg
      BY <2>2, UpValueType
    <3> DEFINE th == home[u][1]
               l == home[u][2]
    <3>2. UpValue(u) = stack[th][l] /\ UpValue(u)' = stack'[th][l]
      BY <1>5, <2>2 DEF UpValue
    <3> HIDE DEF th, l
    <3> QED BY <3>1, <3>2 DEF th, l, Live
  <2> QED BY <2>1, <2>2
<1>7. NoDangling'
  <2>1. \A o \in Roots' \cup tmudata' : Live(o)'
    <3>1. Live(running)' /\ (resumer'[running'] \in Obj => Live(resumer[running])')
      BY <1>4, ConstAssumption DEF ActiveInv, TypeOK
    <3>2. Live(main)' /\ Live(registry)'
      BY <1>2, ConstAssumption DEF NoDangling, Roots, Obj
    <3>3. \A u \in tmudata' : Live(u)'
      BY <1>2 DEF NoDangling, TypeOK, Obj
    <3> QED BY <3>1, <3>2, <3>3 DEF Roots
  <2>2. ASSUME NEW o \in Obj, Live(o)', NEW r \in Refs(o)' PROVE Live(r)'
    <3>1. r \in Obj
      BY DEF Refs
    <3>2. o \notin N => \A x \in Refs(o) : x \in Obj /\ Live(x)'
      BY <1>2, <2>2 DEF NoDangling, Refs
    <3>3. CASE o \in Upv
      <4>1. r = UpValue(o)'
        BY <2>2, <3>3, ConstAssumption DEF Refs
      <4>2. o \notin N => UpValue(o)' # UpValue(o) \/ r \in Refs(o)
        BY <3>1, <3>3, <4>1 DEF Refs
      <4> QED BY <1>6, <3>1, <3>2, <3>3, <4>1, <4>2
    <3>4. CASE o \in Thr
      <4>1. CASE r \in Thr /\ resumer'[r] = o
        BY <1>4, <3>4, <4>1, ConstAssumption DEF ActiveInv, Active, Obj
      <4>2. CASE r = env'[o]
        <5>1. o \notin N => r \in Refs(o)
          BY <3>1, <3>4, <4>2 DEF Refs, traversestack
        <5> QED BY <3>1, <3>2, <3>4, <4>2, <5>1
      <4>3. ASSUME NEW s \in Reg, r = stack'[o][s] PROVE Live(r)'
        <5>1. stack'[o][s] = stack[o][s] => r \in Refs(o)
          BY <3>1, <3>4, <4>3 DEF Refs, traversestack
        <5>2. CASE o \in N
          <6>1. color[o] = "free"
            BY <3>4, <5>2, ConstAssumption
          <6>2. stack[o][s] = nil
            BY <3>4, <6>1 DEF FreeBlank, NoStack
          <6> QED BY <3>1, <3>4, <4>3, <6>1, <6>2, ConstAssumption
        <5>3. CASE o \notin N
          BY <3>1, <3>2, <3>4, <4>3, <5>1, <5>3
        <5> QED BY <5>2, <5>3
      <4> QED BY <2>2, <3>4, <4>1, <4>2, <4>3, ConstAssumption DEF Refs, traversestack
    <3>5. CASE o \in Cls
      <4>1. r = env'[o] \/ r = cup'[o] \/ r \in upv'[o]
        BY <2>2, <3>5, ConstAssumption DEF Refs, traverseclosure
      <4>2. o \notin N => r \in Refs(o)
        BY <3>1, <3>5, <4>1 DEF Refs, traverseclosure
      <4> QED BY <3>1, <3>2, <3>5, <4>1, <4>2
    <3>6. CASE o \in Udt
      <4>1. r = env'[o] \/ r = mt[o]
        BY <2>2, <3>6, ConstAssumption DEF Refs
      <4>2. o \notin N => r \in Refs(o)
        BY <3>1, <3>6, <4>1 DEF Refs
      <4>3. o \in N => mt[o] = nil
        BY <3>6, ConstAssumption DEF FreeBlank
      <4> QED BY <3>1, <3>2, <3>6, <4>1, <4>2, <4>3, ConstAssumption
    <3>7. CASE o \in Tab
      <4>1. r \in Refs(o)
        BY <2>2, <3>7, ConstAssumption DEF Refs
      <4>2. o \in N => mt[o] = nil /\ \A n \in Node : val[o][n] = nil
        BY <3>7, ConstAssumption DEF FreeBlank, NoValues
      <4>3. o \notin N
        BY <3>1, <3>7, <4>1, <4>2, ConstAssumption DEF Refs
      <4> QED BY <3>2, <4>1, <4>3
    <3>8. o \notin Str
      BY <2>2, ConstAssumption DEF Refs
    <3> QED BY <3>3, <3>4, <3>5, <3>6, <3>7, <3>8 DEF Obj
  <2> QED BY <2>1, <2>2 DEF NoDangling
<1>8. FreeBlank'
  <2>1. \A th \in Thr : color[th] = "free" => stack'[th] = stack[th]
    BY DEF TypeOK
  <2>2. \A u \in Upv : color'[u] = "free" => home'[u] = home[u]
    BY <1>1 DEF Obj
  <2> QED BY <1>2, <2>1, <2>2 DEF FreeBlank, Obj
<1>9. ColorInv'
  BY <1>1, <1>5 DEF ColorInv
<1>10. OpenInv'
  <2> SUFFICES ASSUME NEW u \in Upv, IsOpen(u)'
               PROVE  /\ color'[u] # "free" /\ color'[home'[u][1]] # "free"
                      /\ \A w \in Upv : home'[w] = home'[u] => w = u
    BY DEF OpenInv
  <2>1. CASE home'[u] = home[u]
    <3>1. IsOpen(u) /\ home[u][1] \in Obj /\ u \in Obj
      BY <2>1, UpValueType DEF IsOpen, Obj
    <3>2. \A w \in Upv : home'[w] = home'[u] => home[w] = home[u]
      BY <2>1
    <3> QED BY <1>2, <2>1, <3>1, <3>2 DEF OpenInv
  <2>2. CASE home'[u] # home[u]
    <3>1. u \in N /\ home'[u][1] = running /\ \A w \in Upv : home[w] # home'[u]
      BY <2>2
    <3>2. \A w \in Upv : home'[w] = home'[u] => w \in N
      BY <3>1
    <3>3. running \in Obj /\ color[running] # "free" /\ u \in Obj
      BY DEF ActiveInv, Live, TypeOK, Obj
    <3> QED BY <1>2, <3>1, <3>2, <3>3
  <2> QED BY <2>1, <2>2
<1>11. WhiteInv'
  <2> SUFFICES ASSUME NEW o \in Obj
               PROVE  /\ phase \in MarkPhases => ~isdead(o)'
                      /\ phase \notin MarkPhases /\ color'[o] \notin {"free", currentwhite} =>
                           \/ phase \in SweepPhases /\ NotReached(o)'
                           \/ o \in tmudata /\ ~isdead(o)'
    BY DEF WhiteInv
  <2>1. CASE o \in N
    BY <1>1, <2>1 DEF isdead
  <2>2. CASE o \notin N
    <3>1. isdead(o)' <=> isdead(o)
      BY <1>1, <2>2 DEF isdead
    <3>2. NotReached(o)' <=> NotReached(o)
      BY <1>5, <2>2 DEF NotReached
    <3> QED BY <2>2, <3>1, <3>2 DEF WhiteInv
  <2> QED BY <2>1, <2>2
<1>12. TmuInv'
  <2>1. \A u \in tmudata : Live(u)'
    BY <1>2 DEF TmuInv, TypeOK, Obj
  <2>2. ASSUME NEW o \in unswept PROVE color'[o] # "free" /\ (o \in Upv => ~IsOpen(o)')
    <3>1. o \in Obj /\ color[o] # "free" /\ (o \in Upv => ~IsOpen(o))
      BY DEF TmuInv, TypeOK
    <3> QED BY <1>2, <3>1 DEF IsOpen
  <2> QED BY <2>1, <2>2 DEF TmuInv
<1>13. OneGclist'
  <2>1. \A o \in gray \cup grayagain \cup weak : o \in Obj
    BY DEF TypeOK, Listed, Obj
  <2> QED BY <1>3, <2>1 DEF OneGclist, NonWhite
<1>14. GrayInv' /\ KeyInv'
  <2>1. \A o \in Obj : color'[o] \in {"gray", "black"} => o \notin N /\ color'[o] = color[o]
    BY <1>1
  <2>2. GrayInv'
    BY <1>5, <2>1 DEF GrayInv
  <2>3. KeyInv'
    BY <1>2, <2>1 DEF KeyInv, isblack, Obj
  <2> QED BY <2>2, <2>3
<1>15. MarkInv'
  <2> SUFFICES ASSUME phase = "propagate", NEW o \in NonWhite \ Pending'
               PROVE  o \in NonWhite \ Pending /\ Held(o)' \subseteq Held(o)
    BY <1>3, SettledStep
  <2>1. o \notin Pending
    <3>1. \A u \in Upv : IsOpen(u) => IsOpen(u)'
      BY DEF IsOpen
    <3> QED BY <3>1 DEF Pending
  <2>2. o \in Obj /\ o \notin N /\ o \notin Thr /\ (o \in Upv => ~IsOpen(o))
    BY <1>3, <2>1, SettledFacts
  <2>3. o \in Upv => UpValue(o)' = UpValue(o)
    BY <1>5, <2>2 DEF UpValue
  <2>4. Held(o)' \subseteq Held(o)
    BY <2>2, <2>3 DEF Held, Refs, traverseclosure
  <2> QED BY <2>1, <2>4
<1> QED BY <1>4, <1>7, <1>8, <1>9, <1>10, <1>11, <1>12, <1>13, <1>14, <1>15

LEMMA MutatorPhase == ASSUME TypeOK, mutUnchanged
  PROVE phase \notin AtomicPhases /\ UNCHANGED <<phase, currentwhite, unswept, weak, weakbits, tmudata, finalized>>
BY DEF mutUnchanged, MutatorRuns, udVars

\* luaC_link: the new object, left on the stack, refers to live objects only.
LEMMA LinkStep ==
  ASSUME IInv, TypeOK', NEW o \in Tab \cup Udt \cup Cls \cup Thr, NEW s \in Reg, link(o, s), home' = home,
         \A x \in (Cls \cup Udt \cup Thr) \ {o} : env'[x] = env[x],
         \A c \in Cls \ {o} : cup'[c] = cup[c] /\ upv'[c] = upv[c],
         o \in Cls \cup Udt \cup Thr => (env'[o] \in Obj => Live(env'[o])),
         o \in Cls => (cup'[o] \in Obj => Live(cup'[o])) /\ \A u \in upv'[o] : Live(u)
  PROVE  IInv'
<1> USE DEF IInv
<1>1. /\ phase \notin AtomicPhases
      /\ UNCHANGED <<phase, currentwhite, unswept, weak, weakbits, tmudata, finalized, gray,
                     grayagain, mt, val, key, uval, gmt, running, resumer>>
  BY MutatorPhase DEF link
<1>2. o \in Obj /\ o \notin Upv /\ color[o] = "free" /\ color' = [color EXCEPT ![o] = currentwhite]
      /\ stack' = [stack EXCEPT ![running][s] = o]
  BY ConstAssumption DEF link, push, Obj
<1> DEFINE N == {o}
<1>3. /\ N \in SUBSET Obj
      /\ \A x \in N : color'[x] = currentwhite /\ (color[x] = "free" \/ (isdead(x) /\ x \in Str \cup Upv))
      /\ \A x \in Obj \ N : color'[x] = color[x]
  BY <1>2 DEF TypeOK
<1>4. \A x \in Obj : Live(x) \/ x = o => Live(x)'
  BY <1>1, <1>2, <1>3 DEF Live, Swept, isdead, otherwhite, TypeOK
<1>5. color[running] # "free"
  BY DEF ActiveInv, Live
<1>6. \A th \in Thr, l \in Reg : \/ stack'[th][l] = stack[th][l]
                                 \/ /\ color[th] # "free"
                                    /\ stack'[th][l] \in Obj => Live(stack[th][l])'
  <2> SUFFICES ASSUME NEW th \in Thr, NEW l \in Reg, stack'[th][l] # stack[th][l]
               PROVE  color[th] # "free" /\ Live(stack[th][l])'
    OBVIOUS
  <2>1. th = running /\ stack'[th][l] = o
    BY <1>2 DEF TypeOK
  <2> QED BY <1>2, <1>4, <1>5, <2>1 DEF Live, Swept, isdead, otherwhite
<1>7. \A x \in N \cap (Cls \cup Udt \cup Thr) : env'[x] \in Obj => Live(env[x])'
  BY <1>4 DEF Live, Swept, isdead, otherwhite
<1>8. \A c \in N \cap Cls : (cup'[c] \in Obj => Live(cup[c])') /\ \A u \in upv'[c] : Live(u)'
  <2>1. o \in Cls => upv'[o] \subseteq Obj
    BY DEF TypeOK, Obj
  <2> QED BY <1>4, <2>1 DEF Live, Swept, isdead, otherwhite
<1>9. gmt' \in Obj => Live(gmt)'
  BY <1>1, <1>4, ReachLive DEF Live, Swept, isdead, otherwhite
<1>10. N \cap Upv = {}
  BY <1>2
<1> HIDE DEF N
<1> QED
  <2>1. \A x \in (Cls \cup Udt \cup Thr) \ N : env'[x] = env[x]
    BY DEF N
  <2>2. \A c \in Cls \ N : cup'[c] = cup[c] /\ upv'[c] = upv[c]
    BY DEF N
  <2> QED BY <1>1, <1>3, <1>6, <1>7, <1>8, <1>9, <1>10, <2>1, <2>2, AllocStep

LEMMA luaH_newSafe ==
  ASSUME IInv, TypeOK', NEW t \in Tab, NEW s \in Reg, luaH_new(t, s) PROVE IInv'
BY LinkStep, ConstAssumption DEF luaH_new

LEMMA luaS_newudataSafe ==
  ASSUME IInv, TypeOK', NEW u \in Udt, NEW e \in Tab, NEW s \in Reg, luaS_newudata(u, e, s)
  PROVE  IInv'
<1>1. Live(e)
  BY ReachLive DEF luaS_newudata, Obj
<1>2. env'[u] = e /\ \A x \in (Cls \cup Udt \cup Thr) \ {u} : env'[x] = env[x]
  BY DEF luaS_newudata, IInv, TypeOK
<1> QED BY <1>1, <1>2, LinkStep, ConstAssumption DEF luaS_newudata

LEMMA luaE_newthreadSafe ==
  ASSUME IInv, TypeOK', NEW th \in Thr, NEW s \in Reg, luaE_newthread(th, s) PROVE IInv'
<1>1. env[running] \in Obj => Live(env[running])
  BY ReachLive DEF CurrEnv
<1>2. env'[th] = env[running] /\ \A x \in (Cls \cup Udt \cup Thr) \ {th} : env'[x] = env[x]
  BY DEF luaE_newthread, IInv, TypeOK
<1> QED BY <1>1, <1>2, LinkStep, ConstAssumption DEF luaE_newthread

LEMMA luaF_newCclosureSafe ==
  ASSUME IInv, TypeOK', NEW c \in Cls, NEW e \in Tab, NEW v \in Val, NEW s \in Reg,
         luaF_newCclosure(c, e, v, s)
  PROVE  IInv'
<1>1. Live(e) /\ (v \in Obj => Live(v))
  BY ReachLive DEF luaF_newCclosure, Obj
<1>2. /\ env'[c] = e /\ \A x \in (Cls \cup Udt \cup Thr) \ {c} : env'[x] = env[x]
      /\ cup'[c] = v /\ upv' = upv /\ \A x \in Cls \ {c} : cup'[x] = cup[x]
  BY DEF luaF_newCclosure, IInv, TypeOK
<1>3. upv[c] = {}
  BY DEF luaF_newCclosure, link, IInv, FreeBlank, Obj
<1> QED BY <1>1, <1>2, <1>3, LinkStep DEF luaF_newCclosure

LEMMA ShareUpvalSafe ==
  ASSUME IInv, TypeOK', NEW c \in Cls, NEW d \in Cls, NEW u \in Upv, NEW s \in Reg, ShareUpval(c, d, u, s)
  PROVE  IInv'
<1>1. (env[d] \in Obj => Live(env[d])) /\ Live(u)
  BY ReachLive DEF ShareUpval, CurrEnv
<1>2. /\ env'[c] = env[d] /\ \A x \in (Cls \cup Udt \cup Thr) \ {c} : env'[x] = env[x]
      /\ upv'[c] = {u} /\ cup' = cup /\ \A x \in Cls \ {c} : upv'[x] = upv[x]
  BY DEF ShareUpval, IInv, TypeOK
<1>3. cup[c] = nil
  BY DEF ShareUpval, link, IInv, FreeBlank, Obj
<1> QED BY <1>1, <1>2, <1>3, LinkStep, ConstAssumption DEF ShareUpval

\* Steps that store a live value on a live thread's stack.
LEMMA StackStep ==
  ASSUME IInv, TypeOK', mutUnchanged,
         UNCHANGED <<gray, grayagain, mt, env, val, key, cup, upv, home, uval>>,
         NEW N \in SUBSET Str,
         \A o \in N : color'[o] = currentwhite /\ (color[o] = "free" \/ isdead(o)),
         \A o \in Obj \ N : color'[o] = color[o],
         NEW th \in Thr, color[th] # "free", NEW s \in Reg, NEW v \in Val,
         stack' = [stack EXCEPT ![th][s] = v] \/ stack' = stack,
         v \in Obj => Live(v) \/ v \in N,
         gmt' \in Obj => Live(gmt'),
         UNCHANGED <<running, resumer>> \/ ActiveInv'
  PROVE  IInv'
<1> USE DEF IInv
<1>1. /\ phase \notin AtomicPhases
      /\ UNCHANGED <<phase, currentwhite, unswept, weak, weakbits, tmudata, finalized>>
  BY MutatorPhase
<1>2. \A x \in Obj : Live(x) \/ x \in N => Live(x)'
  BY <1>1 DEF Live, Swept, isdead, otherwhite, TypeOK
<1>3. \A h \in Thr, l \in Reg : \/ stack'[h][l] = stack[h][l]
                                \/ /\ color[h] # "free"
                                   /\ stack'[h][l] \in Obj => Live(stack[h][l])'
  <2> SUFFICES ASSUME NEW h \in Thr, NEW l \in Reg, stack'[h][l] # stack[h][l], stack'[h][l] \in Obj
               PROVE  color[h] # "free" /\ Live(stack[h][l])'
    <3>1. \A h \in Thr, l \in Reg : stack'[h][l] # stack[h][l] => h = th
      BY DEF TypeOK
    <3> QED BY <3>1
  <2>1. h = th /\ stack'[h][l] = v
    BY DEF TypeOK
  <2> QED BY <1>2, <2>1 DEF Live, Swept, isdead, otherwhite
<1>4. gmt' \in Obj => Live(gmt)'
  BY <1>2 DEF Live, Swept, isdead, otherwhite
<1>5. N \in SUBSET Obj /\ N \cap Upv = {} /\ N \cap (Cls \cup Udt \cup Thr) = {} /\ N \cap Cls = {}
  BY ConstAssumption DEF Obj
<1> QED BY <1>1, <1>3, <1>4, <1>5, AllocStep

LEMMA luaS_newlstrSafe ==
  ASSUME IInv, TypeOK', NEW x \in Str, NEW s \in Reg, luaS_newlstr(x, s) PROVE IInv'
<1> USE DEF IInv
<1>1. /\ color' = [color EXCEPT ![x] = IF color[x] = "free" \/ isdead(x) THEN currentwhite ELSE color[x]]
      /\ stack' = [stack EXCEPT ![running][s] = x] /\ mutUnchanged
      /\ UNCHANGED <<gray, grayagain, mt, env, val, key, cup, upv, home, uval, gmt, running, resumer>>
  BY DEF luaS_newlstr, push
<1> DEFINE N == IF color[x] = "free" \/ isdead(x) THEN {x} ELSE {}
<1>2. /\ N \in SUBSET Str
      /\ \A o \in N : color'[o] = currentwhite /\ (color[o] = "free" \/ isdead(o))
      /\ \A o \in Obj \ N : color'[o] = color[o]
  BY <1>1, ConstAssumption DEF TypeOK, Obj
<1>3. Live(x) \/ x \in N
  BY DEF Live, Swept
<1>4. x \in Val /\ running \in Thr /\ color[running] # "free" /\ (gmt' \in Obj => Live(gmt'))
  BY <1>1, ReachLive, ConstAssumption DEF Val, Obj, ActiveInv, Live, TypeOK
<1> HIDE DEF N
<1> QED BY <1>1, <1>2, <1>3, <1>4, StackStep

LEMMA LoadSafe ==
  ASSUME IInv, TypeOK', NEW v \in Val, NEW s \in Reg, Load(v, s) PROVE IInv'
<1> USE DEF IInv
<1>1. v \in Obj => Live(v)
  BY ReachLive, ConstAssumption DEF Load
<1>2. running \in Thr /\ color[running] # "free" /\ (gmt \in Obj => Live(gmt))
  BY ReachLive DEF ActiveInv, Live, TypeOK
<1>3. stack' = [stack EXCEPT ![running][s] = v] /\ mutUnchanged
      /\ UNCHANGED <<color, gray, grayagain, mt, env, val, key, cup, upv, home, uval, gmt, running, resumer>>
  BY DEF Load, push
<1>4. {} \in SUBSET Str /\ \A o \in Obj \ {} : color'[o] = color[o]
  BY <1>3
<1> QED BY <1>1, <1>2, <1>3, <1>4, StackStep

\* The stores that need no barrier: g->mt is marked again in `atomic', and
\* whether a table is weak is looked up when it is traversed.
LEMMA NoBarrierSafe ==
  ASSUME IInv, TypeOK', \/ \E m \in Tab \cup {nil} : SetBasicMeta(m)
                        \/ \E t \in Tab, E \in Events : SetTM(t, E)
  PROVE  IInv'
<1> USE DEF IInv
<1>1. /\ mutUnchanged
      /\ UNCHANGED <<color, gray, grayagain, mt, env, val, key, stack, cup, upv, home, uval, running, resumer>>
  BY DEF SetBasicMeta, SetTM
<1>2. gmt' \in Obj => Live(gmt')
  BY ReachLive, ConstAssumption DEF SetBasicMeta, SetTM, Index
<1>3. running \in Thr /\ color[running] # "free" /\ nil \in Val /\ nil \notin Obj
  BY ConstAssumption DEF ActiveInv, Live, TypeOK, Val
<1>4. PICK th \in Thr : color[th] # "free"
  BY <1>3
<1>5. CASE Reg = {}
  <2>1. \A h \in Thr, l \in Reg : stack'[h][l] = stack[h][l]
    BY <1>1
  <2>2. gmt' \in Obj => Live(gmt)'
    BY <1>1, <1>2, MutatorPhase DEF Live, Swept, isdead, otherwhite
  <2>3. {} \in SUBSET Obj /\ {} \cap Upv = {} /\ {} \cap Cls = {} /\ {} \cap (Cls \cup Udt \cup Thr) = {}
        /\ \A o \in Obj \ {} : color'[o] = color[o]
    BY <1>1
  <2> QED BY <1>1, <2>1, <2>2, <2>3, MutatorPhase, AllocStep
<1>6. ASSUME NEW s \in Reg PROVE IInv'
  <2>1. {} \in SUBSET Str /\ \A o \in Obj \ {} : color'[o] = color[o]
    BY <1>1
  <2> QED BY <1>1, <1>2, <1>3, <1>4, <2>1, StackStep
<1> QED BY <1>5, <1>6

LEMMA ResumeSafe ==
  ASSUME IInv, TypeOK', NEW th \in Thr, NEW v \in Val, NEW s \in Reg, Resume(th, v, s) PROVE IInv'
<1> USE DEF IInv
<1>1. /\ th \in Regs /\ th # main /\ resumer[th] = nil /\ v \in RegVal
      /\ stack' = [stack EXCEPT ![th][s] = v]
      /\ resumer' = [resumer EXCEPT ![th] = running] /\ running' = th
      /\ UNCHANGED <<color, gray, grayagain, mt, env, val, key, cup, upv, home, uval, gmt>>
      /\ mutUnchanged
  BY DEF Resume
<1>2. Live(th) /\ (v \in Obj => Live(v)) /\ (gmt \in Obj => Live(gmt))
  BY <1>1, ReachLive DEF Index, Obj
<1>3. ActiveInv'
  <2>1. running \in Active /\ th \notin Active /\ th # running /\ running # nil /\ running \in Thr
    BY <1>1, ConstAssumption DEF Active, ActiveInv, TypeOK, Obj
  <2>2. \A x \in Thr : resumer'[x] = IF x = th THEN running ELSE resumer[x]
    BY <1>1 DEF TypeOK
  <2>3. Active' = Active \cup {th}
    BY <2>1, <2>2 DEF Active
  <2>4. \A x \in Active' : Live(x)'
    <3>1. \A x \in Active \cup {th} : Live(x)
      BY <1>2 DEF ActiveInv
    <3> QED BY <1>1, <2>3, <3>1, MutatorPhase DEF Live, Swept, isdead, otherwhite
  <2>5. \A x \in Thr : resumer'[x] # nil =>
           /\ resumer'[x] \in Active' /\ resumer'[x] # running'
           /\ \A y \in Thr : resumer'[y] = resumer'[x] => y = x
    BY <1>1, <2>1, <2>2, <2>3 DEF ActiveInv
  <2>6. \E rank \in [Thr -> Nat] : \A x \in Thr : resumer'[x] # nil => rank[resumer'[x]] < rank[x]
    <3>1. PICK f \in [Thr -> Nat] : \A x \in Thr : resumer[x] # nil => f[resumer[x]] < f[x]
      BY DEF ActiveInv
    <3> DEFINE g == [f EXCEPT ![th] = f[running] + 1]
    <3>2. g \in [Thr -> Nat] /\ g[th] = f[running] + 1 /\ \A x \in Thr \ {th} : g[x] = f[x]
      BY <2>1, <3>1
    <3>3. \A x \in Thr \ {th} : resumer[x] # nil => resumer[x] \in Thr /\ resumer[x] # th
      BY <2>1 DEF ActiveInv, TypeOK
    <3> HIDE DEF g
    <3>4. ASSUME NEW x \in Thr, resumer'[x] # nil PROVE g[resumer'[x]] < g[x]
      <4>1. CASE x = th
        <5>1. resumer'[x] = running /\ g[running] = f[running] /\ f[running] \in Nat
          BY <2>1, <2>2, <3>1, <3>2, <4>1
        <5> QED BY <3>2, <4>1, <5>1
      <4>2. CASE x # th
        BY <2>2, <3>1, <3>2, <3>3, <3>4, <4>2
      <4> QED BY <4>1, <4>2
    <3> QED BY <3>2, <3>4
  <2>7. resumer'[main] = nil /\ running' \in Active'
    BY <1>1, <2>2, <2>3, ConstAssumption DEF ActiveInv
  <2> QED BY <2>4, <2>5, <2>6, <2>7 DEF ActiveInv
<1>4. color[th] # "free" /\ (gmt' \in Obj => Live(gmt')) /\ {} \in SUBSET Str /\ \A o \in Obj \ {} : color'[o] = color[o]
  BY <1>1, <1>2 DEF Live
<1> QED BY <1>1, <1>2, <1>3, <1>4, StackStep

LEMMA YieldSafe ==
  ASSUME IInv, TypeOK', NEW v \in Val, NEW s \in Reg, Yield(v, s) PROVE IInv'
<1> USE DEF IInv
<1> DEFINE to == resumer[running]
<1>1. /\ to # nil /\ v \in RegVal
      /\ stack' = [stack EXCEPT ![to][s] = v]
      /\ resumer' = [resumer EXCEPT ![running] = nil] /\ running' = to
      /\ UNCHANGED <<color, gray, grayagain, mt, env, val, key, cup, upv, home, uval, gmt>>
      /\ mutUnchanged
  BY DEF Yield
<1>2. to \in Thr /\ to \in Active /\ to # running /\ running \in Thr /\ running # main
  BY <1>1, ConstAssumption DEF ActiveInv, TypeOK
<1> HIDE DEF to
<1>3. Live(to) /\ (v \in Obj => Live(v)) /\ (gmt \in Obj => Live(gmt))
  BY <1>1, <1>2, ReachLive DEF ActiveInv, Obj
<1>4. ActiveInv'
  <2>1. \A x \in Thr : resumer'[x] = IF x = running THEN nil ELSE resumer[x]
    BY <1>1 DEF TypeOK
  <2>2. Active' = Active \ {running}
    BY <1>2, <2>1 DEF Active
  <2>3. \A x \in Active' : Live(x)'
    <3>1. \A x \in Active : Live(x)
      BY DEF ActiveInv
    <3> QED BY <1>1, <2>2, <3>1, MutatorPhase DEF Live, Swept, isdead, otherwhite
  <2>4. \A x \in Thr : resumer'[x] # nil =>
           /\ resumer'[x] \in Active' /\ resumer'[x] # running'
           /\ \A y \in Thr : resumer'[y] = resumer'[x] => y = x
    BY <1>1, <1>2, <2>1, <2>2 DEF ActiveInv, to
  <2>5. \E rank \in [Thr -> Nat] : \A x \in Thr : resumer'[x] # nil => rank[resumer'[x]] < rank[x]
    <3>1. PICK f \in [Thr -> Nat] : \A x \in Thr : resumer[x] # nil => f[resumer[x]] < f[x]
      BY DEF ActiveInv
    <3>2. \A x \in Thr : resumer'[x] # nil => f[resumer'[x]] < f[x]
      BY <2>1, <3>1
    <3> QED BY <3>2
  <2>6. resumer'[main] = nil /\ running' \in Active'
    BY <1>1, <1>2, <2>1, <2>2, ConstAssumption DEF ActiveInv
  <2> QED BY <2>3, <2>4, <2>5, <2>6 DEF ActiveInv
<1>5. color[to] # "free" /\ (gmt' \in Obj => Live(gmt')) /\ {} \in SUBSET Str /\ \A o \in Obj \ {} : color'[o] = color[o]
  BY <1>1, <1>3 DEF Live
<1> QED BY <1>1, <1>2, <1>3, <1>4, <1>5, StackStep

LEMMA f_parserSafe ==
  ASSUME IInv, TypeOK', NEW c \in Cls, NEW u \in Upv, NEW s \in Reg, f_parser(c, u, s) PROVE IInv'
<1> USE DEF IInv
<1>1. /\ color[c] = "free" /\ color[u] = "free"
      /\ color' = [color EXCEPT ![c] = currentwhite, ![u] = currentwhite]
      /\ env' = [env EXCEPT ![c] = env[running]]
      /\ upv' = [upv EXCEPT ![c] = {u}]
      /\ stack' = [stack EXCEPT ![running][s] = c]
      /\ UNCHANGED <<gray, grayagain, mt, val, key, cup, home, uval, gmt, running, resumer>>
      /\ mutUnchanged
  BY DEF f_parser, push
<1>2. /\ phase \notin AtomicPhases
      /\ UNCHANGED <<phase, currentwhite, unswept, weak, weakbits, tmudata, finalized>>
  BY <1>1, MutatorPhase
<1> DEFINE N == {c, u}
<1>3. /\ N \in SUBSET Obj /\ N \cap Cls = {c} /\ N \cap Upv = {u} /\ N \cap (Cls \cup Udt \cup Thr) = {c}
      /\ \A x \in N : color'[x] = currentwhite /\ color[x] = "free"
      /\ \A x \in Obj \ N : color'[x] = color[x]
  BY <1>1, ConstAssumption DEF TypeOK, Obj
<1>4. \A x \in Obj : Live(x) \/ x \in N => Live(x)'
  BY <1>2, <1>3 DEF Live, Swept, isdead, otherwhite, TypeOK
<1>5. color[running] # "free" /\ (env[running] \in Obj => Live(env[running])) /\ (gmt \in Obj => Live(gmt))
  BY ReachLive DEF ActiveInv, Live, CurrEnv
<1>6. \A th \in Thr, l \in Reg : \/ stack'[th][l] = stack[th][l]
                                 \/ /\ color[th] # "free"
                                    /\ stack'[th][l] \in Obj => Live(stack[th][l])'
  <2> SUFFICES ASSUME NEW th \in Thr, NEW l \in Reg, stack'[th][l] # stack[th][l]
               PROVE  color[th] # "free" /\ Live(stack[th][l])'
    OBVIOUS
  <2>1. th = running /\ stack'[th][l] = c
    BY <1>1 DEF TypeOK
  <2> QED BY <1>3, <1>4, <1>5, <2>1 DEF Live, Swept, isdead, otherwhite
<1>7. env'[c] \in Obj => Live(env[c])'
  <2>1. env'[c] = env[running]
    BY <1>1 DEF TypeOK
  <2> QED BY <1>4, <1>5, <2>1 DEF Live, Swept, isdead, otherwhite
<1>8. (cup'[c] \in Obj => Live(cup[c])') /\ \A x \in upv'[c] : Live(x)'
  <2>1. cup'[c] = nil /\ upv'[c] = {u}
    BY <1>1 DEF FreeBlank, TypeOK, Obj
  <2> QED BY <1>3, <1>4, <2>1, ConstAssumption
<1>9. UpValue(u)' \in Obj => Live(UpValue(u))'
  BY <1>1, ConstAssumption DEF UpValue, IsOpen, FreeBlank, Obj
<1>10. gmt' \in Obj => Live(gmt)'
  BY <1>1, <1>4, <1>5 DEF Live, Swept, isdead, otherwhite
<1>11. /\ \A x \in (Cls \cup Udt \cup Thr) \ N : env'[x] = env[x]
       /\ \A x \in Cls \ N : cup'[x] = cup[x] /\ upv'[x] = upv[x]
  BY <1>1 DEF TypeOK
<1>12. /\ \A x, w \in N \cap Upv : x = w
       /\ \A x \in N \cap (Cls \cup Udt \cup Thr) : env'[x] \in Obj => Live(env[x])'
       /\ \A x \in N \cap Cls : (cup'[x] \in Obj => Live(cup[x])') /\ \A w \in upv'[x] : Live(w)'
       /\ \A x \in N \cap Upv : UpValue(x)' \in Obj => Live(UpValue(x))'
  BY <1>3, <1>7, <1>8, <1>9
<1>13. \A x \in N : color'[x] = currentwhite /\ (color[x] = "free" \/ (isdead(x) /\ x \in Str \cup Upv))
  BY <1>3
<1> HIDE DEF N
<1> QED BY <1>1, <1>2, <1>3, <1>6, <1>10, <1>11, <1>12, <1>13, AllocStep

LEMMA luaF_newLclosureSafe ==
  ASSUME IInv, TypeOK', NEW c \in Cls, NEW e \in Tab, NEW u \in Upv, NEW l \in Reg, NEW s \in Reg,
         luaF_newLclosure(c, e, u, l, s)
  PROVE  IInv'
<1> USE DEF IInv
<1> DEFINE fresh == color[u] = "free" \/ isdead(u)
           N == IF fresh THEN {c, u} ELSE {c}
<1>1. /\ color[c] = "free" /\ e \in CurrEnv /\ luaF_findupval(u, l)
      /\ color' = [color EXCEPT ![c] = currentwhite, ![u] = IF fresh THEN currentwhite ELSE color[u]]
      /\ env' = [env EXCEPT ![c] = e]
      /\ upv' = [upv EXCEPT ![c] = {u}]
      /\ stack' = [stack EXCEPT ![running][s] = c]
      /\ UNCHANGED <<gray, grayagain, mt, val, key, cup, uval, gmt, running, resumer>>
      /\ mutUnchanged
  BY DEF luaF_newLclosure, push
<1>2. /\ phase \notin AtomicPhases
      /\ UNCHANGED <<phase, currentwhite, unswept, weak, weakbits, tmudata, finalized>>
  BY <1>1, MutatorPhase
<1>3. /\ N \in SUBSET Obj /\ N \cap Cls = {c} /\ N \cap Upv \subseteq {u} /\ N \cap (Cls \cup Udt \cup Thr) = {c}
      /\ \A x \in N : color'[x] = currentwhite /\ (color[x] = "free" \/ (isdead(x) /\ x \in Str \cup Upv))
      /\ \A x \in Obj \ N : color'[x] = color[x]
  <2>1. c \in Obj /\ u \in Obj /\ c # u
    BY ConstAssumption DEF Obj
  <2>2. \A x \in Obj : color'[x] = IF x = u /\ fresh THEN currentwhite ELSE IF x = c THEN currentwhite ELSE color[x]
    BY <1>1, <2>1 DEF TypeOK
  <2>3. N \in SUBSET Obj /\ N \cap Cls = {c} /\ N \cap Upv \subseteq {u} /\ N \cap (Cls \cup Udt \cup Thr) = {c}
    BY <2>1, ConstAssumption
  <2> HIDE DEF N
  <2>4. \A x : x \in N <=> x = c \/ (x = u /\ fresh)
    BY DEF N
  <2> QED BY <1>1, <2>1, <2>2, <2>3, <2>4
<1>4. /\ home'[u] = <<running, l>> /\ (home'[u] # home[u] => color[u] = "free" /\ \A w \in Upv : home[w] # home'[u])
      /\ \A w \in Upv \ {u} : home'[w] = home[w]
  <2>1. CASE u \in OpenOf(running) /\ home[u][2] = l /\ home' = home
    <3>1. home[u] \in Thr \X Reg /\ home[u][1] = running
      BY <2>1, UpValueType DEF OpenOf
    <3>2. home[u] = <<running, l>>
      BY <2>1, <3>1
    <3> QED BY <2>1, <3>2
  <2>2. CASE /\ \A x \in OpenOf(running) : home[x][2] # l
             /\ color[u] = "free"
             /\ home' = [home EXCEPT ![u] = <<running, l>>]
    <3>1. ASSUME NEW w \in Upv, home[w] = <<running, l>> PROVE FALSE
      <4>1. home[w] # nil /\ home[w][1] = running /\ home[w][2] = l
        BY <3>1, ConstAssumption DEF TypeOK
      <4> QED BY <2>2, <4>1 DEF OpenOf, IsOpen
    <3> QED BY <2>2, <3>1 DEF TypeOK
  <2> QED BY <1>1, <2>1, <2>2 DEF luaF_findupval
<1>5. \A x \in Obj : Live(x) \/ x \in N => Live(x)'
  BY <1>2, <1>3 DEF Live, Swept, isdead, otherwhite, TypeOK
<1>6. u \in Obj /\ (Live(u) \/ u \in N)
  <2>1. color[u] # "free" /\ ~isdead(u) => Live(u)
    BY DEF Live, Swept
  <2> QED BY <2>1 DEF Obj
<1>7. color[running] # "free" /\ Live(e) /\ (gmt \in Obj => Live(gmt))
      /\ running \in Thr /\ (stack[running][l] \in Obj => Live(stack[running][l]))
  BY <1>1, ReachLive DEF ActiveInv, Live, Obj, TypeOK
<1> HIDE DEF N
<1>8. \A th \in Thr, k \in Reg : \/ stack'[th][k] = stack[th][k]
                                 \/ /\ color[th] # "free"
                                    /\ stack'[th][k] \in Obj => Live(stack[th][k])'
  <2> SUFFICES ASSUME NEW th \in Thr, NEW k \in Reg, stack'[th][k] # stack[th][k]
               PROVE  color[th] # "free" /\ Live(stack[th][k])'
    OBVIOUS
  <2>1. th = running /\ stack'[th][k] = c
    BY <1>1 DEF TypeOK
  <2> QED BY <1>3, <1>5, <1>7, <2>1 DEF Live, Swept, isdead, otherwhite
<1>9. env'[c] \in Obj => Live(env[c])'
  <2>1. env'[c] = e
    BY <1>1 DEF TypeOK
  <2> QED BY <1>5, <1>7, <2>1 DEF Live, Swept, isdead, otherwhite
<1>10. (cup'[c] \in Obj => Live(cup[c])') /\ \A x \in upv'[c] : Live(x)'
  <2>1. cup'[c] = nil /\ upv'[c] = {u}
    BY <1>1 DEF FreeBlank, TypeOK, Obj
  <2> QED BY <1>5, <1>6, <2>1, ConstAssumption
<1>11. UpValue(u)' \in Obj => Live(UpValue(u))'
  <2>1. UpValue(u)' = stack'[running][l]
    BY <1>1, <1>4, ConstAssumption, <1>7 DEF UpValue, IsOpen
  <2>2. stack'[running][l] \in Obj => Live(stack[running][l])'
    BY <1>1, <1>5, <1>7, <1>8 DEF Live, Swept, isdead, otherwhite
  <2> QED BY <1>1, <2>1, <2>2 DEF Live, Swept, isdead, otherwhite
<1>12. gmt' \in Obj => Live(gmt)'
  BY <1>1, <1>5, <1>7 DEF Live, Swept, isdead, otherwhite
<1>13. /\ \A x \in (Cls \cup Udt \cup Thr) \ N : env'[x] = env[x]
       /\ \A x \in Cls \ N : cup'[x] = cup[x] /\ upv'[x] = upv[x]
  BY <1>1, <1>3 DEF TypeOK
<1>14. \A w \in Upv : \/ home'[w] = home[w]
                      \/ w \in N /\ color[w] = "free" /\ home'[w] # nil
                         /\ home'[w][1] = running /\ \A x \in Upv : home[x] # home'[w]
  <2>1. color[u] = "free" => u \in N
    BY <1>6 DEF Live
  <2>2. <<running, l>>[1] = running /\ <<running, l>> # nil
    BY <1>7, ConstAssumption
  <2> QED BY <1>4, <2>1, <2>2
<1>15. /\ \A x, w \in N \cap Upv : x = w
       /\ \A x \in N \cap (Cls \cup Udt \cup Thr) : env'[x] \in Obj => Live(env[x])'
       /\ \A x \in N \cap Cls : (cup'[x] \in Obj => Live(cup[x])') /\ \A w \in upv'[x] : Live(w)'
       /\ \A x \in N \cap Upv : UpValue(x)' \in Obj => Live(UpValue(x))'
  BY <1>3, <1>9, <1>10, <1>11
<1> QED BY <1>1, <1>2, <1>3, <1>8, <1>12, <1>13, <1>14, <1>15, AllocStep

-----------------------------------------------------------------------------
(* Stores protected by the forward barrier.                                  *)

LEMMA BarrierfStep ==
  ASSUME IInv, TypeOK', mutUnchanged,
         UNCHANGED <<grayagain, val, key, home, gmt, running, resumer>>,
         NEW o \in Obj \ (Tab \cup Str), NEW v, v \in Obj => Live(v), barrierf(o, v),
         \A x \in Obj : Refs(x)' \subseteq Refs(x) \cup {v},
         \A x \in Obj \ Thr : x = o \/ (x \in Upv /\ IsOpen(x)) \/ Refs(x)' \subseteq Refs(x),
         \A x \in Tab : mt'[x] = mt[x],
         \A x \in Obj : color[x] = "free" => /\ x \in Udt => mt'[x] = mt[x]
                                             /\ x \in Thr => stack'[x] = stack[x]
                                             /\ x \in Cls => cup'[x] = cup[x] /\ upv'[x] = upv[x]
                                             /\ x \in Upv => uval'[x] = uval[x]
  PROVE  IInv'
<1> USE DEF IInv
<1>1. /\ phase \notin AtomicPhases /\ (phase \in MarkPhases <=> phase = "propagate")
      /\ UNCHANGED <<phase, currentwhite, unswept, weak, weakbits, tmudata, finalized>>
  BY MutatorPhase DEF MarkPhases
<1>2. otherwhite' = otherwhite /\ currentwhite # otherwhite /\ currentwhite \in {"w0", "w1"}
  BY <1>1 DEF otherwhite, TypeOK
<1> DEFINE M == IF isblack(o) /\ v \in White /\ phase = "propagate"
                THEN reallymarkobject({v}, White) ELSE {}
           D == IF isblack(o) /\ v \in White /\ phase # "propagate" THEN {o} ELSE {}
<1>3. /\ M \subseteq White /\ M \subseteq Obj /\ D \subseteq Obj
      /\ (phase = "propagate" => D = {}) /\ (phase # "propagate" => M = {})
      /\ \A x \in M \cap (Upv \cup Udt) : Children(x) \cap White \subseteq M
      /\ phase = "propagate" /\ isblack(o) /\ v \in White => v \in M
      /\ \A x \in D : color[x] = "black"
  <2>1. M \subseteq White /\ \A x \in M \cap (Upv \cup Udt) : Children(x) \cap White \subseteq M
    BY MarkFacts DEF White
  <2>2. phase = "propagate" /\ isblack(o) /\ v \in White => v \in M
    BY MarkFacts DEF White
  <2> QED BY <2>1, <2>2 DEF White, isblack
<1>4. /\ \A x \in D : color'[x] = currentwhite
      /\ \A x \in Obj \ D : color'[x] = Paint(M)[x]
      /\ gray' = gray \cup (M \cap Listed)
  <2>1. Paint({}) = color
    BY DEF Paint, TypeOK
  <2>2. CASE ~(isblack(o) /\ v \in White)
    <3>1. M = {} /\ D = {} /\ color' = color /\ gray' = gray
      BY <2>2 DEF barrierf
    <3> HIDE DEF M, D
    <3> QED BY <2>1, <3>1
  <2>3. CASE isblack(o) /\ v \in White /\ phase = "propagate"
    <3>1. D = {} /\ color' = Paint(M) /\ gray' = gray \cup (M \cap Listed)
      BY <2>3 DEF barrierf
    <3> HIDE DEF M, D
    <3> QED BY <3>1
  <2>4. CASE isblack(o) /\ v \in White /\ phase # "propagate"
    <3>1. M = {} /\ D = {o} /\ color' = [color EXCEPT ![o] = currentwhite] /\ gray' = gray
      BY <2>4 DEF barrierf
    <3> HIDE DEF M, D
    <3> QED BY <2>1, <3>1 DEF TypeOK
  <2> QED BY <2>2, <2>3, <2>4
<1> HIDE DEF M, D
<1>5. \A x \in Obj : Paint(M)[x] = IF x \notin M THEN color[x]
           ELSE IF x \in Udt \/ (x \in Upv /\ ~IsOpen(x)) THEN "black" ELSE "gray"
  BY DEF Paint
<1>6. \A x \in M : color[x] # "free" /\ ~isdead(x) /\ Live(x)
  <2>1. \A x \in M : x \in Obj /\ color[x] # "free" /\ phase \in MarkPhases
    BY <1>1, <1>3 DEF White
  <2> QED BY <2>1 DEF WhiteInv, Live, Swept
<1>7. \A x \in Obj : /\ Live(x)' <=> Live(x)
                     /\ color'[x] = "free" <=> color[x] = "free"
                     /\ isdead(x)' => isdead(x)
  <2> SUFFICES ASSUME NEW x \in Obj
               PROVE  /\ Live(x)' <=> Live(x)
                      /\ color'[x] = "free" <=> color[x] = "free"
                      /\ isdead(x)' => isdead(x)
    OBVIOUS
  <2>1. CASE x \in D
    BY <1>2, <1>3, <1>4, <2>1 DEF Live, Swept, isdead, otherwhite
  <2>2. CASE x \in M /\ x \notin D
    BY <1>2, <1>3, <1>4, <1>5, <1>6, <2>2 DEF Live, Swept, isdead, otherwhite
  <2>3. CASE x \notin M /\ x \notin D
    BY <1>2, <1>4, <1>5, <2>3 DEF Live, Swept, isdead
  <2> QED BY <2>1, <2>2, <2>3
<1>8. NoDangling'
  <2>1. \A x \in (Roots \cup tmudata)' : x \in Obj /\ Live(x)
    BY <1>1 DEF NoDangling, Roots, TypeOK, Obj
  <2>2. ASSUME NEW x \in Obj, Live(x)', NEW r \in Refs(x)' PROVE Live(r)'
    <3>1. r \in Obj /\ (r \in Refs(x) \/ r = v)
      BY DEF Refs
    <3> QED BY <1>7, <2>2, <3>1 DEF NoDangling
  <2> QED BY <1>7, <2>1, <2>2 DEF NoDangling
<1>9. FreeBlank'
  BY <1>7 DEF FreeBlank
<1>10. ColorInv'
  <2> SUFFICES ASSUME NEW x \in Obj
               PROVE  /\ x \in Udt => color'[x] # "gray"
                      /\ x \in Thr => color'[x] # "black"
                      /\ x \in Upv => IF IsOpen(x) THEN color'[x] # "black" ELSE color'[x] # "gray"
    BY DEF ColorInv, IsOpen
  <2>1. CASE x \in D
    BY <1>2, <1>4, <2>1
  <2>2. CASE x \notin D
    BY <1>4, <1>5, <2>2, ConstAssumption DEF ColorInv
  <2> QED BY <2>1, <2>2
<1>11. OpenInv'
  BY <1>7, UpValueType DEF OpenInv, IsOpen, Obj
<1>12. ActiveInv'
  <2>1. Active' = Active /\ Active \subseteq Obj
    BY ConstAssumption DEF Active, Obj
  <2>2. \A x \in Active' : Live(x)'
    BY <1>7, <2>1 DEF ActiveInv
  <2> QED BY <2>1, <2>2 DEF ActiveInv
<1>13. WhiteInv'
  <2> SUFFICES ASSUME NEW x \in Obj
               PROVE  /\ phase \in MarkPhases => ~isdead(x)'
                      /\ phase \notin MarkPhases /\ color'[x] \notin {"free", currentwhite} =>
                           \/ phase \in SweepPhases /\ NotReached(x)'
                           \/ x \in tmudata /\ ~isdead(x)'
    BY <1>1 DEF WhiteInv
  <2>1. NotReached(x)' <=> NotReached(x)
    BY <1>1 DEF NotReached, IsOpen
  <2>2. phase \notin MarkPhases /\ color'[x] \notin {"free", currentwhite} => color[x] = color'[x]
    BY <1>1, <1>3, <1>4, <1>5
  <2> QED BY <1>7, <2>1, <2>2 DEF WhiteInv
<1>14. TmuInv'
  BY <1>1, <1>7 DEF TmuInv, IsOpen, TypeOK, Obj
<1>15. phase = "propagate" => /\ \A x \in Obj \ M : color'[x] = color[x]
                              /\ \A x \in M : color'[x] \in {"gray", "black"} /\ (x \in Listed => color'[x] = "gray")
  BY <1>3, <1>4, <1>5, ConstAssumption DEF Listed
<1>16. GrayInv' /\ OneGclist' /\ KeyInv'
  <2> SUFFICES ASSUME phase = "propagate" PROVE GrayInv' /\ OneGclist' /\ KeyInv'
    BY <1>1 DEF GrayInv, OneGclist, KeyInv
  <2>1. \A x \in gray \cup grayagain \cup weak : x \in Obj /\ x \notin M /\ color[x] = "gray"
    BY <1>3 DEF OneGclist, MarkPhases, TypeOK, Listed, Obj, White
  <2>2. OneGclist'
    BY <1>1, <1>3, <1>4, <1>15, <2>1 DEF OneGclist, MarkPhases
  <2>3. GrayInv'
    <3> SUFFICES ASSUME NEW x \in Obj, color'[x] = "gray"
                 PROVE  x \in gray' \cup grayagain \cup weak \cup Str \/ (x \in Upv /\ IsOpen(x))
      BY <1>1 DEF GrayInv, IsOpen
    <3>1. CASE x \in M
      <4>1. x \in Udt \/ (x \in Upv /\ ~IsOpen(x)) => color'[x] = "black"
        BY <1>3, <1>4, <1>5, <3>1
      <4> QED BY <1>4, <3>1, <4>1 DEF Listed, Obj
    <3>2. CASE x \notin M
      BY <1>4, <1>15, <3>2 DEF GrayInv
    <3> QED BY <3>1, <3>2
  <2>4. KeyInv'
    <3>1. \A t \in Tab : isblack(t)' => isblack(t)
      BY <1>15 DEF isblack, Listed, Obj
    <3> QED BY <1>7, <3>1 DEF KeyInv
  <2> QED BY <2>2, <2>3, <2>4
<1>17. MarkInv'
  <2>1. phase = "propagate" => NonWhite' = NonWhite \cup M
    BY <1>3, <1>15 DEF NonWhite
  <2>2. \A x \in Obj : Live(x) => x \in NonWhite \/ x \in White
    BY DEF Live, NonWhite, White, TypeOK, Colors
  <2> SUFFICES ASSUME phase = "propagate", NEW x \in NonWhite' \ Pending'
               PROVE  \/ x \in NonWhite \ Pending /\ Held(x)' \subseteq Held(x) \cup NonWhite'
                      \/ Held(x)' \subseteq NonWhite'
    BY <1>1, <2>1, SettledStep
  <2>3. x \in Obj /\ Pending \subseteq Pending'
    BY <1>1, <1>4 DEF NonWhite, Pending, IsOpen
  <2>4. CASE x \in M
    <3>1. x \in Udt \cup Upv \cup Str /\ x \notin Tab
      BY <1>4, <2>3, <2>4, ConstAssumption DEF Pending, Listed, Obj
    <3>2. Held(x)' \subseteq Refs(x) \cup {v} /\ Held(x)' \subseteq Obj /\ Refs(x) = Children(x)
      BY <2>3, <3>1, HeldSmall DEF Held, Refs
    <3>3. v \in Obj => v \in NonWhite'
      BY <1>3, <2>1, <2>2, <2>4 DEF M
    <3>4. \A r \in Refs(x) : r \in NonWhite'
      <4> SUFFICES ASSUME NEW r \in Refs(x) PROVE r \in NonWhite'
        OBVIOUS
      <4>1. r \in Obj /\ Live(r)
        BY <1>6, <2>3, <2>4 DEF NoDangling, Refs
      <4>2. r \in Children(x) /\ (x \in Upv \cup Udt => Children(x) \cap White \subseteq M)
        BY <1>3, <2>4, <3>2
      <4>3. x \in Str => Refs(x) = {}
        BY ConstAssumption DEF Refs
      <4> QED BY <2>1, <2>2, <3>1, <4>1, <4>2, <4>3
    <3> QED BY <3>2, <3>3, <3>4
  <2>5. CASE x \notin M
    <3>1. x \in NonWhite \ Pending
      BY <2>1, <2>3, <2>5
    <3>2. x \notin Thr /\ (x \in Upv => ~IsOpen(x)) /\ (x \in Str \/ isblack(x))
      BY <3>1, SettledFacts
    <3>3. CASE x # o
      <4>1. Refs(x)' \subseteq Refs(x)
        BY <2>3, <3>2, <3>3
      <4>2. Held(x)' \subseteq Held(x)
        BY <4>1 DEF Held
      <4> QED BY <3>1, <4>2
    <3>4. CASE x = o
      <4>1. Held(x)' \subseteq Held(x) \cup {v} /\ Held(x)' \subseteq Obj
        BY <2>3, <3>4 DEF Held, Refs
      <4>2. v \in Obj => v \in NonWhite'
        BY <1>3, <2>1, <2>2, <3>2, <3>4
      <4> QED BY <3>1, <4>1, <4>2
    <3> QED BY <3>3, <3>4
  <2> QED BY <2>4, <2>5
<1> QED BY <1>8, <1>9, <1>10, <1>11, <1>12, <1>13, <1>14, <1>16, <1>17

LEMMA SetUdataMetaSafe ==
  ASSUME IInv, TypeOK', NEW u \in Udt, NEW m \in Tab \cup {nil}, SetUdataMeta(u, m) PROVE IInv'
<1> USE DEF IInv
<1>1. /\ u \in Regs /\ m \in Regs \cup {nil} /\ mt' = [mt EXCEPT ![u] = m] /\ barrierf(u, m) /\ mutUnchanged
      /\ UNCHANGED <<grayagain, env, val, key, stack, cup, upv, home, uval, gmt, running, resumer>>
  BY DEF SetUdataMeta
<1>2. u \in Obj \ (Tab \cup Str) /\ Live(u) /\ (m \in Obj => Live(m))
  BY <1>1, ReachLive, ConstAssumption DEF Index, Obj
<1>3. \A x \in (Tab \cup Udt) \ {u} : mt'[x] = mt[x]
  BY <1>1 DEF TypeOK
<1>4. mt'[u] = m
  BY <1>1 DEF TypeOK
<1>5. \A x \in Obj : Refs(x)' \subseteq Refs(x) \cup {m} /\ (x # u => Refs(x)' \subseteq Refs(x))
  BY <1>1, <1>3, <1>4, ConstAssumption DEF Refs, traverseclosure, traversestack, UpValue, IsOpen
<1>6. color[u] # "free" /\ \A x \in Tab : mt'[x] = mt[x]
  BY <1>2, <1>3, ConstAssumption DEF Live
<1> QED BY <1>1, <1>2, <1>3, <1>5, <1>6, BarrierfStep

LEMMA SetFenvSafe ==
  ASSUME IInv, TypeOK', NEW o \in Cls \cup Udt \cup Thr, NEW e \in Tab, SetFenv(o, e) PROVE IInv'
<1> USE DEF IInv
<1>1. /\ o \in Regs \cup {running} /\ e \in Regs /\ env' = [env EXCEPT ![o] = e] /\ barrierf(o, e) /\ mutUnchanged
      /\ UNCHANGED <<grayagain, mt, val, key, stack, cup, upv, home, uval, gmt, running, resumer>>
  BY DEF SetFenv
<1>2. o \in Obj \ (Tab \cup Str) /\ Live(e)
  BY <1>1, ReachLive, ConstAssumption DEF Index, Obj
<1>3. env'[o] = e /\ \A x \in (Cls \cup Udt \cup Thr) \ {o} : env'[x] = env[x]
  BY <1>1 DEF TypeOK
<1>4. \A x \in Obj : Refs(x)' \subseteq Refs(x) \cup {e} /\ (x # o => Refs(x)' \subseteq Refs(x))
  BY <1>1, <1>3 DEF Refs, traverseclosure, traversestack, UpValue, IsOpen
<1> QED BY <1>1, <1>2, <1>4, BarrierfStep

LEMMA SetCUpvalueSafe ==
  ASSUME IInv, TypeOK', NEW c \in Cls, NEW v \in Val, SetCUpvalue(c, v) PROVE IInv'
<1> USE DEF IInv
<1>1. /\ c \in Regs /\ v \in RegVal /\ cup' = [cup EXCEPT ![c] = v] /\ barrierf(c, v) /\ mutUnchanged
      /\ UNCHANGED <<grayagain, mt, env, val, key, stack, upv, home, uval, gmt, running, resumer>>
  BY DEF SetCUpvalue
<1>2. c \in Obj \ (Tab \cup Str) /\ (v \in Obj => Live(v)) /\ Live(c)
  BY <1>1, ReachLive, ConstAssumption DEF Index, Obj
<1>3. cup'[c] = v /\ \A x \in Cls \ {c} : cup'[x] = cup[x]
  BY <1>1 DEF TypeOK
<1>4. \A x \in Obj : Refs(x)' \subseteq Refs(x) \cup {v} /\ (x # c => Refs(x)' \subseteq Refs(x))
  BY <1>1, <1>3 DEF Refs, traverseclosure, traversestack, UpValue, IsOpen
<1>5. color[c] # "free"
  BY <1>2 DEF Live
<1> QED BY <1>1, <1>2, <1>3, <1>4, <1>5, BarrierfStep

\* OP_SETUPVAL: an open upvalue is never black, and its thread never settled.
LEMMA SetUpvalSafe ==
  ASSUME IInv, TypeOK', NEW c \in Cls, NEW u \in Upv, NEW v \in Val, SetUpval(c, u, v) PROVE IInv'
<1> USE DEF IInv
<1>1. /\ c \in Regs /\ u \in upv[c] /\ v \in RegVal /\ WriteUpval(u, v) /\ barrierf(u, v) /\ mutUnchanged
      /\ UNCHANGED <<grayagain, mt, env, val, key, cup, upv, home, gmt, running, resumer>>
  BY DEF SetUpval
<1>2. u \in Obj \ (Tab \cup Str) /\ (v \in Obj => Live(v)) /\ Live(u) /\ color[u] # "free"
  BY <1>1, ReachLive, ConstAssumption DEF Index, Obj, Live
<1>3. CASE IsOpen(u)
  <2> DEFINE th == home[u][1]
             l == home[u][2]
  <2>1. th \in Thr /\ l \in Reg /\ color[th] # "free"
    BY <1>3, UpValueType DEF OpenInv
  <2>2. stack' = [stack EXCEPT ![th][l] = v] /\ uval' = uval
    BY <1>1, <1>3 DEF WriteUpval
  <2> HIDE DEF th, l
  <2>3. /\ \A h \in Thr, k \in Reg : stack'[h][k] \in {stack[h][k], v}
        /\ \A h \in Thr : h # th => stack'[h] = stack[h]
    BY <2>1, <2>2 DEF TypeOK
  <2>4. \A x \in Upv : UpValue(x)' \in {UpValue(x), v} /\ (~IsOpen(x) => UpValue(x)' = UpValue(x))
    BY <1>1, <2>2, <2>3, UpValueType DEF UpValue, IsOpen
  <2>5. \A x \in Obj : Refs(x)' \subseteq Refs(x) \cup {v}
    BY <1>1, <2>3, <2>4 DEF Refs, traverseclosure, traversestack
  <2>6. \A x \in Obj \ Thr : (x \in Upv /\ IsOpen(x)) \/ Refs(x)' \subseteq Refs(x)
    BY <1>1, <2>4 DEF Refs, traverseclosure
  <2>7. \A x \in Thr : color[x] = "free" => stack'[x] = stack[x]
    BY <2>1, <2>3
  <2> QED BY <1>1, <1>2, <2>2, <2>5, <2>6, <2>7, BarrierfStep
<1>4. CASE ~IsOpen(u)
  <2>1. stack' = stack /\ uval'[u] = v /\ \A x \in Upv \ {u} : uval'[x] = uval[x]
    BY <1>1, <1>4 DEF WriteUpval, TypeOK
  <2>2. \A x \in Upv : UpValue(x)' \in {UpValue(x), v} /\ (x # u => UpValue(x)' = UpValue(x))
    BY <1>1, <2>1 DEF UpValue, IsOpen
  <2>3. \A x \in Obj : Refs(x)' \subseteq Refs(x) \cup {v} /\ (x # u => Refs(x)' \subseteq Refs(x))
    BY <1>1, <2>1, <2>2 DEF Refs, traverseclosure, traversestack
  <2> QED BY <1>1, <1>2, <2>1, <2>3, BarrierfStep
<1> QED BY <1>3, <1>4

-----------------------------------------------------------------------------
(* Stores in tables, protected by the back barrier.                          *)

LEMMA BarrierbackStep ==
  ASSUME IInv, TypeOK', mutUnchanged,
         UNCHANGED <<gray, env, stack, cup, upv, home, uval, gmt, running, resumer>>,
         NEW t \in Tab, Live(t), NEW vs, barrierback(t, vs),
         \A x \in (Tab \cup Udt) \ {t} : mt'[x] = mt[x],
         \A x \in Tab \ {t} : val'[x] = val[x] /\ key'[x] = key[x],
         \A r \in Refs(t)' : r \in Refs(t) \/ Live(r),
         \A r \in Held(t)' : r \in Held(t) \/ (r \in vs /\ Live(r))
  PROVE  IInv'
<1> USE DEF IInv
<1>1. /\ phase \notin AtomicPhases /\ (phase \in MarkPhases <=> phase = "propagate")
      /\ UNCHANGED <<phase, currentwhite, unswept, weak, weakbits, tmudata, finalized>>
  BY MutatorPhase DEF MarkPhases
<1>2. otherwhite' = otherwhite /\ otherwhite \in {"w0", "w1"} /\ currentwhite \in {"w0", "w1"}
  BY <1>1 DEF otherwhite, TypeOK
<1>3. t \in Obj /\ color[t] # "free" /\ t \notin Udt \cup Cls \cup Upv \cup Thr \cup Str
  BY ConstAssumption DEF Live, Obj
<1>4. /\ \A x \in Obj \ {t} : color'[x] = color[x]
      /\ color'[t] = color[t] \/ (color[t] = "black" /\ color'[t] = "gray")
      /\ IF color'[t] = color[t] THEN grayagain' = grayagain ELSE grayagain' = grayagain \cup {t}
      /\ color'[t] = "black" => vs \cap White = {}
  BY <1>3 DEF barrierback, isblack, TypeOK
<1>5. \A x \in Obj : /\ Live(x)' <=> Live(x)
                     /\ color'[x] = "free" <=> color[x] = "free"
                     /\ isdead(x)' <=> isdead(x)
  BY <1>2, <1>3, <1>4 DEF Live, Swept, isdead
<1>6. NonWhite' = NonWhite
  BY <1>4 DEF NonWhite
<1>7. \A x \in Obj \ {t} : Refs(x)' = Refs(x) /\ Held(x)' = Held(x)
  <2>1. \A x \in Obj \ {t} : Refs(x)' = Refs(x)
    BY DEF Refs, traverseclosure, traversestack, UpValue, IsOpen
  <2> QED BY <2>1 DEF Held
<1>8. NoDangling'
  <2>1. \A x \in (Roots \cup tmudata)' : x \in Obj /\ Live(x)
    BY <1>1 DEF NoDangling, Roots, TypeOK, Obj
  <2>2. ASSUME NEW x \in Obj, Live(x)', NEW r \in Refs(x)' PROVE Live(r)'
    <3>1. r \in Obj /\ (r \in Refs(x) \/ Live(r))
      BY <1>7 DEF Refs
    <3> QED BY <1>5, <2>2, <3>1 DEF NoDangling
  <2> QED BY <1>5, <2>1, <2>2 DEF NoDangling
<1>9. FreeBlank'
  BY <1>3, <1>5 DEF FreeBlank
<1>10. ColorInv'
  BY <1>3, <1>4 DEF ColorInv, IsOpen
<1>11. OpenInv'
  BY <1>5, UpValueType DEF OpenInv, IsOpen, Obj
<1>12. ActiveInv'
  <2>1. Active' = Active /\ Active \subseteq Obj
    BY ConstAssumption DEF Active, Obj
  <2>2. \A x \in Active' : Live(x)'
    BY <1>5, <2>1 DEF ActiveInv
  <2> QED BY <2>1, <2>2 DEF ActiveInv
<1>13. WhiteInv'
  <2> SUFFICES ASSUME NEW x \in Obj
               PROVE  /\ phase \in MarkPhases => ~isdead(x)
                      /\ phase \notin MarkPhases /\ color'[x] \notin {"free", currentwhite} =>
                           \/ phase \in SweepPhases /\ NotReached(x)
                           \/ x \in tmudata /\ ~isdead(x)
    BY <1>1, <1>5 DEF WhiteInv, NotReached, IsOpen
  <2>1. color'[x] \notin {"free", currentwhite} => color[x] \notin {"free", currentwhite}
    BY <1>2, <1>4
  <2> QED BY <2>1 DEF WhiteInv
<1>14. TmuInv'
  BY <1>1, <1>5 DEF TmuInv, IsOpen, TypeOK, Obj
<1>15. OneGclist' /\ GrayInv'
  <2>1. \A x \in gray \cup grayagain \cup weak : x \in Obj
    BY DEF TypeOK, Listed, Obj
  <2>2. OneGclist'
    BY <1>1, <1>4, <2>1 DEF OneGclist
  <2>3. GrayInv'
    BY <1>1, <1>4 DEF GrayInv, IsOpen
  <2> QED BY <2>2, <2>3
<1>16. KeyInv'
  <2> SUFFICES ASSUME phase = "propagate", NEW x \in Tab, color'[x] = "black", NEW n \in Node, key'[x][n] \in Obj
               PROVE  color[key'[x][n]] # "free"
    BY <1>1, <1>5 DEF KeyInv, isblack
  <2>1. isblack(x) /\ x \in Obj
    BY <1>4 DEF isblack, Obj
  <2>2. CASE x # t
    BY <2>1, <2>2 DEF KeyInv
  <2>3. CASE x = t
    <3>1. key'[t][n] \in Held(t)'
      BY <2>3 DEF Held
    <3>2. CASE key'[t][n] \in Held(t)
      <4>1. Live(t) => \A r \in Refs(t) : Live(r)
        BY <1>3 DEF NoDangling
      <4>2. \A m \in Node : val[t][m] \in Obj => val[t][m] \in Refs(t)
        BY ConstAssumption DEF Refs
      <4>3. mt[t] \in Obj => mt[t] \in Refs(t)
        BY DEF Refs
      <4> QED BY <2>1, <2>3, <3>2, <4>1, <4>2, <4>3 DEF Held, KeyInv, Live
    <3> QED BY <2>3, <3>1, <3>2 DEF Live
  <2> QED BY <2>2, <2>3
<1>17. MarkInv'
  <2> SUFFICES ASSUME phase = "propagate", NEW x \in NonWhite \ Pending'
               PROVE  x \in NonWhite \ Pending /\ Held(x)' \subseteq Held(x) \cup NonWhite
    BY <1>1, <1>6, SettledStep
  <2>1. x \in Obj /\ x \notin Pending
    BY <1>1, <1>4 DEF NonWhite, Pending, IsOpen
  <2>2. CASE x # t
    BY <1>7, <2>1, <2>2
  <2>3. CASE x = t
    <3>1. isblack(t)
      BY <1>3, <2>1, <2>3, SettledFacts
    <3>2. t \notin grayagain'
      BY <1>1, <2>3 DEF Pending
    <3>3. vs \cap White = {}
      BY <1>4, <3>1, <3>2 DEF isblack
    <3>4. ASSUME NEW r \in Held(t)' PROVE r \in Held(t) \cup NonWhite
      <4>1. r \in Obj
        BY DEF Held, Refs
      <4> QED BY <3>3, <4>1 DEF Live, White, NonWhite, TypeOK, Colors
    <3> QED BY <2>1, <2>3, <3>4
  <2> QED BY <2>2, <2>3
<1> QED BY <1>8, <1>9, <1>10, <1>11, <1>12, <1>13, <1>14, <1>15, <1>16, <1>17

LEMMA SetTableMetaSafe ==
  ASSUME IInv, TypeOK', NEW t \in Tab, NEW m \in Tab \cup {nil}, SetTableMeta(t, m) PROVE IInv'
<1> USE DEF IInv
<1>1. /\ t \in Index /\ m \in Regs \cup {nil} /\ mt' = [mt EXCEPT ![t] = m] /\ barrierback(t, {m}) /\ mutUnchanged
      /\ UNCHANGED <<gray, env, val, key, stack, cup, upv, home, uval, gmt, running, resumer>>
  BY DEF SetTableMeta
<1>2. Live(t) /\ (m \in Obj => Live(m))
  BY <1>1, ReachLive, ConstAssumption DEF Index, Obj
<1>3. mt'[t] = m /\ \A x \in (Tab \cup Udt) \ {t} : mt'[x] = mt[x]
  BY <1>1 DEF TypeOK
<1>4. \A r \in Refs(t)' : r \in Refs(t) \/ Live(r)
  BY <1>1, <1>2, <1>3, ConstAssumption DEF Refs
<1>5. \A r \in Held(t)' : r \in Held(t) \/ (r \in {m} /\ Live(r))
  BY <1>1, <1>2, <1>3 DEF Held
<1> QED BY <1>1, <1>2, <1>3, <1>4, <1>5, BarrierbackStep

LEMMA SetTableSafe ==
  ASSUME IInv, TypeOK', NEW t \in Tab, NEW n \in Node, NEW k \in (Obj \ Upv) \cup {prim},
         NEW v \in Val \cup {prim}, SetTable(t, n, k, v)
  PROVE  IInv'
<1> USE DEF IInv
<1> DEFINE vs == IF key[t][n] # k THEN {k, v} ELSE {v}
<1>1. /\ t \in Index /\ v \in RegVal \cup {prim} /\ (k \in Regs \cap Obj \/ k = prim)
      /\ key' = [key EXCEPT ![t][n] = k] /\ val' = [val EXCEPT ![t][n] = v]
      /\ barrierback(t, vs) /\ mutUnchanged
      /\ UNCHANGED <<gray, mt, env, stack, cup, upv, home, uval, gmt, running, resumer>>
  BY DEF SetTable
<1>2. Live(t) /\ (v \in Obj => Live(v)) /\ (k \in Obj => Live(k))
  BY <1>1, ReachLive, ConstAssumption DEF Index, Obj
<1>3. /\ \A x \in Tab \ {t} : val'[x] = val[x] /\ key'[x] = key[x]
      /\ \A m \in Node : m # n => val'[t][m] = val[t][m] /\ key'[t][m] = key[t][m]
      /\ val'[t][n] = v /\ key'[t][n] = k
  BY <1>1 DEF TypeOK
<1>4. \A r \in Refs(t)' : r \in Refs(t) \/ Live(r)
  BY <1>1, <1>2, <1>3, ConstAssumption DEF Refs
<1>5. \A r \in Held(t)' : r \in Held(t) \/ (r \in vs /\ Live(r))
  BY <1>1, <1>2, <1>3 DEF Held
<1> HIDE DEF vs
<1> QED BY <1>1, <1>2, <1>3, <1>4, <1>5, BarrierbackStep

-----------------------------------------------------------------------------
(* Closing upvalues, a full collection, and the theorem.                     *)

LEMMA luaF_closeSafe ==
  ASSUME IInv, TypeOK', NEW l \in Reg, luaF_close(l) PROVE IInv'
<1> USE DEF IInv
<1> DEFINE C == {u \in OpenOf(running) : home[u][2] >= l}
           F == {u \in C : isdead(u)}
           G == {u \in C : color[u] = "gray"}
           V == {UpValue(u) : u \in G}
           M == IF phase = "propagate" THEN reallymarkobject(V, White) ELSE {}
<1>1. /\ color' = [o \in Obj |-> IF o \in F THEN "free"
                     ELSE IF o \in G THEN IF phase = "propagate" THEN "black" ELSE currentwhite
                     ELSE Paint(M)[o]]
      /\ gray' = gray \cup (M \cap Listed)
      /\ uval' = [u \in Upv |-> IF u \in F THEN nil ELSE IF u \in C THEN UpValue(u) ELSE uval[u]]
      /\ home' = Clean(home, C, nil) /\ mutUnchanged
      /\ UNCHANGED <<grayagain, mt, env, val, key, stack, cup, upv, gmt, running, resumer>>
  BY DEF luaF_close
<1>2. /\ phase \notin AtomicPhases /\ (phase \in MarkPhases <=> phase = "propagate")
      /\ UNCHANGED <<phase, currentwhite, unswept, weak, weakbits, tmudata, finalized>>
  BY <1>1, MutatorPhase DEF MarkPhases
<1>3. otherwhite' = otherwhite /\ currentwhite # otherwhite /\ currentwhite \in {"w0", "w1"} /\ otherwhite \in {"w0", "w1"}
  BY <1>2 DEF otherwhite, TypeOK
<1>4. /\ C \subseteq Upv /\ C \subseteq Obj /\ F \subseteq C /\ G \subseteq C
      /\ \A u \in C : IsOpen(u) /\ color[u] # "free" /\ (u \in F <=> isdead(u)) /\ (u \in G <=> color[u] = "gray")
  BY DEF OpenOf, OpenInv, Obj
<1>5. /\ M \subseteq White /\ M \subseteq Obj /\ (phase # "propagate" => M = {})
      /\ \A x \in M \cap (Upv \cup Udt) : Children(x) \cap White \subseteq M
      /\ phase = "propagate" => \A u \in G : UpValue(u) \in White => UpValue(u) \in M
  <2>1. M \subseteq White /\ \A x \in M \cap (Upv \cup Udt) : Children(x) \cap White \subseteq M
    BY MarkFacts DEF White
  <2>2. phase = "propagate" => V \cap White \subseteq M
    BY MarkFacts DEF White
  <2> QED BY <2>1, <2>2 DEF White
<1>6. M \cap Upv = {}
  <2>1. V \cap Upv = {}
    <3>1. \A u \in Upv : UpValue(u) \notin Upv
      BY UpValueType, ConstAssumption DEF Val, Obj
    <3>2. G \subseteq Upv
      BY <1>4
    <3> HIDE DEF G
    <3> QED BY <3>1, <3>2
  <2>2. \A u \in Upv : Children(u) \cap Upv = {}
    BY UpValueType, ConstAssumption DEF Children, Val
  <2>3. \A d \in Udt : Children(d) \cap Upv = {}
    BY ConstAssumption DEF Children, TypeOK, Obj
  <2> HIDE DEF V
  <2> QED BY <2>1, <2>2, <2>3 DEF reallymarkobject
<1> HIDE DEF C, F, G, V, M
<1>7. \A x \in Obj : Paint(M)[x] = IF x \notin M THEN color[x]
           ELSE IF x \in Udt THEN "black" ELSE "gray"
  BY <1>6 DEF Paint
<1>8. /\ \A x \in F : color'[x] = "free"
      /\ \A x \in G \ F : color'[x] = IF phase = "propagate" THEN "black" ELSE currentwhite
      /\ \A x \in Obj \ (F \cup G \cup M) : color'[x] = color[x]
      /\ \A x \in M : x \notin F \cup G /\ color'[x] = IF x \in Udt THEN "black" ELSE "gray"
  <2>1. \A x \in M : x \notin F \cup G
    BY <1>4, <1>6
  <2> QED BY <1>1, <1>4, <1>5, <1>7, <2>1
<1>9. /\ \A x \in M : color[x] # "free" /\ ~isdead(x) /\ Live(x)
      /\ phase = "propagate" => F = {}
  <2>1. \A x \in M : x \in Obj /\ color[x] # "free" /\ phase \in MarkPhases
    BY <1>2, <1>5 DEF White
  <2>2. phase = "propagate" => \A u \in C : ~isdead(u)
    BY <1>2, <1>4 DEF WhiteInv
  <2> QED BY <1>4, <2>1, <2>2 DEF WhiteInv, Live, Swept
<1>10. /\ \A x \in F : ~Live(x)
       /\ G \cap F = {}
  <2>1. \A x \in F : isdead(x) /\ x \in Upv /\ x \notin FixedStr /\ x # main
    BY <1>4, ConstAssumption
  <2> QED BY <1>3, <1>4, <2>1 DEF Live, Swept, isdead
<1>11. \A x \in Obj : /\ Live(x)' <=> Live(x)
                      /\ color'[x] = "free" <=> color[x] = "free" \/ x \in F
                      /\ isdead(x)' => isdead(x)
  <2> SUFFICES ASSUME NEW x \in Obj
               PROVE  /\ Live(x)' <=> Live(x)
                      /\ color'[x] = "free" <=> color[x] = "free" \/ x \in F
                      /\ isdead(x)' => isdead(x)
    OBVIOUS
  <2>1. CASE x \in F
    BY <1>3, <1>8, <1>10, <2>1 DEF Live, isdead
  <2>2. CASE x \in G /\ x \notin F
    <3>1. color[x] = "gray" /\ color'[x] \in {"black", currentwhite}
      BY <1>4, <1>8, <2>2
    <3> QED BY <1>3, <2>2, <3>1 DEF Live, Swept, isdead
  <2>3. CASE x \in M
    BY <1>3, <1>8, <1>9, <2>3 DEF Live, Swept, isdead
  <2>4. CASE x \notin F \cup G \cup M
    BY <1>3, <1>8, <2>4 DEF Live, Swept, isdead
  <2> QED BY <2>1, <2>2, <2>3, <2>4
<1>12. /\ \A u \in C : home'[u] = nil /\ ~IsOpen(u)'
       /\ \A u \in Upv \ C : home'[u] = home[u] /\ uval'[u] = uval[u] /\ (IsOpen(u)' <=> IsOpen(u))
       /\ \A u \in C \ F : uval'[u] = UpValue(u)
       /\ \A u \in F : uval'[u] = nil
  BY <1>1, <1>4 DEF Clean, IsOpen, TypeOK
<1>13. \A u \in Upv \ F : UpValue(u)' = UpValue(u)
  BY <1>1, <1>12 DEF UpValue
<1>14. \A x \in Obj \ F : Refs(x)' = Refs(x) /\ Held(x)' = Held(x)
  <2>1. \A x \in Obj \ F : Refs(x)' = Refs(x)
    BY <1>1, <1>13 DEF Refs, traverseclosure, traversestack
  <2> QED BY <1>1, <2>1 DEF Held
<1>15. NoDangling'
  <2>1. \A x \in (Roots \cup tmudata)' : x \in Obj /\ Live(x)
    BY <1>1, <1>2 DEF NoDangling, Roots, TypeOK, Obj
  <2>2. ASSUME NEW x \in Obj, Live(x)', NEW r \in Refs(x)' PROVE Live(r)'
    <3>1. Live(x) /\ x \notin F
      BY <1>10, <1>11, <2>2
    <3>2. r \in Obj /\ r \in Refs(x)
      BY <1>14, <2>2, <3>1 DEF Refs
    <3> QED BY <1>11, <3>1, <3>2 DEF NoDangling
  <2> QED BY <1>11, <2>1, <2>2 DEF NoDangling
<1>16. FreeBlank'
  <2>1. \A u \in Upv : color'[u] = "free" => home'[u] = nil /\ uval'[u] = nil
    <3> SUFFICES ASSUME NEW u \in Upv, color'[u] = "free" PROVE home'[u] = nil /\ uval'[u] = nil
      OBVIOUS
    <3>1. CASE u \in F
      BY <1>4, <1>12, <3>1
    <3>2. CASE u \notin F
      <4>1. color[u] = "free" /\ u \in Obj
        BY <1>11, <3>2 DEF Obj
      <4>2. u \notin C
        BY <1>4, <4>1
      <4> QED BY <1>12, <4>1, <4>2 DEF FreeBlank
    <3> QED BY <3>1, <3>2
  <2>2. \A x \in Obj : x \notin Upv => (color'[x] = "free" <=> color[x] = "free")
    BY <1>4, <1>11
  <2> QED BY <1>1, <2>1, <2>2, ConstAssumption DEF FreeBlank
<1>17. ColorInv'
  <2> SUFFICES ASSUME NEW x \in Obj
               PROVE  /\ x \in Udt => color'[x] # "gray"
                      /\ x \in Thr => color'[x] # "black"
                      /\ x \in Upv => IF IsOpen(x)' THEN color'[x] # "black" ELSE color'[x] # "gray"
    BY DEF ColorInv
  <2>1. CASE x \in C
    <3>1. x \in Upv /\ x \notin Udt /\ x \notin Thr /\ ~IsOpen(x)' /\ x \notin M
      BY <1>4, <1>6, <1>12, <2>1, ConstAssumption
    <3>2. color'[x] # "gray"
      BY <1>3, <1>4, <1>8, <2>1, <3>1
    <3> QED BY <3>1, <3>2
  <2>2. CASE x \notin C
    <3>1. x \in M \/ color'[x] = color[x]
      BY <1>4, <1>8, <2>2
    <3>2. x \in Upv => (IsOpen(x)' <=> IsOpen(x)) /\ x \notin M
      BY <1>6, <1>12, <2>2
    <3>3. x \in M => color'[x] = IF x \in Udt THEN "black" ELSE "gray"
      BY <1>8
    <3> QED BY <3>1, <3>2, <3>3, ConstAssumption DEF ColorInv
  <2> QED BY <2>1, <2>2
<1>18. OpenInv'
  <2> SUFFICES ASSUME NEW u \in Upv, IsOpen(u)'
               PROVE  /\ color'[u] # "free" /\ color'[home'[u][1]] # "free"
                      /\ \A w \in Upv : home'[w] = home'[u] => w = u
    BY DEF OpenInv
  <2>1. u \notin C /\ IsOpen(u) /\ home'[u] = home[u] /\ home[u] # nil
    BY <1>12 DEF IsOpen
  <2>2. u \in Obj /\ u \notin F /\ home[u][1] \in Obj /\ home[u][1] \notin F
    BY <1>4, <2>1, UpValueType, ConstAssumption DEF Obj
  <2>3. \A w \in Upv : home'[w] = home'[u] => home[w] = home[u]
    BY <1>12, <2>1
  <2> QED BY <1>11, <2>1, <2>2, <2>3 DEF OpenInv
<1>19. ActiveInv'
  <2>1. Active' = Active /\ Active \subseteq Obj
    BY <1>1, ConstAssumption DEF Active, Obj
  <2>2. \A x \in Active' : Live(x)'
    BY <1>11, <2>1 DEF ActiveInv
  <2> QED BY <1>1, <2>1, <2>2 DEF ActiveInv
<1>20. WhiteInv'
  <2> SUFFICES ASSUME NEW x \in Obj
               PROVE  /\ phase \in MarkPhases => ~isdead(x)'
                      /\ phase \notin MarkPhases /\ color'[x] \notin {"free", currentwhite} =>
                           \/ phase \in SweepPhases /\ NotReached(x)'
                           \/ x \in tmudata /\ ~isdead(x)'
    BY <1>2 DEF WhiteInv
  <2>1. phase \in MarkPhases => ~isdead(x)'
    BY <1>11 DEF WhiteInv
  <2>2. ASSUME phase \notin MarkPhases, color'[x] \notin {"free", currentwhite}
        PROVE  (phase \in SweepPhases /\ NotReached(x)') \/ (x \in tmudata /\ ~isdead(x)')
    <3>1. x \notin F /\ x \notin G /\ color'[x] = color[x]
      BY <1>2, <1>5, <1>8, <2>2
    <3>2. x \notin C
      <4> SUFFICES ASSUME x \in C PROVE FALSE
        OBVIOUS
      <4>1. x \in Upv /\ IsOpen(x) /\ color[x] # "gray" /\ ~isdead(x) /\ color[x] # "free"
        BY <1>4, <3>1
      <4>2. color[x] # "black"
        BY <4>1 DEF ColorInv
      <4> QED BY <1>3, <2>2, <3>1, <4>1, <4>2 DEF isdead, otherwhite, TypeOK, Colors
    <3>3. NotReached(x)' <=> NotReached(x)
      BY <1>2, <1>12, <3>2 DEF NotReached
    <3> QED BY <1>11, <2>2, <3>1, <3>3 DEF WhiteInv
  <2> QED BY <2>1, <2>2
<1>21. TmuInv'
  <2>1. \A u \in tmudata : Live(u)'
    BY <1>11 DEF TmuInv, TypeOK, Obj
  <2>2. ASSUME NEW x \in unswept PROVE color'[x] # "free" /\ (x \in Upv => ~IsOpen(x)')
    <3>1. x \in Obj /\ color[x] # "free" /\ (x \in Upv => ~IsOpen(x))
      BY DEF TmuInv, TypeOK
    <3>2. x \notin C
      BY <1>4, <3>1
    <3> QED BY <1>4, <1>11, <1>12, <3>1, <3>2
  <2> QED BY <1>2, <2>1, <2>2 DEF TmuInv
<1>22. GrayInv' /\ OneGclist' /\ KeyInv'
  <2> SUFFICES ASSUME phase = "propagate" PROVE GrayInv' /\ OneGclist' /\ KeyInv'
    BY <1>2 DEF GrayInv, OneGclist, KeyInv
  <2>1. \A x \in gray \cup grayagain \cup weak : x \in Obj /\ x \notin M /\ x \notin C /\ color[x] = "gray"
    <3>1. \A x \in gray \cup grayagain \cup weak : x \in Listed /\ color[x] = "gray"
      BY DEF OneGclist, MarkPhases, TypeOK, Listed
    <3>2. \A x \in Listed : x \in Obj /\ x \notin C
      BY <1>4, ConstAssumption DEF Listed, Obj
    <3> QED BY <1>5, <3>1, <3>2 DEF White
  <2>2. \A x \in gray \cup grayagain \cup weak : color'[x] = "gray"
    BY <1>4, <1>8, <2>1
  <2>3. \A x \in M \cap Listed : color'[x] = "gray"
    BY <1>8, ConstAssumption DEF Listed
  <2>4. OneGclist'
    <3>1. gray \cap grayagain = {} /\ gray \cap weak = {} /\ grayagain \cap weak = {}
      BY DEF OneGclist, MarkPhases
    <3>2. gray' \cap grayagain = {} /\ gray' \cap weak = {}
      BY <1>1, <2>1, <3>1
    <3> QED BY <1>1, <1>2, <2>2, <2>3, <3>1, <3>2 DEF OneGclist
  <2>5. GrayInv'
    <3> SUFFICES ASSUME NEW x \in Obj, color'[x] = "gray"
                 PROVE  x \in gray' \cup grayagain \cup weak \cup Str \/ (x \in Upv /\ IsOpen(x)')
      BY <1>1, <1>2 DEF GrayInv
    <3>1. CASE x \in M
      <4>1. x \notin Udt /\ x \notin Upv
        BY <1>6, <1>8, <3>1
      <4> QED BY <1>1, <3>1, <4>1 DEF Listed, Obj
    <3>2. CASE x \notin M
      <4>1. x \notin F /\ x \notin G /\ color[x] = "gray"
        BY <1>8, <1>9, <3>2
      <4>2. x \notin C
        BY <1>4, <4>1
      <4> QED BY <1>1, <1>12, <4>1, <4>2 DEF GrayInv
    <3> QED BY <3>1, <3>2
  <2>6. KeyInv'
    <3>1. \A t \in Tab : t \in Obj /\ t \notin F \cup G \cup Udt
      BY <1>4, ConstAssumption DEF Obj
    <3>2. \A t \in Tab : isblack(t)' => isblack(t)
      BY <1>8, <3>1 DEF isblack
    <3>3. \A x \in Obj : color[x] # "free" => color'[x] # "free"
      BY <1>9, <1>11
    <3> QED BY <1>1, <1>2, <3>2, <3>3 DEF KeyInv
  <2> QED BY <2>4, <2>5, <2>6
<1>23. MarkInv'
  <2>1. phase = "propagate" => NonWhite' = NonWhite \cup M
    BY <1>4, <1>5, <1>8, <1>9 DEF NonWhite
  <2>2. \A x \in Obj : Live(x) => x \in NonWhite \/ x \in White
    BY DEF Live, NonWhite, White, TypeOK, Colors
  <2> SUFFICES ASSUME phase = "propagate", NEW x \in NonWhite' \ Pending'
               PROVE  \/ x \in NonWhite \ Pending /\ Held(x)' \subseteq Held(x) \cup NonWhite'
                      \/ Held(x)' \subseteq NonWhite'
    BY <1>2, <2>1, SettledStep
  <2>3. x \in Obj /\ x \notin F /\ Held(x)' = Held(x) /\ Refs(x)' = Refs(x)
    BY <1>9, <1>14 DEF NonWhite
  <2>4. Pending \subseteq Pending' \cup C
    BY <1>1, <1>2, <1>12 DEF Pending
  <2>5. CASE x \in M
    <3>1. x \in Udt \cup Str /\ x \notin Tab
      BY <1>1, <1>6, <2>3, <2>5, ConstAssumption DEF Pending, Listed, Obj
    <3>2. Held(x) = Refs(x) /\ Refs(x) = Children(x) /\ (x \in Str => Refs(x) = {})
      BY <3>1, HeldSmall DEF Held
    <3>3. \A r \in Refs(x) : r \in Obj /\ Live(r)
      BY <1>9, <2>3, <2>5 DEF NoDangling, Refs
    <3> QED BY <1>5, <2>1, <2>2, <2>3, <2>5, <3>1, <3>2, <3>3
  <2>6. CASE x \in C
    <3>1. x \in Upv /\ IsOpen(x) /\ x \in NonWhite
      BY <1>4, <1>6, <2>1, <2>6
    <3>2. x \in G
      BY <1>4, <2>3, <2>6, <3>1 DEF ColorInv, NonWhite
    <3>3. Held(x) = Refs(x) /\ Refs(x) \subseteq {UpValue(x)} /\ Refs(x) \subseteq Obj
      BY <3>1, ConstAssumption DEF Held, Refs
    <3>4. \A r \in Refs(x) : Live(r)
      BY <2>3, <3>1 DEF NoDangling, Live, Swept, isdead, otherwhite, NonWhite
    <3> QED BY <1>5, <2>1, <2>2, <2>3, <3>2, <3>3, <3>4
  <2>7. CASE x \notin M /\ x \notin C
    BY <2>1, <2>3, <2>4, <2>7
  <2> QED BY <2>5, <2>6, <2>7
<1> QED BY <1>15, <1>16, <1>17, <1>18, <1>19, <1>20, <1>21, <1>22, <1>23

LEMMA luaC_fullgcSafe ==
  ASSUME IInv, TypeOK', luaC_fullgc PROVE IInv'
<1>1. CASE phase = "finalize"
  BY <1>1, markrootSafe DEF luaC_fullgc, SweepPhases
<1>2. CASE phase \in {"pause", "propagate"}
  BY <1>2, QuietStep DEF luaC_fullgc, MarkPhases, AtomicPhases, SweepPhases
<1>3. CASE phase \in SweepPhases
  BY <1>3, QuietStep DEF luaC_fullgc, MarkPhases, AtomicPhases, SweepPhases
<1> QED BY <1>1, <1>2, <1>3 DEF luaC_fullgc

LEMMA MutatorSafe == IInv /\ Mutator => IInv'
<1> SUFFICES ASSUME IInv, Mutator PROVE IInv'
  OBVIOUS
<1>1. TypeOK'
  BY MutatorType DEF IInv
<1> USE <1>1
<1>2. ASSUME NEW s \in Reg,
             \/ \E t \in Tab : luaH_new(t, s)
             \/ \E u \in Udt, e \in Tab : luaS_newudata(u, e, s)
             \/ \E th \in Thr : luaE_newthread(th, s)
             \/ \E x \in Str : luaS_newlstr(x, s)
             \/ \E c \in Cls, e \in Tab, v \in Val : luaF_newCclosure(c, e, v, s)
      PROVE  IInv'
  BY <1>2, luaH_newSafe, luaS_newudataSafe, luaE_newthreadSafe, luaS_newlstrSafe, luaF_newCclosureSafe
<1>3. ASSUME NEW s \in Reg,
             \/ \E c \in Cls, u \in Upv : f_parser(c, u, s)
             \/ \E c \in Cls, e \in Tab, u \in Upv, l \in Reg : luaF_newLclosure(c, e, u, l, s)
             \/ \E c, d \in Cls, u \in Upv : ShareUpval(c, d, u, s)
             \/ \E v \in Val : Load(v, s)
             \/ \E th \in Thr, v \in Val : Resume(th, v, s)
             \/ \E v \in Val : Yield(v, s)
      PROVE  IInv'
  BY <1>3, f_parserSafe, luaF_newLclosureSafe, ShareUpvalSafe, LoadSafe, ResumeSafe, YieldSafe
<1>4. CASE \/ \E t \in Tab, n \in Node, k \in (Obj \ Upv) \cup {prim}, v \in Val \cup {prim} : SetTable(t, n, k, v)
           \/ \E t \in Tab, m \in Tab \cup {nil} : SetTableMeta(t, m)
  BY <1>4, SetTableSafe, SetTableMetaSafe
<1>5. CASE \/ \E m \in Tab \cup {nil} : SetBasicMeta(m)
           \/ \E t \in Tab, E \in Events : SetTM(t, E)
  BY <1>5, NoBarrierSafe
<1>6. CASE \/ \E u \in Udt, m \in Tab \cup {nil} : SetUdataMeta(u, m)
           \/ \E o \in Cls \cup Udt \cup Thr, e \in Tab : SetFenv(o, e)
           \/ \E c \in Cls, u \in Upv, v \in Val : SetUpval(c, u, v)
           \/ \E c \in Cls, v \in Val : SetCUpvalue(c, v)
  BY <1>6, SetUdataMetaSafe, SetFenvSafe, SetUpvalSafe, SetCUpvalueSafe
<1>7. CASE (\E l \in Reg : luaF_close(l)) \/ luaC_fullgc
  BY <1>7, luaF_closeSafe, luaC_fullgcSafe
<1> QED BY <1>2, <1>3, <1>4, <1>5, <1>6, <1>7 DEF Mutator

LEMMA InitSafe == Init => IInv
<1> SUFFICES ASSUME Init PROVE IInv
  OBVIOUS
<1> USE DEF Init, InitRest
<1>1. TypeOK
  BY InitTypeOK
<1>2. /\ \A o \in Obj : color[o] \in {"free", "w0"}
      /\ color[main] = "w0" /\ color[registry] = "w0" /\ color[globals] = "w0"
      /\ main \in Obj /\ registry \in Obj /\ globals \in Obj
      /\ \A o \in Obj : ~isdead(o) /\ (Live(o) <=> color[o] = "w0")
  BY ConstAssumption DEF InitColor, isdead, otherwhite, Live, Swept, Obj
<1>3. \A o \in Obj : \A r \in Refs(o) : r = globals
  BY ConstAssumption DEF Refs, InitMt, InitEnv, InitVal, InitStack, NoValues, NoStack,
     traverseclosure, traversestack, UpValue, IsOpen, Obj
<1>4. NoDangling
  BY <1>2, <1>3, ConstAssumption DEF NoDangling, Roots
<1>5. FreeBlank
  BY DEF FreeBlank, InitMt, InitVal, InitStack
<1>6. ColorInv /\ OpenInv
  BY <1>2 DEF ColorInv, OpenInv, IsOpen
<1>7. ActiveInv
  <2>1. Active = {main} /\ \A x \in Thr : resumer[x] = nil
    BY DEF Active
  <2>2. [x \in Thr |-> 0] \in [Thr -> Nat]
    OBVIOUS
  <2>3. \E rank \in [Thr -> Nat] : \A x \in Thr : resumer[x] # nil => rank[resumer[x]] < rank[x]
    BY <2>1, <2>2, Zenon
  <2>4. running = main /\ resumer[main] = nil /\ Live(main)
    BY <1>2, <2>1, ConstAssumption
  <2> HIDE DEF Init, InitRest
  <2> QED BY <2>1, <2>3, <2>4, Zenon DEF ActiveInv
<1>8. WhiteInv /\ TmuInv
  BY <1>2 DEF WhiteInv, TmuInv, MarkPhases, AtomicPhases
<1>9. GrayInv /\ OneGclist /\ KeyInv /\ MarkInv
  BY DEF GrayInv, OneGclist, KeyInv, MarkInv, MarkPhases, AtomicPhases
<1> QED BY <1>1, <1>4, <1>5, <1>6, <1>7, <1>8, <1>9 DEF IInv

LEMMA StutterSafe == IInv /\ UNCHANGED vars => IInv'
<1> SUFFICES ASSUME IInv, UNCHANGED vars PROVE IInv'
  OBVIOUS
<1> USE DEF IInv, vars, heapVars, listVars, udVars
<1>1. TypeOK'
  BY StepTypeOK
<1>2. \A o \in Obj : (Live(o)' <=> Live(o)) /\ Refs(o)' = Refs(o) /\ Held(o)' = Held(o) /\ Children(o)' = Children(o)
  BY DEF Live, Swept, isdead, otherwhite, Refs, Held, Children, traversetable, traverseclosure,
     traversestack, UpValue, IsOpen, Mode
<1>3. NoDangling' /\ ActiveInv'
  BY DEF NoDangling, Roots, Live, Swept, isdead, otherwhite, Refs, traverseclosure,
     traversestack, UpValue, IsOpen, ActiveInv, Active
<1>4. FreeBlank' /\ ColorInv' /\ OpenInv'
  BY DEF FreeBlank, ColorInv, OpenInv, IsOpen
<1>5. WhiteInv' /\ TmuInv' /\ GrayInv' /\ OneGclist' /\ KeyInv'
  BY DEF WhiteInv, NotReached, TmuInv, GrayInv, OneGclist, KeyInv, isblack, IsOpen, Live, Swept, isdead, otherwhite
<1>6. MarkInv'
  <2>1. NonWhite' = NonWhite /\ White' = White /\ Pending' = Pending /\ NonWhite \subseteq Obj
    BY DEF NonWhite, White, Pending, IsOpen
  <2>2. \A t \in Tab : Mode(t)' = Mode(t)
    BY DEF Mode
  <2> QED BY <1>2, <2>1, <2>2 DEF MarkInv, TypeOK
<1> QED BY <1>1, <1>3, <1>4, <1>5, <1>6

LEMMA IInvInvariant == Spec => []IInv
<1>1. IInv /\ [Next]_vars => IInv'
  BY CollectorSafe, MutatorSafe, StutterSafe DEF Next
<1> QED BY <1>1, InitSafe, PTL DEF Spec

\* The collector never frees an object the program can still reach: no pointer
\* of a live object, of the roots or of tmudata dangles.
THEOREM CollectorSafety == Spec => []NoDangling
<1>1. IInv => NoDangling
  BY DEF IInv
<1> QED BY <1>1, IInvInvariant, PTL

\* While the collector marks, no black object points to a white one: the write
\* barriers of the code are enough.
THEOREM BarrierCorrect == Spec => []BlackToWhite
<1>1. IInv => BlackToWhite
  <2> SUFFICES ASSUME IInv, phase = "propagate", NEW o \in Obj \ tmudata, isblack(o)
               PROVE  Refs(o) \cap White = {}
    BY DEF BlackToWhite
  <2>1. phase \in MarkPhases /\ o \in NonWhite
    BY DEF MarkPhases, NonWhite, isblack
  <2>2. o \notin gray \cup grayagain \cup weak
    BY <2>1 DEF IInv, OneGclist, isblack
  <2>3. ~(o \in Upv /\ IsOpen(o))
    BY DEF IInv, ColorInv, isblack
  <2>4. Held(o) \cap White = {}
    BY <2>1, <2>2, <2>3 DEF IInv, MarkInv, Pending
  <2>5. Refs(o) \subseteq Held(o)
    BY ConstAssumption DEF Refs, Held, Obj
  <2> QED BY <2>4, <2>5
<1> QED BY <1>1, IInvInvariant, PTL

\* An object is never linked into two of the gray lists at once: its one gclist
\* field is enough.
THEOREM GclistCorrect == Spec => []OneGclist
<1>1. IInv => OneGclist
  BY DEF IInv
<1> QED BY <1>1, IInvInvariant, PTL

-----------------------------------------------------------------------------
(* Finalizers.                                                             *)

\* What a mutator's step does to userdata.
LEMMA MutatorUdata ==
  ASSUME TypeOK, Mutator
  PROVE  /\ UNCHANGED udVars /\ currentwhite' = currentwhite
         /\ phase # "atomic4" /\ phase' # "atomic4"
         /\ \A u \in Udt : color[u] # "free" => color'[u] # "free"
         /\ \A u \in Udt : color'[u] \in {color[u], currentwhite, "black", "gray"}
<1> USE DEF mutUnchanged, MutatorRuns, udVars, AtomicPhases
<1>m. \A M : \A o \in Obj : Paint(M)[o] \in {color[o], "black", "gray"}
  BY DEF Paint
<1>w. currentwhite # "free"
  BY DEF TypeOK
<1>u. Udt \subseteq Obj /\ Udt \cap Upv = {} /\ Udt \cap Str = {} /\ color \in [Obj -> Colors]
  BY ConstAssumption DEF Obj, TypeOK
<1>1. ASSUME NEW o, NEW s, link(o, s) PROVE UNCHANGED udVars /\ currentwhite' = currentwhite
         /\ phase # "atomic4" /\ phase' # "atomic4"
         /\ (\A u \in Udt : color[u] # "free" => color'[u] # "free")
         /\ \A u \in Udt : color'[u] \in {color[u], currentwhite, "black", "gray"}
  BY <1>1, <1>u, <1>w DEF link
<1>2. ASSUME NEW o, NEW v, barrierf(o, v) PROVE
         /\ (\A u \in Udt : color[u] # "free" => color'[u] # "free")
         /\ \A u \in Udt : color'[u] \in {color[u], currentwhite, "black", "gray"}
  BY <1>2, <1>m, <1>u, <1>w DEF barrierf
<1>3. ASSUME NEW t, NEW vs, barrierback(t, vs) PROVE
         /\ (\A u \in Udt : color[u] # "free" => color'[u] # "free")
         /\ \A u \in Udt : color'[u] \in {color[u], currentwhite, "black", "gray"}
  BY <1>3, <1>u, <1>w DEF barrierback
<1>4. CASE \E s \in Reg : (\E t \in Tab : luaH_new(t, s)) \/ (\E u \in Udt, e \in Tab : luaS_newudata(u, e, s))
             \/ (\E th \in Thr : luaE_newthread(th, s))
             \/ (\E c \in Cls, e \in Tab, v \in Val : luaF_newCclosure(c, e, v, s))
             \/ (\E c, d \in Cls, u \in Upv : ShareUpval(c, d, u, s))
  BY <1>4, <1>1 DEF luaH_new, luaS_newudata, luaE_newthread, luaF_newCclosure, ShareUpval
<1>5. CASE \E s \in Reg : (\E c \in Cls, u \in Upv : f_parser(c, u, s))
             \/ (\E c \in Cls, e \in Tab, u \in Upv, l \in Reg : luaF_newLclosure(c, e, u, l, s))
             \/ (\E x \in Str : luaS_newlstr(x, s))
  <2>1. \A o \in Udt : o \notin Cls
    BY ConstAssumption
  <2>2. ASSUME NEW s, NEW c \in Cls, NEW u \in Upv, f_parser(c, u, s)
        PROVE  \A o \in Udt : color'[o] = color[o]
    BY <2>1, <2>2, <1>u DEF f_parser
  <2>3. ASSUME NEW s, NEW c \in Cls, NEW e, NEW u \in Upv, NEW l, luaF_newLclosure(c, e, u, l, s)
        PROVE  \A o \in Udt : color'[o] = color[o]
    BY <2>1, <2>3, <1>u DEF luaF_newLclosure
  <2>4. ASSUME NEW s, NEW x \in Str, luaS_newlstr(x, s)
        PROVE  \A o \in Udt : color'[o] = color[o]
    BY <2>4, <1>u DEF luaS_newlstr
  <2>5. UNCHANGED udVars /\ currentwhite' = currentwhite /\ phase # "atomic4" /\ phase' # "atomic4"
    BY <1>5 DEF f_parser, luaF_newLclosure, luaS_newlstr
  <2>6. \A o \in Udt : color'[o] = color[o]
    BY <1>5, <2>2, <2>3, <2>4
  <2> QED BY <2>5, <2>6
<1>6. CASE \E s \in Reg : (\E v \in Val : Load(v, s))
             \/ (\E th \in Thr, v \in Val : Resume(th, v, s)) \/ (\E v \in Val : Yield(v, s))
  BY <1>6, <1>u DEF Load, Resume, Yield
<1>7. CASE (\E t \in Tab, n \in Node, k \in (Obj \ Upv) \cup {prim}, v \in Val \cup {prim} : SetTable(t, n, k, v))
             \/ (\E t \in Tab, m \in Tab \cup {nil} : SetTableMeta(t, m))
  <2>1. \E t, vs : barrierback(t, vs)
    <3>1. ASSUME NEW t, NEW n, NEW k, NEW v, SetTable(t, n, k, v) PROVE \E x, vs : barrierback(x, vs)
      <4>1. barrierback(t, IF key[t][n] # k THEN {k, v} ELSE {v})
        BY <3>1 DEF SetTable
      <4> QED BY <4>1
    <3>2. ASSUME NEW t, NEW m, SetTableMeta(t, m) PROVE \E x, vs : barrierback(x, vs)
      <4>1. barrierback(t, {m})
        BY <3>2 DEF SetTableMeta
      <4> QED BY <4>1
    <3> QED BY <1>7, <3>1, <3>2
  <2>2. mutUnchanged
    <3>1. ASSUME NEW t, NEW n, NEW k, NEW v, SetTable(t, n, k, v) PROVE mutUnchanged
      BY <3>1 DEF SetTable
    <3>2. ASSUME NEW t, NEW m, SetTableMeta(t, m) PROVE mutUnchanged
      BY <3>2 DEF SetTableMeta
    <3> HIDE DEF mutUnchanged
    <3> QED BY <1>7, <3>1, <3>2, Zenon
  <2> QED BY <2>1, <2>2, <1>3
<1>8. CASE (\E m \in Tab \cup {nil} : SetBasicMeta(m)) \/ (\E t \in Tab, E \in Events : SetTM(t, E))
  BY <1>8, <1>u DEF SetBasicMeta, SetTM
<1>9. CASE (\E u \in Udt, m \in Tab \cup {nil} : SetUdataMeta(u, m))
             \/ (\E o \in Cls \cup Udt \cup Thr, e \in Tab : SetFenv(o, e))
             \/ (\E c \in Cls, u \in Upv, v \in Val : SetUpval(c, u, v))
             \/ (\E c \in Cls, v \in Val : SetCUpvalue(c, v))
  BY <1>9, <1>2 DEF SetUdataMeta, SetFenv, SetUpval, SetCUpvalue
<1>10. CASE \E l \in Reg : luaF_close(l)
  <2> PICK l \in Reg : luaF_close(l)
    BY <1>10
  <2>1. \A u \in Udt : \E M : color'[u] = Paint(M)[u]
    BY <1>u DEF luaF_close, OpenOf
  <2> QED BY <2>1, <1>m, <1>u DEF luaF_close
<1>11. CASE luaC_fullgc
  <2>1. CASE phase = "finalize"
    <3>1. markroot
      BY <1>11, <2>1 DEF luaC_fullgc, SweepPhases
    <3> QED BY <3>1, <1>m, <1>u, <2>1 DEF markroot
  <2>2. CASE phase # "finalize"
    BY <1>11, <2>2, <1>u DEF luaC_fullgc, SweepPhases
  <2> QED BY <2>1, <2>2
<1> QED BY <1>4, <1>5, <1>6, <1>7, <1>8, <1>9, <1>10, <1>11 DEF Mutator

\* Only luaC_separateudata puts userdata in tmudata, once, and only freeing a
\* userdata clears its finalized bit.
THEOREM FinalizerOnce == Spec => FinalizedOnce
<1> DEFINE Once == \A u \in Udt : /\ u \in tmudata' \ tmudata => u \notin finalized
                                  /\ u \in finalized \ finalized' => color'[u] = "free"
<1>1. ASSUME TypeOK, Next PROVE Once
  <2>1. CASE Mutator
    BY <1>1, <2>1, MutatorUdata DEF udVars
  <2>2. CASE separatetmu
    BY <2>2 DEF separatetmu, Unfinalized
  <2>3. ASSUME NEW S, sweeplist(S) PROVE Once
    BY <2>3, ConstAssumption DEF sweeplist, freeobj, Obj
  <2>4. CASE (\E S \in SUBSET Str : SweepString(S)) \/ (\E S \in {{}} \cup {{o} : o \in Obj} : SweepRoot(S))
    BY <2>3, <2>4 DEF SweepString, SweepRoot
  <2>5. CASE \E u \in Udt, s \in Reg : GCTM(u, s)
    BY <2>5 DEF GCTM
  <2>6. CASE StartCycle \/ RestartFull
    BY <2>6 DEF StartCycle, RestartFull, markroot, udVars
  <2>7. CASE remarkupvals \/ remarkweak \/ remarkgrayagain \/ cleartable \/ EndCycle
               \/ \E o \in Listed : propagatemark(o)
    BY <2>7 DEF remarkupvals, remarkweak, remarkgrayagain, cleartable, EndCycle, propagatemark, udVars
  <2> QED BY <1>1, <2>1, <2>2, <2>4, <2>5, <2>6, <2>7 DEF Next, Collector
<1>2. ASSUME UNCHANGED vars PROVE Once
  BY <1>2 DEF vars, udVars
<1>3. TypeOK /\ [Next]_vars => [Once]_vars
  BY <1>1, <1>2
<1> QED BY <1>3, TypeCorrect, PTL DEF Spec, FinalizedOnce

\* Userdata the sweep is going to free have been through luaC_separateudata.
FinInv == \A u \in Udt :
  isdead(u) \/ (phase = "atomic4" /\ u \in White) => u \in finalized

LEMMA FinInvStep == IInv /\ FinInv /\ [Next]_vars => FinInv'
<1> SUFFICES ASSUME IInv, FinInv, [Next]_vars PROVE FinInv'
  OBVIOUS
<1>t. TypeOK /\ TypeOK' /\ Udt \subseteq Obj /\ Udt \cap Upv = {} /\ Udt \cap Str = {}
  BY StepTypeOK, ConstAssumption DEF IInv, Obj
<1>p. \A M : \A o \in Obj : Paint(M)[o] \in {color[o], "black", "gray"}
  BY DEF Paint
<1>c. currentwhite \in {"w0", "w1"} /\ currentwhite # otherwhite /\ otherwhite \in {"w0", "w1"}
  BY <1>t DEF TypeOK, otherwhite
\* A step that keeps the white and only darkens or whitens.
<1>k. ASSUME currentwhite' = currentwhite, finalized \subseteq finalized',
             phase' = "atomic4" => phase = "atomic4",
             \A u \in Udt : color'[u] \in {color[u], "black", "gray"}
      PROVE  FinInv'
  BY <1>k, <1>c, <1>t DEF FinInv, isdead, otherwhite, White
<1>1. CASE Mutator
  BY <1>1, <1>t, <1>c, MutatorUdata DEF FinInv, isdead, otherwhite, udVars
<1>2. CASE separatetmu
  <2>1. currentwhite' = currentwhite /\ finalized' = finalized \cup Unfinalized
    BY <1>2 DEF separatetmu
  <2>2. PICK tmu \in SUBSET Udt : color' = Paint(reallymarkobject(tmu, White \cup tmu)) /\ tmu = tmudata'
    BY <1>2, <1>t DEF separatetmu, TypeOK
  <2>3. \A u \in Udt : color'[u] \in {color[u], "black", "gray"}
    BY <2>2, <1>p, <1>t
  <2>4. ASSUME NEW u \in Udt, u \in White' PROVE u \in finalized'
    <3>1. u \in White
      BY <2>3, <2>4, <1>t DEF White
    <3>2. CASE u \in finalized \cup Unfinalized
      BY <2>1, <3>2
    <3>3. CASE u \in tmudata
      BY <2>1, <3>3 DEF IInv, TmuInv
    <3> QED BY <3>1, <3>2, <3>3 DEF Unfinalized
  <2> QED BY <2>1, <2>3, <2>4, <1>t, <1>c DEF FinInv, isdead, otherwhite, White
<1>3. CASE cleartable
  <2>1. \A u \in Udt : color'[u] = color[u]
    BY <1>3, <1>t DEF cleartable, MetStrings
  <2>2. phase = "atomic4" /\ phase' = "sweepstring" /\ currentwhite' = otherwhite /\ finalized' = finalized
    BY <1>3 DEF cleartable, udVars
  <2> QED BY <2>1, <2>2, <1>t, <1>c DEF FinInv, isdead, otherwhite, White
<1>4. ASSUME NEW S, sweeplist(S), phase' # "atomic4" PROVE FinInv'
  BY <1>4, <1>t, <1>c DEF sweeplist, freeobj, FinInv, isdead, otherwhite
<1>5. CASE (\E S \in SUBSET Str : SweepString(S)) \/ (\E S \in {{}} \cup {{o} : o \in Obj} : SweepRoot(S))
  BY <1>4, <1>5 DEF SweepString, SweepRoot
<1>6. CASE \E u \in Udt, s \in Reg : GCTM(u, s)
  BY <1>6, <1>t, <1>c DEF GCTM, FinInv, isdead, otherwhite, TypeOK
<1>7. CASE StartCycle \/ RestartFull
  <2>1. \E M : color' = Paint(M)
    BY <1>7 DEF StartCycle, RestartFull, markroot
  <2> QED BY <1>7, <2>1, <1>p, <1>k, <1>t DEF StartCycle, RestartFull, markroot, udVars
<1>8. CASE remarkupvals \/ remarkweak \/ remarkgrayagain
  <2>1. color' = color \/ \E M : color' = Paint(M)
    BY <1>8 DEF remarkupvals, remarkweak, remarkgrayagain
  <2> QED BY <1>8, <2>1, <1>p, <1>k, <1>t DEF remarkupvals, remarkweak, remarkgrayagain, udVars
<1>9. CASE \E o \in Listed : propagatemark(o)
  <2>1. PICK o \in Listed : propagatemark(o)
    BY <1>9
  <2>2. \A u \in Udt : \E M : color'[u] = Paint(M)[u]
    BY <2>1, <1>t, ConstAssumption DEF propagatemark, Listed, Paint
  <2> QED BY <2>1, <2>2, <1>p, <1>k, <1>t DEF propagatemark, udVars
<1>10. CASE EndCycle
  BY <1>10, <1>k DEF EndCycle, udVars
<1>11. CASE UNCHANGED vars
  BY <1>11, <1>k DEF vars, udVars
<1> QED BY <1>1, <1>2, <1>3, <1>5, <1>6, <1>7, <1>8, <1>9, <1>10, <1>11 DEF Next, Collector

\* No __gc metamethod is lost: a userdata is freed only after luaC_separateudata
\* has seen it, and never while it waits for its finalizer.
THEOREM FinalizerBeforeFree == Spec => FreedFinalized
<1> DEFINE Freed == \A u \in Udt : color[u] # "free" /\ color'[u] = "free" =>
                      u \in finalized /\ u \notin tmudata
<1>1. Init => FinInv
  BY ConstAssumption DEF Init, InitRest, InitColor, FinInv, isdead, otherwhite, Obj
<1>2. IInv /\ FinInv /\ [Next]_vars => FinInv'
  BY FinInvStep
<1>3. ASSUME IInv, FinInv, Next PROVE Freed
  <2>t. TypeOK /\ Udt \subseteq Obj /\ Udt \cap Upv = {}
    BY <1>3, ConstAssumption DEF IInv, Obj
  <2>p. \A M : \A o \in Obj : Paint(M)[o] \in {color[o], "black", "gray"}
    BY DEF Paint
  <2>1. CASE Mutator
    BY <2>1, <2>t, MutatorUdata
  <2>2. ASSUME NEW S \in SUBSET unswept, sweeplist(S) PROVE Freed
    BY <1>3, <2>2, <2>t DEF sweeplist, FinInv, Swept, IInv, TmuInv, TypeOK
  <2>3. CASE (\E S \in SUBSET Str : SweepString(S)) \/ (\E S \in {{}} \cup {{o} : o \in Obj} : SweepRoot(S))
    <3>1. \E S \in SUBSET unswept : sweeplist(S)
      BY <2>3 DEF SweepString, SweepRoot
    <3> QED BY <3>1, <2>2
  <2>4. CASE \E u \in Udt, s \in Reg : GCTM(u, s)
    BY <2>4, <2>t DEF GCTM, TypeOK
  <2>5. CASE StartCycle \/ RestartFull \/ remarkupvals \/ remarkweak \/ remarkgrayagain \/ separatetmu
    <3>1. color' = color \/ \E M : color' = Paint(M)
      BY <2>5 DEF StartCycle, RestartFull, markroot, remarkupvals, remarkweak, remarkgrayagain,
         separatetmu
    <3> QED BY <3>1, <2>p, <2>t
  <2>7. CASE \E o \in Listed : propagatemark(o)
    <3>1. PICK o \in Listed : propagatemark(o)
      BY <2>7
    <3>2. \A u \in Udt : \E M : color'[u] = Paint(M)[u]
      BY <3>1, <2>t, ConstAssumption DEF propagatemark, Listed, Paint
    <3> QED BY <3>2, <2>p, <2>t
  <2>6. CASE cleartable \/ EndCycle
    BY <2>6, <2>t DEF cleartable, EndCycle
  <2> QED BY <1>3, <2>1, <2>3, <2>4, <2>5, <2>6, <2>7 DEF Next, Collector
<1>4. IInv /\ FinInv /\ [Next]_vars => [Freed]_vars
  BY <1>3
<1> QED BY <1>1, <1>2, <1>4, IInvInvariant, PTL DEF Spec, FreedFinalized
-----------------------------------------------------------------------------
(* Weak tables.                                                            *)

\* When the last marking of `atomic' is over, what the program can reach is marked.
LEMMA ReachableMarked ==
  ASSUME IInv, phase = "atomic4", gray = {}
  PROVE  Reachable \subseteq NonWhite
<1> USE DEF IInv
<1> DEFINE R == {main, registry, gmt, running} \cap Obj
<1>1. NonWhite \subseteq Obj /\ \A o \in Obj : Live(o) /\ o \notin White => o \in NonWhite
  BY DEF Live, NonWhite, White, TypeOK, Colors
<1>2. \A o \in NonWhite : Live(o)
  BY DEF NonWhite, Live, Swept, isdead, otherwhite
<1>3. R \subseteq NonWhite
  BY <1>1 DEF MarkInv, MarkPhases, AtomicPhases, NoDangling, Roots
<1>4. ASSUME NEW o \in NonWhite PROVE Children(o) \subseteq NonWhite
  <2>1. Pending = {} /\ Children(o) \subseteq Held(o)
    <3>1. Pending = {}
      BY DEF Pending
    <3>2. Children(o) \subseteq Refs(o)
      BY DEF Children, Refs, traversetable
    <3>3. Refs(o) \subseteq Held(o)
      <4>1. CASE o \in Tab
        <5>1. \A r \in Refs(o) : r \in Obj /\ (r = mt[o] \/ \E n \in Node : r = val[o][n] \/ r = key[o][n])
          BY <4>1, ConstAssumption DEF Refs
        <5> QED BY <4>1, <5>1 DEF Held
      <4>2. CASE o \notin Tab
        BY <4>2 DEF Held
      <4> QED BY <4>1, <4>2
    <3> QED BY <3>1, <3>2, <3>3
  <2>2. Children(o) \cap White = {}
    BY <2>1 DEF MarkInv, MarkPhases, AtomicPhases
  <2>3. Children(o) \subseteq Refs(o)
    BY DEF Children, Refs, traversetable
  <2>4. \A r \in Children(o) : r \in Obj /\ Live(r)
    BY <1>1, <1>2, <2>3 DEF NoDangling, Children
  <2> QED BY <1>1, <2>2, <2>4
<1>5. NonWhite = R \cup (NonWhite \ R) /\ NonWhite \ R \in SUBSET (Obj \ R)
  BY <1>1, <1>3
<1>6. Closed(NonWhite)
  BY <1>4 DEF Closed
<1> QED BY <1>5, <1>6 DEF Reachable

\* Within `atomic', cleartable alone changes the values of the tables.
LEMMA AtomicValues ==
  ASSUME TypeOK, [Next]_vars, phase = "atomic4", val' # val
  PROVE  cleartable
<1>1. ~Mutator
  BY MutatorUdata
<1>2. CASE Collector
  BY <1>2 DEF Collector, StartCycle, RestartFull, markroot, remarkupvals, remarkweak, remarkgrayagain,
     separatetmu, EndCycle, propagatemark, SweepString, SweepRoot, GCTM, heapVars
<1>3. CASE UNCHANGED vars
  BY <1>3 DEF vars, heapVars
<1> QED BY <1>1, <1>2, <1>3 DEF Next

\* An entry goes from a weak table only with a key or a value that the program
\* cannot reach strongly, or a userdata that has been, or is to be, finalized.
THEOREM WeakEntriesKept == Spec => ClearsOnlyGarbage
<1> DEFINE Garbage(t, n) == \/ key[t][n] \in Obj /\ key[t][n] \notin Reachable
                            \/ val[t][n] \in Obj /\ val[t][n] \notin Reachable
                            \/ val[t][n] \in finalized
           Only == \A t \in Tab, n \in Node :
                     phase = "atomic4" /\ val[t][n] # nil /\ val'[t][n] = nil => Garbage(t, n)
<1>1. ASSUME IInv, [Next]_vars PROVE Only
  <2> SUFFICES ASSUME NEW t \in Tab, NEW n \in Node, phase = "atomic4", val[t][n] # nil, val'[t][n] = nil
               PROVE  Garbage(t, n)
    OBVIOUS
  <2>1. cleartable
    BY <1>1, AtomicValues DEF IInv
  <2>2. ClearNode(t, n)
    BY <2>1 DEF cleartable
  <2>3. Reachable \cap White = {}
    <3>1. Reachable \subseteq NonWhite
      BY <1>1, <2>1, ReachableMarked DEF cleartable
    <3> QED BY <3>1 DEF NonWhite, White
  <2>4. ASSUME NEW v, NEW iskey, iscleared(v, iskey)
        PROVE  v \in Obj /\ (v \notin Reachable \/ (~iskey /\ v \in finalized))
    BY <2>3, <2>4 DEF iscleared
  <2> QED BY <2>2, <2>4 DEF ClearNode
<1>2. IInv /\ [Next]_vars => [Only]_vars
  BY <1>1
<1> QED BY <1>2, IInvInvariant, PTL DEF Spec, ClearsOnlyGarbage
=============================================================================
