------------------------------- MODULE LuaGC -------------------------------
(***************************************************************************)
(* The incremental mark-and-sweep collector of lgc.c, interleaved with the  *)
(* program (the mutator) that it shares the heap with.                      *)
(*                                                                         *)
(* The mutator owns a running thread; it reaches objects only through the   *)
(* stack of that thread, the registry and the thread's globals, and every   *)
(* store it makes goes through the write barrier the code puts there.  The  *)
(* collector advances one `singlestep' at a time, at any point between two  *)
(* operations of the mutator (luaC_checkGC).  `atomic' and luaC_fullgc are  *)
(* loops of several steps during which the mutator does not run: `phase'    *)
(* and `full' say how far they are.                                         *)
(*                                                                         *)
(* Abstractions.  An address holds objects of one type.  The gc lists are   *)
(* sets (the collector picks any member), a table has the nodes Node (those *)
(* in Array form its array part), a thread the stack slots Reg, a C closure *)
(* one upvalue.  Prototypes are not told apart from closures: both are      *)
(* gray-listed and protected by the forward barrier.                        *)
(***************************************************************************)
EXTENDS Integers

CONSTANTS
  Tab, Udt, Cls, Upv, Thr, Str,  \* addresses of tables, userdata, closures,
                                 \* upvalues, threads and strings
  FixedStr,                      \* strings with FIXEDBIT (reserved words...)
  Node, Array,                   \* the nodes of a table; its array part
  Reg,                           \* stack slots
  Events,                        \* the sets of metamethods a table may define
  Uses,                          \* the optional features the program uses
  main, registry, globals,       \* g->mainthread, g->l_registry, its l_gt
  nil,                           \* nil, NULL
  prim,                          \* any other value that is not collectable
  dead                           \* a key turned into LUA_TDEADKEY

Obj == Tab \cup Udt \cup Cls \cup Upv \cup Thr \cup Str
\* The values of Lua.  Only in a table entry is a value that is not collectable
\* told apart from nil (removeentry depends on it).
Val == (Obj \ Upv) \cup {nil}
Features == {"meta", "basic", "setfenv", "collect"}

ASSUME ConstAssumption ==
  /\ main \in Thr /\ registry \in Tab /\ globals \in Tab
  /\ FixedStr \subseteq Str
  /\ Reg \subseteq Nat /\ Array \subseteq Node
  /\ Events \subseteq SUBSET {"k", "v", "gc"} /\ Uses \subseteq Features
  /\ nil \notin Obj /\ prim \notin Obj /\ dead \notin Obj
  /\ nil # prim /\ nil # dead /\ prim # dead
  /\ nil \notin Thr \X Reg
  /\ Tab \cap Udt = {} /\ Tab \cap Cls = {} /\ Tab \cap Upv = {}
  /\ Tab \cap Thr = {} /\ Tab \cap Str = {} /\ Udt \cap Cls = {}
  /\ Udt \cap Upv = {} /\ Udt \cap Thr = {} /\ Udt \cap Str = {}
  /\ Cls \cap Upv = {} /\ Cls \cap Thr = {} /\ Cls \cap Str = {}
  /\ Upv \cap Thr = {} /\ Upv \cap Str = {} /\ Thr \cap Str = {}

VARIABLES
  color,       \* `marked': "free" (no object), "w0", "w1", "gray", "black"
  mt, env,     \* metatable; environment (l_gt of a thread)
  val, key,    \* values and keys of the nodes of a table
  stack,       \* stack slots of a thread
  cup, upv,    \* the upvalue of a C closure; the UpVals of a Lua closure
  home, uval,  \* an open upvalue's thread and slot (nil: closed); its own value
  tms,         \* which of __mode "k", "v" and __gc a table defines
  gmt,         \* g->mt: the metatable of a basic type
  running, resumer, \* the running thread; who resumed a thread
  phase,       \* g->gcstate, with the stages of `atomic'
  full,        \* progress of luaC_fullgc: "no", "sweep", "mark"
  currentwhite, gray, grayagain, weak, weakbits,
  unswept,     \* objects that sweepstrgc and sweepgc have not reached
  tmudata, finalized

heapVars == <<mt, env, val, key, stack, cup, upv, home, uval, tms, gmt, running, resumer>>
listVars == <<gray, grayagain, weak, weakbits>>
udVars == <<tmudata, finalized>>
vars == <<color, heapVars, phase, full, currentwhite, listVars, unswept, udVars>>

-----------------------------------------------------------------------------
(* Colors and references.                                                  *)

otherwhite == IF currentwhite = "w0" THEN "w1" ELSE "w0"
White == {o \in Obj : color[o] \in {"w0", "w1"}}
isdead(o) == color[o] = otherwhite
isblack(o) == color[o] = "black"
SweptUnlessFinalized(o) == isdead(o) /\ o \notin FixedStr /\ o # main /\ o \notin finalized  \* mutant
Swept(o) == isdead(o) /\ o \notin FixedStr /\ o # main     \* sweeplist erases o

IsOpen(u) == home[u] # nil
UpValue(u) == IF IsOpen(u) THEN stack[home[u][1]][home[u][2]] ELSE uval[u]
OpenOf(th) == {u \in Upv : IsOpen(u) /\ home[u][1] = th}

Mode(t) == IF mt[t] = nil THEN {} ELSE tms[mt[t]] \cap {"k", "v"}

traversetable(t, r) ==
  \/ r = mt[t]
  \/ \E n \in Node : /\ val[t][n] # nil
                     /\ \/ "v" \notin Mode(t) /\ r = val[t][n]
                        \/ "k" \notin Mode(t) /\ r = key[t][n]
traverseclosure(c, r) == r = env[c] \/ r = cup[c] \/ r \in upv[c]
\* A resumed coroutine is an argument on the stack of the thread that resumed it.
traversestack(th, r) ==
  \/ r = env[th]
  \/ \E s \in Reg : r = stack[th][s]
  \/ r \in Thr /\ resumer[r] = th

\* The objects that marking or traversing o marks in turn.
Children(o) == {r \in Obj :
  \/ o \in Tab /\ traversetable(o, r)
  \/ o \in Cls /\ traverseclosure(o, r)
  \/ o \in Thr /\ traversestack(o, r)
  \/ o \in Udt /\ (r = mt[o] \/ r = env[o])
  \/ o \in Upv /\ r = UpValue(o)}

\* reallymarkobject on the members of S in W, the white objects: an upvalue
\* marks its value at once, a userdata its metatable and environment.
reallymarkobject(S, W) ==
  LET a == S \cap W
      b == a \cup {r \in W : \E u \in a \cap Upv : r \in Children(u)}
  IN  b \cup {r \in W : \E d \in b \cap Udt : r \in Children(d)}

Listed == Tab \cup Cls \cup Thr          \* types linked into the gray list
Paint(M) ==
  [o \in Obj |-> IF o \notin M THEN color[o]
                 ELSE IF o \in Udt \/ (o \in Upv /\ ~IsOpen(o))
                      THEN "black" ELSE "gray"]

-----------------------------------------------------------------------------
(* The collector: singlestep.                                              *)

AtomicPhases == {"atomic1", "atomic2", "atomic3", "atomic4"}
MarkPhases == {"propagate"} \cup AtomicPhases
SweepPhases == {"sweepstring", "sweep"}
Phases == {"pause", "finalize"} \cup MarkPhases \cup SweepPhases

markroot ==
  LET M == reallymarkobject({main, env[main], registry, gmt}, White)
  IN  /\ color' = Paint(M)
      /\ gray' = M \cap Listed
      /\ grayagain' = {} /\ weak' = {}
      /\ phase' = "propagate"
      /\ UNCHANGED <<weakbits, currentwhite, unswept, udVars, heapVars>>

StartCycle == phase = "pause" /\ full = "no" /\ markroot /\ full' = full

\* Mutants: keys of empty entries stay; or every one of them is turned into a
\* dead key, those that are not collectable too.
removeentryNever(t) == key[t]
removeentryAll(t) == [n \in Node |-> IF val[t][n] = nil THEN dead ELSE key[t][n]]

\* removeentry: an entry with a nil value loses its collectable key.
removeentry(t) ==
  [n \in Node |-> IF val[t][n] = nil /\ key[t][n] \in Obj THEN dead ELSE key[t][n]]

propagatemark(o) ==
  LET M == reallymarkobject(Children(o), White)
      isweak == o \in Tab /\ Mode(o) # {}
  IN  /\ phase \in MarkPhases /\ o \in gray
      /\ color' = [Paint(M) EXCEPT ![o] = IF o \in Thr \/ isweak THEN "gray" ELSE "black"]
      /\ gray' = (gray \ {o}) \cup (M \cap Listed)
      /\ grayagain' = IF o \in Thr THEN grayagain \cup {o} ELSE grayagain
      /\ weak' = IF isweak THEN weak \cup {o} ELSE weak
      /\ weakbits' = IF isweak THEN [weakbits EXCEPT ![o] = Mode(o)] ELSE weakbits
      /\ key' = IF o \in Tab /\ Mode(o) # {"k", "v"}
                THEN [key EXCEPT ![o] = removeentry(o)] ELSE key
      /\ UNCHANGED <<phase, full, currentwhite, unswept, udVars, mt, env, val, stack,
                     cup, upv, home, uval, tms, gmt, running, resumer>>

\* Mutant: `atomic' trusts that the open upvalues were marked with their threads.
remarkupvalsNone ==
  /\ phase = "propagate" /\ gray = {}
  /\ phase' = "atomic1"
  /\ UNCHANGED <<color, full, currentwhite, listVars, unswept, udVars, heapVars>>

\* atomic, first part: remarkupvals, then propagateall (by propagatemark).
remarkupvals ==
  LET V == {UpValue(u) : u \in {x \in Upv : IsOpen(x) /\ color[x] = "gray"}}
      M == reallymarkobject(V, White)
  IN  /\ phase = "propagate" /\ gray = {}
      /\ color' = Paint(M) /\ gray' = M \cap Listed
      /\ phase' = "atomic1"
      /\ UNCHANGED <<full, currentwhite, grayagain, weak, weakbits, unswept, udVars, heapVars>>

\* Mutant: the weak tables are not traversed again.
remarkweakOnce ==
  LET M == reallymarkobject({running, gmt}, White)
  IN  /\ phase = "atomic1" /\ gray = {}
      /\ color' = Paint(M) /\ gray' = M \cap Listed
      /\ phase' = "atomic2"
      /\ UNCHANGED <<full, currentwhite, grayagain, weak, weakbits, unswept, udVars, heapVars>>

\* The weak tables are traversed again, with the running thread and g->mt.
remarkweak ==
  LET M == reallymarkobject({running, gmt}, White)
  IN  /\ phase = "atomic1" /\ gray = {}
      /\ color' = Paint(M) /\ gray' = weak \cup (M \cap Listed)
      /\ weak' = {}
      /\ phase' = "atomic2"
      /\ UNCHANGED <<full, currentwhite, grayagain, weakbits, unswept, udVars, heapVars>>

remarkgrayagain ==
  /\ phase = "atomic2" /\ gray = {}
  /\ gray' = grayagain /\ grayagain' = {}
  /\ phase' = "atomic3"
  /\ UNCHANGED <<color, full, currentwhite, weak, weakbits, unswept, udVars, heapVars>>

\* luaC_separateudata(L, 0): the unmarked userdata not finalized yet; those
\* with a __gc method are preserved.
HasGC(u) == mt[u] # nil /\ "gc" \in tms[mt[u]]
UnfinalizedAny == {u \in Udt : u \in White /\ u \notin tmudata}   \* mutant
Unfinalized == {u \in Udt : u \in White /\ u \notin finalized \cup tmudata}

\* Mutant: marktmu is left out.
separatetmuUnmarked ==
  /\ phase = "atomic3" /\ gray = {}
  /\ tmudata' = tmudata \cup {u \in Unfinalized : HasGC(u)}
  /\ finalized' = finalized \cup Unfinalized
  /\ phase' = "atomic4"
  /\ UNCHANGED <<color, full, currentwhite, listVars, unswept, heapVars>>

\* luaC_separateudata, then marktmu (which whitens what it marks: a userdata may
\* be left in tmudata, marked, from an earlier cycle); propagateall follows.
separatetmu ==
  LET tmu == tmudata \cup {u \in Unfinalized : HasGC(u)}
      M == reallymarkobject(tmu, White \cup tmu)
  IN  /\ phase = "atomic3" /\ gray = {}
      /\ tmudata' = tmu
      /\ finalized' = finalized \cup Unfinalized
      /\ color' = Paint(M) /\ gray' = M \cap Listed
      /\ phase' = "atomic4"
      /\ UNCHANGED <<full, currentwhite, grayagain, weak, weakbits, unswept, heapVars>>

\* Mutant: only values are looked at.
isclearedValue(v, iskey) ==
  v \in Obj \ Str /\ ~iskey /\ (v \in White \/ (v \in Udt /\ v \in finalized))
\* iscleared: strings are values, never cleared; a userdata being finalized
\* stays as a key and goes as a value.
iscleared(v, iskey) ==
  v \in Obj \ Str /\ (v \in White \/ (v \in Udt /\ ~iskey /\ v \in finalized))
ClearNode(t, n) ==
  /\ val[t][n] # nil
  /\ IF n \in Array THEN "v" \in weakbits[t] /\ iscleared(val[t][n], FALSE)
     ELSE iscleared(key[t][n], TRUE) \/ iscleared(val[t][n], FALSE)
\* The strings cleartable meets and marks: all but those behind a cleared key.
\* (An array of strong values was traversed: its strings are not white.)
MetStrings == {s \in Str \cap White : \E t \in weak : \E n \in Node :
                 /\ val[t][n] # nil
                 /\ \/ n \notin Array /\ s = key[t][n]
                    \/ s = val[t][n] /\ (n \in Array \/ ~iscleared(key[t][n], TRUE))}

\* The objects of rootgc and of the string table (an open upvalue is swept with
\* its thread, and tmudata is a list of its own).
SweepList == {o \in Obj \ tmudata : color[o] # "free" /\ ~(o \in Upv /\ IsOpen(o))}

\* atomic, end: cleartable, flip the white, start the sweep.
cleartable ==
  /\ phase = "atomic4" /\ gray = {}
  /\ val' = [t \in Tab |-> IF t \notin weak THEN val[t] ELSE
               [n \in Node |-> IF ClearNode(t, n) THEN nil ELSE val[t][n]]]
  /\ key' = [t \in Tab |-> IF t \notin weak THEN key[t] ELSE
               [n \in Node |-> IF n \notin Array /\ ClearNode(t, n) /\ key[t][n] \in Obj
                               THEN dead ELSE key[t][n]]]
  /\ color' = [o \in Obj |-> IF o \in MetStrings THEN "gray" ELSE color[o]]
  /\ currentwhite' = otherwhite
  /\ unswept' = SweepList
  /\ phase' = "sweepstring"
  /\ UNCHANGED <<full, listVars, udVars, mt, env, stack, cup, upv, home, uval, tms,
                 gmt, running, resumer>>

\* freeobj: the address no longer holds an object.
Clean(f, F, x) == [o \in DOMAIN f |-> IF o \in F THEN x ELSE f[o]]
NoValues == [n \in Node |-> nil]
NoKeys == [n \in Node |-> IF n \in Array THEN prim ELSE nil]
NoStack == [s \in Reg |-> nil]
freeobj(F) ==
  /\ mt' = Clean(mt, F, nil) /\ env' = Clean(env, F, nil)
  /\ val' = Clean(val, F, NoValues) /\ key' = Clean(key, F, NoKeys)
  /\ stack' = Clean(stack, F, NoStack) /\ cup' = Clean(cup, F, nil)
  /\ upv' = Clean(upv, F, {}) /\ tms' = Clean(tms, F, {})
  /\ weakbits' = Clean(weakbits, F, {})
  /\ finalized' = finalized \ F

\* sweeplist over the objects S (a bucket of the string table, or one object of
\* rootgc); a thread's open upvalues are swept with it, and those that are left
\* are closed when the thread is freed (luaE_freethread).
sweeplist(S) ==
  LET ups == {u \in Upv : IsOpen(u) /\ home[u][1] \in S}
      F == {o \in S \cup ups : Swept(o)}
      closed == {u \in ups \ F : home[u][1] \in F}
  IN  /\ color' = [o \in Obj |-> IF o \in F THEN "free"
                                 ELSE IF o \in S \cup ups THEN currentwhite ELSE color[o]]
      /\ uval' = [u \in Upv |-> IF u \in F THEN nil
                                ELSE IF u \in closed THEN UpValue(u) ELSE uval[u]]
      /\ home' = Clean(home, F \cup closed, nil)
      /\ freeobj(F)
      /\ unswept' = unswept \ S
      /\ UNCHANGED <<gray, grayagain, weak, tmudata, currentwhite, gmt, running, resumer>>

SweepString(S) ==
  /\ phase = "sweepstring" /\ S \subseteq unswept \cap Str
  /\ sweeplist(S)
  /\ \/ phase' = phase                                    \* more buckets
     \/ unswept \cap Str \subseteq S /\ phase' = "sweep"  \* it was the last bucket
  /\ full' = full

\* A step sweeps up to GCSWEEPMAX objects; one at a time is the finest grain.
SweepRoot(S) ==
  /\ phase = "sweep"
  /\ S = {} \/ \E o \in unswept : S = {o}
  /\ sweeplist(S)
  /\ \/ phase' = phase
     \/ unswept \subseteq S /\ phase' = "finalize"
  /\ full' = full

\* GCTM: u leaves tmudata, and is handed to its finalizer on the running stack.
\* The finalizer is program code: from here the mutator runs again.
GCTM(u, s) ==
  /\ phase = "finalize" /\ full # "sweep" /\ u \in tmudata
  /\ tmudata' = tmudata \ {u}
  /\ color' = [color EXCEPT ![u] = currentwhite]
  /\ stack' = IF HasGC(u) THEN [stack EXCEPT ![running][s] = u] ELSE stack
  /\ full' = "no"
  /\ UNCHANGED <<phase, currentwhite, listVars, unswept, finalized, mt, env, val, key,
                 cup, upv, home, uval, tms, gmt, running, resumer>>

EndCycle ==
  /\ phase = "finalize" /\ full # "sweep" /\ tmudata = {}
  /\ phase' = "pause" /\ full' = "no"
  /\ UNCHANGED <<color, heapVars, currentwhite, listVars, unswept, udVars>>

\* luaC_fullgc, once the pending sweep is over: mark again from the roots.
RestartFull == full = "sweep" /\ phase = "finalize" /\ markroot /\ full' = "mark"

Collector ==
  \/ StartCycle \/ remarkupvals \/ remarkweak \/ remarkgrayagain \/ separatetmu
  \/ cleartable \/ EndCycle \/ RestartFull
  \/ \E o \in Listed : propagatemark(o)
  \/ \E S \in SUBSET Str : SweepString(S)
  \/ \E S \in {{}} \cup {{o} : o \in Obj} : SweepRoot(S)
  \/ \E u \in Udt, s \in Reg : GCTM(u, s)

-----------------------------------------------------------------------------
(* The mutator: the operations of the API and the virtual machine, on the    *)
(* registers of the running thread.                                          *)

MutatorRuns == phase \notin AtomicPhases /\ full = "no"
Regs == {stack[running][s] : s \in Reg}
RegVal == Regs \cup {nil}
Index == Regs \cup {registry, env[running]}    \* index2adr, pseudo-indices too

\* luaC_barrierf: o (black) now refers to v (white).
barrierf(o, v) ==
  IF ~(isblack(o) /\ v \in White) THEN UNCHANGED <<color, gray>>
  ELSE IF phase = "propagate"
       THEN LET M == reallymarkobject({v}, White)
            IN  color' = Paint(M) /\ gray' = gray \cup (M \cap Listed)
       ELSE color' = [color EXCEPT ![o] = currentwhite] /\ gray' = gray

\* Mutants: no barrier; or the table is linked whatever its color.
barrierbackNone(t, vs) == UNCHANGED <<color, grayagain>>
barrierbackAnyColor(t, vs) ==
  IF vs \cap White # {}
  THEN color' = [color EXCEPT ![t] = "gray"] /\ grayagain' = grayagain \cup {t}
  ELSE UNCHANGED <<color, grayagain>>

\* luaC_barrierback: t (black) now refers to a white object.
barrierback(t, vs) ==
  IF isblack(t) /\ vs \cap White # {}
  THEN color' = [color EXCEPT ![t] = "gray"] /\ grayagain' = grayagain \cup {t}
  ELSE UNCHANGED <<color, grayagain>>

mutUnchanged ==
  /\ MutatorRuns
  /\ UNCHANGED <<phase, full, currentwhite, unswept, weak, weakbits, udVars>>
push(v, s) == stack' = [stack EXCEPT ![running][s] = v]

\* luaC_link and the callers' initialisation: a new object o, white, is left in
\* register s before the collector can run.
link(o, s) ==
  /\ color[o] = "free"
  /\ color' = [color EXCEPT ![o] = currentwhite]
  /\ push(o, s)
  /\ UNCHANGED <<gray, grayagain, mt, val, key, uval, tms, gmt, running, resumer>>
  /\ mutUnchanged

luaH_new(t, s) == link(t, s) /\ UNCHANGED <<env, cup, upv, home>>

\* getcurrenv: the environment of the running function, or the globals.
CurrEnv == {env[running]} \cup {env[c] : c \in Regs \cap Cls}

luaS_newudata(u, e, s) ==
  /\ link(u, s) /\ e \in CurrEnv
  /\ env' = [env EXCEPT ![u] = e]
  /\ UNCHANGED <<cup, upv, home>>

luaE_newthread(th, s) ==
  /\ link(th, s)
  /\ env' = [env EXCEPT ![th] = env[running]]
  /\ UNCHANGED <<cup, upv, home>>

\* lua_pushcclosure with one upvalue, v.
luaF_newCclosure(c, e, v, s) ==
  /\ link(c, s) /\ e \in CurrEnv /\ v \in RegVal
  /\ env' = [env EXCEPT ![c] = e]
  /\ cup' = [cup EXCEPT ![c] = v]
  /\ UNCHANGED <<upv, home>>

\* f_parser: a loaded function has fresh, closed upvalues (luaF_newupval).
f_parser(c, u, s) ==
  /\ color[c] = "free" /\ color[u] = "free"
  /\ color' = [color EXCEPT ![c] = currentwhite, ![u] = currentwhite]
  /\ env' = [env EXCEPT ![c] = env[running]]
  /\ upv' = [upv EXCEPT ![c] = {u}]
  /\ push(c, s)
  /\ UNCHANGED <<gray, grayagain, mt, val, key, cup, home, uval, tms, gmt, running, resumer>>
  /\ mutUnchanged

\* luaF_findupval: the open upvalue of stack slot l, or a new one.
luaF_findupval(u, l) ==
  \/ u \in OpenOf(running) /\ home[u][2] = l /\ home' = home
  \/ /\ \A x \in OpenOf(running) : home[x][2] # l
     /\ color[u] = "free"
     /\ home' = [home EXCEPT ![u] = <<running, l>>]

\* OP_CLOSURE: a closure over stack slot l of the running function; a dead
\* upvalue is resurrected.
luaF_newLclosure(c, e, u, l, s) ==
  /\ color[c] = "free" /\ e \in CurrEnv
  /\ luaF_findupval(u, l)
  /\ color' = [color EXCEPT ![c] = currentwhite,
                            ![u] = IF color[u] = "free" \/ isdead(u)
                                   THEN currentwhite ELSE color[u]]
  /\ env' = [env EXCEPT ![c] = e]
  /\ upv' = [upv EXCEPT ![c] = {u}]
  /\ push(c, s)
  /\ UNCHANGED <<gray, grayagain, mt, val, key, cup, uval, tms, gmt, running, resumer>>
  /\ mutUnchanged

\* OP_CLOSURE again: the new closure shares an upvalue of the running closure d.
ShareUpval(c, d, u, s) ==
  /\ link(c, s)
  /\ d \in Regs \cap Cls /\ u \in upv[d]
  /\ env' = [env EXCEPT ![c] = env[d]]
  /\ upv' = [upv EXCEPT ![c] = {u}]
  /\ UNCHANGED <<cup, home>>

\* Mutant: a dead string is found and not resurrected.
luaS_newlstrDead(x, s) ==
  /\ color' = [color EXCEPT ![x] = IF color[x] = "free" THEN currentwhite ELSE color[x]]
  /\ push(x, s)
  /\ UNCHANGED <<gray, grayagain, mt, env, val, key, cup, upv, home, uval, tms, gmt,
                 running, resumer>>
  /\ mutUnchanged

\* luaS_newlstr: the interned string x is found (and resurrected when dead) or
\* created; an address stands for a content.
luaS_newlstr(x, s) ==
  /\ color' = [color EXCEPT ![x] = IF color[x] = "free" \/ isdead(x)
                                  THEN currentwhite ELSE color[x]]
  /\ push(x, s)
  /\ UNCHANGED <<gray, grayagain, mt, env, val, key, cup, upv, home, uval, tms, gmt,
                 running, resumer>>
  /\ mutUnchanged

\* Reads: lua_pushvalue, lua_rawget, lua_next, lua_getmetatable, lua_getfenv,
\* OP_GETUPVAL, lua_getupvalue and the pseudo-indices leave a value in s.
Readable(o, v) ==
  \/ o \in Tab /\ \/ v = mt[o]
                  \/ \E n \in Node : val[o][n] # nil /\ v \in {val[o][n], key[o][n]}
  \/ o \in Cls /\ (v = env[o] \/ v = cup[o] \/ \E u \in upv[o] : v = UpValue(u))
  \/ o \in Udt /\ (v = mt[o] \/ v = env[o])
  \/ o \in Thr /\ v = env[o]

Load(v, s) ==
  /\ \/ v \in Index \cup {nil, gmt}
     \/ \E o \in Index : Readable(o, v)
  /\ push(v, s)
  /\ UNCHANGED <<color, gray, grayagain, mt, env, val, key, cup, upv, home, uval, tms,
                 gmt, running, resumer>>
  /\ mutUnchanged

\* lua_rawset, luaV_settable, OP_SETLIST: t[k] = v.  luaH_set finds the node of k
\* or, in newkey, takes one without a value.
SetTable(t, n, k, v) ==
  LET new == key[t][n] # k
  IN  /\ t \in Index /\ v \in RegVal \cup {prim}
      /\ k \in Regs \cap Obj \/ k = prim
      /\ new => /\ n \notin Array /\ val[t][n] = nil
                /\ k = prim \/ \A m \in Node : key[t][m] # k
      /\ key' = [key EXCEPT ![t][n] = k]
      /\ val' = [val EXCEPT ![t][n] = v]
      /\ barrierback(t, IF new THEN {k, v} ELSE {v})
      /\ UNCHANGED <<gray, mt, env, stack, cup, upv, home, uval, tms, gmt, running, resumer>>
      /\ mutUnchanged

\* lua_setmetatable of a table, of a userdata, and of another type.
SetTableMeta(t, m) ==
  /\ "meta" \in Uses /\ t \in Index /\ m \in Regs \cup {nil}
  /\ mt' = [mt EXCEPT ![t] = m]
  /\ barrierback(t, {m})
  /\ UNCHANGED <<gray, env, val, key, stack, cup, upv, home, uval, tms, gmt, running, resumer>>
  /\ mutUnchanged

SetUdataMeta(u, m) ==
  /\ u \in Regs /\ m \in Regs \cup {nil}
  /\ mt' = [mt EXCEPT ![u] = m]
  /\ barrierf(u, m)
  /\ UNCHANGED <<grayagain, env, val, key, stack, cup, upv, home, uval, tms, gmt, running, resumer>>
  /\ mutUnchanged

SetBasicMeta(m) ==
  /\ "basic" \in Uses /\ m \in Regs \cup {nil}
  /\ gmt' = m
  /\ UNCHANGED <<color, gray, grayagain, mt, env, val, key, stack, cup, upv, home, uval,
                 tms, running, resumer>>
  /\ mutUnchanged

\* A store of __mode or __gc in a table (the keys are fixed strings).
SetTM(t, E) ==
  /\ t \in Index /\ tms[t] # E
  /\ tms' = [tms EXCEPT ![t] = E]
  /\ UNCHANGED <<color, gray, grayagain, mt, env, val, key, stack, cup, upv, home, uval,
                 gmt, running, resumer>>
  /\ mutUnchanged

\* lua_setfenv; lua_replace of LUA_ENVIRONINDEX or LUA_GLOBALSINDEX.
SetFenv(o, e) ==
  /\ "setfenv" \in Uses /\ o \in Regs \cup {running} /\ e \in Regs
  /\ env' = [env EXCEPT ![o] = e]
  /\ barrierf(o, e)
  /\ UNCHANGED <<grayagain, mt, val, key, stack, cup, upv, home, uval, tms, gmt, running, resumer>>
  /\ mutUnchanged

\* Where an upvalue's value is written: the stack slot it is open on, or itself.
WriteUpval(u, v) ==
  IF IsOpen(u)
  THEN stack' = [stack EXCEPT ![home[u][1]][home[u][2]] = v] /\ uval' = uval
  ELSE stack' = stack /\ uval' = [uval EXCEPT ![u] = v]

\* OP_SETUPVAL in the running closure c: the barrier is the upvalue's.
SetUpval(c, u, v) ==
  /\ c \in Regs /\ u \in upv[c] /\ v \in RegVal
  /\ WriteUpval(u, v)
  /\ barrierf(u, v)
  /\ UNCHANGED <<grayagain, mt, env, val, key, cup, upv, home, tms, gmt, running, resumer>>
  /\ mutUnchanged

\* lua_setupvalue and lua_replace on the upvalue of a C closure.
SetCUpvalue(c, v) ==
  /\ c \in Regs /\ upv[c] = {} /\ v \in RegVal
  /\ cup' = [cup EXCEPT ![c] = v]
  /\ barrierf(c, v)
  /\ UNCHANGED <<grayagain, mt, env, val, key, stack, upv, home, uval, tms, gmt, running, resumer>>
  /\ mutUnchanged

\* Mutant: luaC_linkupval blackens the upvalue without marking its value.
luaF_closeUnmarked(l) ==
  LET C == {u \in OpenOf(running) : home[u][2] >= l}
      F == {u \in C : isdead(u)}
      G == {u \in C : color[u] = "gray"}
  IN  /\ C # {}
      /\ color' = [o \in Obj |-> IF o \in F THEN "free"
                     ELSE IF o \in G THEN IF phase = "propagate" THEN "black" ELSE currentwhite
                     ELSE color[o]]
      /\ uval' = [u \in Upv |-> IF u \in F THEN nil ELSE IF u \in C THEN UpValue(u) ELSE uval[u]]
      /\ home' = Clean(home, C, nil)
      /\ UNCHANGED <<gray, grayagain, mt, env, val, key, stack, cup, upv, tms, gmt, running, resumer>>
      /\ mutUnchanged

\* luaF_close(L, l): of the open upvalues at or above slot l the dead ones are
\* freed, the others take their value and are linked (luaC_linkupval).
luaF_close(l) ==
  LET C == {u \in OpenOf(running) : home[u][2] >= l}
      F == {u \in C : isdead(u)}
      G == {u \in C : color[u] = "gray"}
      M == IF phase = "propagate"
           THEN reallymarkobject({UpValue(u) : u \in G}, White) ELSE {}
  IN  /\ C # {}
      /\ color' = [o \in Obj |-> IF o \in F THEN "free"
                     ELSE IF o \in G THEN IF phase = "propagate" THEN "black" ELSE currentwhite
                     ELSE Paint(M)[o]]
      /\ gray' = gray \cup (M \cap Listed)
      /\ uval' = [u \in Upv |-> IF u \in F THEN nil ELSE IF u \in C THEN UpValue(u) ELSE uval[u]]
      /\ home' = Clean(home, C, nil)
      /\ UNCHANGED <<grayagain, mt, env, val, key, stack, cup, upv, tms, gmt, running, resumer>>
      /\ mutUnchanged

\* Coroutines: lua_xmove of a value and lua_resume; yield, return and error
\* likewise hand one back.
Resume(th, v, s) ==
  /\ th \in Regs /\ th # main /\ resumer[th] = nil /\ v \in RegVal
  /\ stack' = [stack EXCEPT ![th][s] = v]
  /\ resumer' = [resumer EXCEPT ![th] = running]
  /\ running' = th
  /\ UNCHANGED <<color, gray, grayagain, mt, env, val, key, cup, upv, home, uval, tms, gmt>>
  /\ mutUnchanged

Yield(v, s) ==
  /\ resumer[running] # nil /\ v \in RegVal
  /\ stack' = [stack EXCEPT ![resumer[running]][s] = v]
  /\ resumer' = [resumer EXCEPT ![running] = nil]
  /\ running' = resumer[running]
  /\ UNCHANGED <<color, gray, grayagain, mt, env, val, key, cup, upv, home, uval, tms, gmt>>
  /\ mutUnchanged

\* Mutant: the white is flipped when the cycle is dropped.
luaC_fullgcFlip ==
  /\ "collect" \in Uses /\ MutatorRuns
  /\ phase \in {"pause", "propagate"}
  /\ unswept' = SweepList /\ currentwhite' = otherwhite
  /\ gray' = {} /\ grayagain' = {} /\ weak' = {}
  /\ phase' = "sweepstring" /\ full' = "sweep"
  /\ UNCHANGED <<color, weakbits, udVars, heapVars>>

\* luaC_fullgc: a cycle that is still marking is dropped, and everything swept
\* back to white; a pending sweep is finished (full = "sweep").
luaC_fullgc ==
  /\ "collect" \in Uses /\ MutatorRuns
  /\ \/ /\ phase \in {"pause", "propagate"}
        /\ unswept' = SweepList
        /\ gray' = {} /\ grayagain' = {} /\ weak' = {}
        /\ phase' = "sweepstring" /\ full' = "sweep"
        /\ UNCHANGED <<color, weakbits, currentwhite, udVars, heapVars>>
     \/ /\ phase \in SweepPhases
        /\ full' = "sweep"
        /\ UNCHANGED <<color, phase, currentwhite, listVars, unswept, udVars, heapVars>>
     \/ /\ phase = "finalize"
        /\ markroot /\ full' = "mark"

Mutator ==
  \/ \E s \in Reg :
       \/ \E t \in Tab : luaH_new(t, s)
       \/ \E u \in Udt, e \in Tab : luaS_newudata(u, e, s)
       \/ \E th \in Thr : luaE_newthread(th, s)
       \/ \E x \in Str : luaS_newlstr(x, s)
       \/ \E c \in Cls, e \in Tab, v \in Val : luaF_newCclosure(c, e, v, s)
       \/ \E c \in Cls, u \in Upv : f_parser(c, u, s)
       \/ \E c \in Cls, e \in Tab, u \in Upv, l \in Reg : luaF_newLclosure(c, e, u, l, s)
       \/ \E c, d \in Cls, u \in Upv : ShareUpval(c, d, u, s)
       \/ \E v \in Val : Load(v, s)
       \/ \E th \in Thr, v \in Val : Resume(th, v, s)
       \/ \E v \in Val : Yield(v, s)
  \/ \E t \in Tab, n \in Node, k \in (Obj \ Upv) \cup {prim}, v \in Val \cup {prim} : SetTable(t, n, k, v)
  \/ \E t \in Tab, m \in Tab \cup {nil} : SetTableMeta(t, m)
  \/ \E u \in Udt, m \in Tab \cup {nil} : SetUdataMeta(u, m)
  \/ \E m \in Tab \cup {nil} : SetBasicMeta(m)
  \/ \E t \in Tab, E \in Events : SetTM(t, E)
  \/ \E o \in Cls \cup Udt \cup Thr, e \in Tab : SetFenv(o, e)
  \/ \E c \in Cls, u \in Upv, v \in Val : SetUpval(c, u, v)
  \/ \E c \in Cls, v \in Val : SetCUpvalue(c, v)
  \/ \E l \in Reg : luaF_close(l)
  \/ luaC_fullgc

\* lua_newstate: the main thread, its globals, the registry, the fixed strings.
InitColor(A) == [o \in Obj |-> IF o \in A \cup {main, registry, globals} \cup FixedStr
                               THEN "w0" ELSE "free"]
InitMt == [o \in Tab \cup Udt |-> nil]
InitEnv == [o \in Cls \cup Udt \cup Thr |-> IF o = main THEN globals ELSE nil]
InitVal == [t \in Tab |-> NoValues]
InitStack == [th \in Thr |-> NoStack]
InitRest ==
  /\ key = [t \in Tab |-> NoKeys] /\ cup = [c \in Cls |-> nil]
  /\ home = [u \in Upv |-> nil] /\ uval = [u \in Upv |-> nil]
  /\ gmt = nil /\ running = main /\ resumer = [th \in Thr |-> nil]
  /\ full = "no" /\ currentwhite = "w0"
  /\ gray = {} /\ grayagain = {} /\ weak = {} /\ weakbits = [t \in Tab |-> {}]
  /\ unswept = {}

Init ==
  /\ color = InitColor({}) /\ mt = InitMt /\ env = InitEnv
  /\ val = InitVal /\ stack = InitStack
  /\ upv = [c \in Cls |-> {}] /\ tms = [t \in Tab |-> {}]
  /\ phase = "pause" /\ tmudata = {} /\ finalized = {}
  /\ InitRest

Next == Collector \/ Mutator
Spec == Init /\ [][Next]_vars

\* lua_setupvalue on a Lua closure c: the value goes to the UpVal, as in
\* OP_SETUPVAL, but the barrier is the closure's.  Spec is about programs that do
\* not use it, SpecSetupvalue about those that do.
lua_setupvalue(c, u, v) ==
  /\ c \in Regs /\ u \in upv[c] /\ v \in RegVal
  /\ WriteUpval(u, v)
  /\ barrierf(c, v)
  /\ UNCHANGED <<grayagain, mt, env, val, key, cup, upv, home, tms, gmt, running, resumer>>
  /\ mutUnchanged

NextSetupvalue == Next \/ \E c \in Cls, u \in Upv, v \in Val : lua_setupvalue(c, u, v)
SpecSetupvalue == Init /\ [][NextSetupvalue]_vars

-----------------------------------------------------------------------------
(* Properties.                                                             *)

Colors == {"free", "w0", "w1", "gray", "black"}

\* The types of the variables.
TypeOK ==
  /\ color \in [Obj -> Colors]
  /\ mt \in [Tab \cup Udt -> Tab \cup {nil}]
  /\ env \in [Cls \cup Udt \cup Thr -> Tab \cup {nil}]
  /\ val \in [Tab -> [Node -> Val \cup {prim}]]
  /\ key \in [Tab -> [Node -> Val \cup {prim, dead}]]
  /\ \A t \in Tab, n \in Array : key[t][n] = prim
  /\ stack \in [Thr -> [Reg -> Val]]
  /\ cup \in [Cls -> Val] /\ upv \in [Cls -> SUBSET Upv]
  /\ home \in [Upv -> (Thr \X Reg) \cup {nil}] /\ uval \in [Upv -> Val]
  /\ tms \in [Tab -> SUBSET {"k", "v", "gc"}]
  /\ gmt \in Tab \cup {nil}
  /\ running \in Thr /\ resumer \in [Thr -> Thr \cup {nil}]
  /\ phase \in Phases /\ full \in {"no", "sweep", "mark"}
  /\ currentwhite \in {"w0", "w1"}
  /\ gray \subseteq Listed /\ grayagain \subseteq Listed /\ weak \subseteq Tab
  /\ weakbits \in [Tab -> SUBSET {"k", "v"}]
  /\ unswept \subseteq Obj /\ tmudata \subseteq Udt /\ finalized \subseteq Udt

\* Everything o points to, weakly or not.
Refs(o) == {r \in Obj :
  \/ o \in Tab /\ \/ r = mt[o]
                  \/ \E n \in Node : val[o][n] # nil /\ (r = val[o][n] \/ r = key[o][n])
  \/ o \in Cls /\ traverseclosure(o, r)
  \/ o \in Thr /\ traversestack(o, r)
  \/ o \in Udt /\ (r = mt[o] \/ r = env[o])
  \/ o \in Upv /\ r = UpValue(o)}

\* An object that is there and that no sweep is going to free.
Live(o) == color[o] # "free" /\ ~Swept(o)
Roots == {main, registry, gmt, running, resumer[running]} \cap Obj

\* No pointer ever dangles: what the roots, the userdata awaiting finalization
\* and every live object point to, through fields, entries of weak tables and
\* open upvalues' stacks, is live; so the sweep never frees an object the
\* program can still reach.
NoDangling ==
  /\ \A o \in Roots \cup tmudata : Live(o)
  /\ \A o \in Obj : Live(o) => \A r \in Refs(o) : Live(r)

\* While the collector marks, a black object never points to a white one: what
\* the write barriers are for.  (A userdata left in tmudata by a luaC_fullgc is
\* marked again before the sweep.)
BlackToWhite ==
  phase = "propagate" =>
    \A o \in Obj \ tmudata : isblack(o) => Refs(o) \cap White = {}

\* An object has one gclist field: it is in at most one of the three lists.
OneGclist ==
  phase \in MarkPhases =>
    /\ gray \cap grayagain = {} /\ gray \cap weak = {} /\ grayagain \cap weak = {}
    /\ \A o \in gray \cup grayagain \cup weak : color[o] = "gray"

\* A userdata is freed only after luaC_separateudata has seen it, and never
\* while it waits in tmudata: no __gc metamethod is lost.
FreedFinalized ==
  [][\A u \in Udt : color[u] # "free" /\ color'[u] = "free" =>
       u \in finalized /\ u \notin tmudata]_vars

\* A userdata enters tmudata at most once in its life: what luaC_separateudata has
\* taken stays marked as finalized until it is freed.
FinalizedOnce ==
  [][\A u \in Udt : /\ u \in tmudata' \ tmudata => u \notin finalized
                    /\ u \in finalized \ finalized' => color'[u] = "free"]_vars
=============================================================================
