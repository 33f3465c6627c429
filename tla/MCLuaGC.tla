------------------------------ MODULE MCLuaGC ------------------------------
EXTENDS LuaGCInv, FiniteSets, TLC

Sym == Permutations(Tab \ {registry}) \cup Permutations(Udt) \cup Permutations(Upv)
       \cup Permutations(Cls) \cup Permutations(Thr \ {main}) \cup Permutations(Str \ FixedStr)
CONSTANTS c1, v1   \* members of Cls and Upv

NoEvents == {{}}
GcEvents == {{}, {"gc"}}
ModeEvents == {{}, {"k", "v"}}
KeyEvents == {{}, {"k"}}

Shade(c) == IF c = currentwhite THEN "white" ELSE IF c = otherwhite THEN "dead" ELSE c
ViewColor == [o \in Obj |-> Shade(color[o])]
ViewLists == IF phase \in MarkPhases
             THEN <<gray, grayagain, weak, [t \in weak |-> weakbits[t]]>> ELSE <<>>
ViewStack == IF Upv # {} THEN stack
             ELSE [th \in Thr |-> [v \in Val |-> Cardinality({s \in Reg : stack[th][s] = v})]]
View == <<ViewColor, ViewLists, ViewStack, mt, env, val, key, cup, upv, home, uval, tms, gmt,
          running, resumer, phase, full, unswept, udVars>>

-----------------------------------------------------------------------------
(* A later starting state, for the run that asks about a deep execution.     *)

\* After loading a function with an upvalue and storing it in the registry.
InitLoaded ==
  /\ color = InitColor({c1, v1}) /\ mt = InitMt
  /\ env = [InitEnv EXCEPT ![c1] = globals]
  /\ val = [InitVal EXCEPT ![registry][1] = c1]
  /\ stack = InitStack
  /\ upv = [c \in Cls |-> IF c = c1 THEN {v1} ELSE {}] /\ tms = [t \in Tab |-> {}]
  /\ phase = "pause" /\ tmudata = {} /\ finalized = {}
  /\ InitRest
SpecLoaded == InitLoaded /\ [][NextSetupvalue]_vars

-----------------------------------------------------------------------------
\* What the program cannot reach is freed in the end, unless a finalizer brings it
\* back: no object is for ever there and out of reach (main and the registry are
\* never out of reach).
CollectsGarbage ==
  \A o \in Obj \ (FixedStr \cup {main, registry}) :
    []<>(color[o] = "free" \/ o \in Reachable)
=============================================================================
