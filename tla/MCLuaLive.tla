------------------------------ MODULE MCLuaLive -----------------------------
(* What must happen in the end: the collector frees the garbage (`Gc'), and *)
(* the searches and counts on a table end (LuaSizes).  `part' tells which   *)
(* one a behaviour is of; the other one stays where it started.             *)
EXTENDS LuaSizes

CONSTANTS g, udata, mainthread, nil, prim, dead, none

VARIABLES part, color, mt, env, val, key, stack, cup, upv, home, uval, tms, gmt, running,
          resumer, phase, full, currentwhite, gray, grayagain, weak, weakbits, unswept,
          tmudata, finalized

Gc ==
  INSTANCE MCLuaGC WITH
    Tab <- {g}, Udt <- {udata}, Cls <- {}, Upv <- {}, Thr <- {mainthread}, Str <- {}, FixedStr <- {},
    Node <- {1}, Array <- {1}, Reg <- {1, 2}, Uses <- {}, Events <- {{}, {"gc"}},
    main <- mainthread, registry <- g, globals <- g,
    c1 <- none, v1 <- none

\* The length of an empty table has been found.
Found ==
  /\ present = {} /\ sizearray = 0 /\ dummy = TRUE /\ pc = "done" /\ i = 0 /\ j = 0
  /\ result = 0
  /\ rpc = "start" /\ lg = 0 /\ idx = 1 /\ nums = [l \in 0 .. MAXBITS |-> 0] /\ nasize = 0
  /\ a = 0 /\ na = 0 /\ n = 0

LInit == \/ part = "gc" /\ Gc!Init /\ Found
         \/ part = "sizes" /\ SInit /\ Gc!Init
gcVars == <<color, mt, env, val, key, stack, cup, upv, home, uval, tms, gmt, running, resumer,
            phase, full, currentwhite, gray, grayagain, weak, weakbits, unswept, tmudata, finalized>>
all == <<part, vars, rehashVars, gcVars>>
SizesStep == part = "sizes" /\ SNext /\ UNCHANGED <<part, gcVars>>
CollectorStep == part = "gc" /\ Gc!Collector /\ UNCHANGED <<part, vars, rehashVars>>
MutatorStep == part = "gc" /\ Gc!Mutator /\ UNCHANGED <<part, vars, rehashVars>>
LNext == SizesStep \/ CollectorStep \/ MutatorStep \/ (SDone /\ UNCHANGED <<part, gcVars>>)
\* The program that allocates pays for the steps of the collector
\* (luaC_checkGC); the loops of a call of luaH_getn or rehash go on.
LSpec == LInit /\ [][LNext]_all /\ WF_all(CollectorStep) /\ WF_all(SizesStep)

-----------------------------------------------------------------------------
\* What the program cannot reach is freed in the end, unless a finalizer brings
\* it back.
CollectsGarbage == Gc!CollectsGarbage
=============================================================================
