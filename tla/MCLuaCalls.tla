----------------------------- MODULE MCLuaCalls -----------------------------
(***************************************************************************)
(* LuaCalls for TLC.  A program uses some of the facilities that may       *)
(* interfere with its calls; `uses' is chosen once and for all from        *)
(* Programs, which keeps each combination small.                           *)
(***************************************************************************)
EXTENDS LuaCalls

CONSTANT Programs
VARIABLE uses

MCInit == Init /\ uses \in Programs

MCNext ==
    /\ \/ Calls \/ ErrorsAndCatches \/ Exited
       \/ "pcall" \in uses /\ Protected
       \/ "tailcalls" \in uses /\ TailCalls
       \/ "upvalues" \in uses /\ Upvalues
       \/ "finalizers" \in uses /\ Finalizers
       \/ "hooks" \in uses /\ Hooks
       \/ "handlers" \in uses /\ ErrorHandlers
       \/ "memory" \in uses /\ Memory
       \/ "parser" \in uses /\ Parser
       \/ Co \cap uses # {} /\ Coroutines(Co \cap uses)
    /\ UNCHANGED uses

MCSpec == MCInit /\ [][MCNext]_<<callVars, uses>>

\* Of a coroutine that ended only what costatus sees matters: luaB_cocreate
\* sets all its fields anew.
Gone(t) == life[t] = "ended" /\ t \notin OnStack
Seen(f) == [t \in Thread |-> IF Gone(t) THEN <<>> ELSE <<f[t]>>]
MCView == <<uses, cstack, Seen(ci), Seen(size_ci), Seen(nCcalls),
            Seen(baseCcalls), Seen(allowhook), Seen(status), Seen(errfunc),
            Seen(openupval), life,
            [t \in Thread |-> IF Gone(t) /\ cstack # <<>> THEN <<costatus(t)>>
                              ELSE <<cotop[t]>>]>>
=============================================================================
