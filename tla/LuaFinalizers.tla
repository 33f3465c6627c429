--------------------------- MODULE LuaFinalizers ----------------------------
(***************************************************************************)
(* The order and the number of calls of the finalizers of userdata in Lua  *)
(* 5.1.4: luaC_separateudata, GCTM and luaC_callGCTM (lgc.c), lua_close    *)
(* (lstate.c).  A finalizer may create userdata, keep its own, raise an    *)
(* error, and collect again, which calls other finalizers inside it.       *)
(*                                                                         *)
(* A userdata is a number, in the order of creation.  What a cycle marks   *)
(* is what the program holds; references between userdata are left out.    *)
(***************************************************************************)
EXTENDS Integers, FiniteSets, SequencesExt

CONSTANT MaxUdata       \* bound of the userdata created

VARIABLES
    root,       \* the userdata linked after the main thread, in list order
    tmudata,    \* the circular list of those to be finalized, from its first
    finalized,  \* those with FINALIZEDBIT
    gc,         \* those whose metatable has a __gc field
    reached,    \* those the program can reach
    running,    \* those whose finalizers run, the innermost last
    gcphase,    \* "pause", or "finalize" from atomic to the end of the cycle
    mode,       \* "open", "closing" (in lua_close) or "closed"
    called,     \* history: the finalizers called
    batch,      \* history: the separation that took each userdata
    owed        \* history: those lua_close must finalize

finVars == <<root, tmudata, finalized, gc, reached, running, gcphase, mode, called, batch, owed>>

\* The program runs, or lua_close has called a finalizer.
Executing == mode = "open" \/ (mode = "closing" /\ running # <<>>)
Live == reached \cup ToSet(running)

finInit ==
    /\ root = <<>> /\ tmudata = <<>> /\ finalized = {} /\ gc = {} /\ reached = {}
    /\ running = <<>> /\ gcphase = "pause" /\ mode = "open"
    /\ called = <<>> /\ batch = <<>> /\ owed = {}

\* luaS_newudata and its metatable: the newest is the first of the list.
luaS_newudata ==
    LET u == Len(batch) + 1
    IN  /\ Executing /\ u <= MaxUdata
        /\ batch' = Append(batch, 0)
        /\ root' = <<u>> \o root /\ reached' = reached \cup {u}
        /\ gc' \in {gc, gc \cup {u}}
    /\ UNCHANGED <<tmudata, finalized, running, gcphase, mode, called, owed>>

\* lua_setmetatable, before or after the userdata was put in tmudata.
lua_setmetatable ==
    /\ Executing
    /\ \E u \in Live : gc' = IF u \in gc THEN gc \ {u} ELSE gc \cup {u}
    /\ UNCHANGED <<root, tmudata, finalized, reached, running, gcphase, mode, called, batch, owed>>

\* The program loses a userdata; a finalizer keeps its own.
Release ==
    /\ Executing
    /\ \/ \E u \in reached : reached' = reached \ {u}
       \/ \E u \in ToSet(running) \ reached : reached' = reached \cup {u}
    /\ UNCHANGED <<root, tmudata, finalized, gc, running, gcphase, mode, called, batch, owed>>

\* The elements of s that are in S, in the order of s.
Picked(s, S) ==
    LET F[n \in 0 .. Len(s)] ==
          IF n = 0 THEN <<>> ELSE IF s[n] \in S THEN Append(F[n - 1], s[n]) ELSE F[n - 1]
    IN  F
Among(s, S) == Picked(s, S)[Len(s)]

\* luaC_separateudata, which goes over the userdata `white'.
NextBatch == 1 + Cardinality(ToSet(batch) \ {0})
MustCall_again(u) == u \in gc
MustCall(u) == u \in gc /\ u \notin finalized
luaC_separateudata_prepend(white) ==
    LET moved == {u \in white : MustCall(u)}
    IN  /\ tmudata' = Reverse(Among(root, moved)) \o tmudata
        /\ finalized' = finalized \cup white
        /\ batch' = [u \in DOMAIN batch |-> IF u \in moved THEN NextBatch ELSE batch[u]]
luaC_separateudata(white) ==
    LET moved == {u \in white : MustCall(u)}
    IN  /\ tmudata' = tmudata \o Among(root, moved)
        /\ finalized' = finalized \cup white
        /\ batch' = [u \in DOMAIN batch |-> IF u \in moved THEN NextBatch ELSE batch[u]]

\* atomic and the sweep of the other white userdata: at the end of a mark
\* phase, or of the one that luaC_fullgc starts while finalizers are left.
Collect ==
    LET white == ToSet(root) \ Live
    IN  /\ luaC_separateudata(white)
        /\ root' = Among(root, Live)
    /\ Executing
    /\ gcphase' = "finalize"
    /\ UNCHANGED <<gc, reached, running, mode, called, owed>>

\* GCTM: the first of tmudata goes back to the root list and is called.
GCTM ==
    /\ tmudata # <<>>
    /\ tmudata' = Tail(tmudata)
    /\ root' = <<Head(tmudata)>> \o root
    /\ IF Head(tmudata) \in gc
       THEN running' = Append(running, Head(tmudata)) /\ called' = Append(called, Head(tmudata))
            /\ UNCHANGED owed
       ELSE owed' = owed \ {Head(tmudata)} /\ UNCHANGED <<running, called>>
    /\ UNCHANGED <<finalized, gc, reached, gcphase, mode, batch>>

\* GCSfinalize of singlestep.
StepFinalize ==
    /\ Executing /\ gcphase = "finalize"
    /\ \/ GCTM
       \/ /\ tmudata = <<>> /\ gcphase' = "pause"
          /\ UNCHANGED <<root, tmudata, finalized, gc, reached, running, mode, called, batch, owed>>

\* A finalizer returns, or raises an error, caught by a finalizer that called
\* it, by the program, or by lua_close.
EndFinalizer ==
    /\ running # <<>>
    /\ \E n \in 0 .. Len(running) - 1 : running' = SubSeq(running, 1, n)
    /\ UNCHANGED <<root, tmudata, finalized, gc, reached, gcphase, mode, called, batch, owed>>

\* lua_close: all userdata are taken as dead; errors start the calls again;
\* luaC_freeall frees what is left.
lua_close ==
    /\ mode = "open" /\ running = <<>>
    /\ luaC_separateudata(ToSet(root))
    /\ root' = Among(root, {u \in ToSet(root) : ~MustCall(u)})
    /\ mode' = "closing" /\ owed' = ToSet(tmudata')
    /\ UNCHANGED <<gc, reached, running, gcphase, called>>
callallgcTM == mode = "closing" /\ running = <<>> /\ GCTM
close_state_early ==
    /\ mode = "closing" /\ running = <<>>
    /\ mode' = "closed" /\ root' = <<>> /\ reached' = {}
    /\ UNCHANGED <<tmudata, finalized, gc, running, gcphase, called, batch, owed>>
close_state ==
    /\ mode = "closing" /\ running = <<>> /\ tmudata = <<>>
    /\ mode' = "closed" /\ root' = <<>> /\ reached' = {}
    /\ UNCHANGED <<tmudata, finalized, gc, running, gcphase, called, batch, owed>>

finNext ==
    \/ luaS_newudata \/ lua_setmetatable \/ Release \/ Collect \/ StepFinalize
    \/ EndFinalizer \/ lua_close \/ callallgcTM \/ close_state
finSpec == finInit /\ [][finNext]_finVars

-----------------------------------------------------------------------------
(* Properties.                                                             *)

\* The finalizers of the userdata that one cycle found dead, or that lua_close
\* took, are called in reverse order of their creation, also when an error or
\* another collection comes between the calls.
ReverseOrder ==
    LET s == called \o tmudata
    IN  \A m, n \in DOMAIN s : m < n /\ batch[s[m]] = batch[s[n]] => s[m] > s[n]

\* No userdata is finalized twice, whatever keeps it, and none of those that
\* still wait for it, or run it, is freed.
CalledOnce ==
    /\ IsInjective(called \o tmudata)
    /\ mode # "closed" => ToSet(running) \cup reached \subseteq ToSet(root) \cup ToSet(tmudata)

\* When the state is closed, every userdata that had a finalizer at the call of
\* lua_close was finalized, in spite of the errors of other finalizers.
ClosedFinalized == mode = "closed" => owed \subseteq ToSet(called)

\* GCTM calls the finalizers of one separation in reverse order of creation, no
\* userdata is finalized twice or freed while its finalizer is due or running,
\* and lua_close calls every one it owes, with errors and collections in
\* finalizers (luaC_separateudata, callallgcTM).
FinalizersRight == ReverseOrder /\ CalledOnce /\ ClosedFinalized
=============================================================================
