------------------------------ MODULE LuaCalls ------------------------------
(***************************************************************************)
(* The call stack of Lua 5.1.4: luaD_call and the interpreter's calls,     *)
(* protected calls, error handlers, hooks, finalizers, the parser's        *)
(* recursion, and coroutines (ldo.c, with the parts of lvm.c, ldebug.c,    *)
(* lapi.c, lgc.c, lparser.c and lbaselib.c that use it).                   *)
(*                                                                         *)
(* Lua keeps two stacks at once: the CallInfo array of each thread (`ci')  *)
(* and the C stack of the process, shared by all the threads that resumed  *)
(* one another.  `cstack' is the second: one activation for every C        *)
(* function of the core that is running.  A longjmp cuts it; the fields of *)
(* the threads must then be put back by hand, and that is what the         *)
(* properties are about.                                                   *)
(***************************************************************************)
EXTENDS Integers, Sequences, SequencesExt, FiniteSets, FiniteSetsExt

CONSTANTS
    Co,               \* coroutines that may exist
    LUAI_MAXCCALLS,   \* limit of nested C calls (luaconf.h)
    SpareCcalls,      \* LUAI_MAXCCALLS >> 3: room to handle a C stack overflow
    LUAI_MAXCALLS,    \* limit of the CallInfo array (luaconf.h)
    BASIC_CI_SIZE     \* its initial size (lstate.h)

ASSUME CallsAssumption ==
    /\ "main" \notin Co
    /\ LUAI_MAXCCALLS \in Nat \ {0} /\ SpareCcalls \in Nat \ {0}
    /\ LUAI_MAXCALLS \in Nat /\ BASIC_CI_SIZE \in 2 .. LUAI_MAXCALLS

VARIABLES
    cstack,     \* the C stack, newest activation last; empty: the process left
    ci,         \* thread -> its frames above base_ci, "Lua" or "C"
    size_ci,    \* thread -> size of its CallInfo array
    nCcalls, baseCcalls, allowhook, status, \* fields of lua_State
    errfunc,    \* thread -> the kind of its error handler
    openupval,  \* thread -> the levels of ci with open upvalues
    cotop,      \* coroutine -> are there values on its stack when not running?
    life        \* coroutine -> what really became of it (history)

frameVars == <<ci, size_ci, openupval>>
coVars == <<baseCcalls, status, cotop, life>>
callVars == <<cstack, frameVars, nCcalls, allowhook, errfunc, coVars>>

Thread == Co \cup {"main"}
Errors == {"errrun", "errsyntax", "errmem", "errerr"}
Handlers == {"none", "function", "other"}

-----------------------------------------------------------------------------
(* Activations: `k' the function of the core that runs, `th' its thread,   *)
(* `why' and `n' its arguments or locals, `old' the fields of the thread   *)
(* that a protected call or a finalizer's call has in its locals.          *)

Nothing == [nCcalls |-> 0, ci |-> 0, allowhook |-> TRUE, errfunc |-> "none"]
Saved(t) == [nCcalls |-> nCcalls[t], ci |-> Len(ci[t]),
             allowhook |-> allowhook[t], errfunc |-> errfunc[t]]
Act(k, t, why, n) == [k |-> k, th |-> t, why |-> why, n |-> n, old |-> Nothing]
Saving(a) == [a EXCEPT !.old = Saved(a.th)]

Top == Last(cstack)
L == Top.th
Running(kinds) == cstack # <<>> /\ Top.k \in kinds
Push(s) == cstack' = cstack \o s
Goto(s) == cstack' = Front(cstack) \o s   \* `s' in the place of the top
Return == Goto(<<>>)

Failing(t) == Act("runerror", t, "plain", 0)
Throwing(t, e) == Act("throw", t, e, 0)

-----------------------------------------------------------------------------
(* Calls and returns.                                                      *)

\* Plausible slips, for the mutation runs.
ForgetClose(t, level) == UNCHANGED openupval
NoOverflow(t) == FALSE

\* luaF_close: the upvalues of the frames from `level' up are closed.
luaF_close(t, level) ==
    openupval' = [openupval EXCEPT ![t] = {l \in @ : l < level}]

\* growCI: an overflow while handling overflow?
Overflown(t) == size_ci[t] > LUAI_MAXCALLS

\* luaD_call, up to luaD_precall: the activations it adds.
CallActs(a, f) ==
    LET n == nCcalls[a.th] + 1
    IN  <<a, IF n = LUAI_MAXCCALLS THEN Failing(a.th)
             ELSE IF n >= LUAI_MAXCCALLS + SpareCcalls
             THEN Throwing(a.th, "errerr")
             ELSE Act("enter", a.th, f, 0)>>

CountCall == nCcalls' = [nCcalls EXCEPT ![L] = @ + 1]

\* lua_call by C code (a C function, the host, a hook, the reader of a
\* parser), and a metamethod called by the interpreter.
lua_call(f) ==
    /\ Running({"C", "host", "hook", "parse", "exec"})
    /\ Push(CallActs(Act("call", L, "api", 0), f))
    /\ CountCall
    /\ UNCHANGED <<frameVars, allowhook, errfunc, coVars>>

\* OP_CALL and OP_TAILCALL call luaD_precall directly.
OpCall(op, f) ==
    /\ Running({"exec"})
    /\ Push(<<Act(op, L, f, 0)>>)
    /\ UNCHANGED <<frameVars, nCcalls, allowhook, errfunc, coVars>>

\* luaD_precall once there is a CallInfo for the callee `f': a C function
\* starts; a Lua function starts a luaV_execute, or goes on in the one of its
\* caller, in the caller's own frame if it is a tail call.
Enter(op, f) ==
    LET below == Front(cstack)
    IN  IF f = "Lua" /\ op = "tailcall"
        THEN /\ Return
             /\ luaF_close(L, Len(ci[L]))
             /\ UNCHANGED ci
        ELSE /\ ci' = [ci EXCEPT ![L] = Append(@, f)]
             /\ UNCHANGED openupval
             /\ IF f = "C" THEN Goto(<<Act("C", L, "plain", 0)>>)
                ELSE IF op = "enter" THEN Goto(<<Act("exec", L, "plain", 1)>>)
                ELSE cstack' = Append(Front(below), [Last(below) EXCEPT !.n = @ + 1])

luaD_precall ==
    /\ Running({"enter", "callop", "tailcall"})
    /\ LET full == Len(ci[L]) = size_ci[L] - 1      \* L->ci == L->end_ci
           over == Overflown(L)
           grown == 2 * size_ci[L]
       IN  /\ size_ci' = IF full /\ ~over THEN [size_ci EXCEPT ![L] = grown]
                                          ELSE size_ci
           /\ \/ /\ ~full \/ (~over /\ grown <= LUAI_MAXCALLS)
                 /\ Enter(Top.k, Top.why)
              \/ /\ full
                 /\ over \/ grown > LUAI_MAXCALLS
                 /\ Goto(<<IF over THEN Throwing(L, "errerr") ELSE Failing(L)>>)
                 /\ UNCHANGED <<ci, openupval>>
    /\ UNCHANGED <<nCcalls, allowhook, errfunc, coVars>>

\* OP_RETURN: luaF_close, luaD_poscall, and luaV_execute ends with its first
\* frame.
OpReturn ==
    /\ Running({"exec"})
    /\ luaF_close(L, Len(ci[L]))
    /\ ci' = [ci EXCEPT ![L] = Front(@)]
    /\ Goto(IF Top.n = 1 THEN <<>> ELSE <<[Top EXCEPT !.n = @ - 1]>>)
    /\ UNCHANGED <<size_ci, nCcalls, allowhook, errfunc, coVars>>

\* A C function returns to luaD_precall, which calls luaD_poscall.
CReturn ==
    /\ Running({"C"})
    /\ ci' = [ci EXCEPT ![L] = Front(@)]
    /\ Return
    /\ UNCHANGED <<size_ci, openupval, nCcalls, allowhook, errfunc, coVars>>

KeepCount(t) == UNCHANGED nCcalls
UncountCall(t) == nCcalls' = [nCcalls EXCEPT ![t] = @ - 1]

\* luaD_call ends; GCTM then restores the hooks.
CallReturns ==
    /\ Running({"call"})
    /\ Return
    /\ UncountCall(L)
    /\ allowhook' = IF Top.why = "gc"
                    THEN [allowhook EXCEPT ![L] = Top.old.allowhook]
                    ELSE allowhook
    /\ UNCHANGED <<frameVars, errfunc, coVars>>

\* OP_CLOSURE: luaF_findupval makes an upvalue of a local of this function.
FindUpval ==
    /\ Running({"exec"})
    /\ openupval' = [openupval EXCEPT ![L] = @ \cup {Len(ci[L])}]
    /\ UNCHANGED <<cstack, ci, size_ci, nCcalls, allowhook, errfunc, coVars>>

\* GCTM: a collector step of running code calls a finalizer.
GCTM(f) ==
    /\ Running({"C", "exec", "parse"})
    /\ Push(CallActs(Saving(Act("call", L, "gc", 0)), f))
    /\ CountCall
    /\ allowhook' = [allowhook EXCEPT ![L] = FALSE]
    /\ UNCHANGED <<frameVars, errfunc, coVars>>

\* luaD_callhook, for a call, a return or a new line.
luaD_callhook(event) ==
    /\ Running(IF event = "line" THEN {"exec"} ELSE {"exec", "C"})
    /\ allowhook[L]
    /\ Push(<<Act("hook", L, event, 0)>>)
    /\ allowhook' = [allowhook EXCEPT ![L] = FALSE]
    /\ UNCHANGED <<frameVars, nCcalls, errfunc, coVars>>

HookReturns ==
    /\ Running({"hook"})
    /\ Return
    /\ allowhook' = [allowhook EXCEPT ![L] = TRUE]
    /\ UNCHANGED <<frameVars, nCcalls, errfunc, coVars>>

-----------------------------------------------------------------------------
(* Protected calls and errors.                                             *)

\* lua_pcall, lua_cpcall: luaD_pcall of f_call or f_Ccall.
lua_pcall(h, f) ==
    /\ Running({"C", "host"})
    /\ Push(<<Saving(Act("pcall", L, h, 0))>>
            \o CallActs(Act("call", L, "api", 0), f))
    /\ CountCall
    /\ errfunc' = [errfunc EXCEPT ![L] = h]
    /\ UNCHANGED <<frameVars, allowhook, coVars>>

\* lua_load: luaD_pcall of f_parser, with the error handler in force.
luaD_protectedparser ==
    /\ Running({"C", "host"})
    /\ Push(<<Saving(Act("pcall", L, errfunc[L], 0)), Act("parse", L, "plain", 0)>>)
    /\ UNCHANGED <<frameVars, nCcalls, allowhook, errfunc, coVars>>

KeepHandler ==
    /\ Running({"pcall"})
    /\ Return
    /\ UNCHANGED <<frameVars, nCcalls, allowhook, errfunc, coVars>>

PcallReturns ==
    /\ Running({"pcall"})
    /\ Return
    /\ errfunc' = [errfunc EXCEPT ![L] = Top.old.errfunc]
    /\ UNCHANGED <<frameVars, nCcalls, allowhook, coVars>>

\* The parser counts its own recursion as C calls.
enterlevel ==
    /\ Running({"parse"})
    /\ CountCall
    /\ LET deeper == [Top EXCEPT !.n = @ + 1]
       IN  Goto(IF nCcalls[L] + 1 > LUAI_MAXCCALLS
                THEN <<deeper, Throwing(L, "errsyntax")>> ELSE <<deeper>>)
    /\ UNCHANGED <<frameVars, allowhook, errfunc, coVars>>

leavelevel ==
    /\ Running({"parse"}) /\ Top.n > 0
    /\ UncountCall(L)
    /\ Goto(<<[Top EXCEPT !.n = @ - 1]>>)
    /\ UNCHANGED <<frameVars, allowhook, errfunc, coVars>>

ParseEnds ==
    /\ Running({"parse"}) /\ Top.n = 0
    /\ Return
    /\ UNCHANGED <<frameVars, nCcalls, allowhook, errfunc, coVars>>

\* A failed allocation anywhere, or an error in the text being parsed.
Throw(e) ==
    /\ Running(IF e = "errsyntax" THEN {"parse"} ELSE {"C", "exec", "parse", "hook"})
    /\ Push(<<Throwing(L, e)>>)
    /\ UNCHANGED <<frameVars, nCcalls, allowhook, errfunc, coVars>>

\* lua_error and luaG_runerror.
lua_error ==
    /\ Running({"C", "exec", "hook"})
    /\ Push(<<Failing(L)>>)
    /\ UNCHANGED <<frameVars, nCcalls, allowhook, errfunc, coVars>>

\* luaG_errormsg calls the handler, still in force, before it throws.
luaG_errormsg(f) ==
    /\ Running({"runerror"})
    /\ Goto(CASE errfunc[L] = "none" -> <<Throwing(L, "errrun")>>
              [] errfunc[L] = "other" -> <<Throwing(L, "errerr")>>
              [] errfunc[L] = "function" ->
                   <<Throwing(L, "errrun")>>
                   \o CallActs(Act("call", L, "handler", 0), f))
    /\ IF errfunc[L] = "function" THEN CountCall ELSE UNCHANGED nCcalls
    /\ UNCHANGED <<frameVars, allowhook, errfunc, coVars>>

\* The newest setjmp: a luaD_rawrunprotected of luaD_pcall or lua_resume.
Catchers == {i \in DOMAIN cstack : cstack[i].k \in {"pcall", "resume"}}
CutTo(i) == cstack' = SubSeq(cstack, 1, i - 1)

LoseCount(t, old) == UNCHANGED nCcalls
LoseHooks(t, old) == UNCHANGED allowhook
RestoreCount(t, old) == nCcalls' = [nCcalls EXCEPT ![t] = old.nCcalls]
RestoreHooks(t, old) == allowhook' = [allowhook EXCEPT ![t] = old.allowhook]

\* luaD_pcall after a longjmp, restore_stack_limit included.
Caught(p) ==
    LET t == p.th
    IN  /\ RestoreCount(t, p.old)
        /\ ci' = [ci EXCEPT ![t] = SubSeq(@, 1, p.old.ci)]
        /\ RestoreHooks(t, p.old)
        /\ errfunc' = [errfunc EXCEPT ![t] = p.old.errfunc]
        /\ luaF_close(t, p.old.ci + 1)
        /\ size_ci' = [size_ci EXCEPT ![t] =
             IF @ > LUAI_MAXCALLS /\ p.old.ci + 1 < LUAI_MAXCALLS
             THEN LUAI_MAXCALLS ELSE @]
        /\ UNCHANGED coVars

KeepAlive(t, e) == UNCHANGED status
MarkDead(t, e) == status' = [status EXCEPT ![t] = e]

\* lua_resume after a longjmp: the coroutine is dead, its frames stay.
CoroutineDies(t, e) ==
    /\ MarkDead(t, e)
    /\ UncountCall(t)
    /\ life' = [life EXCEPT ![t] = "ended"]
    /\ UNCHANGED <<frameVars, allowhook, errfunc, baseCcalls, cotop>>

luaD_throw ==
    /\ Running({"throw"})
    /\ \/ /\ Catchers = {}            \* the panic function, then exit
          /\ cstack' = <<>>
          /\ UNCHANGED <<frameVars, nCcalls, allowhook, errfunc, coVars>>
       \/ /\ Catchers # {}
          /\ CutTo(Max(Catchers))
          /\ LET p == cstack[Max(Catchers)]
             IN  IF p.k = "pcall" THEN Caught(p) ELSE CoroutineDies(p.th, Top.why)

-----------------------------------------------------------------------------
(* Coroutines.                                                             *)

CO_RUN == "running"
CO_SUS == "suspended"
CO_NOR == "normal"
CO_DEAD == "dead"

costatus(co) ==
    CASE co = L -> CO_RUN
      [] co # L /\ status[co] = "yield" -> CO_SUS
      [] co # L /\ status[co] = "ok" ->
           IF ci[co] # <<>> THEN CO_NOR ELSE IF cotop[co] THEN CO_SUS ELSE CO_DEAD
      [] OTHER -> CO_DEAD

\* A dead coroutine's name may be given to a new one.
luaB_cocreate(co) ==
    /\ Running({"C", "host"})
    /\ life[co] = "ended" /\ co \notin {a.th : a \in Range(cstack)}
    /\ ci' = [ci EXCEPT ![co] = <<>>]
    /\ size_ci' = [size_ci EXCEPT ![co] = BASIC_CI_SIZE]
    /\ openupval' = [openupval EXCEPT ![co] = {}]
    /\ nCcalls' = [nCcalls EXCEPT ![co] = 0]
    /\ baseCcalls' = [baseCcalls EXCEPT ![co] = 0]
    /\ allowhook' = [allowhook EXCEPT ![co] = TRUE]
    /\ errfunc' = [errfunc EXCEPT ![co] = "none"]
    /\ status' = [status EXCEPT ![co] = "ok"]
    /\ cotop' = [cotop EXCEPT ![co] = TRUE]
    /\ life' = [life EXCEPT ![co] = "fresh"]
    /\ UNCHANGED cstack

KeepYieldFrame(fs) == fs

\* resume: a common yield left the frame of luaB_yield; luaD_poscall ends it.
Continued(fs) == IF fs # <<>> /\ Last(fs) = "C" THEN Front(fs) ELSE fs

\* auxresume, lua_setlevel and lua_resume up to the run of the coroutine.
lua_resume(co) ==
    /\ Running({"C", "host"})
    /\ costatus(co) = CO_SUS
    /\ nCcalls[L] < LUAI_MAXCCALLS
    /\ nCcalls' = [nCcalls EXCEPT ![co] = nCcalls[L] + 1]
    /\ baseCcalls' = [baseCcalls EXCEPT ![co] = nCcalls[L] + 1]
    /\ status' = [status EXCEPT ![co] = "ok"]
    /\ life' = [life EXCEPT ![co] = "started"]
    /\ cotop' = [cotop EXCEPT ![co] = FALSE]
    /\ LET rest == Continued(ci[co])
       IN  /\ ci' = [ci EXCEPT ![co] = rest]
           /\ Push(<<Act("resume", co, "plain", 0),
                     IF status[co] = "ok" THEN Act("enter", co, "Lua", 0)
                                          ELSE Act("exec", co, "plain", Len(rest))>>)
    /\ UNCHANGED <<size_ci, openupval, allowhook, errfunc>>

\* resume_error: its message overwrites the function of a new coroutine.
resume_error(co) ==
    /\ Running({"C", "host"})
    /\ costatus(co) = CO_SUS
    /\ nCcalls[L] >= LUAI_MAXCCALLS
    /\ nCcalls' = [nCcalls EXCEPT ![co] = nCcalls[L]]
    /\ cotop' = [cotop EXCEPT ![co] = FALSE]
    /\ life' = [life EXCEPT ![co] = IF status[co] = "ok" THEN "ended" ELSE @]
    /\ UNCHANGED <<cstack, frameVars, baseCcalls, status, allowhook, errfunc>>

InCoroutine == L # "main"
MayYield == nCcalls[L] <= baseCcalls[L]

\* lua_yield called by a C function, or by a hook for a new line.
lua_yield ==
    /\ Running({"C", "hook"})
    /\ Top.k = "hook" => Top.why = "line"
    /\ \/ /\ ~MayYield
          /\ Push(<<Failing(L)>>)
          /\ UNCHANGED <<frameVars, nCcalls, allowhook, errfunc, coVars>>
       \/ /\ MayYield
          /\ CutTo(Max(Catchers))     \* everything returns to lua_resume
          /\ status' = [status EXCEPT ![L] = "yield"]
          /\ UncountCall(L)
          /\ allowhook' = IF Top.k = "hook" THEN [allowhook EXCEPT ![L] = TRUE]
                          ELSE allowhook
          /\ life' = [life EXCEPT ![L] = "yielded"]
          /\ UNCHANGED <<frameVars, errfunc, baseCcalls, cotop>>

\* The body returns to lua_resume; auxresume moves the results to the thread
\* that called resume, unless there are too many.
CoroutineEnds(fits) ==
    /\ Running({"resume"})
    /\ Goto(IF fits THEN <<>> ELSE <<Failing(Last(Front(cstack)).th)>>)
    /\ UncountCall(L)
    /\ cotop' = [cotop EXCEPT ![L] = ~fits]
    /\ life' = [life EXCEPT ![L] = "ended"]
    /\ UNCHANGED <<frameVars, allowhook, errfunc, baseCcalls, status>>

\* The process has left: nothing more happens.
Exited ==
    /\ cstack = <<>>
    /\ UNCHANGED callVars

-----------------------------------------------------------------------------
Init ==
    /\ cstack = <<Act("host", "main", "plain", 0)>>
    /\ ci = [t \in Thread |-> <<>>]
    /\ size_ci = [t \in Thread |-> BASIC_CI_SIZE]
    /\ nCcalls = [t \in Thread |-> 0]
    /\ baseCcalls = [t \in Thread |-> 0]
    /\ allowhook = [t \in Thread |-> TRUE]
    /\ status = [t \in Thread |-> "ok"]
    /\ errfunc = [t \in Thread |-> "none"]
    /\ openupval = [t \in Thread |-> {}]
    /\ cotop = [t \in Thread |-> FALSE]
    /\ life = [t \in Thread |-> IF t \in Co THEN "ended" ELSE "started"]

Function == {"Lua", "C"}

Calls ==
    \/ \E f \in Function : lua_call(f) \/ OpCall("callop", f)
    \/ luaD_precall \/ OpReturn \/ CReturn \/ CallReturns

TailCalls == \E f \in Function : OpCall("tailcall", f)

Upvalues == FindUpval

Finalizers == \E f \in Function : GCTM(f)

Hooks == (\E event \in {"line", "call"} : luaD_callhook(event)) \/ HookReturns

ErrorsAndCatches ==
    \/ lua_error \/ luaD_throw
    \/ \E f \in Function : luaG_errormsg(f)
    \/ PcallReturns

Protected == \E f \in Function : lua_pcall("none", f)

ErrorHandlers == \E f \in Function, h \in Handlers \ {"none"} : lua_pcall(h, f)

Memory == Throw("errmem")

Parser ==
    \/ luaD_protectedparser \/ enterlevel \/ leavelevel \/ ParseEnds
    \/ Throw("errsyntax")

Coroutines(C) ==
    \/ \E co \in C : luaB_cocreate(co) \/ lua_resume(co) \/ resume_error(co)
    \/ lua_yield
    \/ \E fits \in BOOLEAN : CoroutineEnds(fits)

Next ==
    \/ Calls \/ TailCalls \/ Upvalues \/ Finalizers \/ Hooks
    \/ ErrorsAndCatches \/ Protected \/ ErrorHandlers \/ Memory \/ Parser
    \/ Coroutines(Co)
    \/ Exited

Spec == Init /\ [][Next]_callVars

-----------------------------------------------------------------------------
(* Properties.                                                             *)

Kinds == {"host", "exec", "C", "call", "pcall", "resume", "hook", "parse",
          "enter", "callop", "tailcall", "runerror", "throw"}

Whys == {"plain", "api", "gc", "handler", "line", "call"} \cup Function \cup Handlers \cup Errors
Locals == [nCcalls : Nat, ci : Nat, allowhook : BOOLEAN, errfunc : Handlers]
Activation == [k : Kinds, th : Thread, why : Whys, n : Nat, old : Locals]

\* The fields of every thread, and every activation, have their types; a
\* frame always has its CallInfo, and the array never grows past twice its
\* limit (growCI).
TypeOK ==
    /\ cstack \in Seq(Activation)
    /\ ci \in [Thread -> Seq(Function)]
    /\ size_ci \in [Thread -> 2 .. 2 * LUAI_MAXCALLS]
    /\ nCcalls \in [Thread -> Nat] /\ baseCcalls \in [Thread -> Nat]
    /\ allowhook \in [Thread -> BOOLEAN] /\ cotop \in [Thread -> BOOLEAN]
    /\ status \in [Thread -> {"ok", "yield"} \cup Errors]
    /\ errfunc \in [Thread -> Handlers]
    /\ openupval \in [Thread -> SUBSET Nat]
    /\ life \in [Thread -> {"fresh", "started", "yielded", "ended"}]
    /\ \A t \in Thread : Len(ci[t]) < size_ci[t]

OnStack == {cstack[i].th : i \in DOMAIN cstack}
LastOf(t) == Max({i \in DOMAIN cstack : cstack[i].th = t})

\* f[1] + ... + f[n]
Total(f, n) == Cardinality(UNION {{j} \X (1 .. f[j]) : j \in 1 .. n})

\* How many frames an activation stands for, of which kind, and how many of
\* thread t those up to the n-th of `s' stand for.
FramesIn(a) == IF a.k = "exec" THEN a.n ELSE IF a.k = "C" THEN 1 ELSE 0
FrameOf(a) == IF a.k = "exec" THEN "Lua" ELSE "C"
Level(s, t, n) ==
    Total([j \in DOMAIN s |-> IF s[j].th = t THEN FramesIn(s[j]) ELSE 0], n)

\* The frames fs are those that the first n activations of `s' stand for.
FramesRight(s, t, n, fs) ==
    /\ Len(fs) = Level(s, t, n)
    /\ \A j \in 1 .. n : s[j].th = t =>
         \A x \in 1 .. FramesIn(s[j]) : fs[Level(s, t, j - 1) + x] = FrameOf(s[j])

\* The two stacks agree: the CallInfo frames of a running thread are exactly
\* the Lua functions that its luaV_execute activations run (`nexeccalls') and
\* its C functions, in that order, whatever errors, tail calls and yields came
\* before; a suspended one has Lua frames and at most its yield on top.
FramesMatch ==
    \A t \in Thread :
        /\ t \in OnStack => FramesRight(cstack, t, Len(cstack), ci[t])
        /\ life[t] = "yielded" =>
             /\ Len(ci[t]) > 0 /\ ci[t][1] = "Lua"
             /\ \A l \in 1 .. Len(ci[t]) - 1 : ci[t][l] = "Lua"

DepthOf(a) ==
    IF a.k \in {"call", "resume"} THEN 1 ELSE IF a.k = "parse" THEN a.n ELSE 0
Depth(s, n) == Total([j \in DOMAIN s |-> DepthOf(s[j])], n)

\* nCcalls is the true depth of the C stack, counted across all the coroutines
\* that resumed one another and the recursion of the parser: no error, yield or
\* resume leaves it too high or too low, and it never passes the spare room.
CDepth ==
    \A t \in OnStack :
        /\ nCcalls[t] = Depth(cstack, LastOf(t))
        /\ nCcalls[t] <= LUAI_MAXCCALLS + SpareCcalls

\* Hooks are off exactly while a hook or a finalizer of that thread is active.
HooksMatch ==
    \A t \in Thread : t \in OnStack \/ life[t] = "yielded" =>
        allowhook[t] = ~ \E i \in DOMAIN cstack :
            /\ cstack[i].th = t
            /\ cstack[i].k = "hook" \/ cstack[i].why = "gc"

\* The error handler in force is that of the innermost protected call of the
\* thread, and a coroutine that is not running has none (lua_resume asserts it).
HandlerRight ==
    \A t \in Thread : t \in OnStack \/ life[t] \in {"fresh", "yielded"} =>
        LET ps == {i \in DOMAIN cstack : cstack[i].k = "pcall" /\ cstack[i].th = t}
        IN  errfunc[t] = IF ps = {} THEN "none" ELSE cstack[Max(ps)].why

\* An open upvalue always belongs to a Lua function that is still active.
OpenUpvalsLive ==
    \A t \in Thread : t \in OnStack \/ life[t] = "yielded" =>
        \A l \in openupval[t] : l \in 1 .. Len(ci[t]) /\ ci[t][l] = "Lua"

\* The fields that luaD_pcall, luaD_callhook and GCTM save in C locals and that a
\* longjmp past them leaves as they are, allowhook, errfunc and openupval, agree
\* with the activations that are left.
FieldsMatch == HooksMatch /\ HandlerRight /\ OpenUpvalsLive

Truth(t) == CASE t = L -> CO_RUN
              [] t # L /\ t \in OnStack -> CO_NOR
              [] t \notin OnStack ->
                   IF life[t] \in {"fresh", "yielded"} THEN CO_SUS ELSE CO_DEAD

\* costatus, which looks only at the fields of the coroutine, says what became
\* of it, unless its results did not fit in the stack of the one who resumed it.
StatusRight ==
    cstack # <<>> => \A t \in Co :
        costatus(t) = Truth(t) \/ (life[t] = "ended" /\ cotop[t])

\* However a protected call ends, its thread is as it was when it began.
PcallRestores ==
    [][\A i \in DOMAIN cstack :
         cstack[i].k = "pcall" /\ i = Len(cstack') + 1 =>
           LET t == cstack[i].th  old == cstack[i].old
           IN  /\ nCcalls'[t] = old.nCcalls /\ Len(ci'[t]) = old.ci
               /\ allowhook'[t] = old.allowhook /\ errfunc'[t] = old.errfunc
               /\ \A l \in openupval'[t] : l <= old.ci]_callVars

\* A yield that lua_yield accepts abandons no C activation but the yielding
\* function and the interpreter loop of its coroutine.
YieldClean ==
    [][\A t \in Co : status[t] # "yield" /\ status'[t] = "yield" =>
         LET dropped == SubSeq(cstack, Len(cstack') + 1, Len(cstack))
         IN  /\ Len(dropped) = 3
             /\ dropped[1].k = "resume" /\ dropped[2].k = "exec"
             /\ \A i \in 1 .. 3 : dropped[i].th = t]_callVars
=============================================================================
