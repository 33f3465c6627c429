-------------------------------- MODULE LuaVM -------------------------------
(***************************************************************************)
(* The virtual machine of Lua 5.1.4: luaV_execute (lvm.c), one action per  *)
(* kind of instruction, with the calls (ldo.c), upvalues (lfunc.c) and the *)
(* reallocation of the stack it relies on.                                 *)
(*                                                                         *)
(* The stack is a block of memory that moves when it is reallocated: a     *)
(* pointer into it (top, base, the fields of a CallInfo, open upvalues) is *)
(* an address, and an address outside the current block reads Junk.  L is  *)
(* the lua_State with the objects of the heap; base and pc are the C       *)
(* locals of luaV_execute.  C functions are the environment (CFunction).   *)
(***************************************************************************)
EXTENDS LuaValues, LuaFold, SequencesExt, FiniteSetsExt, TLC

CONSTANTS
    BASIC_STACK_SIZE,   \* initial size of the stack
    LUA_MINSTACK,       \* room a C function gets
    EXTRA_STACK         \* slots beyond the limit

VARIABLES
    prog,   \* the prototype of the main function
    args,   \* the arguments it is called with
    hard,   \* built with condhardstacktests: every check moves the stack
    L, base, pc,
    mode    \* "run", "done" or "error"

vars == <<prog, args, hard, L, base, pc, mode>>

Junk == Value("junk", 0)
BLOCK == 1000               \* the distance between two blocks

-----------------------------------------------------------------------------
(* The stack.                                                              *)

StackOf(b) == BLOCK * (b + 1)
Get(S, p) == IF p \in DOMAIN S.mem THEN S.mem[p] ELSE Junk
Set(S, p, v) == IF p \in DOMAIN S.mem THEN [S EXCEPT !.mem[p] = v] ELSE S
\* The values vs from address p on.
SetAll(S, p, vs) ==
    [S EXCEPT !.mem = [a \in DOMAIN @ |-> IF a - p + 1 \in DOMAIN vs
                                          THEN vs[a - p + 1] ELSE @[a]]]
Slots(S, from, to) == [j \in 1 .. to - from |-> Get(S, from + j - 1)]
Nils(n) == [j \in 1 .. n |-> Nil]
ci(S) == Last(S.ci)
stack_last(S) == StackOf(S.block) + S.stacksize - EXTRA_STACK - 1

correctstack_noupvals(S, oldstack, stack) ==
    LET Move(p) == (p - oldstack) + stack
    IN  [S EXCEPT !.top = Move(@), !.base = Move(@),
           !.ci = [j \in DOMAIN @ |->
                     [@[j] EXCEPT !.top = Move(@), !.base = Move(@), !.func = Move(@)]]]

correctstack(S, oldstack, stack) ==
    LET Move(p) == (p - oldstack) + stack
    IN  [S EXCEPT !.top = Move(@), !.base = Move(@),
           !.ci = [j \in DOMAIN @ |->
                     [@[j] EXCEPT !.top = Move(@), !.base = Move(@), !.func = Move(@)]],
           !.upvals = [j \in DOMAIN @ |->
                         IF @[j].open THEN [@[j] EXCEPT !.v = Move(@)] ELSE @[j]]]

luaD_reallocstack(S, newsize) ==
    LET realsize == newsize + 1 + EXTRA_STACK
        old == StackOf(S.block)
        new == StackOf(1 - S.block)
        moved == [S EXCEPT !.block = 1 - @, !.stacksize = realsize,
                   !.mem = [a \in new .. new + realsize - 1 |-> Get(S, a - new + old)]]
    IN  correctstack(moved, old, new)

luaD_growstack(S, n) ==
    luaD_reallocstack(S, IF n <= S.stacksize THEN 2 * S.stacksize ELSE S.stacksize + n)

luaD_checkstack(S, n) ==
    IF stack_last(S) - S.top <= n THEN luaD_growstack(S, n)
    ELSE IF hard THEN luaD_reallocstack(S, S.stacksize - EXTRA_STACK - 1)
    ELSE S

\* When the collector traverses the thread (lgc.c: lim is the highest top).
checkstacksizes(S) ==
    LET lim == Max({S.top} \cup {S.ci[j].top : j \in DOMAIN S.ci})
        s_used == lim - StackOf(S.block)
        shrinks == /\ 4 * s_used < S.stacksize
                   /\ 2 * (BASIC_STACK_SIZE + EXTRA_STACK) < S.stacksize
    IN  IF hard THEN luaD_reallocstack(S, s_used)
        ELSE IF shrinks THEN luaD_reallocstack(S, S.stacksize \div 2)
        ELSE S

\* What luaC_checkGC may do to the stack of the running thread.
CheckGC(S) == UNION {{G, checkstacksizes(G)} : G \in {S}}

-----------------------------------------------------------------------------
(* Upvalues.                                                               *)

luaF_findupval(S, level) ==
    LET at == {u \in DOMAIN S.upvals : S.upvals[u].open /\ S.upvals[u].v = level}
    IN  IF at # {} THEN [S |-> S, u |-> Min(at)]
        ELSE [S |-> [S EXCEPT !.upvals = Append(@, [open |-> TRUE, v |-> level])],
              u |-> Len(S.upvals) + 1]

luaF_close(S, level) ==
    [S EXCEPT !.upvals = [u \in DOMAIN @ |->
        IF @[u].open /\ @[u].v >= level THEN [open |-> FALSE, v |-> Get(S, @[u].v)]
        ELSE @[u]]]

UpValue(S, u) == IF S.upvals[u].open THEN Get(S, S.upvals[u].v) ELSE S.upvals[u].v

SetUpValue(S, u, x) ==
    IF S.upvals[u].open THEN Set(S, S.upvals[u].v, x) ELSE [S EXCEPT !.upvals[u].v = x]

-----------------------------------------------------------------------------
(* Tables, as maps from keys to values that are not nil.                   *)

luaH_get(t, key) == IF key \in DOMAIN t THEN t[key] ELSE Nil
luaH_set(t, key, x) ==
    IF x = Nil THEN [y \in DOMAIN t \ {key} |-> t[y]] ELSE (key :> x) @@ t
luaH_getn(t) == CHOOSE n \in 0 .. Cardinality(DOMAIN t) :
                    Num(n + 1) \notin DOMAIN t /\ \A j \in 1 .. n : Num(j) \in DOMAIN t
NewTable(S, t) == [S EXCEPT !.tables = Append(@, t)]
EmptyTable == <<>>

-----------------------------------------------------------------------------
(* Calls.                                                                  *)

\* The results of the C function called f, given its arguments and how many
\* calls to "more" there were: "more" is true twice, "iter" counts up to its
\* first argument, "log" returns its arguments.
CFunction(f, as, n) ==
    CASE f = "log" -> as
      [] f = "more" -> <<Bool(n < 2)>>
      [] f = "iter" -> <<IF as[2][2] < as[1][2] THEN Num(as[2][2] + 1) ELSE Nil>>

\* The extra arguments stay below the fixed ones, which move above them; an
\* old function gets the extra ones in the table `arg', for which the collector
\* may run: the results are the states it may leave.
PadArgs(S, n) == [SetAll(S, S.top, Nils(n)) EXCEPT !.top = @ + Max({n, 0})]
MoveFixed(S, n, fixed) ==
    [SetAll(SetAll(S, S.top, Slots(S, fixed, fixed + n)), fixed, Nils(n))
       EXCEPT !.top = @ + n]
ArgTable(extra) ==
    luaH_set([y \in {Num(j) : j \in {x \in DOMAIN extra : extra[x] # Nil}} |-> extra[y[2]]],
             Str("n"), Num(Len(extra)))
AddArg(S, extra) ==
    NewTable([Set(S, S.top, Value("table", Len(S.tables) + 1)) EXCEPT !.top = @ + 1],
             ArgTable(extra))
MoveArgs(S, p, actual) ==
    IF "NEEDSARG" \notin p.is_vararg THEN MoveFixed(S, p.numparams, S.top - actual)
    ELSE AddArg(MoveFixed(S, p.numparams, S.top - actual),
                Slots(S, S.top - actual + p.numparams, S.top))
MayCollect(S, p) == IF "NEEDSARG" \in p.is_vararg THEN CheckGC(S) ELSE {S}
adjust_varargs(S, p, nargs) ==
    {[S |-> MoveArgs(G, p, Max({nargs, p.numparams})), base |-> G.top] :
       G \in MayCollect(PadArgs(S, p.numparams - nargs), p)}

\* The results of the current function go where its caller wants them.
MoveResults(S, f, res, n) ==
    [SetAll(S, f.func, SubSeq(res, 1, Min({n, Len(res)})) \o Nils(n - Len(res)))
       EXCEPT !.top = f.func + n]
LeaveFrame(S, prev) ==
    [S EXCEPT !.ci = Front(@), !.base = prev.base, !.savedpc = prev.savedpc]
luaD_poscall(S, firstResult) ==
    LET wanted == ci(S).nresults
    IN  LeaveFrame(MoveResults(S, ci(S), Slots(S, firstResult, S.top),
                               IF wanted = LUA_MULTRET THEN S.top - firstResult
                               ELSE wanted),
                   S.ci[Len(S.ci) - 1])

IsFunction(v) == v[1] \in {"function", "cfunction"}

EnterFrame(S, fn, b, citop, nresults, nested) ==
    [S EXCEPT !.ci = Append(@, [func |-> fn, base |-> b, top |-> citop, savedpc |-> 0,
                                nresults |-> nresults, nested |-> nested])]

\* A Lua function: its frame, whose other registers are nil.  off is the
\* place of the function in the stack (savestack).
restorestack(S, off) == StackOf(S.block) + off
EnterLua(S, p, fn, b, nresults, nested) ==
    [EnterFrame(SetAll(S, S.top, Nils(b + p.maxstacksize - S.top)), fn, b,
                b + p.maxstacksize, nresults, nested)
       EXCEPT !.base = b, !.top = b + p.maxstacksize, !.savedpc = 0]
PrecallLua(S, p, off, nresults, nested) ==
    IF p.is_vararg = {}
    THEN {EnterLua([S EXCEPT !.top = Min({@, restorestack(S, off) + 1 + p.numparams})],
                   p, restorestack(S, off), restorestack(S, off) + 1, nresults, nested)}
    ELSE {EnterLua(A.S, p, restorestack(A.S, off), A.base, nresults, nested) :
            A \in adjust_varargs(S, p, S.top - restorestack(S, off) - 1)}

\* A C function runs at once and pushes its results.
RunC(S, f, as) ==
    [SetAll(S, S.top, CFunction(f, as, S.more))
       EXCEPT !.top = @ + Len(CFunction(f, as, S.more)),
              !.log = IF f = "log" THEN Append(@, as) ELSE @,
              !.more = IF f = "more" THEN @ + 1 ELSE @]
PrecallC(S, f, fn, nresults, nested) ==
    luaD_poscall(RunC(EnterFrame(S, fn, fn + 1, S.top + LUA_MINSTACK, nresults, nested),
                      f, Slots(S, fn + 1, S.top)),
                 S.top)

\* nested: called by luaD_call, which starts luaV_execute again.
Precall(S, C, p, v, off, nresults, nested) ==
    IF v[1] = "function" THEN PrecallLua(S, p, off, nresults, nested)
    ELSE {PrecallC(C, v[2], restorestack(C, off), nresults, nested)}
SaveCaller(S) == [S EXCEPT !.ci[Len(S.ci)].savedpc = S.savedpc]
luaD_precall(S, func, nresults, nested) ==
    LET v == Get(S, func)
        p == S.closures[v[2]].p
    IN  Precall(luaD_checkstack(SaveCaller(S), p.maxstacksize),
                luaD_checkstack(SaveCaller(S), LUA_MINSTACK),
                p, v, func - StackOf(S.block), nresults, nested)

-----------------------------------------------------------------------------
(* The interpreter.                                                        *)

cl == L.closures[Get(L, ci(L).func)[2]]
i == cl.p.code[pc + 1]
ra == base + i.a
RB == Get(L, base + i.b)
K(n) == cl.p.k[n + 1]
RK(x) == IF ISK(x) THEN K(x - BITRK) ELSE Get(L, base + x)

Op(op) == mode = "run" /\ i.op = op
Goto(S, p) == L' = S /\ pc' = p /\ UNCHANGED <<prog, args, hard, base, mode>>
Continue(S) == Goto(S, pc + 1)
\* Protect: base is read again, since the stack may have moved.
Protect(S, p) ==
    /\ L' = S /\ base' = L'.base /\ pc' = p
    /\ UNCHANGED <<prog, args, hard, mode>>
\* An error that nothing catches ends the program.
RunError == mode' = "error" /\ UNCHANGED <<prog, args, hard, L, base, pc>>

Move == Op("MOVE") /\ Continue(Set(L, ra, RB))
LoadK == Op("LOADK") /\ Continue(Set(L, ra, K(i.b)))
LoadBool == Op("LOADBOOL") /\ Goto(Set(L, ra, Bool(i.b = 1)), pc + 1 + i.c)
LoadNil == Op("LOADNIL") /\ Continue(SetAll(L, ra, Nils(i.b - i.a + 1)))
GetUpval == Op("GETUPVAL") /\ Continue(Set(L, ra, UpValue(L, cl.upvals[i.b + 1])))
SetUpval ==
    Op("SETUPVAL") /\ Continue(SetUpValue(L, cl.upvals[i.b + 1], Get(L, ra)))
GetGlobal ==
    Op("GETGLOBAL") /\ Protect(Set(L, ra, luaH_get(L.globals, K(i.b))), pc + 1)
SetGlobal ==
    /\ Op("SETGLOBAL")
    /\ Protect([L EXCEPT !.globals = luaH_set(@, K(i.b), Get(L, ra))], pc + 1)

\* luaV_gettable and luaV_settable of values without metatables.
GetTable ==
    /\ Op("GETTABLE")
    /\ IF RB[1] # "table" THEN RunError
       ELSE Protect(Set(L, ra, luaH_get(L.tables[RB[2]], RK(i.c))), pc + 1)
SetTable ==
    LET t == Get(L, ra)
    IN  /\ Op("SETTABLE")
        /\ IF t[1] # "table" \/ RK(i.b) = Nil THEN RunError
           ELSE Protect([L EXCEPT !.tables[t[2]] = luaH_set(@, RK(i.b), RK(i.c))],
                        pc + 1)
Self ==
    LET S == Set(L, ra + 1, RB)
    IN  /\ Op("SELF")
        /\ IF RB[1] # "table" THEN RunError
           ELSE Protect(Set(S, ra, luaH_get(S.tables[RB[2]], RK(i.c))), pc + 1)
OpNewTable ==
    /\ Op("NEWTABLE")
    /\ \E S \in CheckGC(NewTable(Set(L, ra, Value("table", Len(L.tables) + 1)),
                                 EmptyTable)) : Protect(S, pc + 1)

\* Add, Sub, Mul and Unm.
ArithOp ==
    /\ mode = "run" /\ i.op \in {"ADD", "SUB", "MUL", "UNM"}
    /\ LET x == RK(i.b)
           y == IF i.op = "UNM" THEN x ELSE RK(i.c)
       IN  IF x[1] = "number" /\ y[1] = "number"
           THEN Continue(Set(L, ra, Num(Arith(i.op, x[2], y[2]))))
           ELSE RunError
Not == Op("NOT") /\ Continue(Set(L, ra, Bool(IsFalse(RB))))
LenOp ==
    /\ Op("LEN")
    /\ IF RB[1] = "table" THEN Continue(Set(L, ra, Num(luaH_getn(L.tables[RB[2]]))))
       ELSE IF RB[1] = "string" THEN Continue(Set(L, ra, Num(Len(RB[2]))))
       ELSE RunError

\* Strings and numbers can be joined (tostring).
Joinable(v) == v[1] \in {"string", "number"}
tostring(v) == IF v[1] = "number" THEN ToString(v[2]) ELSE v[2]
luaV_concat(vs) == Str(FoldRight(LAMBDA v, s : tostring(v) \o s, vs, ""))
Concat ==
    LET vs == Slots(L, base + i.b, base + i.c + 1)
    IN  /\ Op("CONCAT")
        /\ IF \E j \in DOMAIN vs : ~Joinable(vs[j]) THEN RunError
           ELSE \E S \in CheckGC(Set(L, base + i.b, luaV_concat(vs))) :
                  Protect(Set(S, S.base + i.a, Get(S, S.base + i.b)), pc + 1)

Jmp == Op("JMP") /\ Goto(L, i.b)
\* A test that holds takes the jump that follows it.
Test(S, holds) == Goto(S, IF holds THEN cl.p.code[pc + 2].b ELSE pc + 2)
One(b) == IF b THEN 1 ELSE 0
Eq == Op("EQ") /\ Test(L, One(RK(i.b) = RK(i.c)) = i.a)
Compare ==
    LET x == RK(i.b)
        y == RK(i.c)
        holds == IF i.op = "LT" THEN x[2] < y[2] ELSE x[2] <= y[2]
    IN  /\ mode = "run" /\ i.op \in {"LT", "LE"}
        /\ IF x[1] = "number" /\ y[1] = "number" THEN Test(L, One(holds) = i.a)
           ELSE RunError
TestOp == Op("TEST") /\ Test(L, One(IsFalse(Get(L, ra))) # i.c)
TestSet ==
    LET holds == One(IsFalse(RB)) # i.c
    IN  Op("TESTSET") /\ Test(IF holds THEN Set(L, ra, RB) ELSE L, holds)

\* OP_CALL and OP_TAILCALL set top, unless the previous instruction did.
Args == [L EXCEPT !.top = IF i.b # 0 THEN ra + i.b ELSE @, !.savedpc = pc + 1]
Call ==
    /\ Op("CALL")
    /\ \/ ~IsFunction(Get(L, ra)) /\ RunError
       \/ /\ IsFunction(Get(L, ra))
          /\ \E S \in luaD_precall(Args, ra, i.c - 1, FALSE) :
               IF Get(L, ra)[1] = "function" THEN Protect(S, 0)
               ELSE Protect(IF i.c > 0 THEN [S EXCEPT !.top = ci(S).top] ELSE S, pc + 1)

\* The new frame replaces the one of the caller.
MoveDown(S, old, new) ==
    LET nbase == old.func + (new.base - new.func)
        ntop == old.func + (S.top - new.func)
    IN  [SetAll(S, old.func, Slots(S, new.func, S.top))
           EXCEPT !.top = ntop, !.base = nbase,
                  !.ci = Append(Front(Front(@)),
                                [old EXCEPT !.base = nbase, !.savedpc = 0, !.top = ntop])]
TailCall ==
    /\ Op("TAILCALL")
    /\ \/ ~IsFunction(Get(L, ra)) /\ RunError
       \/ /\ IsFunction(Get(L, ra))
          /\ \E S \in luaD_precall(Args, ra, LUA_MULTRET, FALSE) :
               LET old == S.ci[Len(S.ci) - 1]
               IN  IF Get(L, ra)[1] = "function"
                   THEN Protect(MoveDown(luaF_close(S, old.base), old, ci(S)), 0)
                   ELSE Protect(S, pc + 1)

\* The end of OP_TFORLOOP, after the call of the iterator.
EndTFor(S, cb, code, p) ==
    IF Get(S, cb) # Nil THEN Protect(Set(S, cb - 1, Get(S, cb)), code[p + 1].b)
    ELSE Protect(S, p + 1)
FrameTop(S) == [S EXCEPT !.top = ci(S).top]

Results ==
    luaF_close([L EXCEPT !.top = IF i.b # 0 THEN ra + i.b - 1 ELSE @,
                         !.savedpc = pc + 1], base)
Return_keeptop ==
    /\ Op("RETURN") /\ Len(L.ci) > 2 /\ ~ci(L).nested
    /\ \E S \in {luaD_poscall(Results, ra)} : Protect(S, S.savedpc)
Return ==
    /\ Op("RETURN") /\ Len(L.ci) > 2 /\ ~ci(L).nested
    /\ \E S \in {luaD_poscall(Results, ra)} :
         Protect(IF ci(L).nresults # LUA_MULTRET THEN FrameTop(S) ELSE S, S.savedpc)
ReturnIterator ==
    /\ Op("RETURN") /\ ci(L).nested
    /\ \E S \in CheckGC(luaD_poscall(Results, ra)) :
         LET code == S.closures[Get(S, ci(S).func)[2]].p.code
         IN  EndTFor(FrameTop(S), S.base + code[S.savedpc].a + 3, code, S.savedpc)
ReturnMain ==
    /\ Op("RETURN") /\ Len(L.ci) = 2
    /\ L' = luaD_poscall(Results, ra) /\ mode' = "done"
    /\ UNCHANGED <<prog, args, hard, base, pc>>

ForLoop_stuck ==
    LET idx == Get(L, ra)[2] + Get(L, ra + 2)[2]
    IN  /\ Op("FORLOOP")
        /\ IF idx <= Get(L, ra + 1)[2] THEN Goto(Set(L, ra + 3, Num(idx)), i.b)
           ELSE Continue(L)
ForLoop ==
    LET step == Get(L, ra + 2)[2]
        idx == Get(L, ra)[2] + step
        limit == Get(L, ra + 1)[2]
    IN  /\ Op("FORLOOP")
        /\ IF (IF 0 < step THEN idx <= limit ELSE limit <= idx)
           THEN Goto(Set(Set(L, ra, Num(idx)), ra + 3, Num(idx)), i.b)
           ELSE Continue(L)
ForPrep ==
    /\ Op("FORPREP")
    /\ IF \E j \in 0 .. 2 : Get(L, ra + j)[1] # "number" THEN RunError
       ELSE Goto(Set(L, ra, Num(Get(L, ra)[2] - Get(L, ra + 2)[2])), i.b)
TForLoop ==
    LET cb == ra + 3
        S == [SetAll(L, cb, Slots(L, ra, cb)) EXCEPT !.top = cb + 3, !.savedpc = pc + 1]
    IN  /\ Op("TFORLOOP")
        /\ \/ ~IsFunction(Get(L, ra)) /\ RunError
           \/ /\ Get(L, ra)[1] = "function"
              /\ \E G \in luaD_precall(S, cb, i.c, TRUE) : Protect(G, 0)
           \/ /\ Get(L, ra)[1] = "cfunction"
              /\ \E G \in UNION {CheckGC(F) : F \in luaD_precall(S, cb, i.c, TRUE)} :
                   EndTFor(FrameTop(G), G.base + i.a + 3, cl.p.code, pc + 1)

SetList(perflush) ==
    LET n == IF i.b = 0 THEN L.top - ra - 1 ELSE i.b
        first == (i.c - 1) * perflush
        h == Get(L, ra)[2]
        Store(t, j) == luaH_set(t, Num(first + j), Get(L, ra + j))
    IN  /\ Op("SETLIST")
        /\ Continue([L EXCEPT !.tables[h] = Fold(Store, @, Upto(n)),
                              !.top = IF i.b = 0 THEN ci(L).top ELSE @])

Close == Op("CLOSE") /\ Continue(luaF_close(L, ra))

Closure ==
    LET p == cl.p.p[i.b + 1]
        Capture(x, j) ==
          LET u == cl.p.code[pc + 1 + j]
              f == luaF_findupval(x.S, base + u.b)
          IN  IF u.op = "GETUPVAL" THEN [x EXCEPT !.us = Append(@, cl.upvals[u.b + 1])]
              ELSE [S |-> f.S, us |-> Append(x.us, f.u)]
        c == Fold(Capture, [S |-> L, us |-> <<>>], Upto(p.nups))
        new == [c.S EXCEPT !.closures = Append(@, [p |-> p, upvals |-> c.us])]
    IN  /\ Op("CLOSURE")
        /\ \E S \in CheckGC(Set(new, ra, Value("function", Len(new.closures)))) :
             Protect(S, pc + 1 + p.nups)

VarArg ==
    LET n == ci(L).base - ci(L).func - cl.p.numparams - 1
        S == IF i.b = 0 THEN luaD_checkstack(L, n) ELSE L
        a == S.base + i.a
        have == Slots(S, ci(S).base - n, ci(S).base)
        b == IF i.b = 0 THEN n ELSE i.b - 1
        vs == SubSeq(have \o Nils(b), 1, b)
    IN  /\ Op("VARARG")
        /\ Protect(SetAll([S EXCEPT !.top = IF i.b = 0 THEN a + n ELSE @], a, vs), pc + 1)

-----------------------------------------------------------------------------
\* The state in which lua_call calls the main function with the arguments as.
Globals == [x \in {Str(f) : f \in {"log", "more", "iter"}} |-> Value("cfunction", x[2])]
Start(p, as) ==
    LET s == StackOf(0)
        size == BASIC_STACK_SIZE + 1 + EXTRA_STACK
        S == [mem |-> [a \in s .. s + size - 1 |-> Nil], block |-> 0, stacksize |-> size,
              top |-> s + 1, base |-> s + 1, savedpc |-> 0,
              ci |-> <<[func |-> s, base |-> s + 1, top |-> s + 1 + LUA_MINSTACK,
                        nresults |-> 0, savedpc |-> 0, nested |-> FALSE]>>,
              upvals |-> <<>>, closures |-> <<[p |-> p, upvals |-> <<>>]>>,
              tables |-> <<>>, globals |-> Globals, log |-> <<>>, more |-> 0]
        pushed == SetAll(S, S.top, <<Value("function", 1)>> \o as)
    IN  luaD_precall([pushed EXCEPT !.top = @ + 1 + Len(as)], S.top, LUA_MULTRET, FALSE)

Terminated == mode # "run" /\ UNCHANGED vars
=============================================================================
