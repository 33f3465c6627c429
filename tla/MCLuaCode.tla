------------------------------ MODULE MCLuaCode -----------------------------
(***************************************************************************)
(* The code generator, the code checker and the virtual machine together:  *)
(* Init picks a program, compiles and checks it, and the machine runs it.  *)
(***************************************************************************)
EXTENDS LuaParser, LuaVM, LuaCheck, LuaSemantics

CONSTANTS
    Suite,              \* the programs of the run
    Parse(_),           \* luaY_parser
    Accepts(_),         \* the code checker
    Reference(_, _, _)  \* the meaning of a program

VARIABLES
    want,   \* what the program should do
    steps   \* how many instructions it has run

MaxSteps == 400

-----------------------------------------------------------------------------
(* The syntax, for short.                                                  *)

N(x) == <<"name", x>>
n(x) == <<"num", x>>
E(x) == <<x>>
NilE == <<"nil">>
CallF(f, as) == <<"call", f, as>>
Log(es) == CallF(N("log"), es)
LogSt(es) == <<"callst", Log(es)>>
More == <<CallF(N("more"), <<>>)>>
Bin(x, o, y) == x \o <<<<"op", o>>>> \o y
Index(t, e) == <<"index", t, e>>
Fun(ps, blk) == <<"function", ps, "none", blk>>
Local(x, es) == <<"local", x, es>>
Assign(xs, es) == <<"assign", xs, es>>
Ret(es) == <<"return", es>>
Paren(e) == E(<<"paren", e>>)
If(c, b1, b2) == <<"if", <<<<c, b1>>, <<<<>>, b2>>>>>>

Params == Local(<<"a", "b">>, <<E(<<"dots">>)>>)

-----------------------------------------------------------------------------
(* Expressions of the parameters a and b.                                  *)

Operands == {N("a"), N("b"), n(1), Log(<<E(N("b"))>>)}
Ops == {"and", "or", "~=", ">", "..", "+"}
Not_(x, neg) == IF neg THEN <<<<"op", "not">>>> \o x ELSE x
Exprs == {Bin(Bin(Not_(E(x), p), o1, Not_(E(y), q)), o2, E(z)) :
            x \in Operands, y \in {N("b"), Log(<<E(N("b"))>>)}, z \in {N("a")},
            o1 \in Ops, o2 \in Ops \ {">", "+"}, p \in BOOLEAN, q \in BOOLEAN}
Logical == {"and", "or", "=="}
Nested == {Bin(Not_(E(x), p), o1, Not_(Paren(Bin(E(y), o2, E(z))), q)) :
             x \in {N("a"), Log(<<E(N("b"))>>)}, y \in Operands, z \in {N("a"), n(1)},
             o1 \in Logical, o2 \in Logical, p \in BOOLEAN, q \in BOOLEAN}
Values == {<<Params, Ret(<<e>>)>> : e \in Exprs}
Conditions == {<<Params, If(e, <<Assign(<<N("a")>>, <<e>>)>>, <<LogSt(<<e, e>>)>>),
                 Ret(<<E(N("a"))>>)>> : e \in Nested}

-----------------------------------------------------------------------------
(* Loops in loops, whose variables are captured by closures in fs.         *)

LoopOf(kind, blk) ==
    CASE kind = "while" -> <<"while", More, blk>>
      [] kind = "repeat" -> <<"repeat", blk, <<<<"op", "not">>>> \o More>>
      [] kind = "until" ->      \* the condition is a closure of a local of the body
           <<"repeat", <<Local(<<"m">>, <<More>>)>> \o blk,
             E(CallF(<<"paren", E(Fun(<<>>, <<Ret(<<Not_(E(N("m")), TRUE)>>)>>))>>, <<>>))>>
      [] kind = "fornum" -> <<"fornum", "i", <<E(n(1)), E(n(2))>>, blk>>
      [] kind = "forin" -> <<"forin", <<"i", "j">>, <<E(N("iter")), E(n(2)), E(n(0))>>, blk>>
      [] kind = "forlua" ->
           <<"forin", <<"i">>,
             <<E(Fun(<<"s", "c">>, <<If(Bin(E(N("c")), "<", E(N("s"))),
                                        <<Ret(<<Bin(E(N("c")), "+", E(n(1)))>>)>>, <<>>)>>)),
               E(n(2)), E(n(0))>>, blk>>
      [] kind = "do" -> <<"do", blk>>
Kinds == {"while", "repeat", "until", "fornum", "forin", "forlua", "do"}

\* fs[#fs + 1] = function () x = x + a; return x end
Capture(x) ==
    <<Local(<<x>>, <<E(n(5))>>),
      Assign(<<Index(N("fs"), Bin(<<<<"op", "#">>, N("fs")>>, "+", E(n(1))))>>,
             <<E(Fun(<<>>, <<Assign(<<N(x)>>, <<Bin(E(N(x)), "+", E(N("a")))>>),
                             Ret(<<E(N(x))>>)>>))>>)>>
Break == <<"break">>
Bodies(kind) ==
    {Capture("x"), Capture("x") \o <<LogSt(<<E(N("x")), E(N("i"))>>)>>}
    \cup (IF kind = "do" THEN {}
          ELSE {Append(Capture("x"), Break),
                Append(Capture("x"), If(More, <<>>, <<LogSt(<<>>), Break>>)),
                <<If(More, Append(Capture("x"), Break), <<>>)>>})
Captured(k1, k2) ==
    {<<Params, Local(<<"fs">>, <<E(<<"table", <<>>>>)>>),
       LoopOf(k1, Append(Capture("y"), LoopOf(k2, blk))),
       <<"fornum", "k", <<<<<<"op", "#">>, N("fs")>>, E(n(1)), <<<<"op", "-">>, n(1)>>>>,
         <<LogSt(<<E(CallF(Index(N("fs"), E(N("k"))), <<>>))>>)>>>>,
       Ret(<<E(CallF(Index(N("fs"), E(n(1))), <<>>))>>)>> :
       blk \in Bodies(k2)}
Closures == UNION {Captured(k1, k2) : k1 \in Kinds, k2 \in Kinds}

-----------------------------------------------------------------------------
(* Assignments, constructors, calls, variable arguments.                   *)

T == N("t")
Table(items) == E(<<"table", items>>)
Item(e) == <<"item", e>>
Two == CallF(N("log"), <<E(n(7)), E(n(8))>>)        \* gives two values
Dots == E(<<"dots">>)
Add(x, k) == Bin(E(x), "+", E(n(k)))
FunV(ps, how, blk) == <<"function", ps, how, blk>>
LetT(items) == Local(<<"t">>, <<Table(items)>>)
LogT == LogSt(<<E(Index(T, E(n(1)))), E(Index(T, E(n(2)))), E(Index(T, E(n(3)))),
                <<<<"op", "#">>, T>>>>)
RightSides == {<<E(Two)>>, <<E(Two), E(n(9))>>, <<E(n(9)), E(Two)>>, <<E(N("b"))>>,
               <<E(N("b")), E(N("a"))>>, <<Paren(E(Two)) >>, <<E(n(1)), E(n(2)), E(n(3))>>,
               <<E(n(9)), Dots>>, <<Add(N("a"), 1), E(N("a")), E(Two)>>}
Targets == {N("a"), N("b"), N("g"), Index(T, E(N("a"))), Index(T, E(n(1)))}
Assigned ==
    {<<Params, LetT(<<>>), Assign(xs, es), LogSt(<<E(N("a")), E(N("b")), E(N("g"))>>), LogT>> :
       xs \in {<<x, y>> : x \in Targets, y \in Targets} \cup {<<x>> : x \in Targets}
              \cup {<<Index(T, E(N("a"))), N("a"), N("b")>>},
       es \in RightSides}
Constructed ==
    {<<Params, LetT(items), LogT>> :
       items \in {<<>>} \cup
                 {xs \o <<Item(e)>> :
                    xs \in {<<>>, <<Item(E(n(4)))>>, <<Item(E(N("a"))), Item(E(Two))>>,
                            <<Item(E(n(4))), <<"field", E(<<"str", "k">>), E(Two)>>>>,
                            <<Item(E(n(4))), Item(E(n(5))), Item(E(n(6)))>>},
                    e \in {E(n(3)), E(Two), Dots, Paren(E(Two)), E(N("b"))}}}

\* local function f (k, ...) <body> end; return f(...)
CalledWith(bodies) ==
    {<<Params, Local(<<"g">>, <<E(n(3))>>), <<"localfunc", "f", FunV(<<"k">>, how[1], how[2])>>,
       LogSt(<<E(CallF(N("f"), as))>>), LetT(<<>>), Ret(<<E(CallF(N("f"), as))>>)>> :
       how \in bodies,
       as \in {<<Dots>>, <<E(n(1)), Dots>>, <<E(n(3))>>, <<E(Two)>>, <<E(n(2)), E(Two)>>}}

Called ==
    CalledWith(
      {<<"dots", <<Ret(<<E(N("k")), Dots>>)>>>>,
       <<"dots", <<Local(<<"x", "y">>, <<Dots>>), Ret(<<E(N("y")), E(N("x"))>>)>>>>,
       <<"dots", <<If(Bin(E(N("k")), "<", E(n(4))),
                      <<Ret(<<E(CallF(N("f"), <<Add(N("k"), 1), Dots>>))>>)>>, <<>>),
                   Ret(<<E(Log(<<Dots>>))>>)>>>>,
       <<"none", <<If(Bin(E(N("k")), "<", E(n(9))),
                      <<Local(<<"r", "x">>, <<E(CallF(N("f"), <<Add(N("k"), 1)>>))>>),
                        Ret(<<Bin(E(N("r")), "+", E(N("k")))>>)>>, <<>>),
                   Ret(<<E(N("g"))>>)>>>>,
       <<"none", <<Assign(<<N("g")>>, <<Bin(E(N("g")), "+", E(N("k")))>>),
                   Ret(<<E(Log(<<E(N("g"))>>))>>)>>>>})
OldStyle ==
    CalledWith({<<"arg", <<Ret(<<E(Index(N("arg"), E(<<"str", "n">>))),
                                 E(Index(N("arg"), E(n(1))))>>)>>>>})

Others ==
    {\* function t.m(self, x); t:m(x)
     <<Params, LetT(<<>>),
       <<"function", Index(T, E(<<"str", "m">>)),
         Fun(<<"self", "x">>, <<Assign(<<Index(N("self"), E(n(1)))>>, <<E(N("x"))>>),
                                Ret(<<E(N("self"))>>)>>)>>,
       <<"callst", <<"method", T, "m", <<E(n(4))>>>>>>,
       LogSt(<<E(Index(<<"method", T, "m", <<E(Two)>>>>, E(n(1))))>>), LogT>>,
     \* a tail call of a closure of the caller's local
     <<Params, <<"localfunc", "f", Fun(<<"h">>, <<Ret(<<E(CallF(N("h"), <<>>))>>)>>)>>,
       <<"localfunc", "g", Fun(<<"x">>, <<Local(<<"y">>, <<E(n(6))>>),
           Ret(<<E(CallF(N("f"), <<E(Fun(<<>>, <<Ret(<<E(N("x")), E(N("y"))>>)>>))>>))>>)>>)>>,
       Ret(<<E(CallF(N("g"), <<E(n(3))>>))>>)>>,
     \* two closures share a variable, one of them through a function between
     <<Params, Local(<<"x">>, <<E(n(0))>>),
       Local(<<"inc">>, <<E(Fun(<<>>, <<Local(<<"q">>, <<E(Fun(<<>>,
           <<Assign(<<N("x")>>, <<Add(N("x"), 1)>>)>>))>>), <<"callst", CallF(N("q"), <<>>)>>>>))>>),
       Local(<<"get">>, <<E(Fun(<<>>, <<Ret(<<E(N("x"))>>)>>))>>),
       <<"callst", CallF(N("inc"), <<>>)>>, <<"callst", CallF(N("inc"), <<>>)>>,
       Ret(<<E(CallF(N("get"), <<>>)), E(N("x"))>>)>>,
     \* scopes: a local hides another, and its initialiser sees the outer one
     <<Params, Local(<<"a">>, <<Add(N("a"), 1)>>), <<"do", <<Local(<<"a", "c">>, <<>>),
       LogSt(<<E(N("a")), E(N("c"))>>)>>>>, Local(<<"d">>, <<>>), Ret(<<E(N("a")), E(N("d"))>>)>>,
     \* a numeric for whose limit is not a number, and one that never runs
     <<Params, <<"fornum", "i", <<E(n(3)), E(n(1))>>, <<LogSt(<<>>)>>>>,
       <<"fornum", "i", <<E(n(3)), E(N("g"))>>, <<LogSt(<<>>)>>>>>>,
     \* locals after a loop that was left by break start as nil
     <<Params, <<"while", More, <<Local(<<"x">>, <<E(n(5))>>), Break>>>>,
       Local(<<"y", "z">>, <<>>), Ret(<<E(N("y")), E(N("z"))>>)>>,
     <<Params, Assign(<<N("g")>>, <<E(<<"str", "ab">>)>>),
       Ret(<<Bin(<<<<"op", "#">>, N("g")>>, "..", Bin(E(N("g")), "..", E(n(1)))),
             Bin(<<<<"op", "-">>, N("a")>>, "-", Bin(E(n(3)), "*", <<<<"op", "-">>, n(2)>>))>>)>>,
     <<Params, If(E(NilE), <<LogSt(<<>>)>>, <<>>), If(E(<<"true">>), <<Ret(<<>>)>>, <<>>)>>}

\* Each of these is an error.
Errors ==
    {<<Params, st>> :
       st \in {Ret(<<E(Index(N("a"), E(n(1))))>>), <<"callst", CallF(N("b"), <<>>)>>,
               Ret(<<E(CallF(N("b"), <<>>))>>), Assign(<<Index(N("a"), E(n(1)))>>, <<E(n(1))>>),
               Assign(<<Index(N("log"), E(n(1)))>>, <<E(n(1))>>),
               <<"callst", <<"method", N("a"), "m", <<>>>>>>,
               Ret(<<<<<<"op", "#">>, N("a")>>>>), Ret(<<<<<<"op", "-">>, N("log")>>>>),
               <<"forin", <<"i">>, <<E(N("a"))>>, <<>>>>,
               Ret(<<Bin(E(n(1)), "..", E(N("log")))>>)}}

-----------------------------------------------------------------------------
(* A constant expression as the operand of `or' and `and'.                 *)

BooleanBug ==
    {<<Params, Ret(<<Bin(Paren(Bin(Paren(Bin(E(x), "or", E(<<"false">>))), "and",
                                   E(<<"true">>))), "or", E(<<"false">>))>>)>> :
       x \in {N("a"), n(1)}}

Expressions == CASE Suite = "all" -> Values \cup Conditions \cup OldStyle
                 [] Suite = "booleans" -> BooleanBug
Statements == IF Suite # "all" THEN {}
              ELSE Closures \cup Assigned \cup Constructed \cup Called \cup Others \cup Errors
Pairs == {<<x, y>> : x \in {Nil, Num(2)}, y \in {Nil, Num(1)}}

-----------------------------------------------------------------------------
\* lua_load and lua_call of a chunk.
Run(blk, inputs, builds) ==
    /\ prog = Parse(blk)
    /\ args \in inputs /\ hard \in builds
    /\ L \in Start(prog, args)
    /\ base = L.base /\ pc = 0 /\ mode = "run"
    /\ want = Reference(blk, args, Globals)
    /\ steps = 0

Init ==
    \/ \E blk \in Expressions : Run(blk, Pairs, {FALSE})
    \/ \E blk \in Statements : Run(blk, {<<Num(2), Num(1), Num(3)>>}, BOOLEAN)

Step(A) == A /\ steps' = steps + 1 /\ UNCHANGED want
Next ==
    \/ Step(Move) \/ Step(LoadK) \/ Step(LoadBool) \/ Step(LoadNil)
    \/ Step(GetUpval) \/ Step(SetUpval) \/ Step(GetGlobal) \/ Step(SetGlobal)
    \/ Step(GetTable) \/ Step(SetTable) \/ Step(Self) \/ Step(OpNewTable)
    \/ Step(ArithOp) \/ Step(Not) \/ Step(LenOp) \/ Step(Concat) \/ Step(Jmp)
    \/ Step(Eq) \/ Step(Compare) \/ Step(TestOp) \/ Step(TestSet) \/ Step(Call)
    \/ Step(TailCall) \/ Step(Return) \/ Step(ReturnIterator) \/ Step(ReturnMain)
    \/ Step(ForLoop) \/ Step(ForPrep) \/ Step(TForLoop)
    \/ Step(SetList(LFIELDS_PER_FLUSH)) \/ Step(Close) \/ Step(Closure)
    \/ Step(VarArg)
    \/ Terminated /\ UNCHANGED <<want, steps>>

Spec == Init /\ [][Next]_<<vars, want, steps>>

-----------------------------------------------------------------------------
(* Properties.                                                             *)

\* The lua_asserts of lparser.c and lcode.c hold for every program: registers
\* are freed in the reverse order of their use, blocks start with no
\* temporaries, jump lists are empty where the code relies on it.
AssertsHold == prog.ok

\* luaG_checkcode accepts all the code that the code generator makes, which
\* lua_load checks only for precompiled chunks: operands in range, no test
\* without a jump, no open result that nothing uses.
CodeAccepted == Accepts(prog)

\* The code of a program is well formed: the generator's assertions held when
\* it was made (lcode.c, lparser.c), and luaG_checkcode accepts it.
CodeSound == AssertsHold /\ CodeAccepted

\* A compiled program calls C functions with the arguments, returns the
\* values and raises the errors that the manual's semantics of its source
\* asks for, wherever the stack moves.
Correct ==
    /\ mode = "done" =>
         /\ ~want.err /\ L.log = want.log
         /\ Slots(L, StackOf(L.block) + 1, L.top) = want.vs
    /\ mode = "error" => want.err /\ L.log = want.log

\* The assertions at the head of luaV_execute's loop: the local base is the
\* thread's, and top is the frame's, unless the instruction takes the values
\* an open call left below top.
TopRight ==
    mode = "run" =>
      /\ base = L.base /\ L.base = ci(L).base /\ L.top <= stack_last(L)
      /\ L.top = ci(L).top \/ luaG_checkopenop(i)

\* After every reallocation, call, tail call and return, the pointers of the
\* frames are in the current stack, in order, and the open upvalues are
\* distinct slots of the frames of running functions.
PointersLive ==
    mode = "run" =>
      LET open == {u \in DOMAIN L.upvals : L.upvals[u].open}
      IN  /\ \A j \in DOMAIN L.ci :
               /\ {L.ci[j].func, L.ci[j].base, L.ci[j].top} \subseteq DOMAIN L.mem
               /\ L.ci[j].func < L.ci[j].base /\ L.ci[j].base <= L.ci[j].top
               /\ j > 1 => L.ci[j - 1].base <= L.ci[j].func
          /\ \A u \in open : L.ci[2].base <= L.upvals[u].v /\ L.upvals[u].v < ci(L).top
          /\ \A u, w \in open : u # w => L.upvals[u].v # L.upvals[w].v

\* Whatever luaD_growstack and the collector's luaD_reallocstack do, base, top,
\* the frames and the open upvalues point into the stack where they should.
StackRight == TopRight /\ PointersLive

\* Every program of the suite, whose loops are bounded, comes to its end: no
\* jump goes back where the source does not.
Ends == steps <= MaxSteps
=============================================================================
