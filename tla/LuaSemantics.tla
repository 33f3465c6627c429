---------------------------- MODULE LuaSemantics ----------------------------
(***************************************************************************)
(* What a Lua program means, from the reference manual (sections 2.3 to    *)
(* 2.6): an interpreter of the syntax of LuaParser that knows nothing of   *)
(* registers, jumps and upvalues.  A variable is a cell of the store st,   *)
(* an environment maps names to cells, a scope ends with its environment.  *)
(* Operators bind by the manual's table of precedence (section 2.5.6), and *)
(* operands are evaluated from left to right.                              *)
(***************************************************************************)
EXTENDS LuaValues, LuaFold, SequencesExt, FiniteSetsExt, TLC

\* CFun(f, args, n): the results of a C function.  vs: a list of values.
CONSTANT CFun(_, _, _)

Out(st, vs) == [st |-> st, vs |-> vs]
Fail(st) == Out([st EXCEPT !.err = TRUE], <<Nil>>)
First(vs) == IF vs = <<>> THEN Nil ELSE vs[1]
Pad(vs, n) == SubSeq(vs \o [j \in 1 .. n |-> Nil], 1, n)

Lookup(t, key) == IF key \in DOMAIN t THEN t[key] ELSE Nil
Update(t, key, x) == IF x = Nil THEN [y \in DOMAIN t \ {key} |-> t[y]]
                     ELSE (key :> x) @@ t

\* New variables with the values vs.
Declare(st, env, names, vs) ==
    LET n == Len(st.cells)
    IN  [st |-> [st EXCEPT !.cells = @ \o Pad(vs, Len(names))],
         env |-> Fold(LAMBDA e, j : (names[j] :> (n + j)) @@ e, env,
                          Upto(Len(names)))]

\* Operators, with the precedence of section 2.5.6.
Level(op) == CASE op = "or" -> 1 [] op = "and" -> 2
               [] op \in {"<", ">", "<=", ">=", "~=", "=="} -> 3
               [] op = ".." -> 4 [] op \in {"+", "-"} -> 5 [] op = "*" -> 6

ToText(v) == IF v[1] = "number" THEN ToString(v[2]) ELSE v[2]

Binary(st, op, x, y) ==
    LET nums == x[1] = "number" /\ y[1] = "number"
        Result(v) == Out(st, <<v>>)
    IN  CASE op = "==" -> Result(Bool(x = y))
          [] op = "~=" -> Result(Bool(x # y))
          [] op = ".." -> IF {x[1], y[1]} \subseteq {"string", "number"}
                          THEN Result(Str(ToText(x) \o ToText(y))) ELSE Fail(st)
          [] ~nums -> Fail(st)
          [] op = "<" -> Result(Bool(x[2] < y[2]))
          [] op = "<=" -> Result(Bool(x[2] <= y[2]))
          [] op = ">" -> Result(Bool(x[2] > y[2]))
          [] op = ">=" -> Result(Bool(x[2] >= y[2]))
          [] op = "+" -> Result(Num(x[2] + y[2]))
          [] op = "-" -> Result(Num(x[2] - y[2]))
          [] op = "*" -> Result(Num(x[2] * y[2]))

Border(t) == CHOOSE n \in 0 .. Cardinality(DOMAIN t) :
                 Num(n + 1) \notin DOMAIN t /\ \A j \in 1 .. n : Num(j) \in DOMAIN t

Unary(st, op, x) ==
    CASE op = "not" -> Out(st, <<Bool(IsFalse(x))>>)
      [] op = "-" -> IF x[1] = "number" THEN Out(st, <<Num(0 - x[2])>>) ELSE Fail(st)
      [] op = "#" -> IF x[1] = "table" THEN Out(st, <<Num(Border(st.tables[x[2]]))>>)
                     ELSE IF x[1] = "string" THEN Out(st, <<Num(Len(x[2]))>>)
                     ELSE Fail(st)

RECURSIVE Eval(_, _, _), EvalAll(_, _, _), Operand(_, _, _), Apply(_, _, _),
          Exec(_, _, _), ExecAll(_, _, _), Loop(_, _, _, _)

\* An operator is binary when it follows an operand.  The last one of the
\* lowest level applies last (the first one for `..', which is right
\* associative).
Eval(toks, env, st) ==
    LET bin == {j \in 2 .. Len(toks) : toks[j][1] = "op" /\ toks[j - 1][1] # "op"}
        low == Min({Level(toks[j][2]) : j \in bin})
        lows == {j \in bin : Level(toks[j][2]) = low}
        at == IF toks[CHOOSE j \in lows : TRUE][2] = ".." THEN Min(lows) ELSE Max(lows)
        op == toks[at][2]
        left == Eval(SubSeq(toks, 1, at - 1), env, st)
        x == First(left.vs)
        right == Eval(SubSeq(toks, at + 1, Len(toks)), env, left.st)
        arg == Eval(Tail(toks), env, st)
    IN  IF st.err THEN Out(st, <<Nil>>)
        ELSE IF bin = {}
        THEN IF toks[1][1] # "op" THEN Operand(toks[1], env, st)
             ELSE IF arg.st.err THEN arg
             ELSE Unary(arg.st, toks[1][2], First(arg.vs))
        ELSE IF left.st.err THEN left
        ELSE IF op \in {"and", "or"} /\ IsFalse(x) = (op = "and") THEN Out(left.st, <<x>>)
        ELSE IF op \in {"and", "or"} \/ right.st.err
        THEN Out(right.st, <<First(right.vs)>>)
        ELSE Binary(right.st, op, x, First(right.vs))

\* Every expression of a list gives one value, the last one all its values.
EvalAll(es, env, st) ==
    LET Add(r, j) == LET x == Eval(es[j], env, r.st)
                     IN  Out(x.st, r.vs \o IF j = Len(es) THEN x.vs ELSE <<First(x.vs)>>)
    IN  Fold(Add, Out(st, <<>>), Upto(Len(es)))

Field(st, t, key) == IF t[1] # "table" THEN Fail(st)
                     ELSE Out(st, <<Lookup(st.tables[t[2]], key)>>)

Operand(x, env, st) ==
    LET prefix == Operand(x[2], env, st)
        p == First(prefix.vs)
        key == Eval(x[3], env, prefix.st)
        as == EvalAll(x[3], env, prefix.st)
        m == Field(prefix.st, p, Str(x[3]))
        mas == EvalAll(x[4], env, m.st)
        par == Eval(x[2], env, st)
        t == Value("table", Len(st.tables) + 1)
        Put(s, k, v) == IF s.err THEN s ELSE [s EXCEPT !.tables[t[2]] = Update(@, k, v)]
        Item(a, j) ==
          LET it == x[2][j]
              v == Eval(it[2], env, a.st)
              fv == Eval(it[3], env, v.st)
              vs == IF j = Len(x[2]) THEN v.vs ELSE <<First(v.vs)>>
          IN  IF it[1] = "item"
              THEN [st |-> Fold(LAMBDA s, n : Put(s, Num(a.n + n), vs[n]), v.st,
                                    Upto(Len(vs))),
                    n |-> a.n + Len(vs)]
              ELSE [st |-> Put(fv.st, First(v.vs), First(fv.vs)), n |-> a.n]
        made == Fold(Item, [st |-> [st EXCEPT !.tables = Append(@, <<>>)], n |-> 0],
                         Upto(Len(x[2])))
        f == [params |-> x[2], vararg |-> x[3], blk |-> x[4], env |-> env]
    IN  CASE st.err -> Out(st, <<Nil>>)
          [] x[1] = "num" -> Out(st, <<Num(x[2])>>)
          [] x[1] = "str" -> Out(st, <<Str(x[2])>>)
          [] x[1] = "nil" -> Out(st, <<Nil>>)
          [] x[1] = "true" -> Out(st, <<Bool(TRUE)>>)
          [] x[1] = "false" -> Out(st, <<Bool(FALSE)>>)
          [] x[1] = "dots" -> Out(st, env["..."])
          [] x[1] = "table" -> Out(made.st, <<t>>)
          [] x[1] = "function" ->
               Out([st EXCEPT !.closures = Append(@, f)],
                   <<Value("function", Len(st.closures) + 1)>>)
          [] x[1] = "name" ->
               Out(st, <<IF x[2] \in DOMAIN env THEN st.cells[env[x[2]]]
                         ELSE Lookup(st.globals, Str(x[2]))>>)
          [] x[1] = "paren" -> Out(par.st, <<First(par.vs)>>)
          [] x[1] = "index" -> IF key.st.err THEN key ELSE Field(key.st, p, First(key.vs))
          [] x[1] = "call" -> Apply(as.st, p, as.vs)
          [] x[1] = "method" ->
               IF mas.st.err THEN mas ELSE Apply(mas.st, First(m.vs), <<p>> \o mas.vs)

\* A call: the parameters are new variables of the function's environment.
\* A function that has `...' and does not use it (vararg "arg") sees the
\* extra arguments in the table `arg'.
Apply(st, f, as) ==
    LET c == st.closures[f[2]]
        n == Len(c.params)
        extra == SubSeq(as, n + 1, Len(as))
        d == Declare(st, c.env, c.params, as)
        tab == [st |-> [d.st EXCEPT !.tables =
                          Append(@, Fold(LAMBDA t, j : Update(t, Num(j), extra[j]),
                                             Str("n") :> Num(Len(extra)),
                                             Upto(Len(extra))))],
                v |-> <<Value("table", Len(d.st.tables) + 1)>>]
        a == IF c.vararg = "arg" THEN Declare(tab.st, d.env, <<"arg">>, tab.v)
             ELSE IF c.vararg = "dots" THEN Declare(d.st, d.env, <<"arg">>, <<>>)
             ELSE d
        r == ExecAll(c.blk, ("..." :> extra) @@ a.env, a.st)
    IN  IF st.err THEN Out(st, <<Nil>>)
        ELSE IF f[1] = "cfunction"
        THEN Out([st EXCEPT !.log = IF f[2] = "log" THEN Append(@, as) ELSE @,
                            !.more = IF f[2] = "more" THEN @ + 1 ELSE @],
                 CFun(f[2], as, st.more))
        ELSE IF f[1] # "function" THEN Fail(st)
        ELSE Out(r.st, r.vs)

\* A statement ends with sig "next", "break" or "return" (with values vs),
\* in the environment env.
Sig(st, sig, vs, env) == [st |-> st, sig |-> sig, vs |-> vs, env |-> env]
Next_(st, env) == Sig(st, "next", <<>>, env)

ExecAll(blk, env, st) ==
    LET Step(r, s) == IF r.sig # "next" \/ r.st.err THEN r ELSE Exec(s, r.env, r.st)
    IN  Fold(Step, Next_(st, env), blk)

\* Body(st) runs once more while it ends with sig "next".
Loop(kind, s, env, st) ==
    LET c == IF kind = "while" THEN Eval(s[2], env, st) ELSE Out(st, <<Bool(TRUE)>>)
        b == ExecAll(IF kind = "while" THEN s[3] ELSE s[2], env, c.st)
        u == IF kind = "repeat" /\ b.sig = "next" THEN Eval(s[3], b.env, b.st)
             ELSE Out(b.st, <<Nil>>)
    IN  IF c.st.err \/ IsFalse(First(c.vs)) THEN Next_(c.st, env)
        ELSE IF b.st.err \/ b.sig = "return" THEN [b EXCEPT !.env = env]
        ELSE IF b.sig = "break" THEN Next_(b.st, env)
        ELSE IF kind = "repeat" /\ (u.st.err \/ ~IsFalse(First(u.vs)))
        THEN Next_(u.st, env)
        ELSE Loop(kind, s, env, u.st)

RECURSIVE For(_, _, _, _, _), ForIn(_, _, _, _)

After(b, env, more) ==
    IF b.st.err \/ b.sig = "return" THEN [b EXCEPT !.env = env]
    ELSE IF b.sig = "break" THEN Next_(b.st, env)
    ELSE more

\* r: the index, the limit and the step.
For(s, env, st, r, blk) ==
    LET d == Declare(st, env, <<s>>, <<Num(r[1])>>)
        b == ExecAll(blk, d.env, d.st)
    IN  IF (IF r[3] > 0 THEN r[1] <= r[2] ELSE r[1] >= r[2])
        THEN After(b, env, For(s, env, b.st, [r EXCEPT ![1] = @ + r[3]], blk))
        ELSE Next_(st, env)

\* r: the iterator, the state and the control variable.
ForIn(s, env, st, r) ==
    LET it == Apply(st, r[1], <<r[2], r[3]>>)
        d == Declare(it.st, env, s[2], it.vs)
        b == ExecAll(s[4], d.env, d.st)
    IN  IF it.st.err \/ First(it.vs) = Nil THEN Next_(it.st, env)
        ELSE After(b, env, ForIn(s, env, b.st, [r EXCEPT ![3] = First(it.vs)]))

Store(st, env, x, v) ==      \* x: a name, or a table and a key
    IF st.err THEN st
    ELSE IF x[1] = "name"
    THEN IF x[2] \in DOMAIN env THEN [st EXCEPT !.cells[env[x[2]]] = v]
         ELSE [st EXCEPT !.globals = Update(@, Str(x[2]), v)]
    ELSE IF x[2][1] # "table" \/ x[3] = Nil THEN [st EXCEPT !.err = TRUE]
    ELSE [st EXCEPT !.tables[x[2][2]] = Update(@, x[3], v)]

Exec(s, env, st) ==
    LET Target(a, x) ==         \* the parts of a variable are evaluated first
          LET p == Operand(x[2], env, a.st)
              key == Eval(x[3], env, p.st)
          IN  IF x[1] = "name" THEN [a EXCEPT !.xs = Append(@, x)]
              ELSE [st |-> key.st,
                    xs |-> Append(a.xs, <<"index", First(p.vs), First(key.vs)>>)]
        ts == Fold(Target, [st |-> st, xs |-> <<>>], s[2])
        es == EvalAll(s[3], env, ts.st)
        n == Len(s[2])
        stored == Fold(LAMBDA x, j : Store(x, env, ts.xs[n + 1 - j],
                                               Pad(es.vs, n)[n + 1 - j]),
                           es.st, Upto(n))
        ls == EvalAll(s[3], env, st)
        loc == Declare(ls.st, env, s[2], ls.vs)
        scope == ExecAll(s[2], env, st)
        Clause(r, c) ==
          LET v == Eval(c[1], env, r.st)
              t == IF c[1] = <<>> THEN Out(r.st, <<Bool(TRUE)>>) ELSE v
              b == ExecAll(c[2], env, t.st)
          IN  IF r.done THEN r
              ELSE IF t.st.err THEN [done |-> TRUE, st |-> t.st, r |-> Next_(t.st, env)]
              ELSE IF IsFalse(First(t.vs)) THEN [r EXCEPT !.st = t.st]
              ELSE [done |-> TRUE, st |-> b.st, r |-> [b EXCEPT !.env = env]]
        cs == Fold(Clause, [done |-> FALSE, st |-> st, r |-> 0], s[2])
        fd == Declare(st, env, <<s[2]>>, <<>>)
        fn == Operand(s[3], fd.env, fd.st)
        tv == LET a == Target([st |-> st, xs |-> <<>>], s[2])
                  f == Operand(s[3], env, a.st)
              IN  Store(f.st, env, a.xs[1], First(f.vs))
        fi == LET r == EvalAll(s[3], env, st) IN
              IF r.st.err THEN Next_(r.st, env)
              ELSE IF \E j \in DOMAIN r.vs : j <= 3 /\ r.vs[j][1] # "number"
              THEN Next_([r.st EXCEPT !.err = TRUE], env)
              ELSE For(s[2], env, r.st, [j \in 1 .. 3 |-> (r.vs \o <<Num(1)>>)[j][2]], s[4])
        gi == LET r == EvalAll(s[3], env, st)
              IN  IF r.st.err THEN Next_(r.st, env) ELSE ForIn(s, env, r.st, Pad(r.vs, 3))
        rs == EvalAll(s[2], env, st)
        call == Operand(s[2], env, st)
    IN  CASE s[1] = "local" -> Next_(loc.st, loc.env)
          [] s[1] = "assign" -> Next_(stored, env)
          [] s[1] = "do" -> [scope EXCEPT !.env = env]
          [] s[1] = "if" -> IF cs.done THEN cs.r ELSE Next_(cs.st, env)
          [] s[1] \in {"while", "repeat"} -> Loop(s[1], s, env, st)
          [] s[1] = "fornum" -> fi
          [] s[1] = "forin" -> gi
          [] s[1] = "function" -> Next_(tv, env)
          [] s[1] = "localfunc" ->
               Next_([fn.st EXCEPT !.cells[fd.env[s[2]]] = First(fn.vs)], fd.env)
          [] s[1] = "return" -> Sig(rs.st, "return", rs.vs, env)
          [] s[1] = "break" -> Sig(st, "break", <<>>, env)
          [] s[1] = "callst" -> Next_(call.st, env)

\* The meaning of the main chunk blk called with the arguments as: what it
\* logs, what it returns, and whether it ends with an error.
Meaning(blk, as, globals) ==
    LET st == [cells |-> <<>>, closures |-> <<0>>, tables |-> <<>>, globals |-> globals,
               log |-> <<>>, more |-> 0, err |-> FALSE]
        r == ExecAll(blk, "..." :> as, st)
    IN  [log |-> r.st.log, err |-> r.st.err, vs |-> IF r.st.err THEN <<>> ELSE r.vs]
=============================================================================
