----------------------------- MODULE LuaParser ------------------------------
(***************************************************************************)
(* The parser of Lua 5.1.4 (lparser.c), which generates code as it reads:  *)
(* scopes and upvalues, expressions by operator precedence, statements.    *)
(*                                                                         *)
(* The text is already split: an expression is the sequence of its         *)
(* operators <<"op", o>> and operands (tuples, see simpleexp); a block is  *)
(* a sequence of statements (see statement).  A FuncState holds the one of *)
(* the enclosing function in `prev'.                                       *)
(***************************************************************************)
EXTENDS LuaCode

CONSTANT LFIELDS_PER_FLUSH   \* list items of a constructor stored at a time

NoFS == [level |-> 0]
VARARG == {"HASARG", "ISVARARG", "NEEDSARG"}

open_func(prev) ==
    [level |-> prev.level + 1, prev |-> prev, code |-> <<>>, lasttarget |-> -1,
     jpc |-> NO_JUMP, freereg |-> 0, k |-> <<>>, p |-> <<>>, nactvar |-> 0,
     actvar |-> <<>>, bl |-> <<>>, upvalues |-> <<>>, maxstacksize |-> 2,
     is_vararg |-> {}, numparams |-> 0, ok |-> TRUE]

\* close_func, and the prototype it leaves.
close_func(fs) ==
    LET s == luaK_ret([fs EXCEPT !.nactvar = 0], 0, 0)
    IN  [code |-> s.code, k |-> s.k, p |-> s.p, nups |-> Len(s.upvalues),
         numparams |-> s.numparams, is_vararg |-> s.is_vararg,
         maxstacksize |-> s.maxstacksize, ok |-> s.ok /\ s.bl = <<>>]

-----------------------------------------------------------------------------
(* Variables and scopes.                                                   *)

\* Names after the active ones wait for adjustlocalvars.
new_localvar(fs, name) == [fs EXCEPT !.actvar = Append(@, name)]
new_localvars(fs, names) == [fs EXCEPT !.actvar = @ \o names]
adjustlocalvars(fs, n) == [fs EXCEPT !.nactvar = @ + n]
removevars(fs, level) ==
    [fs EXCEPT !.nactvar = level, !.actvar = SubSeq(@, 1, level)]

searchvar(fs, name) ==
    Max({-1} \cup {i \in 0 .. fs.nactvar - 1 : fs.actvar[i + 1] = name})

\* The innermost block that declares the variable at `level' must close it.
markupval_never(fs, level) == fs
markupval(fs, level) ==
    LET bs == {i \in DOMAIN fs.bl : fs.bl[i].nactvar <= level}
    IN  IF bs = {} THEN fs ELSE [fs EXCEPT !.bl[Max(bs)].upval = TRUE]

\* The index of an upvalue, and the FuncState that has it.
indexupvalue(fs, k, info) ==
    LET u == [k |-> k, info |-> info]
        have == {i \in DOMAIN fs.upvalues : fs.upvalues[i] = u}
    IN  IF have # {} THEN [fs |-> fs, n |-> Max(have) - 1]
        ELSE [fs |-> [fs EXCEPT !.upvalues = Append(@, u)], n |-> Len(fs.upvalues)]

RECURSIVE singlevaraux(_, _, _)
singlevaraux(fs, name, base) ==
    IF fs.level = 0 THEN R(fs, Exp("VGLOBAL", NO_REG))
    ELSE LET v == searchvar(fs, name)
             up == singlevaraux(fs.prev, name, FALSE)
             s == [fs EXCEPT !.prev = up.fs]
             u == indexupvalue(s, up.e.k, up.e.info)
         IN  IF v >= 0
             THEN R(IF base THEN fs ELSE markupval(fs, v), Exp("VLOCAL", v))
             ELSE IF up.e.k = "VGLOBAL" THEN R(s, up.e)
             ELSE R(u.fs, Exp("VUPVAL", u.n))

codestring(fs, s) == LET c == addk(fs, Str(s)) IN R(c.fs, Exp("VK", c.n))

singlevar(fs, name) ==
    LET r == singlevaraux(fs, name, TRUE)
        c == addk(r.fs, Str(name))
    IN  IF r.e.k = "VGLOBAL" THEN R(c.fs, [r.e EXCEPT !.info = c.n]) ELSE r

enterblock(fs, isbreakable) ==
    Check([fs EXCEPT !.bl = Append(@, [breaklist |-> NO_JUMP, nactvar |-> fs.nactvar,
                                       isbreakable |-> isbreakable, upval |-> FALSE])],
          fs.freereg = fs.nactvar)

leaveblock(fs) ==
    LET bl == Last(fs.bl)
        s == removevars([fs EXCEPT !.bl = Front(@)], bl.nactvar)
        c == IF bl.upval THEN luaK_codeABC(s, "CLOSE", bl.nactvar, 0, 0) ELSE s
    IN  luaK_patchtohere([Check(c, ~bl.isbreakable \/ ~bl.upval)
                            EXCEPT !.freereg = bl.nactvar], bl.breaklist)

\* nexps expressions, the last one e, become nvars values.
adjust_assign(fs, nvars, nexps, e) ==
    LET extra == nvars - nexps
        more == Max({extra + 1, 0})
        s == luaK_setreturns(fs, e, more)
        n == IF e.k # "VVOID" THEN luaK_exp2nextreg(fs, e).fs ELSE fs
    IN  IF hasmultret(e.k)
        THEN IF more > 1 THEN luaK_reserveregs(s, more - 1) ELSE s
        ELSE IF extra > 0
        THEN luaK_nil(luaK_reserveregs(n, extra), n.freereg, extra)
        ELSE n

-----------------------------------------------------------------------------
(* Expressions.                                                            *)

RECURSIVE expr(_, _), subexpr(_, _, _), moreops(_, _, _, _), explist(_, _, _),
          simpleexp(_, _), constructor(_, _), statement(_, _), chunk(_, _)

\* The table `priority'.
Left(op) == CASE op = "or" -> 1 [] op = "and" -> 2 [] op = ".." -> 5
              [] op \in {"==", "~=", "<", "<=", ">", ">="} -> 3
              [] op \in {"+", "-"} -> 6 [] op = "*" -> 7
Right(op) == IF op = ".." THEN 4 ELSE Left(op)
UNARY_PRIORITY == 8

\* The operators and operands of `toks', up to an operator that binds no
\* tighter than limit: the result has what was not read in field rest.
subexpr(fs, toks, limit) ==
    LET unary == toks[1][1] = "op"
        u == subexpr(fs, Tail(toks), UNARY_PRIORITY)
        p == luaK_prefix(u.fs, toks[1][2], u.e)
        s == simpleexp(fs, toks[1])
    IN  IF unary THEN moreops(p.fs, p.e, u.rest, limit)
        ELSE moreops(s.fs, s.e, Tail(toks), limit)

moreops(fs, v, rest, limit) ==
    IF rest = <<>> \/ Left(rest[1][2]) <= limit
    THEN [fs |-> fs, e |-> v, rest |-> rest]
    ELSE LET op == rest[1][2]
             i == luaK_infix(fs, op, v)
             r == subexpr(i.fs, Tail(rest), Right(op))
             x == luaK_posfix(r.fs, op, i.e, r.e)
         IN  moreops(x.fs, x.e, r.rest, limit)

expr(fs, toks) == LET r == subexpr(fs, toks, 0) IN R(r.fs, r.e)

\* explist1: all the expressions but the last are put in registers.
explist(fs, es, i) ==
    LET r == expr(fs, es[i])
    IN  IF i = Len(es) THEN r ELSE explist(luaK_exp2nextreg(r.fs, r.e).fs, es, i + 1)

luaK_setmultret(fs, e) == luaK_setreturns(fs, e, LUA_MULTRET)

\* f is in a register, its arguments follow.
funcargs(fs, f, args) ==
    LET a == IF args = <<>> THEN R(fs, Exp("VVOID", 0))
             ELSE LET l == explist(fs, args, 1) IN R(luaK_setmultret(l.fs, l.e), l.e)
        open == hasmultret(a.e.k)
        s == IF open \/ a.e.k = "VVOID" THEN a.fs ELSE luaK_exp2nextreg(a.fs, a.e).fs
        base == f.info
        nparams == IF open THEN LUA_MULTRET ELSE s.freereg - (base + 1)
        c == luaK_codeABC(Check(s, f.k = "VNONRELOC"), "CALL", base, nparams + 1, 2)
    IN  R([c EXCEPT !.freereg = base + 1], Exp("VCALL", PC(s)))

pushclosure(fs, func, proto) ==
    LET c == luaK_codeABC([fs EXCEPT !.p = Append(@, proto)],
                          "CLOSURE", 0, Len(fs.p), 0)
        Capture(s, u) ==
          luaK_codeABC(s, IF u.k = "VLOCAL" THEN "MOVE" ELSE "GETUPVAL", 0, u.info, 0)
    IN  R(Fold(Capture, c, func.upvalues), Exp("VRELOCABLE", PC(fs)))

\* A function with `...' has the local variable `arg' after its parameters.
parlist(fs, params, vararg) ==
    LET names == params \o (IF vararg THEN <<"arg">> ELSE <<>>)
        s == adjustlocalvars(new_localvars(fs, names), Len(names))
    IN  luaK_reserveregs([s EXCEPT !.is_vararg = IF vararg THEN VARARG ELSE {},
                                   !.numparams = Len(params)], s.nactvar)

\* f: <<"function", parameters, "none" or how it uses `...', block>>.
body(fs, f) ==
    LET new == chunk(parlist(open_func(fs), f[2], f[3] # "none"), f[4])
        proto == close_func(new)
    IN  pushclosure(Check(new.prev, proto.ok), new, proto)

\* Items <<"item", exp>> and <<"field", key, exp>>; cc as in ConsControl.
constructor(fs, items) ==
    LET t0 == luaK_exp2nextreg(luaK_codeABC(fs, "NEWTABLE", 0, 0, 0),
                               Exp("VRELOCABLE", PC(fs)))
        t == t0.e.info
        Close(s, cc) ==      \* closelistfield
          IF cc.v.k = "VVOID" THEN [fs |-> s, cc |-> cc]
          ELSE LET n == luaK_exp2nextreg(s, cc.v).fs
                   flush == cc.tostore = LFIELDS_PER_FLUSH
               IN  [fs |-> IF flush
                           THEN luaK_setlist(n, t, cc.na, cc.tostore, LFIELDS_PER_FLUSH)
                           ELSE n,
                    cc |-> [cc EXCEPT !.v = Exp("VVOID", 0),
                                      !.tostore = IF flush THEN 0 ELSE @]]
        Item(x, it) ==       \* listfield, recfield
          LET c == Close(x.fs, x.cc)
              v == expr(c.fs, it[2])
              key == LET y == expr(c.fs, it[2]) IN luaK_exp2val(y.fs, y.e)
              rk == luaK_exp2RK(key.fs, key.e)
              val == LET y == expr(rk.fs, it[3]) IN luaK_exp2RK(y.fs, y.e)
          IN  IF it[1] = "item"
              THEN [fs |-> v.fs, cc |-> [c.cc EXCEPT !.v = v.e, !.na = @ + 1,
                                                     !.tostore = @ + 1]]
              ELSE [fs |-> [luaK_codeABC(val.fs, "SETTABLE", t, rk.n, val.n)
                              EXCEPT !.freereg = c.fs.freereg],
                    cc |-> c.cc]
        z == Fold(Item, [fs |-> t0.fs, cc |-> [v |-> Exp("VVOID", 0), na |-> 0,
                                                   tostore |-> 0]], items)
        v == z.cc.v
        Flush(s, n) == luaK_setlist(s, t, z.cc.na, n, LFIELDS_PER_FLUSH)
        end == IF z.cc.tostore = 0 THEN z.fs        \* lastlistfield
               ELSE IF hasmultret(v.k)
               THEN Flush(luaK_setmultret(z.fs, v), LUA_MULTRET)
               ELSE Flush(IF v.k # "VVOID" THEN luaK_exp2nextreg(z.fs, v).fs
                          ELSE z.fs, z.cc.tostore)
    IN  R(end, t0.e)

\* Operands: constants, <<"dots">>, functions, constructors, and primaryexp:
\* names, parentheses, indexing, calls and method calls.
simpleexp(fs, x) ==
    LET sub == simpleexp(fs, x[2])          \* the prefix of a primaryexp
        a == luaK_exp2anyreg(sub.fs, sub.e)
        key == LET y == expr(a.fs, x[3]) IN luaK_exp2val(y.fs, y.e)
        n == luaK_exp2nextreg(sub.fs, sub.e)
        name == codestring(sub.fs, x[3])
        self == luaK_self(name.fs, sub.e, name.e)
        par == expr(fs, x[2])
    IN  CASE x[1] = "num" -> R(fs, Exp("VKNUM", x[2]))
          [] x[1] = "str" -> codestring(fs, x[2])
          [] x[1] = "nil" -> R(fs, Exp("VNIL", 0))
          [] x[1] = "true" -> R(fs, Exp("VTRUE", 0))
          [] x[1] = "false" -> R(fs, Exp("VFALSE", 0))
          [] x[1] = "dots" ->
               R(luaK_codeABC([fs EXCEPT !.is_vararg = @ \ {"NEEDSARG"}],
                              "VARARG", 0, 1, 0), Exp("VVARARG", PC(fs)))
          [] x[1] = "table" -> constructor(fs, x[2])
          [] x[1] = "function" -> body(fs, x)
          [] x[1] = "name" -> singlevar(fs, x[2])
          [] x[1] = "paren" -> luaK_dischargevars(par.fs, par.e)
          [] x[1] = "index" -> luaK_indexed(key.fs, a.e, key.e)
          [] x[1] = "call" -> funcargs(n.fs, n.e, x[3])
          [] x[1] = "method" -> funcargs(self.fs, self.e, x[4])

-----------------------------------------------------------------------------
(* Statements.                                                             *)

block(fs, blk) == leaveblock(chunk(enterblock(fs, FALSE), blk))

\* The jumps to be taken if the condition is false are in field l.
cond(fs, toks) ==
    LET e == expr(fs, toks)
        g == luaK_goiftrue(e.fs, IF e.e.k = "VNIL" THEN [e.e EXCEPT !.k = "VFALSE"]
                                 ELSE e.e)
    IN  [fs |-> g.fs, l |-> g.e.f]

breakstat(fs) ==
    LET loop == Max({i \in DOMAIN fs.bl : fs.bl[i].isbreakable})
        upval == \E i \in loop + 1 .. Len(fs.bl) : fs.bl[i].upval
        s == IF upval THEN luaK_codeABC(fs, "CLOSE", fs.bl[loop].nactvar, 0, 0) ELSE fs
        j == luaK_jump(s)
    IN  [j.fs EXCEPT !.bl[loop].breaklist = @ \o j.l]

whilestat(fs, toks, blk) ==
    LET c == cond(luaK_getlabel(fs), toks)
        j == luaK_jump(block(enterblock(c.fs, TRUE), blk))
    IN  luaK_patchtohere(leaveblock(luaK_patchlist(j.fs, j.l, PC(fs))), c.l)

\* The condition sees the locals of the body; if they are upvalues, the loop
\* must leave their scope before it goes back.
repeatstat(fs, blk, toks) ==
    LET s == chunk(enterblock(enterblock(luaK_getlabel(fs), TRUE), FALSE), blk)
        c == cond(s, toks)
        simple == luaK_patchlist(leaveblock(c.fs), c.l, PC(fs))
        j == luaK_jump(leaveblock(luaK_patchtohere(breakstat(c.fs), c.l)))
    IN  leaveblock(IF Last(c.fs.bl).upval THEN luaK_patchlist(j.fs, j.l, PC(fs))
                   ELSE simple)

exp1(fs, toks) == LET e == expr(fs, toks) IN luaK_exp2nextreg(e.fs, e.e).fs

\* After the three control variables, whose first register is base.
forbody(fs0, base, nvars, blk, isnum) ==
    LET fs == adjustlocalvars(fs0, 3)
        j == luaK_jump(fs)
        p == IF isnum
             THEN [fs |-> luaK_codeABC(fs, "FORPREP", base, -1, 0), l |-> <<PC(fs)>>]
             ELSE j
        s == luaK_reserveregs(adjustlocalvars(enterblock(p.fs, FALSE), nvars), nvars)
        b == luaK_patchtohere(leaveblock(block(s, blk)), p.l)
        end == IF isnum
               THEN [fs |-> luaK_codeABC(b, "FORLOOP", base, -1, 0), l |-> <<PC(b)>>]
               ELSE luaK_jump(luaK_codeABC(b, "TFORLOOP", base, 0, nvars))
    IN  luaK_patchlist(end.fs, end.l, Head(p.l) + 1)

\* es: initial value, limit and perhaps the step.
fornum(fs, name, es, blk) ==
    LET s == new_localvars(fs, <<"(for index)", "(for limit)", "(for step)", name>>)
        e == Fold(exp1, s, es)
        one == addk(e, Num(1))
        step == luaK_reserveregs(
                  luaK_codeABC(one.fs, "LOADK", one.fs.freereg, one.n, 0), 1)
    IN  forbody(IF Len(es) = 3 THEN e ELSE step, fs.freereg, 1, blk, TRUE)

forlist(fs, names, es, blk) ==
    LET s == new_localvars(fs, <<"(for generator)", "(for state)", "(for control)">>
                               \o names)
        e == explist(s, es, 1)
        a == luaK_checkstack(adjust_assign(e.fs, 3, Len(es), e.e), 3)
    IN  forbody(a, fs.freereg, Len(names), blk, FALSE)

\* Clauses <<condition, block>>; an else part is one with no condition.
ifstat(fs, clauses) ==
    LET Clause(x, c) ==
          LET j == luaK_jump(x.fs)
              s == IF x.first THEN [fs |-> x.fs, l |-> NO_JUMP]
                   ELSE [fs |-> luaK_patchtohere(j.fs, x.flist), l |-> x.esc \o j.l]
              t == IF c[1] = <<>> THEN [fs |-> s.fs, l |-> NO_JUMP] ELSE cond(s.fs, c[1])
          IN  [fs |-> block(t.fs, c[2]), flist |-> t.l, esc |-> s.l, first |-> FALSE]
        z == Fold(Clause, [fs |-> fs, flist |-> NO_JUMP, esc |-> NO_JUMP,
                               first |-> TRUE], clauses)
    IN  luaK_patchtohere(z.fs, z.esc \o z.flist)

localfunc(fs, name, f) ==
    LET s == adjustlocalvars(luaK_reserveregs(new_localvar(fs, name), 1), 1)
        b == body(s, f)
    IN  luaK_storevar(b.fs, Exp("VLOCAL", fs.freereg), b.e)

localstat(fs, names, es) ==
    LET s == new_localvars(fs, names)
        e == IF es = <<>> THEN R(s, Exp("VVOID", 0)) ELSE explist(s, es, 1)
    IN  adjustlocalvars(adjust_assign(e.fs, Len(names), Len(es), e.e), Len(names))

funcstat(fs, var, f) ==
    LET v == simpleexp(fs, var)
        b == body(v.fs, f)
    IN  luaK_storevar(b.fs, v.e, b.e)

\* A local that an earlier indexed variable of the assignment uses is copied.
check_conflict(fs, lhs, v) ==
    LET extra == fs.freereg
        Safe(x) == IF x.k # "VINDEXED" THEN x
                   ELSE [x EXCEPT !.info = IF @ = v.info THEN extra ELSE @,
                                  !.aux = IF @ = v.info THEN extra ELSE @]
        safe == [i \in DOMAIN lhs |-> Safe(lhs[i])]
    IN  [fs |-> IF safe = lhs THEN fs
                ELSE luaK_reserveregs(
                       luaK_codeABC(fs, "MOVE", extra, v.info, 0), 1),
         lhs |-> safe]

\* All the variables are read before the expressions, and set from the last
\* to the first.
assignment(fs, vars, es) ==
    LET Var(x, var) ==
          LET v == simpleexp(x.fs, var)
              c == IF v.e.k = "VLOCAL" THEN check_conflict(v.fs, x.lhs, v.e)
                   ELSE [fs |-> v.fs, lhs |-> x.lhs]
          IN  [fs |-> c.fs, lhs |-> Append(c.lhs, v.e)]
        l == Fold(Var, [fs |-> fs, lhs |-> <<>>], vars)
        e == explist(l.fs, es, 1)
        n == Len(vars)
        a == adjust_assign(e.fs, n, Len(es), e.e)
        drop == IF Len(es) > n THEN [a EXCEPT !.freereg = @ - (Len(es) - n)] ELSE a
        one == luaK_setoneret(e.fs, e.e)
        Store(s, v) == luaK_storevar(s, v, Exp("VNONRELOC", s.freereg - 1))
    IN  IF Len(es) = n
        THEN Fold(Store, luaK_storevar(one.fs, Last(l.lhs), one.e),
                      Reverse(Front(l.lhs)))
        ELSE Fold(Store, drop, Reverse(l.lhs))

callstat(fs, x) ==
    LET c == simpleexp(fs, x)
    IN  [Check(c.fs, c.e.k = "VCALL") EXCEPT !.code[c.e.info + 1].c = 1]

retstat(fs, es) ==
    LET e == explist(fs, es, 1)
        m == luaK_setmultret(e.fs, e.e)
        tail == e.e.k = "VCALL" /\ Len(es) = 1
        t == IF tail THEN Check([m EXCEPT !.code[e.e.info + 1].op = "TAILCALL"],
                                Code(m, e.e.info).a = m.nactvar)
             ELSE m
        a == luaK_exp2anyreg(e.fs, e.e)
        n == luaK_exp2nextreg(e.fs, e.e).fs
    IN  IF es = <<>> THEN luaK_ret(fs, 0, 0)
        ELSE IF hasmultret(e.e.k) THEN luaK_ret(t, fs.nactvar, LUA_MULTRET)
        ELSE IF Len(es) = 1 THEN luaK_ret(a.fs, a.e.info, 1)
        ELSE luaK_ret(Check(n, Len(es) = n.freereg - n.nactvar), n.nactvar, Len(es))

statement(fs, s) ==
    CASE s[1] = "if" -> ifstat(fs, s[2])
      [] s[1] = "while" -> whilestat(fs, s[2], s[3])
      [] s[1] = "do" -> block(fs, s[2])
      [] s[1] = "fornum" -> leaveblock(fornum(enterblock(fs, TRUE), s[2], s[3], s[4]))
      [] s[1] = "forin" -> leaveblock(forlist(enterblock(fs, TRUE), s[2], s[3], s[4]))
      [] s[1] = "repeat" -> repeatstat(fs, s[2], s[3])
      [] s[1] = "function" -> funcstat(fs, s[2], s[3])
      [] s[1] = "localfunc" -> localfunc(fs, s[2], s[3])
      [] s[1] = "local" -> localstat(fs, s[2], s[3])
      [] s[1] = "return" -> retstat(fs, s[2])
      [] s[1] = "break" -> breakstat(fs)
      [] s[1] = "assign" -> assignment(fs, s[2], s[3])
      [] s[1] = "callst" -> callstat(fs, s[2])

\* Every statement frees the temporaries it used.
chunk(fs, blk) ==
    LET Stat(x, s) ==
          LET y == statement(x, s)
          IN  [Check(y, y.maxstacksize >= y.freereg /\ y.freereg >= y.nactvar)
                 EXCEPT !.freereg = y.nactvar]
    IN  Fold(Stat, fs, blk)

\* The main function.
luaY_parser(blk) ==
    LET f == close_func(chunk([open_func(NoFS) EXCEPT !.is_vararg = {"ISVARARG"}], blk))
    IN  [f EXCEPT !.ok = @ /\ f.nups = 0]
=============================================================================
