------------------------------ MODULE LuaCode -------------------------------
(***************************************************************************)
(* The code generator of Lua 5.1.4 (lcode.c): expression descriptors,      *)
(* registers, constants and jump lists.  An operator takes the FuncState   *)
(* `fs' (and the expdesc `e') the C function changes and returns the new   *)
(* one, or a record of both.                                               *)
(*                                                                         *)
(* A jump list, threaded in C through the unpatched jumps, is the sequence *)
(* of their positions; jumps hold absolute targets; `ok' records whether   *)
(* the lua_asserts of the generator held.                                  *)
(***************************************************************************)
EXTENDS LuaValues, LuaFold, SequencesExt, FiniteSetsExt

CONSTANT MAXINDEXRK     \* the largest constant that fits an RK operand

-----------------------------------------------------------------------------
(* Descriptors.                                                            *)

NO_JUMP == <<>>
Exp(k, info) == [k |-> k, info |-> info, aux |-> 0, t |-> NO_JUMP, f |-> NO_JUMP]
R(fs, e) == [fs |-> fs, e |-> e]

PC(fs) == Len(fs.code)
Code(fs, p) == fs.code[p + 1]
Check(fs, c) == [fs EXCEPT !.ok = @ /\ c]      \* lua_assert
hasjumps(e) == e.t # e.f
isnumeral(e) == e.k = "VKNUM" /\ e.t = NO_JUMP /\ e.f = NO_JUMP
hasmultret(k) == k \in {"VCALL", "VVARARG"}

-----------------------------------------------------------------------------
(* Jumps.                                                                  *)

\* Where the condition of the jump at p is: before it, if that is a test.
getjumpcontrol(code, p) == IF p >= 1 /\ code[p].op \in TMode THEN p - 1 ELSE p

need_value(fs, list) ==
    \E i \in DOMAIN list :
        Code(fs, getjumpcontrol(fs.code, list[i])).op # "TESTSET"

patchtestreg_keep(i, reg) == IF i.op # "TESTSET" THEN i ELSE [i EXCEPT !.a = reg]

patchtestreg(i, reg) ==
    IF i.op # "TESTSET" THEN i
    ELSE IF reg # NO_REG /\ reg # i.b THEN [i EXCEPT !.a = reg]
    ELSE Instr("TEST", i.b, 0, i.c)

removevalues(fs, list) ==
    LET Patch(code, p) == [code EXCEPT ![getjumpcontrol(code, p) + 1] =
                                       patchtestreg(@, NO_REG)]
    IN  [fs EXCEPT !.code = Fold(Patch, @, list)]

\* Jumps that produce a value go to vtarget, the others to dtarget.
patchlistaux(fs, list, vtarget, reg, dtarget) ==
    LET Patch(code, p) ==
          LET c == getjumpcontrol(code, p) + 1
              dest == IF code[c].op = "TESTSET" THEN vtarget ELSE dtarget
              patched == [code EXCEPT ![c] = patchtestreg(@, reg)]
          IN  [patched EXCEPT ![p + 1].b = dest]
    IN  [fs EXCEPT !.code = Fold(Patch, @, list)]

dischargejpc(fs) ==
    [patchlistaux(fs, fs.jpc, PC(fs), NO_REG, PC(fs)) EXCEPT !.jpc = NO_JUMP]

luaK_code(fs, i) == [dischargejpc(fs) EXCEPT !.code = Append(@, i)]

luaK_codeABC(fs, op, a, b, c) == luaK_code(fs, Instr(op, a, b, c))

\* The new jump takes over the jumps that were waiting for this position.
luaK_jump(fs) ==
    [fs |-> luaK_codeABC([fs EXCEPT !.jpc = NO_JUMP], "JMP", 0, -1, 0),
     l |-> <<PC(fs)>> \o fs.jpc]

condjump(fs, op, a, b, c) == luaK_jump(luaK_codeABC(fs, op, a, b, c))

luaK_getlabel(fs) == [fs EXCEPT !.lasttarget = PC(fs)]

luaK_patchtohere(fs, list) == [luaK_getlabel(fs) EXCEPT !.jpc = @ \o list]

luaK_patchlist(fs, list, target) ==
    IF target = PC(fs) THEN luaK_patchtohere(fs, list)
    ELSE patchlistaux(Check(fs, target < PC(fs)), list, target, NO_REG, target)

luaK_ret(fs, first, nret) == luaK_codeABC(fs, "RETURN", first, nret + 1, 0)

\* Consecutive OP_LOADNILs are one, unless a jump may come between them.
luaK_nil(fs, from, n) ==
    LET prev == Code(fs, PC(fs) - 1)
        straight == PC(fs) > fs.lasttarget
        joined == /\ straight /\ PC(fs) > 0 /\ prev.op = "LOADNIL"
                  /\ prev.a <= from /\ from <= prev.b + 1
    IN  IF straight /\ PC(fs) = 0 /\ from >= fs.nactvar THEN fs
        ELSE IF joined
        THEN [fs EXCEPT !.code[PC(fs)].b = Max({@, from + n - 1})]
        ELSE luaK_codeABC(fs, "LOADNIL", from, from + n - 1, 0)

-----------------------------------------------------------------------------
(* Registers and constants.                                                *)

luaK_checkstack(fs, n) ==
    [fs EXCEPT !.maxstacksize = Max({@, fs.freereg + n})]

luaK_reserveregs(fs, n) == [luaK_checkstack(fs, n) EXCEPT !.freereg = @ + n]

freereg(fs, reg) ==
    IF ~ISK(reg) /\ reg >= fs.nactvar
    THEN Check([fs EXCEPT !.freereg = @ - 1], reg = fs.freereg - 1)
    ELSE fs

freeexp(fs, e) == IF e.k = "VNONRELOC" THEN freereg(fs, e.info) ELSE fs

\* The index of the constant v, and the FuncState that has it.
addk(fs, v) ==
    IF \E i \in DOMAIN fs.k : fs.k[i] = v
    THEN [fs |-> fs, n |-> (CHOOSE i \in DOMAIN fs.k : fs.k[i] = v) - 1]
    ELSE [fs |-> [fs EXCEPT !.k = Append(@, v)], n |-> Len(fs.k)]

luaK_setreturns(fs, e, nresults) ==
    CASE e.k = "VCALL" -> [fs EXCEPT !.code[e.info + 1].c = nresults + 1]
      [] e.k = "VVARARG" ->
           luaK_reserveregs([fs EXCEPT !.code[e.info + 1].b = nresults + 1,
                                       !.code[e.info + 1].a = fs.freereg], 1)
      [] OTHER -> fs

luaK_setoneret(fs, e) ==
    CASE e.k = "VCALL" ->
           R(fs, [e EXCEPT !.k = "VNONRELOC", !.info = Code(fs, e.info).a])
      [] e.k = "VVARARG" ->
           R([fs EXCEPT !.code[e.info + 1].b = 2], [e EXCEPT !.k = "VRELOCABLE"])
      [] OTHER -> R(fs, e)

-----------------------------------------------------------------------------
(* From descriptors to registers.                                          *)

luaK_dischargevars(fs, e) ==
    LET Load(s, op, b, c) ==
          R(luaK_codeABC(s, op, 0, b, c),
            [e EXCEPT !.k = "VRELOCABLE", !.info = PC(s)])
    IN  CASE e.k = "VLOCAL" -> R(fs, [e EXCEPT !.k = "VNONRELOC"])
          [] e.k = "VUPVAL" -> Load(fs, "GETUPVAL", e.info, 0)
          [] e.k = "VGLOBAL" -> Load(fs, "GETGLOBAL", e.info, 0)
          [] e.k = "VINDEXED" ->
               Load(freereg(freereg(fs, e.aux), e.info), "GETTABLE", e.info, e.aux)
          [] OTHER -> luaK_setoneret(fs, e)

discharge2reg(fs0, e0, reg) ==
    LET d == luaK_dischargevars(fs0, e0)
        fs == d.fs
        e == d.e
        kn == addk(fs, Num(e.info))
        done == [e EXCEPT !.info = reg, !.k = "VNONRELOC"]
    IN  CASE e.k = "VNIL" -> R(luaK_nil(fs, reg, 1), done)
          [] e.k \in {"VFALSE", "VTRUE"} ->
               R(luaK_codeABC(fs, "LOADBOOL", reg, IF e.k = "VTRUE" THEN 1 ELSE 0, 0),
                 done)
          [] e.k = "VK" -> R(luaK_codeABC(fs, "LOADK", reg, e.info, 0), done)
          [] e.k = "VKNUM" -> R(luaK_codeABC(kn.fs, "LOADK", reg, kn.n, 0), done)
          [] e.k = "VRELOCABLE" -> R([fs EXCEPT !.code[e.info + 1].a = reg], done)
          [] e.k = "VNONRELOC" ->
               R(IF reg # e.info THEN luaK_codeABC(fs, "MOVE", reg, e.info, 0) ELSE fs,
                 done)
          [] OTHER -> R(Check(fs, e.k \in {"VVOID", "VJMP"}), e)

discharge2anyreg(fs, e) ==
    IF e.k = "VNONRELOC" THEN R(fs, e)
    ELSE discharge2reg(luaK_reserveregs(fs, 1), e, fs.freereg)

\* The loads of false and true for the jumps that leave no value.
code_loads(fs, reg, isjmp) ==
    LET j == luaK_jump(fs)
        fj == IF isjmp THEN [fs |-> fs, l |-> NO_JUMP] ELSE j
        f == luaK_codeABC(luaK_getlabel(fj.fs), "LOADBOOL", reg, 0, 1)
        t == luaK_codeABC(luaK_getlabel(f), "LOADBOOL", reg, 1, 0)
    IN  [fs |-> luaK_patchtohere(t, fj.l), p_f |-> PC(fj.fs), p_t |-> PC(f)]

exp2reg(fs0, e0, reg) ==
    LET d == discharge2reg(fs0, e0, reg)
        e == IF d.e.k = "VJMP" THEN [d.e EXCEPT !.t = @ \o <<d.e.info>>] ELSE d.e
        loads == IF need_value(d.fs, e.t) \/ need_value(d.fs, e.f)
                 THEN code_loads(d.fs, reg, e.k = "VJMP")
                 ELSE [fs |-> d.fs, p_f |-> -1, p_t |-> -1]
        end == luaK_getlabel(loads.fs)
        f == patchlistaux(end, e.f, PC(end), reg, loads.p_f)
        t == patchlistaux(f, e.t, PC(end), reg, loads.p_t)
    IN  R(IF hasjumps(e) THEN t ELSE d.fs, Exp("VNONRELOC", reg))

luaK_exp2nextreg(fs, e) ==
    LET d == luaK_dischargevars(fs, e)
        s == luaK_reserveregs(freeexp(d.fs, d.e), 1)
    IN  exp2reg(s, d.e, s.freereg - 1)

luaK_exp2anyreg(fs, e) ==
    LET d == luaK_dischargevars(fs, e)
        inreg == d.e.k = "VNONRELOC"
    IN  IF inreg /\ ~hasjumps(d.e) THEN d
        ELSE IF inreg /\ d.e.info >= d.fs.nactvar THEN exp2reg(d.fs, d.e, d.e.info)
        ELSE luaK_exp2nextreg(d.fs, d.e)

luaK_exp2val(fs, e) ==
    IF hasjumps(e) THEN luaK_exp2anyreg(fs, e) ELSE luaK_dischargevars(fs, e)

Constant(e) == CASE e.k = "VNIL" -> Nil
                 [] e.k = "VKNUM" -> Num(e.info)
                 [] OTHER -> Bool(e.k = "VTRUE")

\* The result has the operand in field n.
luaK_exp2RK(fs, e) ==
    LET v == luaK_exp2val(fs, e)
        c == addk(v.fs, Constant(v.e))
        a == luaK_exp2anyreg(v.fs, v.e)
        fits == Len(v.fs.k) <= MAXINDEXRK
    IN  CASE v.e.k \in {"VKNUM", "VTRUE", "VFALSE", "VNIL"} /\ fits ->
               [fs |-> c.fs, e |-> [v.e EXCEPT !.k = "VK", !.info = c.n],
                n |-> RKASK(c.n)]
          [] v.e.k = "VK" /\ v.e.info <= MAXINDEXRK ->
               [fs |-> v.fs, e |-> v.e, n |-> RKASK(v.e.info)]
          [] OTHER -> [fs |-> a.fs, e |-> a.e, n |-> a.e.info]

luaK_storevar(fs, var, ex) ==
    LET a == luaK_exp2anyreg(fs, ex)
        rk == luaK_exp2RK(fs, ex)
    IN  CASE var.k = "VLOCAL" -> exp2reg(freeexp(fs, ex), ex, var.info).fs
          [] var.k = "VUPVAL" ->
               freeexp(luaK_codeABC(a.fs, "SETUPVAL", a.e.info, var.info, 0), a.e)
          [] var.k = "VGLOBAL" ->
               freeexp(luaK_codeABC(a.fs, "SETGLOBAL", a.e.info, var.info, 0), a.e)
          [] var.k = "VINDEXED" ->
               freeexp(luaK_codeABC(rk.fs, "SETTABLE", var.info, var.aux, rk.n), rk.e)

luaK_self(fs, e, key) ==
    LET a == luaK_exp2anyreg(fs, e)
        s == freeexp(a.fs, a.e)
        rk == luaK_exp2RK(luaK_reserveregs(s, 2), key)
        func == s.freereg
    IN  R(freeexp(luaK_codeABC(rk.fs, "SELF", func, a.e.info, rk.n), rk.e),
          [a.e EXCEPT !.k = "VNONRELOC", !.info = func])

luaK_indexed(fs, t, key) ==
    LET rk == luaK_exp2RK(fs, key)
    IN  R(rk.fs, [t EXCEPT !.aux = rk.n, !.k = "VINDEXED"])

-----------------------------------------------------------------------------
(* Conditions.                                                             *)

invertjump(fs, e) ==
    LET c == getjumpcontrol(fs.code, e.info)
    IN  Check([fs EXCEPT !.code[c + 1].a = 1 - @],
              Code(fs, c).op \in TMode \ {"TESTSET", "TEST"})

\* Jumps if e is cond (1: true); an OP_NOT just emitted is absorbed.
jumponcond(fs, e, cond) ==
    LET ie == Code(fs, e.info)
        absorbs == e.k = "VRELOCABLE" /\ ie.op = "NOT"
        d == discharge2anyreg(fs, e)
    IN  IF absorbs
        THEN condjump([fs EXCEPT !.code = Front(@)], "TEST", ie.b, 0, 1 - cond)
        ELSE condjump(freeexp(d.fs, d.e), "TESTSET", NO_REG, d.e.info, cond)

luaK_goiftrue(fs, e0) ==
    LET d == luaK_dischargevars(fs, e0)
        e == d.e
        j == CASE e.k \in {"VK", "VKNUM", "VTRUE"} -> [fs |-> d.fs, l |-> NO_JUMP]
               [] e.k = "VFALSE" -> luaK_jump(d.fs)
               [] e.k = "VJMP" -> [fs |-> invertjump(d.fs, e), l |-> <<e.info>>]
               [] OTHER -> jumponcond(d.fs, e, 0)
    IN  R(luaK_patchtohere(j.fs, e.t), [e EXCEPT !.f = @ \o j.l, !.t = NO_JUMP])

luaK_goiffalse(fs, e0) ==
    LET d == luaK_dischargevars(fs, e0)
        e == d.e
        j == CASE e.k \in {"VNIL", "VFALSE"} -> [fs |-> d.fs, l |-> NO_JUMP]
               [] e.k = "VTRUE" -> luaK_jump(d.fs)
               [] e.k = "VJMP" -> [fs |-> d.fs, l |-> <<e.info>>]
               [] OTHER -> jumponcond(d.fs, e, 1)
    IN  R(luaK_patchtohere(j.fs, e.f), [e EXCEPT !.t = @ \o j.l, !.f = NO_JUMP])

codenot(fs, e0) ==
    LET d == luaK_dischargevars(fs, e0)
        e == d.e
        a == discharge2anyreg(d.fs, e)
        s == freeexp(a.fs, a.e)
        r == CASE e.k \in {"VNIL", "VFALSE"} -> R(d.fs, [e EXCEPT !.k = "VTRUE"])
               [] e.k \in {"VK", "VKNUM", "VTRUE"} -> R(d.fs, [e EXCEPT !.k = "VFALSE"])
               [] e.k = "VJMP" -> R(invertjump(d.fs, e), e)
               [] e.k \in {"VRELOCABLE", "VNONRELOC"} ->
                    R(luaK_codeABC(s, "NOT", 0, a.e.info, 0),
                      [a.e EXCEPT !.k = "VRELOCABLE", !.info = PC(s)])
    IN  R(removevalues(removevalues(r.fs, r.e.t), r.e.f),
          [r.e EXCEPT !.f = r.e.t, !.t = r.e.f])

-----------------------------------------------------------------------------
(* Operators.                                                              *)

constfolding(op, e1, e2) == op # "LEN" /\ op # "CONCAT" /\ isnumeral(e1) /\ isnumeral(e2)

\* The operand in the higher register is freed first.
freeexps_inorder(fs, r1, r2) == freeexp(freeexp(fs, r1.e), r2.e)
freeexps(fs, r1, r2) ==
    IF r1.n > r2.n THEN freeexp(freeexp(fs, r1.e), r2.e)
    ELSE freeexp(freeexp(fs, r2.e), r1.e)

codearith(fs, op, e1, e2) ==
    LET r2 == IF op \in {"UNM", "LEN"} THEN [fs |-> fs, e |-> e2, n |-> 0]
              ELSE luaK_exp2RK(fs, e2)
        r1 == luaK_exp2RK(r2.fs, e1)
        s == freeexps(r1.fs, r1, r2)
    IN  IF constfolding(op, e1, e2)
        THEN R(fs, [e1 EXCEPT !.info = Arith(op, e1.info, e2.info)])
        ELSE R(luaK_codeABC(s, op, 0, r1.n, r2.n),
               [r1.e EXCEPT !.k = "VRELOCABLE", !.info = PC(s)])

\* > and >= are < and <= with their operands exchanged.
codecomp(fs, op, cond, e1, e2) ==
    LET r1 == luaK_exp2RK(fs, e1)
        r2 == luaK_exp2RK(r1.fs, e2)
        s == freeexp(freeexp(r2.fs, r2.e), r1.e)
        swap == cond = 0 /\ op # "EQ"
        j == condjump(s, op, IF swap THEN 1 ELSE cond,
                      IF swap THEN r2.n ELSE r1.n, IF swap THEN r1.n ELSE r2.n)
    IN  R(j.fs, [r1.e EXCEPT !.k = "VJMP", !.info = Head(j.l)])

luaK_prefix(fs, op, e) ==
    LET zero == Exp("VKNUM", 0)
        a == IF op = "not" \/ (op = "-" /\ isnumeral(e)) THEN R(fs, e)
             ELSE luaK_exp2anyreg(fs, e)
    IN  CASE op = "not" -> codenot(fs, e)
          [] op = "-" -> codearith(a.fs, "UNM", a.e, zero)
          [] op = "#" -> codearith(a.fs, "LEN", a.e, zero)

luaK_infix(fs, op, v) ==
    CASE op = "and" -> luaK_goiftrue(fs, v)
      [] op = "or" -> luaK_goiffalse(fs, v)
      [] op = ".." -> luaK_exp2nextreg(fs, v)
      [] op \in {"+", "-", "*"} /\ isnumeral(v) -> R(fs, v)
      [] OTHER -> LET rk == luaK_exp2RK(fs, v) IN R(rk.fs, rk.e)

\* a .. (b .. c) is one OP_CONCAT.
codeconcat(fs, e1, e2) ==
    LET v == luaK_exp2val(fs, e2)
        c == Code(v.fs, v.e.info)
        joins == v.e.k = "VRELOCABLE" /\ c.op = "CONCAT"
        n == luaK_exp2nextreg(v.fs, v.e)
    IN  IF joins
        THEN R([freeexp(Check(v.fs, e1.info = c.b - 1), e1)
                  EXCEPT !.code[v.e.info + 1].b = e1.info],
               [e1 EXCEPT !.k = "VRELOCABLE", !.info = v.e.info])
        ELSE codearith(n.fs, "CONCAT", e1, n.e)

luaK_posfix(fs, op, e1, e2) ==
    LET d == luaK_dischargevars(fs, e2)
    IN  CASE op = "and" -> R(Check(d.fs, e1.t = NO_JUMP), [d.e EXCEPT !.f = @ \o e1.f])
          [] op = "or" -> R(Check(d.fs, e1.f = NO_JUMP), [d.e EXCEPT !.t = @ \o e1.t])
          [] op = ".." -> codeconcat(fs, e1, e2)
          [] op = "+" -> codearith(fs, "ADD", e1, e2)
          [] op = "-" -> codearith(fs, "SUB", e1, e2)
          [] op = "*" -> codearith(fs, "MUL", e1, e2)
          [] op = "==" -> codecomp(fs, "EQ", 1, e1, e2)
          [] op = "~=" -> codecomp(fs, "EQ", 0, e1, e2)
          [] op = "<" -> codecomp(fs, "LT", 1, e1, e2)
          [] op = "<=" -> codecomp(fs, "LE", 1, e1, e2)
          [] op = ">" -> codecomp(fs, "LT", 0, e1, e2)
          [] op = ">=" -> codecomp(fs, "LE", 0, e1, e2)

\* Stores the `tostore' values above `base', items up to `nelems'.
luaK_setlist(fs, base, nelems, tostore, perflush) ==
    [luaK_codeABC(fs, "SETLIST", base, IF tostore = LUA_MULTRET THEN 0 ELSE tostore,
                  (nelems - 1) \div perflush + 1)
       EXCEPT !.freereg = base + 1]
=============================================================================
