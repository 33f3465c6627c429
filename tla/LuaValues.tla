----------------------------- MODULE LuaValues ------------------------------
(***************************************************************************)
(* Values (lobject.h) and instructions (lopcodes.h) of Lua 5.1.4, shared   *)
(* by the code generator, the code checker and the virtual machine.        *)
(* Numbers are integers; a jump holds its target in field b.               *)
(***************************************************************************)
EXTENDS Integers, Sequences

Value(t, v) == <<t, v>>
Nil == Value("nil", 0)
Bool(b) == Value("boolean", IF b THEN 1 ELSE 0)
Num(n) == Value("number", n)
Str(s) == Value("string", s)
IsFalse(v) == v = Nil \/ v = Bool(FALSE)      \* l_isfalse

Instr(op, a, b, c) == [op |-> op, a |-> a, b |-> b, c |-> c]
TMode == {"EQ", "LT", "LE", "TEST", "TESTSET", "TFORLOOP"}  \* testTMode
NO_REG == 255
BITRK == 256
LUA_MULTRET == -1
ISK(x) == x >= BITRK
RKASK(x) == x + BITRK

Arith(op, x, y) == CASE op = "ADD" -> x + y [] op = "SUB" -> x - y
                     [] op = "MUL" -> x * y [] op = "UNM" -> 0 - x

Upto(n) == [j \in 1 .. n |-> j]
=============================================================================
