------------------------------ MODULE LuaCheck ------------------------------
(***************************************************************************)
(* The code checker of Lua 5.1.4 (ldebug.c, luaG_checkcode), which accepts *)
(* the prototypes that luaV_execute can run safely: every operand names a  *)
(* register of the frame, a constant, an upvalue, a jump target or a       *)
(* prototype that exists, and an instruction that sets top is followed by  *)
(* one that uses it.                                                       *)
(***************************************************************************)
EXTENDS LuaValues

MAXSTACK == 250

\* luaP_opmodes: how the operands b and c of an instruction are used.
ABx == {"LOADK", "GETGLOBAL", "SETGLOBAL", "CLOSURE"}
AsBx == {"JMP", "FORLOOP", "FORPREP"}
getBMode(op) ==
    CASE op \in {"MOVE", "LOADNIL", "GETTABLE", "SELF", "UNM", "NOT", "LEN", "CONCAT",
                 "TESTSET"} \cup AsBx -> "OpArgR"
      [] op \in {"SETTABLE", "ADD", "SUB", "MUL", "EQ", "LT", "LE", "LOADK",
                 "GETGLOBAL", "SETGLOBAL"} -> "OpArgK"
      [] op \in {"TEST", "TFORLOOP", "CLOSE"} -> "OpArgN"
      [] OTHER -> "OpArgU"
getCMode(op) ==
    CASE op \in {"GETTABLE", "SETTABLE", "SELF", "ADD", "SUB", "MUL", "EQ", "LT",
                 "LE"} -> "OpArgK"
      [] op = "CONCAT" -> "OpArgR"
      [] op \in {"LOADBOOL", "NEWTABLE", "TEST", "TESTSET", "CALL", "TAILCALL",
                 "TFORLOOP", "SETLIST"} -> "OpArgU"
      [] OTHER -> "OpArgN"

checkreg(pt, reg) == reg < pt.maxstacksize

checkArgMode(pt, r, m) ==
    CASE m = "OpArgN" -> r = 0
      [] m = "OpArgU" -> TRUE
      [] m = "OpArgR" -> checkreg(pt, r)
      [] m = "OpArgK" -> IF ISK(r) THEN r - BITRK < Len(pt.k) ELSE checkreg(pt, r)

precheck(pt) ==
    /\ pt.maxstacksize <= MAXSTACK
    /\ pt.numparams + (IF "HASARG" \in pt.is_vararg THEN 1 ELSE 0) <= pt.maxstacksize
    /\ "NEEDSARG" \in pt.is_vararg => "HASARG" \in pt.is_vararg
    /\ Len(pt.code) > 0 /\ pt.code[Len(pt.code)].op = "RETURN"

luaG_checkopenop(i) == i.op \in {"CALL", "TAILCALL", "RETURN", "SETLIST"} /\ i.b = 0

\* What symbexec asks of the instruction at position pc.
checkinstr(pt, pc) ==
    LET i == pt.code[pc + 1]
        next == pt.code[pc + 2]
        sizecode == Len(pt.code)
        skips == pc + 2 < sizecode
    IN  /\ checkreg(pt, i.a)
        /\ CASE i.op \in ABx -> getBMode(i.op) = "OpArgK" => i.b < Len(pt.k)
             [] i.op \in AsBx -> 0 <= i.b /\ i.b < sizecode
             [] OTHER -> /\ checkArgMode(pt, i.b, getBMode(i.op))
                         /\ checkArgMode(pt, i.c, getCMode(i.op))
        /\ i.op \in TMode => skips /\ next.op = "JMP"
        /\ CASE i.op = "LOADBOOL" -> i.c = 1 => skips
             [] i.op \in {"GETUPVAL", "SETUPVAL"} -> i.b < pt.nups
             [] i.op \in {"GETGLOBAL", "SETGLOBAL"} -> pt.k[i.b + 1][1] = "string"
             [] i.op = "SELF" -> checkreg(pt, i.a + 1)
             [] i.op = "CONCAT" -> i.b < i.c
             [] i.op = "TFORLOOP" -> i.c >= 1 /\ checkreg(pt, i.a + 2 + i.c)
             [] i.op \in {"FORLOOP", "FORPREP"} -> checkreg(pt, i.a + 3)
             [] i.op \in {"CALL", "TAILCALL"} ->
                  /\ i.b # 0 => checkreg(pt, i.a + i.b - 1)
                  /\ IF i.c = 0 THEN luaG_checkopenop(next)
                     ELSE i.c > 1 => checkreg(pt, i.a + i.c - 2)
             [] i.op = "RETURN" -> i.b > 1 => checkreg(pt, i.a + i.b - 2)
             [] i.op = "SETLIST" -> checkreg(pt, i.a + i.b)
             [] i.op = "CLOSURE" ->
                  /\ i.b < Len(pt.p)
                  /\ LET nup == pt.p[i.b + 1].nups
                     IN  /\ pc + nup < sizecode
                         /\ \A j \in 1 .. nup :
                              pt.code[pc + 1 + j].op \in {"GETUPVAL", "MOVE"}
             [] i.op = "VARARG" ->
                  /\ "ISVARARG" \in pt.is_vararg /\ "NEEDSARG" \notin pt.is_vararg
                  /\ i.b = 0 => luaG_checkopenop(next)
                  /\ checkreg(pt, i.a + i.b - 2)
             [] OTHER -> TRUE

luaG_checkcode(pt) ==
    precheck(pt) /\ \A pc \in 0 .. Len(pt.code) - 1 : checkinstr(pt, pc)

\* LoadFunction checks every function of a chunk.
RECURSIVE checkall(_)
checkall(pt) == luaG_checkcode(pt) /\ \A j \in DOMAIN pt.p : checkall(pt.p[j])
=============================================================================
