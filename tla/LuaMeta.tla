------------------------------ MODULE LuaMeta -------------------------------
(***************************************************************************)
(* Metamethods of Lua 5.1.4: indexing and assignment through __index and   *)
(* __newindex, the operators (lvm.c), calls (ldo.c), and the cache of      *)
(* absent metamethods in the flags of a metatable (ltm.c, ltable.c).       *)
(*                                                                         *)
(* luaV_gettable and luaV_settable follow a chain of tables with a pointer *)
(* `t' to a TValue: a local, or a slot of the metatable the last handler   *)
(* was found in, which a rehash of that table makes stale.  A called       *)
(* metamethod is part of the result; what it does is the program's.        *)
(***************************************************************************)
EXTENDS LuaValues, FiniteSets

CONSTANTS
    Tables, Functions,
    MAXTAGLOOP,     \* limit of a chain of handlers
    SelfMeta,       \* whether a table may be its own metatable
    SelfNewindex    \* whether a table may be its own __newindex

VARIABLES
    evs,    \* the events the metatables have
    raw,    \* raw[t][k]: the entries of table t
    meta,   \* metatable of a table, or None
    gmt,    \* metatable of the strings (G(L)->mt)
    flags,  \* flags[t]: the events cached as absent from t
    op,     \* the operation being executed
    want    \* what the manual says it does

metaVars == <<evs, raw, meta, gmt, flags, op, want>>

None == "none"
ASSUME MetaAssumption ==
    Functions # {} /\ None \notin Tables /\ MAXTAGLOOP \in Nat
    /\ SelfMeta \in BOOLEAN /\ SelfNewindex \in BOOLEAN

Junk == Value("junk", 0)
Idle == [kind |-> "idle"]
Tab(t) == Value("table", t)
Fun(f) == Value("function", f)
\* The operands of the program; a string is the sequence of its characters.
Operands == {Tab(t) : t \in Tables} \cup {Num(1), Str(<<"1">>), Str(<<"s">>)}
FastEvents == {"index", "newindex", "eq"}
EventSets == {{"index"}, {"newindex"}, {"eq"}, {"add"}, {"lt", "le"}, {"concat"},
              {"call", "len"}}
IsTable(v) == v[1] = "table"
IsFun(v) == v[1] = "function"

\* Results: a value, a call of a metamethod (its value for the operation, or
\* its negation), an error.
ValueOf(v) == <<"value", v>>
CallOf(f, as) == <<"call", f, as>>
NotCallOf(f, as) == <<"notcall", f, as>>
Raise == <<"error">>
NoResult == <<"pending">>

-----------------------------------------------------------------------------
(* ltm.c.                                                                  *)

metatable(v) == CASE IsTable(v) -> meta[v[2]]
                  [] v[1] = "string" -> gmt
                  [] OTHER -> None

\* luaH_getstr; the events that evs leaves out are in no table.
Entry(mt, e) == IF e \in evs THEN raw[mt][e] ELSE Nil

luaT_gettmbyobj(v, e) == IF metatable(v) = None THEN Nil ELSE Entry(metatable(v), e)

\* The value of fasttm, and the flags after it.
fasttm(fl, mt, e) == IF mt = None \/ e \in fl[mt] THEN Nil ELSE Entry(mt, e)
Cached(fl, mt, e) ==
    IF mt # None /\ Entry(mt, e) = Nil THEN [fl EXCEPT ![mt] = @ \cup {e}] ELSE fl

-----------------------------------------------------------------------------
(* Indexing and assignment.                                                *)

Deref(p) == CASE p[1] = "local" -> p[2]
              [] p[1] = "slot" -> raw[p[2]][p[3]]
              [] p[1] = "stale" -> Junk

Result(r) == op' = [op EXCEPT !.res = r]
Pending(kind) == op.kind = kind /\ op.res = NoResult
\* The chain goes on with the handler in the metatable of v.
Follow(v, e) == op' = [op EXCEPT !.t = <<"slot", metatable(v), e>>, !.loop = @ + 1]
CallOrFollow(v, e, tm, args) ==
    \/ IsFun(tm) /\ Result(CallOf(tm, args))
    \/ ~IsFun(tm) /\ Follow(v, e)

GetFound(v) ==
    /\ IsTable(v) /\ raw[v[2]][op.key] # Nil
    /\ Result(ValueOf(raw[v[2]][op.key])) /\ UNCHANGED flags
GetAbsent(v) ==
    /\ IsTable(v) /\ raw[v[2]][op.key] = Nil
    /\ flags' = Cached(flags, meta[v[2]], "index")
    /\ LET tm == fasttm(flags, meta[v[2]], "index")
       IN  \/ tm = Nil /\ Result(ValueOf(Nil))
           \/ tm # Nil /\ CallOrFollow(v, "index", tm, <<v, op.key>>)
GetOther(v) ==
    /\ ~IsTable(v) /\ UNCHANGED flags
    /\ LET tm == luaT_gettmbyobj(v, "index")
       IN  \/ tm = Nil /\ Result(Raise)
           \/ tm # Nil /\ CallOrFollow(v, "index", tm, <<v, op.key>>)
luaV_gettable ==
    /\ Pending("get")
    /\ \/ op.loop = MAXTAGLOOP /\ Result(Raise) /\ UNCHANGED flags
       \/ /\ op.loop < MAXTAGLOOP
          /\ \/ GetFound(Deref(op.t)) \/ GetAbsent(Deref(op.t)) \/ GetOther(Deref(op.t))
    /\ UNCHANGED <<evs, raw, meta, gmt, want>>

\* luaH_set: the flags are reset, and a new key may make the table h rehash,
\* which moves its slots.
luaH_set_keepflags(fl, h) == fl
luaH_set(fl, h) == [fl EXCEPT ![h] = {}]
Moved(p, h) == IF p[1] = "slot" /\ p[2] = h THEN <<"stale">> ELSE p

SetRaw(h) == raw' = [raw EXCEPT ![h][op.key] = op.val] /\ Result(ValueOf(Nil))
SetTable_always(h, p) ==
    LET old == raw[h][op.key]
        fl == luaH_set(flags, h)
        tm == fasttm(fl, meta[h], "newindex")
    IN  /\ flags' = IF old # Nil THEN fl ELSE Cached(fl, meta[h], "newindex")
        /\ \/ tm = Nil /\ SetRaw(h)
           \/ /\ tm # Nil
              /\ CallOrFollow(Tab(h), "newindex", tm, <<Deref(p), op.key, op.val>>)
              /\ UNCHANGED raw
SetTable(h, p) ==
    LET old == raw[h][op.key]
        fl == luaH_set(flags, h)
        tm == fasttm(fl, meta[h], "newindex")
    IN  /\ flags' = IF old # Nil THEN fl ELSE Cached(fl, meta[h], "newindex")
        /\ \/ (old # Nil \/ tm = Nil) /\ SetRaw(h)
           \/ /\ old = Nil /\ tm # Nil
              /\ CallOrFollow(Tab(h), "newindex", tm, <<Deref(p), op.key, op.val>>)
              /\ UNCHANGED raw
SetOther(v) ==
    /\ UNCHANGED <<flags, raw>>
    /\ LET tm == luaT_gettmbyobj(v, "newindex")
       IN  \/ tm = Nil /\ Result(Raise)
           \/ tm # Nil /\ CallOrFollow(v, "newindex", tm, <<v, op.key, op.val>>)
luaV_settable ==
    /\ Pending("set")
    /\ \/ op.loop = MAXTAGLOOP /\ Result(Raise) /\ UNCHANGED <<flags, raw>>
       \/ /\ op.loop < MAXTAGLOOP
          /\ \E v \in {Deref(op.t)} :
               \/ IsTable(v) /\ \E p \in {op.t, Moved(op.t, v[2])} : SetTable(v[2], p)
               \/ ~IsTable(v) /\ SetOther(v)
    /\ UNCHANGED <<evs, meta, gmt, want>>

-----------------------------------------------------------------------------
(* Operators.                                                              *)

luaV_tonumber(v) == IF v = Str(<<"1">>) THEN Num(1) ELSE v     \* the only numeral
Coercible(v) == luaV_tonumber(v)[1] = "number"
Joinable(v) == v[1] \in {"string", "number"}
tostring(v) == IF v[1] = "number" THEN Str(<<"1">>) ELSE v     \* the only number

call_binTM(x, y, e) ==
    LET tm == IF luaT_gettmbyobj(x, e) # Nil THEN luaT_gettmbyobj(x, e)
              ELSE luaT_gettmbyobj(y, e)
    IN  IF tm = Nil THEN Raise ELSE CallOf(tm, <<x, y>>)

ArithOp(x, y) ==
    IF Coercible(x) /\ Coercible(y)
    THEN ValueOf(Num(Arith("ADD", luaV_tonumber(x)[2], luaV_tonumber(y)[2])))
    ELSE call_binTM(x, y, "add")

\* No handler: NoResult.
call_orderTM(x, y, e) ==
    LET tm == luaT_gettmbyobj(x, e)
    IN  IF tm = Nil \/ luaT_gettmbyobj(y, e) # tm THEN NoResult ELSE CallOf(tm, <<x, y>>)

StrLess(x, y) == x = Str(<<"1">>) /\ y = Str(<<"s">>)    \* l_strcmp
luaV_lessthan(x, y) ==
    LET lt == call_orderTM(x, y, "lt")
    IN  IF x[1] # y[1] THEN Raise
        ELSE IF x[1] = "number" THEN ValueOf(Bool(x[2] < y[2]))
        ELSE IF x[1] = "string" THEN ValueOf(Bool(StrLess(x, y)))
        ELSE IF lt # NoResult THEN lt ELSE Raise
lessequal_unswapped(x, y) ==
    LET le == call_orderTM(x, y, "le")
        lt == call_orderTM(x, y, "lt")
    IN  IF x[1] # y[1] THEN Raise
        ELSE IF x[1] = "number" THEN ValueOf(Bool(x[2] <= y[2]))
        ELSE IF x[1] = "string" THEN ValueOf(Bool(x = y \/ StrLess(x, y)))
        ELSE IF le # NoResult THEN le
        ELSE IF lt # NoResult THEN NotCallOf(lt[2], lt[3]) ELSE Raise
lessequal(x, y) ==
    LET le == call_orderTM(x, y, "le")
        lt == call_orderTM(y, x, "lt")
    IN  IF x[1] # y[1] THEN Raise
        ELSE IF x[1] = "number" THEN ValueOf(Bool(x[2] <= y[2]))
        ELSE IF x[1] = "string" THEN ValueOf(Bool(x = y \/ StrLess(x, y)))
        ELSE IF le # NoResult THEN le
        ELSE IF lt # NoResult THEN NotCallOf(lt[2], lt[3]) ELSE Raise

get_compTM(mt1, mt2) ==
    LET fl == Cached(flags, mt1, "eq")
        tm1 == fasttm(flags, mt1, "eq")
        tm2 == fasttm(fl, mt2, "eq")
        both == tm1 # Nil /\ mt1 # mt2
    IN  [tm |-> IF mt1 = mt2 \/ tm1 = tm2 THEN tm1 ELSE Nil,
         flags |-> IF both THEN Cached(fl, mt2, "eq") ELSE fl]
luaV_equalval(x, y) ==
    IF x[1] # y[1] \/ x = y \/ ~IsTable(x) THEN [res |-> ValueOf(Bool(x = y)), flags |-> flags]
    ELSE LET c == get_compTM(meta[x[2]], meta[y[2]])
         IN  [res |-> IF c.tm = Nil THEN ValueOf(Bool(FALSE)) ELSE CallOf(c.tm, <<x, y>>),
              flags |-> c.flags]

OpLen(x) == CASE IsTable(x) -> ValueOf(Num(0))
              [] x[1] = "string" -> ValueOf(Num(1))
              [] OTHER -> call_binTM(x, Nil, "len")

\* luaD_precall and tryfuncTM, for the call of x with the argument y.
tryfuncTM(x, y) ==
    LET tm == luaT_gettmbyobj(x, "call")
    IN  IF IsFun(x) THEN CallOf(x, <<y>>)
        ELSE IF IsFun(tm) THEN CallOf(tm, <<x, y>>)
        ELSE Raise

\* luaV_concat, one pass of its loop a step: op.vs are the operands on the stack,
\* the last on top; a handler gives the string "h".  A pass takes the last two,
\* or all the strings at the end.
Strings(vs) == Cardinality({k \in 1 .. Len(vs) : \A j \in k .. Len(vs) : Joinable(vs[j])})
JoinLast(vs, n) ==
    LET J[k \in 0 .. n] ==
          IF k = 0 THEN <<>> ELSE tostring(vs[Len(vs) - k + 1])[2] \o J[k - 1]
    IN  J
Pass(n, v, calls) ==
    op' = [op EXCEPT !.vs = Append(SubSeq(@, 1, Len(@) - n), v), !.calls = calls]
PassTM(x, y) ==
    LET tm == call_binTM(x, y, "concat")
    IN  /\ ~Joinable(x) \/ ~Joinable(y)
        /\ IF tm = Raise THEN Result(Raise) ELSE Pass(2, Str(<<"h">>), Append(op.calls, tm))
PassStrings(x, y) ==
    /\ Joinable(x) /\ Joinable(y)
    /\ IF tostring(y) = Str(<<>>) THEN Pass(2, tostring(x), op.calls)
       ELSE LET n == Strings(op.vs) IN Pass(n, Str(JoinLast(op.vs, n)[n]), op.calls)
luaV_concat ==
    LET n == Len(op.vs)
    IN  /\ Pending("concat")
        /\ \/ n > 1 /\ (PassTM(op.vs[n - 1], op.vs[n]) \/ PassStrings(op.vs[n - 1], op.vs[n]))
           \/ n = 1 /\ Result(<<"joined", op.vs[1], op.calls>>)
    /\ UNCHANGED <<evs, raw, meta, gmt, flags, want>>

-----------------------------------------------------------------------------
(* What the manual says (section 2.8).                                     *)

Handler(v, e) == IF metatable(v) = None THEN Nil ELSE Entry(metatable(v), e)
\* Where the chain of handlers of e that starts with v ends: the first value
\* that has the key, or whose handler is a function or nil; Nil after n of them.
Repeats(v, key, e) ==
    /\ Handler(v, e) # Nil /\ ~IsFun(Handler(v, e))
    /\ ~(IsTable(v) /\ raw[v[2]][key] # Nil)
ChainEnd(key, e) ==
    LET G[n \in 0 .. MAXTAGLOOP] ==
          [v \in Operands |-> IF n = 0 THEN Nil
                              ELSE IF Repeats(v, key, e) THEN G[n - 1][Handler(v, e)] ELSE v]
    IN  G
gettable_event(v, key, n) ==
    LET w == ChainEnd(key, "index")[n][v]
        h == Handler(w, "index")
    IN  IF w = Nil THEN Raise
        ELSE IF IsTable(w) /\ raw[w[2]][key] # Nil THEN ValueOf(raw[w[2]][key])
        ELSE IF h # Nil THEN CallOf(h, <<w, key>>)
        ELSE IF IsTable(w) THEN ValueOf(Nil) ELSE Raise
\* The result, and the table that gets the value.
settable_event(v, key, x, n) ==
    LET w == ChainEnd(key, "newindex")[n][v]
        h == Handler(w, "newindex")
    IN  IF w = Nil THEN [res |-> Raise, at |-> None]
        ELSE IF IsTable(w) /\ (raw[w[2]][key] # Nil \/ h = Nil)
        THEN [res |-> ValueOf(Nil), at |-> w[2]]
        ELSE [res |-> IF h = Nil THEN Raise ELSE CallOf(h, <<w, key, x>>), at |-> None]
\* From the right, two operands at a time: the result of the last n + 1 of them.
Pair(x, r) ==
    LET y == r[2]
        h == IF Handler(x, "concat") # Nil THEN Handler(x, "concat") ELSE Handler(y, "concat")
    IN  IF r = Raise THEN Raise
        ELSE IF Joinable(x) /\ Joinable(y)
        THEN <<"joined", Str(tostring(x)[2] \o tostring(y)[2]), r[3]>>
        ELSE IF h = Nil THEN Raise ELSE <<"joined", Str(<<"h">>), Append(r[3], CallOf(h, <<x, y>>))>>
concat_event(vs, calls) ==
    LET R[n \in 0 .. Len(vs) - 1] ==
          IF n = 0 THEN <<"joined", vs[Len(vs)], calls>> ELSE Pair(vs[Len(vs) - n], R[n - 1])
    IN  R
getbinhandler(x, y, e) == IF Handler(x, e) # Nil THEN Handler(x, e) ELSE Handler(y, e)
getcomphandler(x, y, e) ==
    IF x[1] = y[1] /\ Handler(x, e) = Handler(y, e) THEN Handler(x, e) ELSE Nil
Called(h, as) == IF h = Nil THEN Raise ELSE CallOf(h, as)
Meaning(kind, x, y) ==
    LET le == getcomphandler(x, y, "le")
        lt == getcomphandler(y, x, "lt")
        less == x[1] = y[1] /\ x[1] \in {"number", "string"}
    IN  CASE kind = "add" -> IF Coercible(x) /\ Coercible(y) THEN ValueOf(Num(2))
                             ELSE Called(getbinhandler(x, y, "add"), <<x, y>>)
          [] kind = "eq" -> IF x[1] # y[1] \/ x = y THEN ValueOf(Bool(x = y))
                            ELSE IF IsTable(x) /\ getcomphandler(x, y, "eq") # Nil
                            THEN CallOf(getcomphandler(x, y, "eq"), <<x, y>>)
                            ELSE ValueOf(Bool(FALSE))
          [] kind = "lt" -> IF less THEN ValueOf(Bool(StrLess(x, y)))
                            ELSE Called(getcomphandler(x, y, "lt"), <<x, y>>)
          [] kind = "le" -> IF less THEN ValueOf(Bool(x = y \/ StrLess(x, y)))
                            ELSE IF le # Nil THEN CallOf(le, <<x, y>>)
                            ELSE IF lt # Nil THEN NotCallOf(lt, <<y, x>>) ELSE Raise
          [] kind = "call" -> IF IsFun(x) THEN CallOf(x, <<y>>)
                              ELSE Called(Handler(x, "call"), <<x, y>>)
          [] kind = "len" -> IF IsTable(x) THEN ValueOf(Num(0))
                             ELSE IF x[1] = "string" THEN ValueOf(Num(1))
                             ELSE Called(Handler(x, "len"), <<x, Nil>>)

-----------------------------------------------------------------------------
(* The program.                                                            *)

\* The fields that matter: "x" is what is indexed.
KeysOf(e) == e \cup (IF e \subseteq {"index", "newindex"} THEN {"x"} ELSE {})
\* What the entry k of the table t may be.
Entries(t, k) ==
    CASE k = "x" -> {Nil, Num(1)}
      [] k \in {"index", "newindex"} ->
           {Nil, Fun(CHOOSE f \in Functions : TRUE)}
           \cup {Tab(u) : u \in IF k = "newindex" /\ ~SelfNewindex THEN Tables \ {t} ELSE Tables}
      [] OTHER -> {Nil} \cup {Fun(f) : f \in Functions}
Metatables(t) == {None} \cup (IF SelfMeta THEN Tables ELSE Tables \ {t})

metaInit ==
    /\ evs \in EventSets
    /\ raw \in [Tables -> UNION {[KeysOf(evs) -> UNION {Entries(t, k) : k \in KeysOf(evs)}]
                                 : t \in Tables}]
    /\ \A t \in Tables : \A k \in KeysOf(evs) : raw[t][k] \in Entries(t, k)
    /\ meta \in [Tables -> {None} \cup Tables] /\ \A t \in Tables : meta[t] \in Metatables(t)
    /\ gmt \in {None} \cup Tables
    /\ flags = [t \in Tables |-> {}]
    /\ op = Idle /\ want = NoResult

SetMetatable ==
    /\ op = Idle
    /\ \E t \in Tables : \E mt \in Metatables(t) : meta' = [meta EXCEPT ![t] = mt]
    /\ UNCHANGED <<evs, raw, gmt, flags, op, want>>

lua_rawset ==
    /\ op = Idle
    /\ \E t \in Tables, k \in KeysOf(evs) : \E x \in Entries(t, k) :
         raw' = [raw EXCEPT ![t][k] = x] /\ flags' = luaH_set(flags, t)
    /\ UNCHANGED <<evs, meta, gmt, op, want>>

StartGet ==
    /\ op = Idle /\ evs = {"index"}
    /\ \E v \in Operands \ {Str(<<"1">>)} :
         /\ op' = [kind |-> "get", t |-> <<"local", v>>, key |-> "x", loop |-> 0,
                   res |-> NoResult]
         /\ want' = gettable_event(v, "x", MAXTAGLOOP)
    /\ UNCHANGED <<evs, raw, meta, gmt, flags>>

StartSet ==
    /\ op = Idle /\ evs \subseteq {"index", "newindex"}
    /\ \E v \in Operands \ {Num(1), Str(<<"1">>)}, k \in KeysOf(evs) :
         \E x \in UNION {Entries(t, k) : t \in Tables} :
           LET r == settable_event(v, k, x, MAXTAGLOOP)
           IN  /\ r.at # None => x \in Entries(r.at, k)
               /\ op' = [kind |-> "set", t |-> <<"local", v>>, key |-> k, val |-> x,
                         loop |-> 0, res |-> NoResult]
               /\ want' = <<r.res, IF r.at = None THEN raw ELSE [raw EXCEPT ![r.at][k] = x]>>
    /\ UNCHANGED <<evs, raw, meta, gmt, flags>>

Operator(kind, x, y, res, fl) ==
    /\ op = Idle
    /\ op' = [kind |-> kind, x |-> x, y |-> y, res |-> res]
    /\ want' = Meaning(kind, x, y)
    /\ flags' = fl
    /\ UNCHANGED <<evs, raw, meta, gmt>>
Arithmetic ==
    /\ evs = {"add"}
    /\ \E x, y \in Operands : Operator("add", x, y, ArithOp(x, y), flags)
Equality ==
    /\ evs = {"eq"}
    /\ \E x, y \in Operands : \E r \in {luaV_equalval(x, y)} : Operator("eq", x, y, r.res, r.flags)
Order ==
    /\ evs = {"lt", "le"}
    /\ \E x, y \in Operands : \/ Operator("lt", x, y, luaV_lessthan(x, y), flags)
                              \/ Operator("le", x, y, lessequal(x, y), flags)
CallValue ==
    /\ evs = {"call", "len"}
    /\ \E x \in Operands \cup {Fun(f) : f \in Functions} :
         \/ Operator("call", x, Num(1), tryfuncTM(x, Num(1)), flags)
         \/ Operator("len", x, Nil, OpLen(x), flags)
Concatenation ==
    /\ evs = {"concat"} /\ op = Idle
    /\ \E x, z \in Operands, y \in Operands \cup {Str(<<>>)} :
         /\ op' = [kind |-> "concat", vs |-> <<x, y, z>>, calls |-> <<>>, res |-> NoResult]
         /\ want' = concat_event(<<x, y, z>>, <<>>)[2]
    /\ UNCHANGED <<evs, raw, meta, gmt, flags>>

Finish ==
    /\ op # Idle /\ op.res # NoResult
    /\ op' = Idle /\ want' = NoResult
    /\ UNCHANGED <<evs, raw, meta, gmt, flags>>

metaNext ==
    \/ SetMetatable \/ lua_rawset \/ StartGet \/ StartSet
    \/ luaV_gettable \/ luaV_settable \/ luaV_concat
    \/ Arithmetic \/ Equality \/ Order \/ CallValue \/ Concatenation \/ Finish

metaSpec == metaInit /\ [][metaNext]_metaVars

-----------------------------------------------------------------------------
(* Properties.                                                             *)

\* A bit of the flags of a metatable means that the metamethod is not present
\* (lobject.h), whatever was assigned, and through whatever, since it was set.
CacheRight == \A t \in Tables : \A e \in flags[t] : Entry(t, e) = Nil

\* Indexing and assignment end as section 2.8 of the manual says, the chain of
\* handlers followed with pointers into tables that the assignment may rehash.
IndexRight ==
    /\ op.kind = "get" /\ op.res # NoResult => op.res = want
    /\ op.kind = "set" /\ op.res # NoResult => <<op.res, raw>> = want

\* Operators and calls use the handler that section 2.8 of the manual says,
\* with its operands in its order, and negate its result where it says so.
OperatorRight ==
    /\ op.kind \in {"add", "eq", "lt", "le", "call", "len"} => op.res = want
    /\ op.kind = "concat" /\ op.res # NoResult => op.res = want

\* A metamethod is called, or not, as section 2.8 of the manual says: flags never
\* hides one that is there (luaT_gettm); luaV_gettable and luaV_settable end
\* where the manual does, though `t' may point into a table that luaH_set
\* rehashes; the operators choose the handler and its operands (call_binTM,
\* call_orderTM, luaV_equalval, luaV_concat, tryfuncTM).
HandlersRight == CacheRight /\ IndexRight /\ OperatorRight
=============================================================================
