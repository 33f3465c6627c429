------------------------------ MODULE LuaDump -------------------------------
(***************************************************************************)
(* Precompiled chunks of Lua 5.1.4: luaU_dump (ldump.c) writes a function   *)
(* as bytes, luaU_undump (lundump.c) reads them through a buffered stream   *)
(* (lzio.c), whose reader may cut them anywhere and may end too early.      *)
(*                                                                         *)
(* An int, a size, a number and an instruction take two bytes, in base 16. *)
(* A string is a sequence of bytes, or NoString for NULL.                  *)
(***************************************************************************)
EXTENDS LuaValues, SequencesExt

CONSTANTS
    Protos,             \* the functions dumped
    ChunkSizes,         \* what the reader may return at once
    LUAI_MAXCCALLS

VARIABLES
    proto, strip,
    chunk,      \* the bytes the reader returns at a time
    bytes,      \* what it has in all
    result      \* what luaU_undump gives

dumpVars == <<proto, strip, chunk, bytes, result>>

NoString == <<-1>>
Unknown == <<61, 63>>       \* "=?"
Base == 16
Pending == [err |-> "pending"]

-----------------------------------------------------------------------------
(* ldump.c                                                                 *)

luaU_header == <<27, 76, 81, 0, 1>>

DumpChar(c) == <<c>>
DumpInt(n) == <<n % Base, n \div Base>>
DumpString(s) == IF s = NoString THEN DumpInt(0)
                 ELSE DumpInt(Len(s) + 1) \o s \o <<0>>
\* The size of a vector and its elements, as Dump writes them.
DumpVector(Dump(_), v) == DumpInt(Len(v)) \o FlattenSeq([i \in DOMAIN v |-> Dump(v[i])])

DumpConstant(o) ==
    CASE o[1] = "nil" -> DumpChar(0)
      [] o[1] = "boolean" -> DumpChar(1) \o DumpChar(o[2])
      [] o[1] = "number" -> DumpChar(3) \o DumpInt(o[2])
      [] o[1] = "string" -> DumpChar(4) \o DumpString(o[2])
DumpLocVar(v) == DumpString(v[1]) \o DumpInt(v[2]) \o DumpInt(v[3])
DumpDebug(f, strp) ==
    LET unless(v) == IF strp THEN <<>> ELSE v
    IN  DumpVector(DumpInt, unless(f.lineinfo)) \o DumpVector(DumpLocVar, unless(f.locvars))
        \o DumpVector(DumpString, unless(f.upvalues))

\* p is the source of the function that f is in.
RECURSIVE DumpFunction(_, _, _)
DumpSource(f, p, strp) == DumpString(IF f.source = p \/ strp THEN NoString ELSE f.source)
DumpFunction(f, p, strp) ==
    DumpSource(f, p, strp)
    \o DumpInt(f.linedefined) \o DumpInt(f.lastlinedefined)
    \o DumpChar(f.nups) \o DumpChar(f.numparams) \o DumpChar(f.is_vararg)
    \o DumpChar(f.maxstacksize)
    \o DumpVector(DumpInt, f.code) \o DumpVector(DumpConstant, f.k)
    \o DumpVector(LAMBDA g : DumpFunction(g, f.source, strp), f.p)
    \o DumpDebug(f, strp)
luaU_dump(f, strp) == luaU_header \o DumpFunction(f, NoString, strp)

-----------------------------------------------------------------------------
(* lzio.c: z is [pos, n], the bytes taken from the reader and those of them *)
(* still unread.                                                           *)

\* luaZ_lookahead: luaZ_fill asks the reader when no byte is left.
luaZ_lookahead(z) ==
    LET more == IF Len(bytes) - z.pos < chunk THEN Len(bytes) - z.pos ELSE chunk
    IN  IF z.n > 0 THEN z ELSE [pos |-> z.pos + more, n |-> more]
luaZ_read_once(z, n, b) ==
    LET y == luaZ_lookahead(z)
        m == IF n <= y.n THEN n ELSE y.n
    IN  [z |-> [y EXCEPT !.n = @ - m],
         b |-> SubSeq(bytes, y.pos - y.n + 1, y.pos - y.n + m) \o [i \in 1 .. n - m |-> 0]]
RECURSIVE luaZ_read(_, _, _)
\* The n next bytes after those in b; fewer at the end of the stream.
luaZ_read(z, n, b) ==
    IF n = 0 THEN [z |-> z, b |-> b]
    ELSE LET y == luaZ_lookahead(z)
             m == IF n <= y.n THEN n ELSE y.n
         IN  IF y.n = 0 THEN [z |-> y, b |-> b]
             ELSE luaZ_read([y EXCEPT !.n = @ - m], n - m,
                            b \o SubSeq(bytes, y.pos - y.n + 1, y.pos - y.n + m))
-----------------------------------------------------------------------------
(* lundump.c: a load gives the stream after it, the value v and the error. *)

Loaded(S, v) == [S EXCEPT !.v = v]
Throw(S, why) == [S EXCEPT !.err = why]
\* What follows a load that succeeds
Then(r, Next(_)) == IF r.err # "" THEN r ELSE Next(r)
LoadBlock(S, n) ==
    LET Checked(r) == IF Len(r.b) < n THEN Throw(S, "unexpected end")
                      ELSE [S EXCEPT !.z = r.z, !.v = r.b]
    IN  Checked(luaZ_read(S.z, n, <<>>))
LoadByte(S) == Then(LoadBlock(S, 1), LAMBDA r : Loaded(r, r.v[1]))
LoadInt(S) == Then(LoadBlock(S, 2), LAMBDA r : Loaded(r, r.v[1] + Base * r.v[2]))
\* The byte 0 at the end of a string is not part of it.
LoadText(S, size) ==
    IF size = 0 THEN Loaded(S, NoString)
    ELSE Then(LoadBlock(S, size), LAMBDA r : Loaded(r, Front(r.v)))
LoadString(S) == Then(LoadInt(S), LAMBDA r : LoadText(r, r.v))

\* LoadAll loads a value of each of the kinds in turn: v is their sequence.
RECURSIVE LoadAll(_, _, _, _), Load(_, _, _)
LoadAll(S, kinds, p, vs) ==
    IF kinds = <<>> THEN Loaded(S, vs)
    ELSE CHOOSE z \in {Then(r, LAMBDA x : LoadAll(x, Tail(kinds), p, Append(vs, x.v)))
                       : r \in {Load(S, Head(kinds), p)}} : TRUE
LoadVector(S, kind, p) ==
    Then(LoadInt(S), LAMBDA n : LoadAll(n, [i \in 1 .. n.v |-> kind], p, <<>>))
LoadConstant(t) ==
    CASE t.v = 0 -> Loaded(t, Nil)
      [] t.v = 1 -> Then(LoadByte(t), LAMBDA r : Loaded(r, Bool(r.v # 0)))
      [] t.v = 3 -> Then(LoadInt(t), LAMBDA r : Loaded(r, Num(r.v)))
      [] t.v = 4 -> Then(LoadString(t), LAMBDA r : Loaded(r, Str(r.v)))
      [] OTHER -> Throw(t, "bad constant")

luaG_checkcode(f) == f.code # <<>> /\ Last(f.code) = 30     \* ends with OP_RETURN
LoadHead == <<"string", "int", "int", "byte", "byte", "byte", "byte">>
LoadCode == <<"code", "constants", "functions">>
LoadDebug == <<"lineinfo", "locvars", "upvalues">>
Function(source, h, v) ==
    [source |-> source, linedefined |-> h[2], lastlinedefined |-> h[3], nups |-> h[4],
     numparams |-> h[5], is_vararg |-> h[6], maxstacksize |-> h[7], code |-> v[1], k |-> v[2],
     p |-> v[3], lineinfo |-> v[4], locvars |-> v[5], upvalues |-> v[6]]
Closed(S, f) == IF luaG_checkcode(f) THEN [S EXCEPT !.v = f, !.depth = @ - 1]
                ELSE Throw(S, "bad code")
Body(S, source) ==
    Then(LoadAll(S, LoadCode \o LoadDebug, source, <<>>),
         LAMBDA r : Closed(r, Function(source, S.v, r.v)))
\* p is the source of the function that this one is in.
LoadFunction(S, p) ==
    IF S.depth >= LUAI_MAXCCALLS THEN Throw(S, "code too deep")
    ELSE Then(LoadAll([S EXCEPT !.depth = @ + 1], LoadHead, p, <<>>),
              LAMBDA h : Body(h, IF h.v[1] = NoString THEN p ELSE h.v[1]))
Load(S, kind, p) ==
    CASE kind = "byte" -> LoadByte(S)
      [] kind = "int" -> LoadInt(S)
      [] kind = "string" -> LoadString(S)
      [] kind = "constant" -> Then(LoadByte(S), LoadConstant)
      [] kind = "locvar" -> LoadAll(S, <<"string", "int", "int">>, p, <<>>)
      [] kind = "function" -> LoadFunction(S, p)
      [] kind \in {"code", "lineinfo"} -> LoadVector(S, "int", p)
      [] kind = "constants" -> LoadVector(S, "constant", p)
      [] kind = "functions" -> LoadVector(S, "function", p)
      [] kind = "locvars" -> LoadVector(S, "locvar", p)
      [] kind = "upvalues" -> LoadVector(S, "string", p)
LoadHeader_any(S) == LoadBlock(S, Len(luaU_header))
LoadHeader(S) == Then(LoadBlock(S, Len(luaU_header)),
                      LAMBDA h : IF h.v = luaU_header THEN h ELSE Throw(h, "bad header"))
luaU_undump ==
    Then(LoadHeader([z |-> [pos |-> 0, n |-> 0], v |-> 0, err |-> "", depth |-> 0]),
         LAMBDA h : LoadFunction(h, Unknown))

dumpInit ==
    /\ proto \in Protos /\ strip \in BOOLEAN /\ chunk \in ChunkSizes
    /\ \E d \in {luaU_dump(proto, strip)} :
         \/ \E n \in 0 .. Len(d) : bytes = SubSeq(d, 1, n)
         \/ bytes = [d EXCEPT ![3] = 80]                    \* another version
    /\ result = Pending
Undump ==
    /\ result = Pending
    /\ result' = luaU_undump
    /\ UNCHANGED <<proto, strip, chunk, bytes>>
dumpNext == Undump

-----------------------------------------------------------------------------
(* Properties.                                                             *)

RECURSIVE Stripped(_), Depth(_)
Stripped(f) == [f EXCEPT !.source = Unknown, !.lineinfo = <<>>, !.locvars = <<>>,
                         !.upvalues = <<>>, !.p = [i \in DOMAIN f.p |-> Stripped(f.p[i])]]
Depth(f) == 1 + (IF f.p = <<>> THEN 0 ELSE Depth(f.p[1]))
Whole == Len(bytes) = Len(luaU_dump(proto, strip))

\* A chunk read again is the function that was dumped, without its debug
\* information if that was stripped, however the reader cuts it, and nothing
\* is read after it.
RoundTrip ==
    result # Pending /\ bytes = luaU_dump(proto, strip) /\ Depth(proto) <= LUAI_MAXCCALLS =>
      /\ result.err = ""
      /\ result.v = IF strip THEN Stripped(proto) ELSE proto
      /\ result.depth = 0 /\ result.z.pos - result.z.n = Len(bytes)

\* A chunk that ends too early, wherever that is, that has another header, or
\* functions nested too deep, is refused with that error.
Refuses ==
    /\ result # Pending /\ ~Whole =>
         result.err = "unexpected end" \/ (result.err = "code too deep" /\ Depth(proto) > LUAI_MAXCCALLS)
    /\ result # Pending /\ Whole /\ bytes # luaU_dump(proto, strip) => result.err = "bad header"
    /\ result # Pending /\ Whole /\ Depth(proto) > LUAI_MAXCCALLS => result.err # ""
=============================================================================
