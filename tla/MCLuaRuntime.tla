--------------------------- MODULE MCLuaRuntime -----------------------------
(* The smaller components, each on its own: `part' tells which one a       *)
(* behaviour is of.  Most have variables of their own, which stay as they  *)
(* begin in the other parts; some share s1, s2, ..., of which those that   *)
(* a part does not use are 0.                                              *)
EXTENDS MCLuaNext, LuaMeta, LuaStrings, LuaRef, LuaSort, LuaRequire, LuaIO, LuaFinalizers, LuaBuffer

CONSTANTS
    Parts,          \* the components to check
    Patterns, Subjects, LUA_MAXCAPTURES,                          \* LuaMatch
    Protos, ChunkSizes, LUAI_MAXCCALLS                            \* LuaDump

VARIABLES part, s1, s2, s3, s4, s5, s6, s7, s8

Match == INSTANCE LuaMatch WITH subj <- s1, pat <- s2, loop <- s3, src <- s4, out <- s5, over <-
                                s6, init <- s7, max_s <- s8
Dump == INSTANCE LuaDump WITH proto <- s1, strip <- s2, chunk <- s3, bytes <- s4, result <- s5

H(c) == c

\* Patterns: all of up to two items, and captures with items in and after them.
One == {<<"one", c, r>> : c \in {{"a"}, {"a", "b"}}, r \in {"", "?", "*", "+", "-"}}
Special == {<<"(">>, <<")">>, <<"()">>, <<"ref", 1>>, <<"bal", "a", "b">>, <<"front", {"a"}>>, <<"$">>}
Items == One \cup Special
Lazy == {<<"one", {"a"}, "*">>, <<"one", {"a", "b"}, "-">>, <<"one", {"a", "b"}, "?">>}
SomePatterns ==
  {<<>>} \cup {<<x>> : x \in Items} \cup (Items \X Items)
  \cup {<<<<"(">>, x, <<")">>, y, z>> : x \in Lazy, y \in Items, z \in {<<"$">>, <<"ref", 1>>}}
  \cup {<<<<"(">>, x, <<"(">>, y, <<")">>, <<")">>, <<"ref", 2>>, z>> : x, y \in Lazy, z \in Lazy}
  \cup {<<<<"^">>, x, y>> : x \in One, y \in Lazy \cup {<<"$">>, <<"(">>}} \cup {<<<<"^">>>>}
AllSubjects == UNION {[1 .. n -> {"a", "b"}] : n \in 0 .. 3}

Leaf(src, k, dbg) ==
  [source |-> src, linedefined |-> 17, lastlinedefined |-> 18, nups |-> 1, numparams |-> 0,
   is_vararg |-> 2, maxstacksize |-> 3, code |-> <<5, 30>>, k |-> k, p |-> <<>>,
   lineinfo |-> dbg, locvars |-> <<<<<<120>>, 0, 1>>>>, upvalues |-> <<<<121>>>>]
Consts == <<<<"nil", 0>>, <<"boolean", 0>>, <<"boolean", 1>>, <<"number", 33>>,
            <<"string", <<>>>>, <<"string", <<97, 98>>>>>>
Nest(f, src) == [Leaf(src, <<>>, <<1, 2>>) EXCEPT !.p = <<f, Leaf(src, <<>>, <<>>)>>]
Src == <<64, 97>>
SomeProtos == {Leaf(Src, Consts, <<1, 2>>), Nest(Leaf(Src, Consts, <<>>), Src),
               Nest(Leaf(<<>>, <<>>, <<7>>), Src),
               Nest(Nest(Nest(Leaf(Src, <<>>, <<>>), Src), Src), Src)}

\* The variables that each component leaves alone.
traversalVars == <<vars, travVars>>
shared == <<s1, s2, s3, s4, s5, s6, s7, s8>>
after5 == <<s6, s7, s8>>
own == <<traversalVars, metaVars, strVars, refVars, sortVars, reqVars, ioVars, finVars, bufVars>>

NoOperation ==
  /\ evs = {} /\ raw = <<>> /\ meta = <<>> /\ gmt = None
  /\ flags = [t1 \in Tables |-> {}] /\ op = Idle /\ want = NoResult
RInit ==
  /\ part \in Parts
  /\ TInit /\ (part # "next" => hash = CHOOSE h \in HashFunctions : TRUE)
  /\ strInit /\ refInit /\ ioInit /\ finInit /\ bufInit
  /\ sort /\ (part # "sort" => DOMAIN a = {0, 1} /\ rank = Lawless)
  /\ IF part = "meta" THEN metaInit ELSE NoOperation
  /\ reqInit /\ (part # "require" => globals = [n \in Names |-> "nil"])
  /\ \/ part = "match" /\ Match!matchInit
     \/ part = "dump" /\ Dump!dumpInit /\ s6 = 0 /\ s7 = 0 /\ s8 = 0
     \/ part \notin {"match", "dump"}
        /\ s1 = 0 /\ s2 = 0 /\ s3 = 0 /\ s4 = 0 /\ s5 = 0 /\ s6 = 0 /\ s7 = 0 /\ s8 = 0
\* The variables of the other components stay as they are.
Others(name) ==
  /\ name # "next" => UNCHANGED traversalVars
  /\ name # "meta" => UNCHANGED metaVars
  /\ name # "strings" => UNCHANGED strVars
  /\ name # "refs" => UNCHANGED refVars
  /\ name # "sort" => UNCHANGED sortVars
  /\ name # "require" => UNCHANGED reqVars
  /\ name # "io" => UNCHANGED ioVars
  /\ name # "finalizers" => UNCHANGED finVars
  /\ name # "buffers" => UNCHANGED bufVars
RNext ==
  /\ UNCHANGED part
  /\ Others(part)
  /\ \/ /\ UNCHANGED shared
        /\ \/ part = "next" /\ TNext
           \/ part = "meta" /\ metaNext
           \/ part = "strings" /\ strNext
           \/ part = "refs" /\ refNext
           \/ part = "sort" /\ auxsort
           \/ part = "require" /\ reqNext
           \/ part = "io" /\ ioNext
           \/ part = "finalizers" /\ finNext
           \/ part = "buffers" /\ bufNext
     \/ part = "match" /\ Match!matchNext
     \/ part = "dump" /\ Dump!dumpNext /\ UNCHANGED after5
RSpec == RInit /\ [][RNext]_<<part, own, shared>>

-----------------------------------------------------------------------------
(* The properties of the components whose variables are shared; the others    *)
(* have theirs in their own modules.                                          *)

\* match finds the first way in which the pattern matches, with the captures of
\* that way alone, after any backtracking; find, gmatch and gsub pass over no
\* match and report none twice; gsub puts out every character of the subject
\* once, also after empty matches.
MatchesRight ==
  part = "match" => Match!MatchRight /\ Match!ScanRight /\ Match!GsubWhole

\* luaU_undump gives back what luaU_dump wrote, however the reader cuts it, and
\* refuses, with its error, a chunk that ends early anywhere, has another header
\* or nests too deep.
ChunksRight == part = "dump" => Dump!RoundTrip /\ Dump!Refuses
=============================================================================
