--------------------------- MODULE LuaMeta_proofs ---------------------------
(***************************************************************************)
(* Metamethods are found and called as the manual says.  The invariant     *)
(* says of the operation being executed that what is left of it, followed  *)
(* as the manual does from where `t' points or from the operands on the    *)
(* stack, gives what the manual gave for the whole when it began; and that *)
(* the flags of a table cache the absence of nothing that is there.        *)
(***************************************************************************)
EXTENDS LuaMeta, WellFoundedInduction, FiniteSetTheorems, TLAPS

-----------------------------------------------------------------------------
(* Recursive functions over 0 .. N.                                        *)

\* A set of natural numbers has a least member.
LEMMA LeastMember ==
  ASSUME NEW S \in SUBSET Nat, S # {}
  PROVE  \E x \in S : \A y \in S : x <= y
<1> DEFINE R == OpToRel(<, Nat)
<1>1. \E x \in S : \A y \in S : ~(<<y, x>> \in R)
  <2>1. IsWellFoundedOn(R, Nat) BY NatLessThanWellFounded
  <2> HIDE DEF R
  <2> QED BY <2>1, WFMin
<1>2. \A x, y \in Nat : <<y, x>> \in R <=> y < x BY DEF OpToRel
<1> HIDE DEF R
<1>3. PICK x \in S : \A y \in S : ~(<<y, x>> \in R) BY <1>1
<1>4. \A y \in S : ~(y < x) BY <1>2, <1>3, Zenon
<1> QED BY <1>4
\* Applying step[1], step[2], ... to x0.
LEMMA Iterates ==
  ASSUME NEW N \in Nat, NEW X, NEW x0 \in X, NEW step \in [1 .. N -> [X -> X]]
  PROVE  \E G : /\ DOMAIN G = 0 .. N /\ G = [n \in 0 .. N |-> IF n = 0 THEN x0 ELSE step[n][G[n - 1]]]
                /\ \A n \in 0 .. N : G[n] \in X
<1> DEFINE Solves(G, n) == /\ G = [k \in 0 .. n |-> IF k = 0 THEN x0 ELSE step[k][G[k - 1]]]
                           /\ \A k \in 0 .. n : G[k] \in X
           Solvable(n) == \E G : Solves(G, n)
           Bad == {n \in 0 .. N : ~Solvable(n)}
<1>1. Solvable(0)
  <2> DEFINE H == [k \in 0 .. 0 |-> x0]
  <2>1. H = [k \in 0 .. 0 |-> IF k = 0 THEN x0 ELSE step[k][H[k - 1]]] OBVIOUS
  <2>2. \A k \in 0 .. 0 : H[k] \in X OBVIOUS
  <2> HIDE DEF H
  <2> QED BY <2>1, <2>2
<1>2. ASSUME NEW n \in 1 .. N, Solvable(n - 1) PROVE Solvable(n)
  <2>1. PICK G : Solves(G, n - 1) BY <1>2
  <2> DEFINE H == [k \in 0 .. n |-> IF k = n THEN step[n][G[n - 1]] ELSE G[k]]
  <2>2. \A k \in 0 .. n - 1 : G[k] = (IF k = 0 THEN x0 ELSE step[k][G[k - 1]]) /\ G[k] \in X
    <3>1. G = [k \in 0 .. n - 1 |-> IF k = 0 THEN x0 ELSE step[k][G[k - 1]]] BY <2>1
    <3>2. \A k \in 0 .. n - 1 : G[k] \in X BY <2>1
    <3> QED BY <3>1, <3>2
  <2>3. step[n][G[n - 1]] \in X BY <2>2
  <2>4. ASSUME NEW k \in 0 .. n
        PROVE  H[k] = (IF k = 0 THEN x0 ELSE step[k][H[k - 1]]) /\ H[k] \in X
    <3>1. CASE k = 0 BY <3>1, <2>2
    <3>2. CASE k # 0
      <4>1. k - 1 \in 0 .. n - 1 /\ k - 1 \in 0 .. n /\ H[k - 1] = G[k - 1] BY <3>2
      <4>2. CASE k = n BY <4>1, <4>2, <2>3
      <4>3. CASE k # n
        <5>1. k \in 0 .. n - 1 BY <4>3
        <5> QED BY <5>1, <4>1, <4>3, <3>2, <2>2
      <4> QED BY <4>2, <4>3
    <3> QED BY <3>1, <3>2
  <2>5. H = [k \in 0 .. n |-> H[k]] OBVIOUS
  <2> HIDE DEF H
  <2>6. H = [k \in 0 .. n |-> IF k = 0 THEN x0 ELSE step[k][H[k - 1]]] BY <2>4, <2>5
  <2> QED BY <2>4, <2>6
<1>3. Bad = {}
  <2> HIDE DEF Solvable
  <2>1. SUFFICES ASSUME Bad # {} PROVE FALSE OBVIOUS
  <2>2. PICK m \in Bad : \A y \in Bad : m <= y
    <3>1. Bad \in SUBSET Nat OBVIOUS
    <3> QED BY <2>1, <3>1, LeastMember
  <2>3. m \in 1 .. N BY <1>1, <2>2
  <2>4. m - 1 \in 0 .. N /\ m - 1 \notin Bad BY <2>2, <2>3
  <2> QED BY <1>2, <2>2, <2>3, <2>4
<1>4. Solvable(N) BY <1>3
<1> QED BY <1>4

-----------------------------------------------------------------------------
(* Values, tables and flags.                                               *)

\* What the program keeps in its tables.
Things == {Nil, Num(1)} \cup {Fun(f) : f \in Functions} \cup {Tab(t) : t \in Tables}
MetaTyped ==
  /\ evs \in EventSets
  /\ raw \in [Tables -> [KeysOf(evs) -> Things]]
  /\ \A t \in Tables, k \in KeysOf(evs) : raw[t][k] \in Entries(t, k)
  /\ meta \in [Tables -> Tables \cup {None}] /\ \A t \in Tables : meta[t] # t
  /\ gmt \in Tables \cup {None}
\* No bit of fl hides an event.
Honest(fl) == fl \in [Tables -> SUBSET FastEvents] /\ \A t \in Tables : \A e \in fl[t] : Entry(t, e) = Nil

\* The types of values are disjoint.
LEMMA ValueFacts ==
  /\ \A t, r : Tab(t) = Tab(r) => t = r
  /\ \A t : IsTable(Tab(t)) /\ ~IsFun(Tab(t)) /\ Tab(t)[2] = t /\ Tab(t)[1] = "table" /\ Tab(t) # Nil
  /\ \A f : IsFun(Fun(f)) /\ ~IsTable(Fun(f)) /\ Fun(f) # Nil /\ Fun(f)[1] = "function"
  /\ ~IsTable(Nil) /\ ~IsFun(Nil) /\ Nil[1] = "nil"
  /\ \A n : ~IsTable(Num(n)) /\ ~IsFun(Num(n)) /\ Num(n) # Nil /\ Num(n)[1] = "number" /\ Num(n)[2] = n
  /\ \A s : ~IsTable(Str(s)) /\ ~IsFun(Str(s)) /\ Str(s) # Nil /\ Str(s)[1] = "string" /\ Str(s)[2] = s
BY DEF Tab, Fun, Nil, Num, Str, Value, IsTable, IsFun

\* No operand is nil or a function.
LEMMA OperandFacts ==
  /\ \A v \in Operands : v # Nil /\ ~IsFun(v) /\ v[1] \in {"table", "number", "string"}
  /\ \A v \in Operands : IsTable(v) => v[2] \in Tables /\ v = Tab(v[2])
  /\ \A t \in Tables : Tab(t) \in Operands
BY ValueFacts DEF Operands

\* The handler of a value: nil, or in its metatable.
LEMMA HandlerIs ==
  ASSUME MetaTyped, NEW v, IsTable(v) => v[2] \in Tables, NEW e
  PROVE  /\ Handler(v, e) = luaT_gettmbyobj(v, e)
         /\ metatable(v) \in Tables \cup {None}
         /\ Handler(v, e) # Nil => /\ metatable(v) \in Tables /\ e \in evs /\ e \in KeysOf(evs)
                                   /\ Handler(v, e) = raw[metatable(v)][e]
                                   /\ Handler(v, e) \in Entries(metatable(v), e)
<1>1. Handler(v, e) = luaT_gettmbyobj(v, e) BY DEF Handler, luaT_gettmbyobj
<1>2. metatable(v) \in Tables \cup {None} BY DEF metatable, MetaTyped
<1>3. ASSUME Handler(v, e) # Nil
      PROVE  /\ metatable(v) \in Tables /\ e \in evs /\ e \in KeysOf(evs)
             /\ Handler(v, e) = raw[metatable(v)][e]
             /\ Handler(v, e) \in Entries(metatable(v), e)
  <2>1. metatable(v) # None /\ e \in evs /\ Handler(v, e) = raw[metatable(v)][e]
    BY <1>3 DEF Handler, Entry
  <2>2. e \in KeysOf(evs) BY <2>1 DEF KeysOf
  <2> QED BY <1>2, <2>1, <2>2 DEF MetaTyped
<1> QED BY <1>1, <1>2, <1>3

\* What Entries allows for events.
LEMMA EntryKinds ==
  ASSUME NEW t \in Tables
  PROVE  /\ \A e \in {"index", "newindex"} : \A h \in Entries(t, e) :
              h = Nil \/ (IsFun(h) /\ h # Nil)
              \/ (h # Nil /\ ~IsFun(h) /\ IsTable(h) /\ h[2] \in Tables /\ h = Tab(h[2]))
         /\ ~SelfNewindex => \A h \in Entries(t, "newindex") : h # Tab(t)
         /\ \A e \in {"eq", "add", "lt", "le", "concat", "call", "len"} : \A h \in Entries(t, e) :
              h = Nil \/ (IsFun(h) /\ h # Nil)
         /\ \A e : Entries(t, e) \subseteq Things
<1>1. (CHOOSE f \in Functions : TRUE) \in Functions BY MetaAssumption
<1>2. ASSUME NEW e \in {"index", "newindex"}, NEW h \in Entries(t, e)
      PROVE  \/ h = Nil \/ (\E f \in Functions : h = Fun(f))
             \/ \E w \in Tables : h = Tab(w) /\ (e = "newindex" /\ ~SelfNewindex => w # t)
  BY <1>1, <1>2 DEF Entries
<1>3. ASSUME NEW e, NEW h \in Entries(t, e), e \notin {"index", "newindex"}
      PROVE  (h \in {Nil, Num(1)} /\ e = "x") \/ h = Nil \/ \E f \in Functions : h = Fun(f)
  BY <1>3 DEF Entries
<1>4. \A e : Entries(t, e) \subseteq Things
  <2> SUFFICES ASSUME NEW e, NEW h \in Entries(t, e) PROVE h \in Things OBVIOUS
  <2>1. CASE e \in {"index", "newindex"} BY <1>2, <2>1 DEF Things
  <2>2. CASE e \notin {"index", "newindex"} BY <1>3, <2>2 DEF Things
  <2> QED BY <2>1, <2>2
<1>5. \A e \in {"index", "newindex"} : \A h \in Entries(t, e) :
        h = Nil \/ (IsFun(h) /\ h # Nil)
        \/ (h # Nil /\ ~IsFun(h) /\ IsTable(h) /\ h[2] \in Tables /\ h = Tab(h[2]))
  <2> SUFFICES ASSUME NEW e \in {"index", "newindex"}, NEW h \in Entries(t, e)
               PROVE  h = Nil \/ (IsFun(h) /\ h # Nil)
                      \/ (h # Nil /\ ~IsFun(h) /\ IsTable(h) /\ h[2] \in Tables /\ h = Tab(h[2]))
    OBVIOUS
  <2> QED BY <1>2, ValueFacts
<1>6. ~SelfNewindex => \A h \in Entries(t, "newindex") : h # Tab(t)
  BY <1>2, ValueFacts
<1>7. ASSUME NEW e \in {"eq", "add", "lt", "le", "concat", "call", "len"}, NEW h \in Entries(t, e)
      PROVE h = Nil \/ (IsFun(h) /\ h # Nil)
  <2>1. e \notin {"index", "newindex"} /\ e # "x" OBVIOUS
  <2> QED BY <2>1, <1>3, ValueFacts
<1> QED BY <1>4, <1>5, <1>6, <1>7

\* The flags tell the truth: fasttm finds what luaH_getstr would find.
LEMMA FastIs ==
  ASSUME NEW fl, Honest(fl), NEW mt \in Tables \cup {None}, NEW e
  PROVE  fasttm(fl, mt, e) = IF mt = None THEN Nil ELSE Entry(mt, e)
BY DEF fasttm, Honest

\* luaT_gettm caches the absence of what is absent.
LEMMA CachedHonest ==
  ASSUME NEW fl, Honest(fl), NEW mt \in Tables \cup {None}, NEW e \in FastEvents
  PROVE  /\ Honest(Cached(fl, mt, e))
         /\ \A t \in Tables : t # mt => Cached(fl, mt, e)[t] = fl[t]
<1>1. CASE mt # None /\ Entry(mt, e) = Nil
  <2>1. Cached(fl, mt, e) = [fl EXCEPT ![mt] = @ \cup {e}] BY <1>1 DEF Cached
  <2> QED BY <1>1, <2>1 DEF Honest
<1>2. CASE ~(mt # None /\ Entry(mt, e) = Nil)
  BY <1>2 DEF Cached
<1> QED BY <1>1, <1>2

-----------------------------------------------------------------------------
(* Indexing and assignment.                                                *)

\* ChainEnd is the recursion it is written as.
LEMMA ChainIs ==
  ASSUME MetaTyped, NEW key, NEW e \in {"index", "newindex"}
  PROVE  /\ \A v \in Operands : ChainEnd(key, e)[0][v] = Nil
         /\ \A n \in 1 .. MAXTAGLOOP, v \in Operands :
              ChainEnd(key, e)[n][v] =
                IF Repeats(v, key, e) THEN ChainEnd(key, e)[n - 1][Handler(v, e)] ELSE v
<1> DEFINE N == MAXTAGLOOP
           Body(g) == [v \in Operands |-> IF Repeats(v, key, e) THEN g[Handler(v, e)] ELSE v]
           X == [Operands -> Operands \cup {Nil}]
           x0 == [v \in Operands |-> Nil]
           step == [n \in 1 .. N |-> [g \in X |-> Body(g)]]
           Rec(G) == [n \in 0 .. N |->
                       [v \in Operands |-> IF n = 0 THEN Nil
                                           ELSE IF Repeats(v, key, e) THEN G[n - 1][Handler(v, e)] ELSE v]]
<1>1. ASSUME NEW v \in Operands, Repeats(v, key, e) PROVE Handler(v, e) \in Operands
  <2>1. IsTable(v) => v[2] \in Tables BY OperandFacts
  <2>2. Handler(v, e) # Nil /\ ~IsFun(Handler(v, e)) BY <1>1 DEF Repeats
  <2>3. metatable(v) \in Tables /\ Handler(v, e) \in Entries(metatable(v), e) BY <2>1, <2>2, HandlerIs
  <2> QED BY <2>2, <2>3, EntryKinds, OperandFacts
<1>2. ASSUME NEW g \in X PROVE Body(g) \in X
  <2>1. \A v \in Operands : (IF Repeats(v, key, e) THEN g[Handler(v, e)] ELSE v) \in Operands \cup {Nil}
    BY <1>1
  <2> QED BY <2>1
<1>3. N \in Nat /\ x0 \in X /\ step \in [1 .. N -> [X -> X]]
  <2> HIDE DEF Body, X
  <2>1. step \in [1 .. N -> [X -> X]] BY <1>2
  <2> QED BY <2>1, MetaAssumption DEF X
<1>4. PICK G : /\ G = [n \in 0 .. N |-> IF n = 0 THEN x0 ELSE step[n][G[n - 1]]]
               /\ \A n \in 0 .. N : G[n] \in X
  <2> HIDE DEF X, x0, step, N
  <2> QED BY <1>3, Iterates
<1>5. \E F : F = Rec(F)
  <2>1. ASSUME NEW n \in 0 .. N
        PROVE  G[n] = [v \in Operands |-> IF n = 0 THEN Nil
                                          ELSE IF Repeats(v, key, e) THEN G[n - 1][Handler(v, e)] ELSE v]
    <3>1. G[n] = IF n = 0 THEN x0 ELSE step[n][G[n - 1]] BY <1>4
    <3>2. CASE n = 0 BY <3>1, <3>2
    <3>3. CASE n # 0
      <4>1. n \in 1 .. N /\ n - 1 \in 0 .. N BY <3>3, <1>3
      <4>2. G[n - 1] \in X BY <4>1, <1>4
      <4> HIDE DEF X, Body
      <4>3. step[n][G[n - 1]] = Body(G[n - 1]) BY <4>1, <4>2
      <4>4. G[n] = Body(G[n - 1]) BY <3>1, <3>3, <4>3
      <4> QED BY <4>4, <3>3 DEF Body
    <3> QED BY <3>2, <3>3
  <2> DEFINE g(n) == [v \in Operands |-> IF n = 0 THEN Nil
                                         ELSE IF Repeats(v, key, e) THEN G[n - 1][Handler(v, e)] ELSE v]
  <2>2. \A n \in 0 .. N : G[n] = g(n) BY <2>1
  <2>3. G = [n \in 0 .. N |-> G[n]] BY <1>4
  <2> HIDE DEF g, N
  <2>4. G = [n \in 0 .. N |-> g(n)] BY <2>2, <2>3
  <2> QED BY <2>4 DEF g
<1> DEFINE C == ChainEnd(key, e)
<1>6. C = Rec(C)
  <2>1. C = CHOOSE F : F = Rec(F) BY DEF ChainEnd
  <2> HIDE DEF Rec, C
  <2> QED BY <1>5, <2>1
<1> HIDE DEF C
<1>7. \A n \in 0 .. N : C[n] = [v \in Operands |-> IF n = 0 THEN Nil
                                ELSE IF Repeats(v, key, e) THEN C[n - 1][Handler(v, e)] ELSE v]
  BY <1>6
<1>8. \A v \in Operands : C[0][v] = Nil
  <2>1. 0 \in 0 .. N BY <1>3
  <2>2. C[0] = [v \in Operands |-> IF 0 = 0 THEN Nil
                                   ELSE IF Repeats(v, key, e) THEN C[0 - 1][Handler(v, e)] ELSE v]
    BY <1>7, <2>1
  <2> QED BY <2>2
<1>9. ASSUME NEW n \in 1 .. N, NEW v \in Operands
      PROVE  C[n][v] = IF Repeats(v, key, e) THEN C[n - 1][Handler(v, e)] ELSE v
  <2>1. n \in 0 .. N /\ n # 0 BY <1>3
  <2> QED BY <1>7, <2>1
<1> QED BY <1>8, <1>9 DEF C

\* Where indexing and assignment end, from a value and after n handlers at most.
LEMMA GetIs ==
  ASSUME MetaTyped, NEW key, NEW v \in Operands
  PROVE  /\ gettable_event(v, key, 0) = Raise
         /\ \A n \in 1 .. MAXTAGLOOP :
              LET h == Handler(v, "index") IN
              gettable_event(v, key, n) =
                IF Repeats(v, key, "index") THEN gettable_event(h, key, n - 1)
                ELSE IF IsTable(v) /\ raw[v[2]][key] # Nil THEN ValueOf(raw[v[2]][key])
                ELSE IF h # Nil THEN CallOf(h, <<v, key>>)
                ELSE IF IsTable(v) THEN ValueOf(Nil) ELSE Raise
<1> DEFINE C == ChainEnd(key, "index")
<1>1. C[0][v] = Nil BY ChainIs
<1>2. \A n \in 1 .. MAXTAGLOOP :
        C[n][v] = IF Repeats(v, key, "index") THEN C[n - 1][Handler(v, "index")] ELSE v
  BY ChainIs
<1> DEFINE At(u) ==
          LET h == Handler(u, "index")
          IN  IF u = Nil THEN Raise
              ELSE IF IsTable(u) /\ raw[u[2]][key] # Nil THEN ValueOf(raw[u[2]][key])
              ELSE IF h # Nil THEN CallOf(h, <<u, key>>)
              ELSE IF IsTable(u) THEN ValueOf(Nil) ELSE Raise
<1>3. \A n, w : gettable_event(w, key, n) = At(C[n][w])
  BY DEF gettable_event
<1> HIDE DEF C
<1>4. v # Nil BY OperandFacts
<1>5. gettable_event(v, key, 0) = Raise BY <1>1, <1>3
<1>6. ASSUME NEW n \in 1 .. MAXTAGLOOP, Repeats(v, key, "index")
      PROVE  gettable_event(v, key, n) = gettable_event(Handler(v, "index"), key, n - 1)
  <2>1. C[n][v] = C[n - 1][Handler(v, "index")] BY <1>2, <1>6
  <2> HIDE DEF At
  <2> QED BY <1>3, <2>1
<1>7. ASSUME NEW n \in 1 .. MAXTAGLOOP, ~Repeats(v, key, "index")
      PROVE  C[n][v] = v
  BY <1>2, <1>7
<1> QED BY <1>3, <1>4, <1>5, <1>6, <1>7

\* The same of assignment.
LEMMA SetIs ==
  ASSUME MetaTyped, NEW key, NEW x, NEW v \in Operands
  PROVE  /\ settable_event(v, key, x, 0) = [res |-> Raise, at |-> None]
         /\ \A n \in 1 .. MAXTAGLOOP :
              LET h == Handler(v, "newindex") IN
              settable_event(v, key, x, n) =
                IF Repeats(v, key, "newindex") THEN settable_event(h, key, x, n - 1)
                ELSE IF IsTable(v) /\ (raw[v[2]][key] # Nil \/ h = Nil)
                THEN [res |-> ValueOf(Nil), at |-> v[2]]
                ELSE [res |-> IF h = Nil THEN Raise ELSE CallOf(h, <<v, key, x>>), at |-> None]
<1> DEFINE C == ChainEnd(key, "newindex")
<1>1. C[0][v] = Nil BY ChainIs
<1>2. \A n \in 1 .. MAXTAGLOOP :
        C[n][v] = IF Repeats(v, key, "newindex") THEN C[n - 1][Handler(v, "newindex")] ELSE v
  BY ChainIs
<1> DEFINE At(u) ==
          LET h == Handler(u, "newindex")
          IN  IF u = Nil THEN [res |-> Raise, at |-> None]
              ELSE IF IsTable(u) /\ (raw[u[2]][key] # Nil \/ h = Nil)
              THEN [res |-> ValueOf(Nil), at |-> u[2]]
              ELSE [res |-> IF h = Nil THEN Raise ELSE CallOf(h, <<u, key, x>>), at |-> None]
<1>3. \A n, w : settable_event(w, key, x, n) = At(C[n][w])
  BY DEF settable_event
<1> HIDE DEF C
<1>4. v # Nil BY OperandFacts
<1>5. settable_event(v, key, x, 0) = [res |-> Raise, at |-> None] BY <1>1, <1>3
<1>6. ASSUME NEW n \in 1 .. MAXTAGLOOP, Repeats(v, key, "newindex")
      PROVE  settable_event(v, key, x, n) = settable_event(Handler(v, "newindex"), key, x, n - 1)
  <2>1. C[n][v] = C[n - 1][Handler(v, "newindex")] BY <1>2, <1>6
  <2> HIDE DEF At
  <2> QED BY <1>3, <2>1
<1>7. ASSUME NEW n \in 1 .. MAXTAGLOOP, ~Repeats(v, key, "newindex")
      PROVE  C[n][v] = v
  BY <1>2, <1>7
<1> QED BY <1>3, <1>4, <1>5, <1>6, <1>7

\* The handler an indexing or an assignment goes on with.
LEMMA NextIs ==
  ASSUME MetaTyped, NEW v \in Operands, NEW e \in {"index", "newindex"},
         Handler(v, e) # Nil, ~IsFun(Handler(v, e))
  PROVE  /\ metatable(v) \in Tables /\ Handler(v, e) = raw[metatable(v)][e]
         /\ Handler(v, e) \in Operands
         /\ ~SelfNewindex => raw[metatable(v)]["newindex"] # Tab(metatable(v)) \/ e # "newindex"
<1>1. IsTable(v) => v[2] \in Tables BY OperandFacts
<1>2. metatable(v) \in Tables /\ Handler(v, e) \in Entries(metatable(v), e)
      /\ Handler(v, e) = raw[metatable(v)][e]
  BY <1>1, HandlerIs
<1> QED BY <1>2, EntryKinds, OperandFacts

\* The state of an indexing or an assignment.
GetInv(p, n, r) ==
  /\ op = [kind |-> "get", t |-> p, key |-> "x", loop |-> n, res |-> r]
  /\ IF r = NoResult
     THEN /\ n \in 0 .. MAXTAGLOOP /\ Deref(p) \in Operands
          /\ want = gettable_event(Deref(p), "x", MAXTAGLOOP - n)
     ELSE r = want
SetInv(p, k, x, n, r) ==
  /\ op = [kind |-> "set", t |-> p, key |-> k, val |-> x, loop |-> n, res |-> r]
  /\ IF r = NoResult
     THEN /\ n \in 0 .. MAXTAGLOOP /\ Deref(p) \in Operands /\ k \in KeysOf(evs)
          /\ \A h \in Tables : Deref(p) = Tab(h) => Moved(p, h) = p
          /\ \E s \in {settable_event(Deref(p), k, x, MAXTAGLOOP - n)} :
               /\ s.at # None => x \in Entries(s.at, k)
               /\ want = <<s.res, IF s.at = None THEN raw ELSE [raw EXCEPT ![s.at][k] = x]>>
     ELSE <<r, raw>> = want

\* What the invariant is made of depends on the tables alone.
LEMMA Unchanging ==
  ASSUME evs' = evs, raw' = raw, meta' = meta, gmt' = gmt
  PROVE  /\ \A v, k, n : gettable_event(v, k, n)' = gettable_event(v, k, n)
         /\ \A v, k, x, n : settable_event(v, k, x, n)' = settable_event(v, k, x, n)
         /\ \A v, c : concat_event(v, c)' = concat_event(v, c)
         /\ \A p : Deref(p)' = Deref(p)
         /\ MetaTyped' = MetaTyped
         /\ \A fl : Honest(fl)' = Honest(fl)
BY DEF gettable_event, settable_event, concat_event, ChainEnd, Repeats, Handler, Entry,
       metatable, Deref, MetaTyped, KeysOf, Entries, Things, Honest, Pair

\* An indexing goes on as the manual says.
LEMMA GetStep ==
  ASSUME MetaTyped, Honest(flags), NEW p, NEW n, NEW r, GetInv(p, n, r), luaV_gettable
  PROVE  Honest(flags)' /\ \E q, i, s : GetInv(q, i, s)'
<1>0. MAXTAGLOOP \in Nat BY MetaAssumption
<1>1. /\ op = [kind |-> "get", t |-> p, key |-> "x", loop |-> n, res |-> r]
      /\ op.t = p /\ op.key = "x" /\ op.loop = n /\ r = NoResult /\ n \in 0 .. MAXTAGLOOP
      /\ Deref(p) \in Operands /\ want = gettable_event(Deref(p), "x", MAXTAGLOOP - n)
  BY DEF GetInv, luaV_gettable, Pending
<1>2. /\ evs' = evs /\ raw' = raw /\ meta' = meta /\ gmt' = gmt /\ want' = want
      /\ \A q : Deref(q)' = Deref(q)
      /\ \A w, k, i : gettable_event(w, k, i)' = gettable_event(w, k, i)
      /\ \A fl : Honest(fl)' = Honest(fl)
  BY Unchanging DEF luaV_gettable
<1>3. PICK v : v = Deref(p) /\ v \in Operands /\ (IsTable(v) => v[2] \in Tables)
  BY <1>1, OperandFacts
<1> DEFINE h == Handler(v, "index")
<1>4. h = luaT_gettmbyobj(v, "index") BY <1>3, HandlerIs
<1>5. ASSUME NEW R, Result(R), R # NoResult, want = R PROVE \E q, i, s : GetInv(q, i, s)'
  <2>1. op' = [kind |-> "get", t |-> p, key |-> "x", loop |-> n, res |-> R] BY <1>1, <1>5 DEF Result
  <2>2. GetInv(p, n, R)' BY <1>2, <1>5, <2>1 DEF GetInv
  <2> QED BY <2>2
<1>6. CASE n = MAXTAGLOOP
  <2>1. Result(Raise) /\ flags' = flags BY <1>0, <1>1, <1>6 DEF luaV_gettable
  <2>2. want = Raise
    <3>1. MAXTAGLOOP - n = 0 BY <1>0, <1>6
    <3> QED BY <1>1, <3>1, GetIs
  <2>3. Raise # NoResult BY DEF Raise, NoResult
  <2> QED BY <1>2, <1>5, <2>1, <2>2, <2>3
<1>7. CASE n # MAXTAGLOOP
  <2> DEFINE m == MAXTAGLOOP - n
  <2>1. m \in 1 .. MAXTAGLOOP /\ n + 1 \in 0 .. MAXTAGLOOP /\ MAXTAGLOOP - (n + 1) = m - 1
    BY <1>0, <1>1, <1>7
  <2>2. want = IF Repeats(v, "x", "index") THEN gettable_event(h, "x", m - 1)
               ELSE IF IsTable(v) /\ raw[v[2]]["x"] # Nil THEN ValueOf(raw[v[2]]["x"])
               ELSE IF h # Nil THEN CallOf(h, <<v, "x">>)
               ELSE IF IsTable(v) THEN ValueOf(Nil) ELSE Raise
    BY <1>1, <1>3, <2>1, GetIs
  <2>3. GetFound(v) \/ GetAbsent(v) \/ GetOther(v)
    BY <1>0, <1>1, <1>3, <1>7 DEF luaV_gettable
  <2>4. \A y : ValueOf(y) # NoResult BY DEF ValueOf, NoResult
  <2>5. \A f, as : CallOf(f, as) # NoResult BY DEF CallOf, NoResult
  <2>6. Raise # NoResult BY DEF Raise, NoResult
  <2> HIDE DEF m
  <2>7. ASSUME h # Nil, ~(IsTable(v) /\ raw[v[2]]["x"] # Nil), CallOrFollow(v, "index", h, <<v, "x">>)
        PROVE  \E q, i, s : GetInv(q, i, s)'
    <3>1. CASE IsFun(h)
      <4>1. want = CallOf(h, <<v, "x">>) BY <2>2, <2>7, <3>1 DEF Repeats
      <4> QED BY <1>5, <2>5, <2>7, <3>1, <4>1 DEF CallOrFollow
    <3>2. CASE ~IsFun(h)
      <4>0. PICK q : q = <<"slot", metatable(v), "index">> OBVIOUS
      <4>1. op' = [kind |-> "get", t |-> q, key |-> "x", loop |-> n + 1, res |-> NoResult]
        BY <1>1, <2>7, <3>2, <4>0 DEF CallOrFollow, Follow
      <4>2. h \in Operands /\ h = raw[metatable(v)]["index"] BY <1>3, <2>7, <3>2, NextIs
      <4>3. Deref(q) = h BY <4>0, <4>2 DEF Deref
      <4>4. want = gettable_event(h, "x", m - 1) BY <2>2, <2>7, <3>2 DEF Repeats
      <4>5. want' = gettable_event(Deref(q), "x", MAXTAGLOOP - (n + 1))'
        BY <1>2, <2>1, <4>3, <4>4
      <4>6. GetInv(q, n + 1, NoResult)' BY <1>2, <2>1, <4>1, <4>2, <4>3, <4>5 DEF GetInv
      <4> QED BY <4>6
    <3> QED BY <3>1, <3>2
  <2>8. CASE GetFound(v)
    <3>1. IsTable(v) /\ raw[v[2]]["x"] # Nil /\ Result(ValueOf(raw[v[2]]["x"])) /\ flags' = flags
      BY <1>1, <2>8 DEF GetFound
    <3>2. want = ValueOf(raw[v[2]]["x"]) BY <2>2, <3>1 DEF Repeats
    <3> QED BY <1>2, <1>5, <2>4, <3>1, <3>2
  <2>9. CASE GetAbsent(v)
    <3>1. IsTable(v) /\ raw[v[2]]["x"] = Nil /\ flags' = Cached(flags, meta[v[2]], "index")
      BY <1>1, <2>9 DEF GetAbsent
    <3>2. meta[v[2]] \in Tables \cup {None} BY <1>3, <3>1 DEF MetaTyped
    <3>3. Honest(flags)'
      <4>1. Honest(Cached(flags, meta[v[2]], "index")) BY <3>2, CachedHonest DEF FastEvents
      <4> QED BY <1>2, <3>1, <4>1 DEF Honest, Entry
    <3>4. fasttm(flags, meta[v[2]], "index") = h
      <4>1. metatable(v) = meta[v[2]] BY <3>1 DEF metatable, IsTable
      <4> QED BY <3>2, <4>1, FastIs DEF Handler
    <3>5. CASE h = Nil
      <4>1. Result(ValueOf(Nil)) BY <2>9, <3>4, <3>5 DEF GetAbsent
      <4>2. want = ValueOf(Nil) BY <2>2, <3>1, <3>5 DEF Repeats
      <4> QED BY <1>5, <2>4, <3>3, <4>1, <4>2
    <3>6. CASE h # Nil
      <4>1. CallOrFollow(v, "index", h, <<v, "x">>) BY <1>1, <2>9, <3>4, <3>6 DEF GetAbsent
      <4> QED BY <2>7, <3>1, <3>3, <3>6, <4>1
    <3> QED BY <3>5, <3>6
  <2>10. CASE GetOther(v)
    <3>1. ~IsTable(v) /\ flags' = flags BY <2>10 DEF GetOther
    <3>2. CASE h = Nil
      <4>1. Result(Raise) BY <1>4, <2>10, <3>2 DEF GetOther
      <4>2. want = Raise BY <2>2, <3>1, <3>2 DEF Repeats
      <4> QED BY <1>2, <1>5, <2>6, <3>1, <4>1, <4>2
    <3>3. CASE h # Nil
      <4>1. CallOrFollow(v, "index", h, <<v, "x">>) BY <1>1, <1>4, <2>10, <3>3 DEF GetOther
      <4> QED BY <1>2, <2>7, <3>1, <3>3, <4>1
    <3> QED BY <3>2, <3>3
  <2> QED BY <2>3, <2>8, <2>9, <2>10
<1> QED BY <1>6, <1>7

\* luaH_set resets the flags of the table.
LEMMA ResetHonest ==
  ASSUME NEW fl, Honest(fl), NEW h \in Tables
  PROVE  Honest(luaH_set(fl, h)) /\ luaH_set(fl, h)[h] = {}
BY DEF Honest, luaH_set

\* An assignment goes on as the manual says.
LEMMA SetStep ==
  ASSUME MetaTyped, Honest(flags), ~SelfNewindex,
         NEW p, NEW k, NEW x, NEW n, NEW r, SetInv(p, k, x, n, r), luaV_settable
  PROVE  MetaTyped' /\ Honest(flags)' /\ \E q, i, s : SetInv(q, k, x, i, s)'
<1>0. MAXTAGLOOP \in Nat /\ None \notin Tables BY MetaAssumption
<1>1. /\ op = [kind |-> "set", t |-> p, key |-> k, val |-> x, loop |-> n, res |-> r]
      /\ op.t = p /\ op.key = k /\ op.val = x /\ op.loop = n /\ r = NoResult
      /\ n \in 0 .. MAXTAGLOOP /\ Deref(p) \in Operands /\ k \in KeysOf(evs)
  BY DEF SetInv, luaV_settable, Pending
<1>2. evs' = evs /\ meta' = meta /\ gmt' = gmt /\ want' = want BY DEF luaV_settable
<1>3. PICK v : v = Deref(p) /\ v \in Operands /\ (IsTable(v) => v[2] \in Tables /\ v = Tab(v[2]))
  BY <1>1, OperandFacts
<1> DEFINE h == Handler(v, "newindex")
           m == MAXTAGLOOP - n
           Assigned(s) == <<s.res, IF s.at = None THEN raw ELSE [raw EXCEPT ![s.at][k] = x]>>
<1>4. PICK s : /\ s = settable_event(v, k, x, m)
               /\ s.at # None => x \in Entries(s.at, k)
               /\ want = Assigned(s)
  BY <1>1, <1>3 DEF SetInv
<1>5. h = luaT_gettmbyobj(v, "newindex") BY <1>3, HandlerIs
<1>6. /\ \A y : ValueOf(y) # NoResult
      /\ \A f, as : CallOf(f, as) # NoResult
      /\ Raise # NoResult
  BY DEF ValueOf, CallOf, Raise, NoResult
<1>7. ASSUME NEW R, Result(R), R # NoResult, want = <<R, raw'>>
      PROVE \E q, i, y : SetInv(q, k, x, i, y)'
  <2>1. op' = [kind |-> "set", t |-> p, key |-> k, val |-> x, loop |-> n, res |-> R]
    BY <1>1, <1>7 DEF Result
  <2>2. SetInv(p, k, x, n, R)' BY <1>2, <1>7, <2>1 DEF SetInv
  <2> QED BY <2>2
<1>8. ASSUME raw' = raw
      PROVE  /\ MetaTyped' /\ \A q : Deref(q)' = Deref(q)
             /\ \A w, i : settable_event(w, k, x, i)' = settable_event(w, k, x, i)
  BY <1>2, <1>8, Unchanging
<1>9. ASSUME NEW fl, Honest(fl), flags' = fl, raw' = raw PROVE Honest(flags)'
  BY <1>2, <1>9 DEF Honest, Entry
<1>10. CASE n = MAXTAGLOOP
  <2>1. Result(Raise) /\ flags' = flags /\ raw' = raw BY <1>0, <1>1, <1>10 DEF luaV_settable
  <2>2. want = <<Raise, raw>>
    <3>1. m = 0 BY <1>0, <1>10
    <3>2. s = [res |-> Raise, at |-> None] BY <1>3, <1>4, <3>1, SetIs
    <3> QED BY <1>4, <3>2
  <2> QED BY <1>6, <1>7, <1>8, <1>9, <2>1, <2>2
<1>11. CASE n # MAXTAGLOOP
  <2>1. m \in 1 .. MAXTAGLOOP /\ n + 1 \in 0 .. MAXTAGLOOP /\ MAXTAGLOOP - (n + 1) = m - 1
    BY <1>0, <1>1, <1>11
  <2>2. s = IF Repeats(v, k, "newindex") THEN settable_event(h, k, x, m - 1)
            ELSE IF IsTable(v) /\ (raw[v[2]][k] # Nil \/ h = Nil)
            THEN [res |-> ValueOf(Nil), at |-> v[2]]
            ELSE [res |-> IF h = Nil THEN Raise ELSE CallOf(h, <<v, k, x>>), at |-> None]
    BY <1>3, <1>4, <2>1, SetIs
  <2>3. \/ IsTable(v) /\ \E q \in {p, Moved(p, v[2])} : SetTable(v[2], q)
        \/ ~IsTable(v) /\ SetOther(v)
    BY <1>0, <1>1, <1>3, <1>11 DEF luaV_settable
  <2> HIDE DEF m
  <2>4. ASSUME h # Nil, ~(IsTable(v) /\ raw[v[2]][k] # Nil), raw' = raw,
               CallOrFollow(v, "newindex", h, <<v, k, x>>)
        PROVE  \E q, i, y : SetInv(q, k, x, i, y)'
    <3>1. CASE IsFun(h)
      <4>1. s = [res |-> CallOf(h, <<v, k, x>>), at |-> None] BY <2>2, <2>4, <3>1 DEF Repeats
      <4>2. want = <<CallOf(h, <<v, k, x>>), raw>> BY <1>4, <4>1
      <4> QED BY <1>6, <1>7, <2>4, <3>1, <4>2 DEF CallOrFollow
    <3>2. CASE ~IsFun(h)
      <4>0. PICK q : q = <<"slot", metatable(v), "newindex">> OBVIOUS
      <4>1. op' = [kind |-> "set", t |-> q, key |-> k, val |-> x, loop |-> n + 1, res |-> NoResult]
        BY <1>1, <2>4, <3>2, <4>0 DEF CallOrFollow, Follow
      <4>2. /\ h \in Operands /\ h = raw[metatable(v)]["newindex"] /\ h # Tab(metatable(v))
            /\ metatable(v) \in Tables
        BY <1>3, <2>4, <3>2, NextIs
      <4>3. Deref(q) = h BY <4>0, <4>2 DEF Deref
      <4>4. \A u \in Tables : Deref(q) = Tab(u) => Moved(q, u) = q
        BY <4>0, <4>2, <4>3 DEF Moved
      <4>5. s = settable_event(Deref(q), k, x, MAXTAGLOOP - (n + 1))
        BY <2>1, <2>2, <2>4, <3>2, <4>3 DEF Repeats
      <4>6. /\ s = settable_event(Deref(q), k, x, MAXTAGLOOP - (n + 1))'
            /\ s.at # None => x \in Entries(s.at, k)
            /\ want' = <<s.res, IF s.at = None THEN raw' ELSE [raw' EXCEPT ![s.at][k] = x]>>
        BY <1>2, <1>4, <1>8, <2>4, <4>5
      <4>7. /\ n + 1 \in 0 .. MAXTAGLOOP /\ Deref(q)' \in Operands /\ k \in KeysOf(evs)'
            /\ \A u \in Tables : Deref(q)' = Tab(u) => Moved(q, u) = q
        BY <1>1, <1>2, <1>8, <2>1, <2>4, <4>2, <4>3, <4>4 DEF KeysOf
      <4>8. SetInv(q, k, x, n + 1, NoResult)' BY <4>1, <4>6, <4>7 DEF SetInv
      <4> QED BY <4>8
    <3> QED BY <3>1, <3>2
  <2>5. CASE IsTable(v)
    <3>1. Moved(p, v[2]) = p BY <1>1, <1>3, <2>5 DEF SetInv
    <3>2. SetTable(v[2], p) BY <2>3, <2>5, <3>1
    <3> DEFINE u == v[2]
               fl == luaH_set(flags, u)
               old == raw[u][k]
    <3>3. /\ u \in Tables /\ v = Tab(u) /\ metatable(v) = meta[u]
          /\ meta[u] \in Tables \cup {None} /\ meta[u] # u
      BY <1>3, <2>5 DEF metatable, IsTable, MetaTyped
    <3>4. Honest(fl) /\ fl[u] = {} BY <3>3, ResetHonest
    <3>5. fasttm(fl, meta[u], "newindex") = h
      <4> HIDE DEF fl
      <4> QED BY <3>3, <3>4, FastIs DEF Handler
    <3>6. Honest(flags') /\ flags'[u] = {}
      <4>1. flags' = IF old # Nil THEN fl ELSE Cached(fl, meta[u], "newindex")
        BY <1>1, <3>2 DEF SetTable
      <4> HIDE DEF fl
      <4>2. Honest(Cached(fl, meta[u], "newindex")) /\ Cached(fl, meta[u], "newindex")[u] = {}
        BY <3>3, <3>4, CachedHonest DEF FastEvents
      <4> QED BY <3>4, <4>1, <4>2
    <3>7. \/ (old # Nil \/ h = Nil) /\ SetRaw(u)
          \/ /\ old = Nil /\ h # Nil
             /\ CallOrFollow(v, "newindex", h, <<v, k, x>>)
             /\ raw' = raw
      BY <1>1, <1>3, <3>2, <3>3, <3>5 DEF SetTable
    <3>8. CASE (old # Nil \/ h = Nil) /\ SetRaw(u)
      <4>1. s = [res |-> ValueOf(Nil), at |-> u] BY <2>2, <2>5, <3>8 DEF Repeats
      <4>2. raw' = [raw EXCEPT ![u][k] = x] /\ Result(ValueOf(Nil)) BY <1>1, <3>8 DEF SetRaw
      <4>3. want = <<ValueOf(Nil), raw'>> BY <1>0, <1>4, <3>3, <4>1, <4>2
      <4>4. \E q, i, y : SetInv(q, k, x, i, y)' BY <1>6, <1>7, <4>2, <4>3
      <4>5. x \in Entries(u, k) BY <1>0, <1>4, <3>3, <4>1
      <4>6. MetaTyped' BY <1>1, <1>2, <3>3, <4>2, <4>5, EntryKinds DEF MetaTyped
      <4>7. Honest(flags)'
        <5>1. flags' \in [Tables -> SUBSET FastEvents] BY <3>6 DEF Honest
        <5>2. ASSUME NEW t \in Tables, NEW e \in flags'[t] PROVE Entry(t, e)' = Nil
          <6>1. t # u BY <3>6, <5>2
          <6>2. raw'[t] = raw[t] BY <3>3, <4>2, <6>1 DEF MetaTyped
          <6>3. Entry(t, e) = Nil BY <3>6, <5>2 DEF Honest
          <6> QED BY <1>2, <6>2, <6>3 DEF Entry
        <5> QED BY <5>1, <5>2 DEF Honest
      <4> QED BY <4>4, <4>6, <4>7
    <3>9. CASE ~((old # Nil \/ h = Nil) /\ SetRaw(u))
      <4>1. /\ old = Nil /\ h # Nil /\ raw' = raw
            /\ CallOrFollow(v, "newindex", h, <<v, k, x>>)
        BY <3>7, <3>9
      <4>2. Honest(flags)' BY <1>2, <3>6, <4>1 DEF Honest, Entry
      <4> QED BY <1>8, <2>4, <4>1, <4>2
    <3> QED BY <3>8, <3>9
  <2>6. CASE ~IsTable(v)
    <3>1. SetOther(v) /\ flags' = flags /\ raw' = raw BY <2>3, <2>6 DEF SetOther
    <3>2. CASE h = Nil
      <4>1. Result(Raise) BY <1>5, <3>1, <3>2 DEF SetOther
      <4>2. s = [res |-> Raise, at |-> None] BY <2>2, <2>6, <3>2 DEF Repeats
      <4>3. want = <<Raise, raw'>> BY <1>4, <3>1, <4>2
      <4> QED BY <1>6, <1>7, <1>8, <1>9, <3>1, <4>1, <4>3
    <3>3. CASE h # Nil
      <4>1. CallOrFollow(v, "newindex", h, <<v, k, x>>)
        BY <1>1, <1>5, <3>1, <3>3 DEF SetOther
      <4> QED BY <1>8, <1>9, <2>4, <2>6, <3>1, <3>3, <4>1
    <3> QED BY <3>2, <3>3
  <2> QED BY <2>5, <2>6
<1> QED BY <1>10, <1>11

-----------------------------------------------------------------------------
(* Operators and calls.                                                    *)

\* call_orderTM wants the same handler of both operands.
LEMMA OrderHandler ==
  ASSUME MetaTyped, NEW x \in Operands, NEW y \in Operands, NEW e, x[1] = y[1]
  PROVE  call_orderTM(x, y, e) = IF getcomphandler(x, y, e) = Nil THEN NoResult
                                 ELSE CallOf(getcomphandler(x, y, e), <<x, y>>)
<1>1. \A v \in {x, y} : Handler(v, e) = luaT_gettmbyobj(v, e) BY OperandFacts, HandlerIs
<1> QED BY <1>1 DEF call_orderTM, getcomphandler

\* call_binTM takes the handler of the first operand, or of the second.
LEMMA BinaryHandler ==
  ASSUME NEW x, NEW y, NEW e
  PROVE  call_binTM(x, y, e) = Called(getbinhandler(x, y, e), <<x, y>>)
BY DEF call_binTM, getbinhandler, Called, luaT_gettmbyobj, Handler

\* Each operator calls the handler that the manual says.
LEMMA ArithmeticIs ==
  ASSUME NEW x \in Operands, NEW y \in Operands
  PROVE  ArithOp(x, y) = Meaning("add", x, y)
<1>1. \A v \in Operands : Coercible(v) => luaV_tonumber(v)[2] = 1
  BY ValueFacts DEF Operands, Coercible, luaV_tonumber
<1>2. Arith("ADD", 1, 1) = 2 BY DEF Arith
<1> QED BY <1>1, <1>2, BinaryHandler DEF ArithOp, Meaning

\* The operands of a type other than table.
LEMMA Others ==
  ASSUME NEW x \in Operands, NEW y \in Operands, x[1] = y[1], ~IsTable(x)
  PROVE  \/ x = Num(1) /\ y = Num(1)
         \/ x[1] = "string" /\ x # Num(1) /\ y # Num(1)
BY ValueFacts DEF Operands, IsTable

LEMMA LessIs ==
  ASSUME MetaTyped, NEW x \in Operands, NEW y \in Operands
  PROVE  luaV_lessthan(x, y) = Meaning("lt", x, y)
<1> DEFINE c == getcomphandler(x, y, "lt")
<1>1. CASE x[1] # y[1]
  <2>1. c = Nil BY <1>1 DEF getcomphandler
  <2> QED BY <1>1, <2>1 DEF luaV_lessthan, Meaning, Called
<1>2. CASE x[1] = y[1] /\ ~IsTable(x)
  <2>1. ~StrLess(Num(1), Num(1)) BY ValueFacts DEF StrLess
  <2> QED BY <1>2, <2>1, Others, ValueFacts DEF luaV_lessthan, Meaning, Bool
<1>3. CASE x[1] = y[1] /\ IsTable(x)
  <2>1. call_orderTM(x, y, "lt") = IF c = Nil THEN NoResult ELSE CallOf(c, <<x, y>>)
    BY <1>3, OrderHandler
  <2>2. CallOf(c, <<x, y>>) # NoResult BY DEF CallOf, NoResult
  <2>3. luaV_lessthan(x, y) = Called(c, <<x, y>>)
    BY <1>3, <2>1, <2>2 DEF luaV_lessthan, IsTable, Called
  <2> QED BY <1>3, <2>3 DEF Meaning, IsTable
<1> QED BY <1>1, <1>2, <1>3

LEMMA LessEqualIs ==
  ASSUME MetaTyped, NEW x \in Operands, NEW y \in Operands
  PROVE  lessequal(x, y) = Meaning("le", x, y)
<1> DEFINE le == getcomphandler(x, y, "le")
           lt == getcomphandler(y, x, "lt")
<1>1. CASE x[1] # y[1]
  <2>1. le = Nil /\ lt = Nil BY <1>1 DEF getcomphandler
  <2> QED BY <1>1, <2>1 DEF lessequal, Meaning
<1>2. CASE x[1] = y[1] /\ ~IsTable(x)
  BY <1>2, Others, ValueFacts DEF lessequal, Meaning, Bool
<1>3. CASE x[1] = y[1] /\ IsTable(x)
  <2>1. /\ call_orderTM(x, y, "le") = IF le = Nil THEN NoResult ELSE CallOf(le, <<x, y>>)
        /\ call_orderTM(y, x, "lt") = IF lt = Nil THEN NoResult ELSE CallOf(lt, <<y, x>>)
    BY <1>3, OrderHandler
  <2>2. \A f, as : CallOf(f, as) # NoResult /\ CallOf(f, as)[2] = f /\ CallOf(f, as)[3] = as
    BY DEF CallOf, NoResult
  <2>3. lessequal(x, y) = IF le # Nil THEN CallOf(le, <<x, y>>)
                          ELSE IF lt # Nil THEN NotCallOf(lt, <<y, x>>) ELSE Raise
    BY <1>3, <2>1, <2>2 DEF lessequal, IsTable
  <2> QED BY <1>3, <2>3 DEF Meaning, IsTable
<1> QED BY <1>1, <1>2, <1>3

LEMMA EqualIs ==
  ASSUME MetaTyped, Honest(flags), NEW x \in Operands, NEW y \in Operands
  PROVE  luaV_equalval(x, y).res = Meaning("eq", x, y) /\ Honest(luaV_equalval(x, y).flags)
<1>1. CASE x[1] # y[1] \/ x = y \/ ~IsTable(x)
  BY <1>1 DEF luaV_equalval, Meaning
<1>2. CASE ~(x[1] # y[1] \/ x = y \/ ~IsTable(x))
  <2> DEFINE mt1 == meta[x[2]]
             mt2 == meta[y[2]]
             fl == Cached(flags, mt1, "eq")
             c == get_compTM(mt1, mt2)
  <2>1. /\ metatable(x) = mt1 /\ metatable(y) = mt2
        /\ mt1 \in Tables \cup {None} /\ mt2 \in Tables \cup {None}
    BY <1>2, OperandFacts DEF metatable, IsTable, MetaTyped
  <2>2. Honest(fl) /\ Honest(Cached(fl, mt2, "eq"))
    <3>1. Honest(fl) BY <2>1, CachedHonest DEF FastEvents
    <3> HIDE DEF fl
    <3> QED BY <2>1, <3>1, CachedHonest DEF FastEvents
  <2>3. fasttm(flags, mt1, "eq") = Handler(x, "eq") BY <2>1, FastIs DEF Handler
  <2>4. fasttm(fl, mt2, "eq") = Handler(y, "eq")
    <3> HIDE DEF fl
    <3> QED BY <2>1, <2>2, FastIs DEF Handler
  <2>5. mt1 = mt2 => Handler(x, "eq") = Handler(y, "eq") BY <2>1 DEF Handler
  <2>6. c.tm = getcomphandler(x, y, "eq")
    BY <1>2, <2>3, <2>4, <2>5 DEF get_compTM, getcomphandler
  <2>7. Honest(c.flags) BY <2>2 DEF get_compTM
  <2>8. luaV_equalval(x, y) = [res |-> IF c.tm = Nil THEN ValueOf(Bool(FALSE)) ELSE CallOf(c.tm, <<x, y>>),
                               flags |-> c.flags]
    BY <1>2 DEF luaV_equalval
  <2>9. Meaning("eq", x, y) = IF getcomphandler(x, y, "eq") # Nil
                              THEN CallOf(getcomphandler(x, y, "eq"), <<x, y>>)
                              ELSE ValueOf(Bool(FALSE))
    BY <1>2 DEF Meaning
  <2> HIDE DEF c
  <2>10. luaV_equalval(x, y).flags = c.flags
         /\ luaV_equalval(x, y).res = IF c.tm = Nil THEN ValueOf(Bool(FALSE)) ELSE CallOf(c.tm, <<x, y>>)
    BY <2>8
  <2> QED BY <2>6, <2>7, <2>9, <2>10
<1> QED BY <1>1, <1>2

LEMMA CallIs ==
  ASSUME MetaTyped, NEW x \in Operands \cup {Fun(f) : f \in Functions}
  PROVE  /\ tryfuncTM(x, Num(1)) = Meaning("call", x, Num(1))
         /\ OpLen(x) = Meaning("len", x, Nil)
<1>1. IsTable(x) => x[2] \in Tables BY OperandFacts, ValueFacts
<1>2. /\ Handler(x, "call") = luaT_gettmbyobj(x, "call")
      /\ Handler(x, "call") = Nil \/ (IsFun(Handler(x, "call")) /\ Handler(x, "call") # Nil)
  <2>1. ASSUME Handler(x, "call") # Nil
        PROVE  metatable(x) \in Tables /\ Handler(x, "call") \in Entries(metatable(x), "call")
    BY <1>1, <2>1, HandlerIs
  <2> QED BY <1>1, <2>1, HandlerIs, EntryKinds
<1>3. tryfuncTM(x, Num(1)) = Meaning("call", x, Num(1))
  BY <1>2, ValueFacts DEF tryfuncTM, Meaning, Called
<1>4. Handler(Nil, "len") = Nil BY ValueFacts DEF Handler, metatable
<1>5. OpLen(x) = Meaning("len", x, Nil)
  BY <1>4, BinaryHandler, ValueFacts DEF OpLen, Meaning, getbinhandler, IsTable
<1> QED BY <1>3, <1>5

-----------------------------------------------------------------------------
(* Concatenation.                                                          *)

\* The concatenation of up to three values, from the right.
LEMMA ConcatIs ==
  ASSUME NEW c, NEW vs, Len(vs) \in 1 .. 3
  PROVE  /\ Len(vs) = 1 => concat_event(vs, c)[0] = <<"joined", vs[1], c>>
         /\ Len(vs) = 2 => concat_event(vs, c)[1] = Pair(vs[1], <<"joined", vs[2], c>>)
         /\ Len(vs) = 3 => concat_event(vs, c)[2] = Pair(vs[1], Pair(vs[2], <<"joined", vs[3], c>>))
<1> DEFINE L == Len(vs)
           r0 == <<"joined", vs[L], c>>
           r1 == Pair(vs[L - 1], r0)
           Rec(F) == [n \in 0 .. L - 1 |-> IF n = 0 THEN r0 ELSE Pair(vs[L - n], F[n - 1])]
           H == [n \in 0 .. L - 1 |-> IF n = 0 THEN r0 ELSE IF n = 1 THEN r1 ELSE Pair(vs[L - 2], r1)]
           C == concat_event(vs, c)
<1>1. C = CHOOSE F : F = Rec(F) BY DEF concat_event
<1>2. H = Rec(H)
  <2> HIDE DEF r0, L
  <2>1. L \in 1 .. 3 BY DEF L
  <2>2. ASSUME NEW n \in 0 .. L - 1
        PROVE  H[n] = IF n = 0 THEN r0 ELSE Pair(vs[L - n], H[n - 1])
    <3>1. n = 0 \/ (n = 1 /\ 0 \in 0 .. L - 1) \/ (n = 2 /\ 1 \in 0 .. L - 1) BY <2>1
    <3> QED BY <3>1
  <2>3. H = [n \in 0 .. L - 1 |-> H[n]] OBVIOUS
  <2> HIDE DEF H
  <2> QED BY <2>2, <2>3
<1>3. C = Rec(C)
  <2> HIDE DEF Rec, C, H
  <2> QED BY <1>1, <1>2
<1> HIDE DEF C
<1>4. \A n \in 0 .. L - 1 : C[n] = IF n = 0 THEN r0 ELSE Pair(vs[L - n], C[n - 1])
  BY <1>3
<1>5. C[0] = r0
  <2>1. 0 \in 0 .. L - 1 OBVIOUS
  <2> QED BY <1>4, <2>1
<1>6. L > 1 => C[1] = Pair(vs[L - 1], r0) BY <1>4, <1>5
<1>7. L = 3 => C[2] = Pair(vs[1], C[1]) BY <1>4
<1> QED BY <1>5, <1>6, <1>7 DEF C

\* The operands of a concatenation, and the strings it makes.
Characters == {"1", "s", "h"}
Chain == Operands \cup {Str(s) : s \in Seq(Characters)}
LEMMA ChainFacts ==
  /\ \A v \in Chain : Joinable(v) => tostring(v)[2] \in Seq(Characters) /\ tostring(v) = Str(tostring(v)[2])
  /\ \A v \in Chain : Joinable(v) => /\ tostring(v) \in Chain /\ Joinable(tostring(v))
                                     /\ tostring(tostring(v)) = tostring(v)
  /\ \A v \in Chain : IsTable(v) => v[2] \in Tables
  /\ \A s \in Seq(Characters) : Str(s) \in Chain /\ Joinable(Str(s)) /\ tostring(Str(s)) = Str(s)
  /\ Str(<<"h">>) \in Chain /\ Str(<<>>) \in Chain
<1>1. \A s : tostring(Str(s)) = Str(s) /\ Joinable(Str(s)) BY ValueFacts DEF tostring, Joinable
<1>2. tostring(Num(1)) = Str(<<"1">>) /\ Joinable(Num(1)) BY ValueFacts DEF tostring, Joinable
<1>3. \A t : ~Joinable(Tab(t)) BY ValueFacts DEF Joinable
<1>4. /\ <<"1">> \in Seq(Characters) /\ <<"s">> \in Seq(Characters)
      /\ <<"h">> \in Seq(Characters) /\ <<>> \in Seq(Characters)
  BY DEF Characters
<1>5. \A v \in Chain : (\E t \in Tables : v = Tab(t)) \/ v = Num(1) \/ (\E s \in Seq(Characters) : v = Str(s))
  BY <1>4 DEF Chain, Operands
<1>6. \A s \in Seq(Characters) : Str(s) \in Chain BY DEF Chain
<1>7. \A v \in Chain : IsTable(v) => v[2] \in Tables BY <1>5, ValueFacts
<1>8. ASSUME NEW v \in Chain, Joinable(v)
      PROVE  \E s \in Seq(Characters) : tostring(v) = Str(s)
  BY <1>1, <1>2, <1>3, <1>4, <1>5, <1>8
<1>9. \A s : Str(s)[2] = s BY ValueFacts
<1>10. ASSUME NEW v \in Chain, Joinable(v)
       PROVE  /\ tostring(v)[2] \in Seq(Characters) /\ tostring(v) = Str(tostring(v)[2])
              /\ tostring(v) \in Chain /\ Joinable(tostring(v)) /\ tostring(tostring(v)) = tostring(v)
  <2>1. PICK s \in Seq(Characters) : tostring(v) = Str(s) BY <1>8, <1>10
  <2>2. tostring(v)[2] = s BY <2>1, <1>9
  <2> QED BY <1>1, <1>6, <2>1, <2>2
<1>11. Str(<<"h">>) \in Chain /\ Str(<<>>) \in Chain BY <1>4, <1>6
<1> QED BY <1>1, <1>6, <1>7, <1>10, <1>11

\* What the strings at the end of the operands are joined to.
LEMMA JoinIs ==
  ASSUME NEW vs \in Seq(Chain), Len(vs) >= 1
  PROVE  /\ JoinLast(vs, 2)[2] = tostring(vs[Len(vs) - 1])[2] \o (tostring(vs[Len(vs)])[2] \o <<>>)
         /\ JoinLast(vs, 3)[3] = tostring(vs[Len(vs) - 2])[2]
                                   \o (tostring(vs[Len(vs) - 1])[2] \o (tostring(vs[Len(vs)])[2] \o <<>>))
<1> DEFINE L == Len(vs)
           s(k) == tostring(vs[L - k + 1])[2]
           Rec(n, F) == [k \in 0 .. n |-> IF k = 0 THEN <<>> ELSE s(k) \o F[k - 1]]
<1>0. L \in Nat OBVIOUS
<1>1. \A n : JoinLast(vs, n) = CHOOSE F : F = Rec(n, F) BY DEF JoinLast
<1>2. ASSUME NEW n, NEW H, H = Rec(n, H) PROVE JoinLast(vs, n) = Rec(n, JoinLast(vs, n))
  <2> HIDE DEF Rec
  <2> QED BY <1>1, <1>2
<1> HIDE DEF s
<1>3. JoinLast(vs, 2)[2] = s(2) \o (s(1) \o <<>>)
  <2> DEFINE H == [k \in 0 .. 2 |-> IF k = 0 THEN <<>> ELSE IF k = 1 THEN s(1) \o <<>>
                                     ELSE s(2) \o (s(1) \o <<>>)]
             J == JoinLast(vs, 2)
  <2>1. H = Rec(2, H) OBVIOUS
  <2> HIDE DEF H, Rec
  <2>2. J = Rec(2, J) BY <1>2, <2>1
  <2> HIDE DEF J
  <2>4. \A k \in 0 .. 2 : J[k] = IF k = 0 THEN <<>> ELSE s(k) \o J[k - 1] BY <2>2 DEF Rec
  <2>3. J[0] = <<>> /\ J[1] = s(1) \o J[0] /\ J[2] = s(2) \o J[1]
    <3>5. 0 \in 0 .. 2 OBVIOUS
    <3>1. 1 \in 0 .. 2 OBVIOUS
    <3>2. 2 \in 0 .. 2 OBVIOUS
    <3>10. J[0] = <<>> BY <2>4, <3>5
    <3>11. J[1] = s(1) \o J[0] BY <2>4, <3>1
    <3>12. J[2] = s(2) \o J[1] BY <2>4, <3>2
    <3> QED BY <3>10, <3>11, <3>12
  <2> QED BY <2>3 DEF J
<1>4. JoinLast(vs, 3)[3] = s(3) \o (s(2) \o (s(1) \o <<>>))
  <2> DEFINE H == [k \in 0 .. 3 |-> IF k = 0 THEN <<>> ELSE IF k = 1 THEN s(1) \o <<>>
                                     ELSE IF k = 2 THEN s(2) \o (s(1) \o <<>>)
                                     ELSE s(3) \o (s(2) \o (s(1) \o <<>>))]
             J == JoinLast(vs, 3)
  <2>1. H = Rec(3, H) OBVIOUS
  <2> HIDE DEF H, Rec
  <2>2. J = Rec(3, J) BY <1>2, <2>1
  <2> HIDE DEF J
  <2>4. \A k \in 0 .. 3 : J[k] = IF k = 0 THEN <<>> ELSE s(k) \o J[k - 1] BY <2>2 DEF Rec
  <2>3. J[0] = <<>> /\ J[1] = s(1) \o J[0] /\ J[2] = s(2) \o J[1] /\ J[3] = s(3) \o J[2]
    <3>5. 0 \in 0 .. 3 OBVIOUS
    <3>1. 1 \in 0 .. 3 OBVIOUS
    <3>2. 2 \in 0 .. 3 OBVIOUS
    <3>3. 3 \in 0 .. 3 OBVIOUS
    <3>10. J[0] = <<>> BY <2>4, <3>5
    <3>11. J[1] = s(1) \o J[0] BY <2>4, <3>1
    <3>12. J[2] = s(2) \o J[1] BY <2>4, <3>2
    <3>13. J[3] = s(3) \o J[2] BY <2>4, <3>3
    <3> QED BY <3>10, <3>11, <3>12, <3>13
  <2> QED BY <2>3 DEF J
<1>5. L - 1 + 1 = L /\ L - 2 + 1 = L - 1 /\ L - 3 + 1 = L - 2 BY <1>0
<1>6. s(1) = tostring(vs[L])[2] /\ s(2) = tostring(vs[L - 1])[2] /\ s(3) = tostring(vs[L - 2])[2]
  BY <1>5 DEF s
<1> QED BY <1>3, <1>4, <1>6

\* How many of the operands a pass that joins strings takes.
LEMMA StringsIs ==
  ASSUME NEW vs \in Seq(Chain), Len(vs) \in 2 .. 3,
         Joinable(vs[Len(vs)]), Joinable(vs[Len(vs) - 1])
  PROVE  IF Len(vs) = 3 /\ Joinable(vs[1]) THEN Strings(vs) = 3 ELSE Strings(vs) = 2
<1> DEFINE S == {k \in 1 .. Len(vs) : \A j \in k .. Len(vs) : Joinable(vs[j])}
<1>1. CASE Len(vs) = 3 /\ Joinable(vs[1])
  <2>1. S = 1 .. 3 BY <1>1
  <2>2. Cardinality(1 .. 3) = 3
    <3>1. 1 \in Int /\ 3 \in Int OBVIOUS
    <3>2. Cardinality(1 .. 3) = IF 1 > 3 THEN 0 ELSE 3 - 1 + 1 BY <3>1, FS_Interval, Zenon
    <3> QED BY <3>2
  <2> QED BY <1>1, <2>1, <2>2 DEF Strings
<1>2. CASE Len(vs) = 3 /\ ~Joinable(vs[1])
  <2>1. S = 2 .. 3 BY <1>2
  <2>2. Cardinality(2 .. 3) = 2
    <3>1. 2 \in Int /\ 3 \in Int OBVIOUS
    <3>2. Cardinality(2 .. 3) = IF 2 > 3 THEN 0 ELSE 3 - 2 + 1 BY <3>1, FS_Interval, Zenon
    <3> QED BY <3>2
  <2> QED BY <1>2, <2>1, <2>2 DEF Strings
<1>3. CASE Len(vs) = 2
  <2>1. S = 1 .. 2 BY <1>3
  <2>2. Cardinality(1 .. 2) = 2
    <3>1. 1 \in Int /\ 2 \in Int OBVIOUS
    <3>2. Cardinality(1 .. 2) = IF 1 > 2 THEN 0 ELSE 2 - 1 + 1 BY <3>1, FS_Interval, Zenon
    <3> QED BY <3>2
  <2> QED BY <1>3, <2>1, <2>2 DEF Strings
<1> QED BY <1>1, <1>2, <1>3

\* Two operands, the last ones of a concatenation.
LEMMA PairIs ==
  ASSUME NEW x \in Chain, NEW y \in Chain, NEW c
  PROVE  Pair(x, <<"joined", y, c>>) =
           IF Joinable(x) /\ Joinable(y)
           THEN <<"joined", Str(tostring(x)[2] \o tostring(y)[2]), c>>
           ELSE IF call_binTM(x, y, "concat") = Raise THEN Raise
           ELSE <<"joined", Str(<<"h">>), Append(c, call_binTM(x, y, "concat"))>>
<1> DEFINE h == getbinhandler(x, y, "concat")
<1>1. call_binTM(x, y, "concat") = IF h = Nil THEN Raise ELSE CallOf(h, <<x, y>>)
  BY BinaryHandler DEF Called
<1>2. CallOf(h, <<x, y>>) # Raise BY DEF CallOf, Raise
<1>3. <<"joined", y, c>> # Raise BY DEF Raise
<1>4. h = IF Handler(x, "concat") # Nil THEN Handler(x, "concat") ELSE Handler(y, "concat")
  BY DEF getbinhandler
<1> HIDE DEF h
<1>5. CASE Joinable(x) /\ Joinable(y) BY <1>3, <1>5 DEF Pair
<1>6. CASE ~(Joinable(x) /\ Joinable(y))
  <2>1. Pair(x, <<"joined", y, c>>) =
          IF h = Nil THEN Raise ELSE <<"joined", Str(<<"h">>), Append(c, CallOf(h, <<x, y>>))>>
    BY <1>3, <1>4, <1>6 DEF Pair
  <2> QED BY <1>1, <1>2, <1>6, <2>1
<1> QED BY <1>5, <1>6

\* The state of a concatenation: what is left to be joined gives what is due.
ConcatInv(vs, c, r) ==
  /\ op = [kind |-> "concat", vs |-> vs, calls |-> c, res |-> r]
  /\ IF r = NoResult
     THEN /\ vs \in Seq(Chain) /\ Len(vs) \in 1 .. 3
          /\ want = concat_event(vs, c)[Len(vs) - 1]
     ELSE r = want

\* A pass of luaV_concat keeps what is left to be joined.
LEMMA ConcatStep ==
  ASSUME NEW vs, NEW c, NEW r, ConcatInv(vs, c, r), luaV_concat
  PROVE  \E ws, d, s : ConcatInv(ws, d, s)'
<1> DEFINE L == Len(vs)
<1>1. /\ op = [kind |-> "concat", vs |-> vs, calls |-> c, res |-> r]
      /\ op.vs = vs /\ op.calls = c /\ r = NoResult
      /\ vs \in Seq(Chain) /\ L \in 1 .. 3 /\ want = concat_event(vs, c)[L - 1]
  BY DEF ConcatInv, luaV_concat, Pending
<1>2. want' = want /\ \A ws, d : concat_event(ws, d)' = concat_event(ws, d)
  BY Unchanging DEF luaV_concat
<1>0. \/ L > 1 /\ (PassTM(vs[L - 1], vs[L]) \/ PassStrings(vs[L - 1], vs[L]))
      \/ L = 1 /\ Result(<<"joined", vs[1], c>>)
  <2>1. op.vs = vs /\ op.calls = c BY <1>1
  <2> QED BY <2>1 DEF luaV_concat
<1>3. ASSUME NEW R, Result(R), R # NoResult, want = R PROVE \E ws, d, s : ConcatInv(ws, d, s)'
  <2>1. op' = [kind |-> "concat", vs |-> vs, calls |-> c, res |-> R] BY <1>1, <1>3 DEF Result
  <2>2. ConcatInv(vs, c, R)' BY <1>2, <1>3, <2>1 DEF ConcatInv
  <2> QED BY <2>2
<1>4. ASSUME NEW n \in 1 .. 3, NEW v \in Chain, NEW d, Pass(n, v, d), n <= L,
             \A ws : /\ ws = Append(SubSeq(vs, 1, L - n), v)
                     /\ ws \in Seq(Chain) /\ Len(ws) = L - n + 1
                     => want = concat_event(ws, d)[Len(ws) - 1]
      PROVE  \E ws, e, s : ConcatInv(ws, e, s)'
  <2>1. PICK ws : ws = Append(SubSeq(vs, 1, L - n), v) OBVIOUS
  <2>2. SubSeq(vs, 1, L - n) \in Seq(Chain) /\ Len(SubSeq(vs, 1, L - n)) = L - n
    BY <1>1, <1>4
  <2>3. ws \in Seq(Chain) /\ Len(ws) = L - n + 1 /\ Len(ws) \in 1 .. 3
    BY <1>1, <1>4, <2>1, <2>2
  <2>4. op' = [kind |-> "concat", vs |-> ws, calls |-> d, res |-> NoResult]
    BY <1>1, <1>4, <2>1 DEF Pass
  <2>5. want' = concat_event(ws, d)[Len(ws) - 1]' BY <1>2, <1>4, <2>1, <2>3
  <2>6. ConcatInv(ws, d, NoResult)' BY <2>3, <2>4, <2>5 DEF ConcatInv
  <2> QED BY <2>6
<1>5. CASE L = 1
  <2>2. Result(<<"joined", vs[1], c>>) BY <1>0, <1>5
  <2>3. want = <<"joined", vs[1], c>>
    <3>1. concat_event(vs, c)[0] = <<"joined", vs[1], c>> BY <1>1, <1>5, ConcatIs
    <3> QED BY <1>1, <1>5, <3>1
  <2>4. <<"joined", vs[1], c>> # NoResult BY DEF NoResult
  <2> QED BY <1>3, <2>2, <2>3, <2>4
<1>6. CASE L \in 2 .. 3
  <2> DEFINE x == vs[L - 1]
             y == vs[L]
             P == Pair(x, <<"joined", y, c>>)
  <2>1. x \in Chain /\ y \in Chain BY <1>1, <1>6
  <2>2. want = IF L = 2 THEN P ELSE Pair(vs[1], P)
    <3>1. CASE L = 2
      <4>1. concat_event(vs, c)[1] = Pair(vs[1], <<"joined", vs[2], c>>) BY <1>1, <3>1, ConcatIs
      <4>2. L - 1 = 1 BY <3>1
      <4> QED BY <1>1, <3>1, <4>1, <4>2
    <3>2. CASE L = 3
      <4>1. concat_event(vs, c)[2] = Pair(vs[1], Pair(vs[2], <<"joined", vs[3], c>>))
        BY <1>1, <3>2, ConcatIs
      <4>2. L - 1 = 2 BY <3>2
      <4> QED BY <1>1, <3>2, <4>1, <4>2
    <3> QED BY <1>6, <3>1, <3>2
  <2>3. ASSUME NEW v \in Chain, NEW d, Pass(2, v, d), P = <<"joined", v, d>>
        PROVE  \E ws, e, s : ConcatInv(ws, e, s)'
    <3>1. ASSUME NEW ws, ws = Append(SubSeq(vs, 1, L - 2), v), ws \in Seq(Chain), Len(ws) = L - 2 + 1
          PROVE  want = concat_event(ws, d)[Len(ws) - 1]
      <4>1. CASE L = 2
        <5>1. Len(ws) = 1 /\ Len(ws) \in 1 .. 3 /\ ws[1] = v BY <1>1, <3>1, <4>1
        <5>2. concat_event(ws, d)[0] = <<"joined", v, d>> BY <5>1, ConcatIs
        <5> QED BY <2>2, <2>3, <4>1, <5>1, <5>2
      <4>2. CASE L = 3
        <5>1. Len(ws) = 2 /\ Len(ws) \in 1 .. 3 /\ ws[1] = vs[1] /\ ws[2] = v
          BY <1>1, <3>1, <4>2
        <5>2. concat_event(ws, d)[1] = Pair(vs[1], <<"joined", v, d>>) BY <5>1, ConcatIs
        <5> QED BY <2>2, <2>3, <4>2, <5>1, <5>2
      <4> QED BY <1>6, <4>1, <4>2
    <3> HIDE DEF P
    <3>2. 2 \in 1 .. 3 /\ 2 <= L BY <1>6
    <3> QED BY <1>4, <2>3, <3>1, <3>2
  <2>4. PassTM(x, y) \/ PassStrings(x, y) BY <1>0, <1>6
  <2>5. CASE PassTM(x, y)
    <3> DEFINE tm == call_binTM(x, y, "concat")
    <3>1. P = IF tm = Raise THEN Raise ELSE <<"joined", Str(<<"h">>), Append(c, tm)>>
      BY <2>1, <2>5, PairIs DEF PassTM
    <3>2. CASE tm = Raise
      <4>1. Result(Raise) BY <2>5, <3>2 DEF PassTM
      <4>2. \A a : Pair(a, Raise) = Raise BY DEF Pair
      <4>3. want = Raise BY <2>2, <3>1, <3>2, <4>2
      <4>4. Raise # NoResult BY DEF Raise, NoResult
      <4> QED BY <1>3, <4>1, <4>3, <4>4
    <3>3. CASE tm # Raise
      <4>1. Pass(2, Str(<<"h">>), Append(c, tm)) BY <1>1, <2>5, <3>3 DEF PassTM
      <4> HIDE DEF P, tm
      <4> QED BY <2>3, <3>1, <3>3, <4>1, ChainFacts
    <3> QED BY <3>2, <3>3
  <2>6. CASE PassStrings(x, y)
    <3>1. /\ Joinable(x) /\ Joinable(y)
          /\ IF tostring(y) = Str(<<>>) THEN Pass(2, tostring(x), c)
             ELSE Pass(Strings(vs), Str(JoinLast(vs, Strings(vs))[Strings(vs)]), c)
      BY <1>1, <2>6 DEF PassStrings
    <3>2. P = <<"joined", Str(tostring(x)[2] \o tostring(y)[2]), c>>
      BY <2>1, <3>1, PairIs
    <3> HIDE DEF P
    <3> DEFINE a == tostring(x)[2]
               b == tostring(y)[2]
    <3>3. /\ a \in Seq(Characters) /\ b \in Seq(Characters) /\ a \o b \in Seq(Characters)
          /\ tostring(x) = Str(a) /\ tostring(y) = Str(b) /\ tostring(x) \in Chain
      BY <2>1, <3>1, ChainFacts
    <3>4. a \o <<>> = a /\ b \o <<>> = b BY <3>3
    <3> HIDE DEF a, b
    <3>5. Str(a \o b) \in Chain BY <3>3, ChainFacts
    <3>6. CASE tostring(y) = Str(<<>>)
      <4>0. Str(b)[2] = b /\ Str(<<>>)[2] = <<>> BY DEF Str, Value
      <4>1. b = <<>> BY <3>3, <3>6, <4>0
      <4>2. P = <<"joined", tostring(x), c>> BY <3>2, <3>3, <3>4, <4>1 DEF a, b
      <4> QED BY <2>3, <3>1, <3>3, <3>6, <4>2
    <3>7. CASE tostring(y) # Str(<<>>) /\ ~(L = 3 /\ Joinable(vs[1]))
      <4>1. Strings(vs) = 2 BY <1>1, <1>6, <3>1, <3>7, StringsIs
      <4>2. JoinLast(vs, 2)[2] = a \o (b \o <<>>)
        <5>1. L >= 1 BY <1>6
        <5> QED BY <1>1, <5>1, JoinIs DEF a, b
      <4>3. Pass(2, Str(a \o b), c) BY <3>1, <3>4, <3>7, <4>1, <4>2
      <4>4. P = <<"joined", Str(a \o b), c>> BY <3>2 DEF a, b
      <4> QED BY <2>3, <3>5, <4>3, <4>4
    <3>8. CASE tostring(y) # Str(<<>>) /\ L = 3 /\ Joinable(vs[1])
      <4> DEFINE z == tostring(vs[1])[2]
                 v == Str(z \o (a \o b))
      <4>1. Strings(vs) = 3 BY <1>1, <1>6, <3>1, <3>8, StringsIs
      <4>2. JoinLast(vs, 3)[3] = z \o (a \o (b \o <<>>))
        <5>1. L >= 1 /\ L - 2 = 1 BY <3>8
        <5> QED BY <1>1, <5>1, JoinIs DEF a, b
      <4>3. Pass(3, v, c) BY <3>1, <3>4, <3>8, <4>1, <4>2
      <4>4. vs[1] \in Chain BY <1>1
      <4>5. z \in Seq(Characters) /\ z \o (a \o b) \in Seq(Characters)
        BY <3>3, <3>8, <4>4, ChainFacts
      <4>6. v \in Chain BY <4>5, ChainFacts
      <4>7. want = <<"joined", v, c>>
        <5>1. P = <<"joined", Str(a \o b), c>> BY <3>2 DEF a, b
        <5>2. Joinable(Str(a \o b)) /\ tostring(Str(a \o b)) = Str(a \o b) /\ Str(a \o b)[2] = a \o b
          BY <3>3, ChainFacts, ValueFacts
        <5>3. Pair(vs[1], <<"joined", Str(a \o b), c>>) = <<"joined", v, c>>
          <6>1. Pair(vs[1], <<"joined", Str(a \o b), c>>) =
                  <<"joined", Str(z \o tostring(Str(a \o b))[2]), c>>
            BY <3>5, <3>8, <4>4, <5>2, PairIs
          <6> QED BY <5>2, <6>1
        <5> QED BY <2>2, <3>8, <5>1, <5>3
      <4> HIDE DEF v
      <4>8. ASSUME NEW ws, ws = Append(SubSeq(vs, 1, L - 3), v), ws \in Seq(Chain), Len(ws) = L - 3 + 1
            PROVE  want = concat_event(ws, c)[Len(ws) - 1]
        <5>1. Len(ws) = 1 /\ Len(ws) \in 1 .. 3 /\ ws[1] = v BY <1>1, <3>8, <4>8
        <5>2. concat_event(ws, c)[0] = <<"joined", v, c>> BY <5>1, ConcatIs
        <5> QED BY <4>7, <5>1, <5>2
      <4>9. 3 \in 1 .. 3 /\ 3 <= L BY <3>8
      <4> QED BY <1>4, <4>3, <4>6, <4>8, <4>9
    <3> QED BY <1>6, <3>6, <3>7, <3>8
  <2> QED BY <2>4, <2>5, <2>6
<1> QED BY <1>1, <1>5, <1>6

-----------------------------------------------------------------------------
(* The program.                                                            *)

\* The operators whose result is known at once.
Operation == {"add", "eq", "lt", "le", "call", "len"}
\* The operation being executed goes on towards what the manual says.
OpInv ==
  \/ op = Idle
  \/ \E p, n, r : GetInv(p, n, r)
  \/ \E p, k, x, n, r : SetInv(p, k, x, n, r)
  \/ \E vs, c, r : ConcatInv(vs, c, r)
  \/ op.kind \in Operation /\ op.res = want
MetaInv == MetaTyped /\ Honest(flags) /\ OpInv

\* The invariant says what is to be proved.
LEMMA MetaInvRight ==
  ASSUME MetaInv
  PROVE  HandlersRight
<1>1. CacheRight BY DEF MetaInv, Honest, CacheRight
<1>2. IndexRight /\ OperatorRight
  <2>1. CASE op = Idle BY <2>1 DEF Idle, IndexRight, OperatorRight
  <2>2. CASE \E p, n, r : GetInv(p, n, r) BY <2>2 DEF GetInv, IndexRight, OperatorRight
  <2>3. CASE \E p, k, x, n, r : SetInv(p, k, x, n, r) BY <2>3 DEF SetInv, IndexRight, OperatorRight
  <2>4. CASE \E vs, c, r : ConcatInv(vs, c, r) BY <2>4 DEF ConcatInv, IndexRight, OperatorRight
  <2>5. CASE op.kind \in Operation /\ op.res = want
    BY <2>5 DEF Operation, IndexRight, OperatorRight
  <2> QED BY <2>1, <2>2, <2>3, <2>4, <2>5 DEF MetaInv, OpInv
<1> QED BY <1>1, <1>2 DEF HandlersRight

\* It holds at the start.
LEMMA MetaStarts ==
  ASSUME metaInit, ~SelfMeta
  PROVE  MetaInv
<1> DEFINE All == UNION {Entries(t, k) : t \in Tables, k \in KeysOf(evs)}
<1>1. /\ evs \in EventSets /\ gmt \in Tables \cup {None} /\ op = Idle
      /\ meta \in [Tables -> Tables \cup {None}] /\ \A t \in Tables : meta[t] \in Metatables(t)
      /\ flags = [t \in Tables |-> {}]
      /\ \A t \in Tables : \A k \in KeysOf(evs) : raw[t][k] \in Entries(t, k)
  BY DEF metaInit
<1>2. \A t \in Tables : meta[t] # t BY <1>1, MetaAssumption DEF Metatables
<1>3. raw \in [Tables -> [KeysOf(evs) -> Things]]
  <2>1. raw \in [Tables -> UNION {[KeysOf(evs) -> UNION {Entries(t, k) : k \in KeysOf(evs)}] : t \in Tables}]
    BY DEF metaInit
  <2>2. ASSUME NEW t \in Tables PROVE raw[t] \in [KeysOf(evs) -> Things]
    <3>1. PICK u \in Tables : raw[t] \in [KeysOf(evs) -> UNION {Entries(u, k) : k \in KeysOf(evs)}]
      BY <2>1
    <3>2. \A k \in KeysOf(evs) : raw[t][k] \in Things BY <1>1, EntryKinds
    <3> QED BY <3>1, <3>2
  <2> QED BY <2>1, <2>2
<1>4. MetaTyped BY <1>1, <1>2, <1>3 DEF MetaTyped
<1>5. Honest(flags) BY <1>1 DEF Honest
<1> QED BY <1>1, <1>4, <1>5 DEF MetaInv, OpInv

\* So it does when the program changes a table.
LEMMA MetaChanges ==
  ASSUME MetaInv, ~SelfMeta, SetMetatable \/ lua_rawset
  PROVE  MetaInv'
<1>1. MetaTyped /\ Honest(flags) /\ op = Idle BY DEF MetaInv, SetMetatable, lua_rawset
<1>2. CASE SetMetatable
  <2>0. PICK t \in Tables : \E mt \in Metatables(t) : meta' = [meta EXCEPT ![t] = mt]
    BY <1>2 DEF SetMetatable
  <2>1. PICK mt \in Metatables(t) : meta' = [meta EXCEPT ![t] = mt] BY <2>0
  <2>2. /\ evs' = evs /\ raw' = raw /\ gmt' = gmt /\ flags' = flags /\ op' = Idle
    BY <1>1, <1>2 DEF SetMetatable
  <2>3. mt \in Tables \cup {None} /\ mt # t BY MetaAssumption DEF Metatables
  <2>4. MetaTyped' BY <1>1, <2>1, <2>2, <2>3 DEF MetaTyped, KeysOf, Entries, EventSets
  <2>5. Honest(flags)' BY <1>1, <2>2 DEF Honest, Entry
  <2> QED BY <2>2, <2>4, <2>5 DEF MetaInv, OpInv, Idle
<1>3. CASE lua_rawset
  <2>1. PICK t \in Tables, k \in KeysOf(evs) : \E x \in Entries(t, k) :
          raw' = [raw EXCEPT ![t][k] = x] /\ flags' = luaH_set(flags, t)
    BY <1>3 DEF lua_rawset
  <2>2. PICK x \in Entries(t, k) : raw' = [raw EXCEPT ![t][k] = x] /\ flags' = luaH_set(flags, t)
    BY <2>1
  <2>3. evs' = evs /\ meta' = meta /\ gmt' = gmt /\ op' = Idle BY <1>1, <1>3 DEF lua_rawset
  <2>4. MetaTyped' BY <1>1, <2>2, <2>3, EntryKinds DEF MetaTyped
  <2>5. Honest(flags') /\ flags'[t] = {} BY <1>1, <2>2, ResetHonest
  <2>6. Honest(flags)'
    <3>1. flags' \in [Tables -> SUBSET FastEvents] BY <2>5 DEF Honest
    <3>2. ASSUME NEW u \in Tables, NEW e \in flags'[u] PROVE Entry(u, e)' = Nil
      <4>1. u # t BY <2>5, <3>2
      <4>2. raw'[u] = raw[u] BY <1>1, <2>2, <4>1 DEF MetaTyped
      <4>3. Entry(u, e) = Nil BY <2>5, <3>2 DEF Honest
      <4> QED BY <2>3, <4>2, <4>3 DEF Entry
    <3> QED BY <3>1, <3>2 DEF Honest
  <2> QED BY <2>3, <2>4, <2>6 DEF MetaInv, OpInv, Idle
<1> QED BY <1>2, <1>3

\* An operation that begins has all its way to go.
LEMMA MetaBegins ==
  ASSUME MetaInv, StartGet \/ StartSet \/ Concatenation
  PROVE  MetaInv'
<1>0. MAXTAGLOOP \in Nat BY MetaAssumption
<1>1. evs' = evs /\ raw' = raw /\ meta' = meta /\ gmt' = gmt /\ flags' = flags
  BY DEF StartGet, StartSet, Concatenation
<1>2. MetaTyped' BY <1>1, Unchanging DEF MetaInv
<1>3. Honest(flags)' BY <1>1 DEF MetaInv, Honest, Entry
<1>4. CASE StartGet
  <2>1. PICK v \in Operands :
          /\ op' = [kind |-> "get", t |-> <<"local", v>>, key |-> "x", loop |-> 0, res |-> NoResult]
          /\ want' = gettable_event(v, "x", MAXTAGLOOP)
    BY <1>4 DEF StartGet
  <2>2. PICK p : p = <<"local", v>> OBVIOUS
  <2>3. Deref(p)' = v BY <2>2 DEF Deref
  <2>4. want' = gettable_event(v, "x", MAXTAGLOOP - 0)'
    BY <1>0, <1>1, <2>1, Unchanging
  <2>5. GetInv(p, 0, NoResult)' BY <1>0, <2>1, <2>2, <2>3, <2>4 DEF GetInv
  <2> QED BY <1>2, <1>3, <2>5 DEF MetaInv, OpInv
<1>5. CASE StartSet
  <2>1. PICK v \in Operands, k \in KeysOf(evs) : \E x :
          LET r == settable_event(v, k, x, MAXTAGLOOP)
          IN  /\ r.at # None => x \in Entries(r.at, k)
              /\ op' = [kind |-> "set", t |-> <<"local", v>>, key |-> k, val |-> x,
                        loop |-> 0, res |-> NoResult]
              /\ want' = <<r.res, IF r.at = None THEN raw ELSE [raw EXCEPT ![r.at][k] = x]>>
    BY <1>5 DEF StartSet
  <2>2. PICK x, r : /\ r = settable_event(v, k, x, MAXTAGLOOP)
                    /\ r.at # None => x \in Entries(r.at, k)
                    /\ op' = [kind |-> "set", t |-> <<"local", v>>, key |-> k, val |-> x,
                              loop |-> 0, res |-> NoResult]
                    /\ want' = <<r.res, IF r.at = None THEN raw ELSE [raw EXCEPT ![r.at][k] = x]>>
    BY <2>1
  <2>3. PICK p : p = <<"local", v>> OBVIOUS
  <2>4. Deref(p)' = v /\ \A h : Moved(p, h) = p BY <2>3 DEF Deref, Moved
  <2>5. r = settable_event(v, k, x, MAXTAGLOOP - 0)' BY <1>0, <1>1, <2>2, Unchanging
  <2>6. k \in KeysOf(evs)' BY <1>1 DEF KeysOf
  <2>7. want' = <<r.res, IF r.at = None THEN raw' ELSE [raw' EXCEPT ![r.at][k] = x]>>
    BY <1>1, <2>2
  <2>8. SetInv(p, k, x, 0, NoResult)'
    BY <1>0, <2>2, <2>3, <2>4, <2>5, <2>6, <2>7 DEF SetInv
  <2> QED BY <1>2, <1>3, <2>8 DEF MetaInv, OpInv
<1>6. CASE Concatenation
  <2>1. PICK x \in Chain, y \in Chain, z \in Chain :
          /\ op' = [kind |-> "concat", vs |-> <<x, y, z>>, calls |-> <<>>, res |-> NoResult]
          /\ want' = concat_event(<<x, y, z>>, <<>>)[2]
    BY <1>6, ChainFacts DEF Concatenation, Chain
  <2>2. PICK vs : vs = <<x, y, z>> OBVIOUS
  <2>3. vs \in Seq(Chain) /\ Len(vs) = 3 BY <2>2
  <2>4. want' = concat_event(vs, <<>>)[Len(vs) - 1]'
    <3>1. concat_event(vs, <<>>)' = concat_event(vs, <<>>) BY <1>1, Unchanging
    <3> QED BY <2>1, <2>2, <2>3, <3>1
  <2>5. ConcatInv(vs, <<>>, NoResult)' BY <2>1, <2>2, <2>3, <2>4 DEF ConcatInv
  <2> QED BY <1>2, <1>3, <2>5 DEF MetaInv, OpInv
<1> QED BY <1>4, <1>5, <1>6

\* An operator has its result when it ends.
LEMMA MetaOperates ==
  ASSUME MetaInv, Arithmetic \/ Equality \/ Order \/ CallValue
  PROVE  MetaInv'
<1>1. MetaTyped /\ Honest(flags) BY DEF MetaInv
<1>2. ASSUME NEW kind \in Operation, NEW x, NEW y, NEW res, NEW fl,
             Operator(kind, x, y, res, fl), res = Meaning(kind, x, y), Honest(fl)
      PROVE  MetaInv'
  <2>1. /\ evs' = evs /\ raw' = raw /\ meta' = meta /\ gmt' = gmt /\ flags' = fl
        /\ op' = [kind |-> kind, x |-> x, y |-> y, res |-> res] /\ want' = res
    BY <1>2 DEF Operator
  <2>2. MetaTyped' BY <1>1, <2>1, Unchanging
  <2>3. Honest(flags)' BY <1>2, <2>1 DEF Honest, Entry
  <2>4. (op.kind \in Operation /\ op.res = want)' BY <2>1
  <2> QED BY <2>2, <2>3, <2>4 DEF MetaInv, OpInv
<1>3. CASE Arithmetic
  <2>1. PICK x, y \in Operands : Operator("add", x, y, ArithOp(x, y), flags) BY <1>3 DEF Arithmetic
  <2> QED BY <1>1, <1>2, <2>1, ArithmeticIs DEF Operation
<1>4. CASE Equality
  <2>1. PICK x, y \in Operands : Operator("eq", x, y, luaV_equalval(x, y).res, luaV_equalval(x, y).flags)
    BY <1>4 DEF Equality
  <2> QED BY <1>1, <1>2, <2>1, EqualIs DEF Operation
<1>5. CASE Order
  <2>1. PICK x, y \in Operands : \/ Operator("lt", x, y, luaV_lessthan(x, y), flags)
                                 \/ Operator("le", x, y, lessequal(x, y), flags)
    BY <1>5 DEF Order
  <2> QED BY <1>1, <1>2, <2>1, LessIs, LessEqualIs DEF Operation
<1>6. CASE CallValue
  <2>1. PICK x \in Operands \cup {Fun(f) : f \in Functions} :
          \/ Operator("call", x, Num(1), tryfuncTM(x, Num(1)), flags)
          \/ Operator("len", x, Nil, OpLen(x), flags)
    BY <1>6 DEF CallValue
  <2> QED BY <1>1, <1>2, <2>1, CallIs DEF Operation
<1> QED BY <1>3, <1>4, <1>5, <1>6

\* The kind of an operation tells its disjunct.
LEMMA OpKinds ==
  ASSUME OpInv
  PROVE  /\ op.kind = "get" => \E p, n, r : GetInv(p, n, r)
         /\ op.kind = "set" => \E p, k, x, n, r : SetInv(p, k, x, n, r)
         /\ op.kind = "concat" => \E vs, c, r : ConcatInv(vs, c, r)
<1>1. op = Idle => op.kind = "idle" BY DEF Idle
<1>2. (\E p, n, r : GetInv(p, n, r)) => op.kind = "get" BY DEF GetInv
<1>3. (\E p, k, x, n, r : SetInv(p, k, x, n, r)) => op.kind = "set" BY DEF SetInv
<1>4. (\E vs, c, r : ConcatInv(vs, c, r)) => op.kind = "concat" BY DEF ConcatInv
<1>5. \A k \in {"get", "set", "concat"} : k \notin Operation /\ k # "idle" BY DEF Operation
<1> QED BY <1>1, <1>2, <1>3, <1>4, <1>5 DEF OpInv

\* Every step keeps the invariant.
LEMMA MetaStep ==
  ASSUME MetaInv, ~SelfMeta, ~SelfNewindex, [metaNext]_metaVars
  PROVE  MetaInv'
<1>1. CASE SetMetatable \/ lua_rawset BY <1>1, MetaChanges
<1>2. CASE StartGet \/ StartSet \/ Concatenation BY <1>2, MetaBegins
<1>3. CASE Arithmetic \/ Equality \/ Order \/ CallValue BY <1>3, MetaOperates
<1>4. CASE luaV_gettable
  <2>1. op.kind = "get" BY <1>4 DEF luaV_gettable, Pending
  <2>2. PICK p, n, r : GetInv(p, n, r)
    BY <2>1, OpKinds DEF MetaInv
  <2>3. Honest(flags)' /\ \E q, i, s : GetInv(q, i, s)' BY <1>4, <2>2, GetStep DEF MetaInv
  <2>4. MetaTyped' BY <1>4, Unchanging DEF MetaInv, luaV_gettable
  <2> QED BY <2>3, <2>4 DEF MetaInv, OpInv
<1>5. CASE luaV_settable
  <2>1. op.kind = "set" BY <1>5 DEF luaV_settable, Pending
  <2>2. PICK p, k, x, n, r : SetInv(p, k, x, n, r)
    BY <2>1, OpKinds DEF MetaInv
  <2>3. MetaTyped' /\ Honest(flags)' /\ \E q, i, s : SetInv(q, k, x, i, s)'
    BY <1>5, <2>2, SetStep DEF MetaInv
  <2> QED BY <2>3 DEF MetaInv, OpInv
<1>6. CASE luaV_concat
  <2>1. op.kind = "concat" BY <1>6 DEF luaV_concat, Pending
  <2>2. PICK vs, c, r : ConcatInv(vs, c, r)
    BY <2>1, OpKinds DEF MetaInv
  <2>3. \E ws, d, s : ConcatInv(ws, d, s)' BY <1>6, <2>2, ConcatStep
  <2>4. MetaTyped' BY <1>6, Unchanging DEF MetaInv, luaV_concat
  <2>5. Honest(flags)' BY <1>6 DEF MetaInv, luaV_concat, Honest, Entry
  <2> QED BY <2>3, <2>4, <2>5 DEF MetaInv, OpInv
<1>7. CASE Finish
  <2>1. /\ evs' = evs /\ raw' = raw /\ meta' = meta /\ gmt' = gmt /\ flags' = flags /\ op' = Idle
    BY <1>7 DEF Finish
  <2>2. MetaTyped' BY <2>1, Unchanging DEF MetaInv
  <2>3. Honest(flags)' BY <2>1 DEF MetaInv, Honest, Entry
  <2> QED BY <2>1, <2>2, <2>3 DEF MetaInv, OpInv, Idle
<1>8. CASE UNCHANGED metaVars
  <2>1. /\ evs' = evs /\ raw' = raw /\ meta' = meta /\ gmt' = gmt /\ flags' = flags /\ op' = op
        /\ want' = want
    BY <1>8 DEF metaVars
  <2>2. MetaTyped' BY <2>1, Unchanging DEF MetaInv
  <2>3. Honest(flags)' BY <2>1 DEF MetaInv, Honest, Entry
  <2>4. \A p, n, r : GetInv(p, n, r)' = GetInv(p, n, r)
    BY <2>1 DEF GetInv, Deref, gettable_event, ChainEnd, Repeats, Handler, Entry, metatable
  <2>5. \A p, k, x, n, r : SetInv(p, k, x, n, r)' = SetInv(p, k, x, n, r)
    BY <2>1 DEF SetInv, Deref, settable_event, ChainEnd, Repeats, Handler, Entry, metatable, KeysOf
  <2>6. \A vs, c, r : ConcatInv(vs, c, r)' = ConcatInv(vs, c, r)
    BY <2>1 DEF ConcatInv, concat_event, Pair, Handler, Entry, metatable
  <2>7. OpInv'
    <3>1. OpInv BY DEF MetaInv
    <3>2. CASE op = Idle BY <2>1, <3>2 DEF OpInv, Idle
    <3>3. CASE \E p, n, r : GetInv(p, n, r) BY <2>4, <3>3 DEF OpInv
    <3>4. CASE \E p, k, x, n, r : SetInv(p, k, x, n, r) BY <2>5, <3>4 DEF OpInv
    <3>5. CASE \E vs, c, r : ConcatInv(vs, c, r) BY <2>6, <3>5 DEF OpInv
    <3>6. CASE op.kind \in Operation /\ op.res = want BY <2>1, <3>6 DEF OpInv
    <3> QED BY <3>1, <3>2, <3>3, <3>4, <3>5, <3>6 DEF OpInv
  <2> QED BY <2>2, <2>3, <2>7 DEF MetaInv
<1> QED BY <1>1, <1>2, <1>3, <1>4, <1>5, <1>6, <1>7, <1>8 DEF metaNext

\* However many tables, functions and handlers there are, and in whatever order
\* the program assigns fields, changes metatables and executes operators: the
\* flags of a metatable hide no metamethod, luaV_gettable and luaV_settable end
\* where section 2.8 of the manual says (at a value, a call or the error of
\* MAXTAGLOOP), and each operator calls the handler of the manual with its
\* operands in its order.  No table is its own metatable or its own __newindex:
\* with either the code does something else.
THEOREM HandlersCorrect ==
  ASSUME ~SelfMeta, ~SelfNewindex
  PROVE  metaSpec => []HandlersRight
<1>1. metaInit => MetaInv BY MetaStarts
<1>2. MetaInv /\ [metaNext]_metaVars => MetaInv' BY MetaStep
<1>3. MetaInv => HandlersRight BY MetaInvRight
<1> QED BY <1>1, <1>2, <1>3, PTL DEF metaSpec
=============================================================================
