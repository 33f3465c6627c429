----------------------------- MODULE LuaBuffer ------------------------------
(***************************************************************************)
(* String buffers (lauxlib.c): characters are gathered in a C array, and   *)
(* the pieces that do not fit are left on the Lua stack, where adjuststack *)
(* joins them so that there are few of them.                               *)
(*                                                                         *)
(* The characters are the numbers 1, 2, 3, ... in the order in which they  *)
(* are added, so that a piece is an interval <<first, last>>.              *)
(***************************************************************************)
EXTENDS Integers, SequencesExt

CONSTANTS
    LUAL_BUFFERSIZE,
    LIMIT,          \* LUA_MINSTACK / 2
    MaxAdded        \* bound of the characters added

ASSUME BufferAssumption ==
    LUAL_BUFFERSIZE \in Nat \ {0} /\ LIMIT \in Nat /\ LIMIT > 1 /\ MaxAdded \in Nat

VARIABLES
    pieces,     \* what the buffer has on the Lua stack, from the bottom
    lvl,        \* the number of them, as the buffer counts them
    buff,       \* the interval in the C array, or Empty
    added,      \* history: how many characters were added
    peak,       \* history: most slots of the Lua stack used at once
    result      \* the interval luaL_pushresult leaves, or Empty

bufVars == <<pieces, lvl, buff, added, peak, result>>

Empty == <<1, 0>>
Size(p) == p[2] - p[1] + 1
bufffree == LUAL_BUFFERSIZE - Size(buff)
\* What lua_concat makes of pieces: Broken if they are out of order.
Broken == <<0, 0>>
InSequence(ps) == \A m \in 1 .. Len(ps) - 1 : ps[m + 1][1] = ps[m][2] + 1
lua_concat(ps) ==
    IF ps = <<>> THEN Empty ELSE IF InSequence(ps) THEN <<ps[1][1], ps[Len(ps)][2]>> ELSE Broken
\* Characters put into the array after p.
Join(p, q) == IF p = Empty THEN q ELSE IF q = Empty THEN p ELSE lua_concat(<<p, q>>)
Highest(n) == IF n > peak THEN n ELSE peak

bufInit ==      \* luaL_buffinit
    pieces = <<>> /\ lvl = 0 /\ buff = Empty /\ added = 0 /\ peak = 0 /\ result = Empty

\* emptybuffer: the pieces with the contents of the array put after them.
Flushed(ps, p) == IF p = Empty THEN ps ELSE Append(ps, p)
Flushes(p) == IF p = Empty THEN 0 ELSE 1

\* adjuststack, with n pieces counted: the last toget pieces are joined, which
\* are as many as needed for the limit, or shorter than those above them.
Top(ps, n) == Size(lua_concat(SubSeq(ps, Len(ps) - n + 1, Len(ps))))
Goes(ps, n, toget) ==
    toget < n /\ (n - toget + 1 >= LIMIT \/ Top(ps, toget) > Size(ps[Len(ps) - toget]))
toget(ps, n) == CHOOSE m \in 1 .. n : ~Goes(ps, n, m) /\ \A k \in 1 .. m - 1 : Goes(ps, n, k)
Adjusted(ps, n, m) ==
    Append(SubSeq(ps, 1, Len(ps) - m), lua_concat(SubSeq(ps, Len(ps) - m + 1, Len(ps))))
adjuststack_never(ps, n) == pieces' = ps /\ lvl' = n
adjuststack(ps, n) ==
    IF n > 1
    THEN pieces' = Adjusted(ps, n, toget(ps, n)) /\ lvl' = n - toget(ps, n) + 1
    ELSE pieces' = ps /\ lvl' = n

\* luaL_prepbuffer
Prepare ==
    IF buff = Empty THEN UNCHANGED <<pieces, lvl, peak>>
    ELSE adjuststack(Append(pieces, buff), lvl + 1) /\ peak' = Highest(Len(pieces) + 1)

\* luaL_addchar
luaL_addchar ==
    LET new == added + 1
    IN  /\ result = Empty /\ new <= MaxAdded
        /\ added' = new
        /\ \/ bufffree > 0 /\ buff' = Join(buff, <<new, new>>) /\ UNCHANGED <<pieces, lvl, peak>>
           \/ bufffree = 0 /\ Prepare /\ buff' = <<new, new>>
        /\ UNCHANGED result

\* luaL_prepbuffer, n characters stored in the array, and luaL_addsize
luaL_addsize(n) ==
    /\ result = Empty /\ added + n <= MaxAdded
    /\ Prepare
    /\ buff' = IF n = 0 THEN Empty ELSE <<added + 1, added + n>>
    /\ added' = added + n
    /\ UNCHANGED result

\* luaL_addvalue of a string with n characters, which is on the stack: copied,
\* or left there after what was in the array.
luaL_addvalue_noinsert(n) ==
    LET v == IF n = 0 THEN Empty ELSE <<added + 1, added + n>>
    IN  /\ result = Empty /\ added + n <= MaxAdded
        /\ added' = added + n
        /\ IF n <= bufffree THEN buff' = Join(buff, v) /\ peak' = Highest(Len(pieces) + 1)
                                 /\ UNCHANGED <<pieces, lvl>>
           ELSE /\ adjuststack(Flushed(Append(pieces, v), buff), lvl + Flushes(buff) + 1)
                /\ peak' = Highest(Len(pieces) + 1 + Flushes(buff))
                /\ buff' = Empty
        /\ UNCHANGED result
luaL_addvalue(n) ==
    LET v == IF n = 0 THEN Empty ELSE <<added + 1, added + n>>
    IN  /\ result = Empty /\ added + n <= MaxAdded
        /\ added' = added + n
        /\ IF n <= bufffree THEN buff' = Join(buff, v) /\ peak' = Highest(Len(pieces) + 1)
                                 /\ UNCHANGED <<pieces, lvl>>
           ELSE /\ adjuststack(Append(Flushed(pieces, buff), v), lvl + Flushes(buff) + 1)
                /\ peak' = Highest(Len(pieces) + 1 + Flushes(buff))
                /\ buff' = Empty
        /\ UNCHANGED result

\* lua_concat of lvl values of the stack.
luaL_pushresult ==
    LET ps == Flushed(pieces, buff)
        n == lvl + Flushes(buff)
        all == lua_concat(SubSeq(ps, Len(ps) - n + 1, Len(ps)))
    IN  /\ result = Empty /\ added > 0
        /\ pieces' = Append(SubSeq(ps, 1, Len(ps) - n), all)
        /\ result' = all /\ lvl' = 1 /\ buff' = Empty
        /\ peak' = Highest(Len(ps))
        /\ UNCHANGED added

bufNext ==
    \/ luaL_addchar \/ luaL_pushresult
    \/ \E n \in 0 .. LUAL_BUFFERSIZE : luaL_addsize(n)
    \/ \E n \in 0 .. MaxAdded : luaL_addvalue(n)
bufSpec == bufInit /\ [][bufNext]_bufVars

-----------------------------------------------------------------------------
(* Properties.                                                             *)

\* The pieces on the stack, then the array, are what was added, in its order
\* and complete, and so is the result, alone on the stack.
InOrder ==
    /\ result = Empty => lua_concat(Flushed(pieces, buff)) = IF added = 0 THEN Empty
                                                             ELSE <<1, added>>
    /\ result # Empty => pieces = <<result>> /\ result = <<1, added>>

\* The buffer never uses more of the stack than the LUA_MINSTACK slots that a C
\* function has, of which it leaves half to its caller.
StackFits == peak <= LIMIT + 1 /\ lvl = Len(pieces)

\* A luaL_Buffer yields what was added, in its order, wherever adjuststack joined
\* pieces, within its LIMIT of stack slots.
BufferRight == InOrder /\ StackFits
=============================================================================
