----------------------------- MODULE LuaStrings -----------------------------
(***************************************************************************)
(* The table of strings of Lua 5.1.4 (lstring.c), which keeps one TString  *)
(* for each contents, while the collector (lgc.c) sweeps it one bucket at  *)
(* a time and the table is resized between its steps.                      *)
(*                                                                         *)
(* A string is named by its contents.  The mark phase is one step, after   *)
(* which a string the program refers to is black; `strs' holds, for every  *)
(* TString, its contents, its bucket and its color.                        *)
(***************************************************************************)
EXTENDS Integers, FiniteSets

CONSTANTS
    Contents,       \* what strings are made of
    HashOf(_),      \* the hash of a contents
    MINSTRTABSIZE,
    MaxSize         \* bound of the size of the table
ASSUME StringsAssumption ==
    /\ MINSTRTABSIZE \in Nat \ {0} /\ MaxSize \in Nat
    /\ \A c \in Contents : HashOf(c) \in Nat

VARIABLES
    strs,           \* the TStrings: [c, b, color]
    size, nuse,     \* of the string table
    gcstate, sweepstrgc,
    currentwhite,
    refs            \* contents of the strings the program refers to

strVars == <<strs, size, nuse, gcstate, sweepstrgc, currentwhite, refs>>

otherwhite == 1 - currentwhite
isdead(s) == s.color = otherwhite
lmod(h, n) == h % n
Black == 2

\* luaS_resize: every string goes to its bucket of the new vector, except
\* while the buckets are swept.
Rehashed(ss, n) == {[s EXCEPT !.b = lmod(HashOf(s.c), n)] : s \in ss}
luaS_resize(ss, n) ==
    IF gcstate = "sweepstring" THEN strs' = ss /\ UNCHANGED size
    ELSE strs' = Rehashed(ss, n) /\ size' = n
\* The new vector may fail to be allocated, which leaves the table as it was.
NoMemory(ss) == strs' = ss /\ UNCHANGED size

Lookup(c) == {s \in strs : s.b = lmod(HashOf(c), size) /\ s.c = c}

\* luaS_newlstr: a string of the table is used again, even if it is dead.
FindString_dead(c) == Lookup(c) # {} /\ refs' = refs \cup {c} /\ UNCHANGED <<strs, size, nuse>>
FindString(c) ==
    /\ Lookup(c) # {}
    /\ strs' = {IF s \in Lookup(c) /\ isdead(s) THEN [s EXCEPT !.color = currentwhite] ELSE s
                : s \in strs}
    /\ refs' = refs \cup {c}
    /\ UNCHANGED <<size, nuse>>
\* newlstr: the string is in the table before luaS_resize may fail.
newlstr(c) ==
    LET new == strs \cup {[c |-> c, b |-> lmod(HashOf(c), size), color |-> currentwhite]}
        crowded == nuse + 1 > size /\ size <= MaxSize \div 2
    IN  /\ Lookup(c) = {}
        /\ nuse' = nuse + 1
        /\ \/ ~crowded /\ strs' = new /\ refs' = refs \cup {c} /\ UNCHANGED size
           \/ crowded /\ luaS_resize(new, size * 2) /\ refs' = refs \cup {c}
           \/ crowded /\ gcstate # "sweepstring" /\ NoMemory(new) /\ UNCHANGED refs
luaS_newlstr ==
    /\ \E c \in Contents : FindString(c) \/ newlstr(c)
    /\ UNCHANGED <<gcstate, sweepstrgc, currentwhite>>

DropRef ==
    /\ \E c \in refs : refs' = refs \ {c}
    /\ UNCHANGED <<strs, size, nuse, gcstate, sweepstrgc, currentwhite>>

\* The mark phase up to the flip of the whites in atomic.
MarkAndFlip ==
    /\ gcstate = "pause"
    /\ strs' = {IF s.c \in refs THEN [s EXCEPT !.color = Black] ELSE s : s \in strs}
    /\ currentwhite' = otherwhite
    /\ gcstate' = "sweepstring" /\ sweepstrgc' = 0
    /\ UNCHANGED <<size, nuse, refs>>

\* luaC_fullgc before the mark phase ended: nothing is dead, the sweep makes
\* every string white again.
luaC_fullgc ==
    /\ gcstate = "pause"
    /\ gcstate' = "sweepstring" /\ sweepstrgc' = 0
    /\ UNCHANGED <<strs, size, nuse, currentwhite, refs>>

\* sweepwholelist of one bucket.
SweepBucket(b) ==
    LET gone == {s \in strs : s.b = b /\ isdead(s)}
    IN  /\ strs' = {IF s.b = b THEN [s EXCEPT !.color = currentwhite] ELSE s
                    : s \in strs \ gone}
        /\ nuse' = nuse - Cardinality(gone)
sweepstring_short ==
    /\ gcstate = "sweepstring"
    /\ SweepBucket(sweepstrgc)
    /\ sweepstrgc' = sweepstrgc + 1
    /\ gcstate' = IF sweepstrgc + 2 >= size THEN "sweep" ELSE gcstate
    /\ UNCHANGED <<size, currentwhite, refs>>
sweepstring ==
    /\ gcstate = "sweepstring"
    /\ SweepBucket(sweepstrgc)
    /\ sweepstrgc' = sweepstrgc + 1
    /\ gcstate' = IF sweepstrgc + 1 >= size THEN "sweep" ELSE gcstate
    /\ UNCHANGED <<size, currentwhite, refs>>

\* checkSizes, at the end of the sweep phase.
checkSizes ==
    /\ gcstate = "sweep"
    /\ \/ /\ nuse < size \div 4 /\ size > MINSTRTABSIZE * 2
          /\ \/ luaS_resize(strs, size \div 2) /\ gcstate' = "pause"
             \/ NoMemory(strs) /\ UNCHANGED gcstate
       \/ /\ ~(nuse < size \div 4 /\ size > MINSTRTABSIZE * 2)
          /\ gcstate' = "pause" /\ UNCHANGED <<strs, size>>
    /\ UNCHANGED <<nuse, sweepstrgc, currentwhite, refs>>

strInit ==
    /\ strs = {} /\ size = MINSTRTABSIZE /\ nuse = 0
    /\ gcstate = "pause" /\ sweepstrgc = 0 /\ currentwhite = 0
    /\ refs = {}

strNext ==
    \/ luaS_newlstr \/ DropRef \/ MarkAndFlip \/ luaC_fullgc \/ sweepstring \/ checkSizes
strSpec == strInit /\ [][strNext]_strVars

-----------------------------------------------------------------------------
(* Properties.                                                             *)

\* Equal strings are one object, the one a lookup finds, in the bucket that
\* the size of the table gives it, and the strings in use are in the table:
\* string equality is equality of pointers.
Interned ==
    /\ \A s, r \in strs : s.c = r.c => s = r
    /\ \A s \in strs : s.b = lmod(HashOf(s.c), size)
    /\ refs \subseteq {s.c : s \in strs}
    /\ nuse = Cardinality(strs)

\* When the sweep of the strings ends no bucket was skipped: no string is dead
\* or black, which the next cycle would take for live and marked.
AllSwept == gcstate \in {"sweep", "pause"} => \A s \in strs : s.color = currentwhite
\* Equal strings are one object, in the bucket where luaS_newlstr looks, and
\* sweepstring passes over no bucket, though luaS_resize may be called between
\* its steps.
StringsUnique == Interned /\ AllSwept
=============================================================================
