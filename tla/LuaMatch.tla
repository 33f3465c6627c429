------------------------------ MODULE LuaMatch ------------------------------
(***************************************************************************)
(* Pattern matching (lstrlib.c): match, which keeps its captures in one    *)
(* MatchState and undoes them when it backtracks, and the loops of         *)
(* string.find, string.gmatch and string.gsub over it.                     *)
(*                                                                         *)
(* A pattern is the sequence of its items, as classend finds them:         *)
(* <<"one", class, suffix>>, <<"(">>, <<"()">>, <<")">>, <<"ref", n>> (%n), *)
(* <<"bal", b, e>> (%b), <<"front", class>> (%f[class]), <<"^">>, <<"$">>. *)
(* A class is a set of characters.                                         *)
(***************************************************************************)
EXTENDS Integers, SequencesExt

CONSTANTS
    Patterns, Subjects,
    LUA_MAXCAPTURES

VARIABLES
    subj, pat,
    loop,       \* the function: "find", "gmatch" or "gsub"
    init,       \* where find starts
    max_s,      \* the substitutions gsub may make
    src,        \* where its next match is tried
    out,        \* what it found: matches, and for gsub the characters copied
    over        \* whether it has returned

matchVars == <<subj, pat, loop, init, max_s, src, out, over>>

CAP_UNFINISHED == -1
CAP_POSITION == -2
NULL == 0
ERROR == -1
end == Len(subj) + 1        \* src_end
Start == [level |-> 0, cap |-> [n \in 1 .. LUA_MAXCAPTURES |-> <<0, 0>>]]
Fail(ms) == <<NULL, ms>>
Throw(ms) == <<ERROR, ms>>

singlematch(s, it) == s < end /\ it[1] = "one" /\ subj[s] \in it[2]
suffix(it) == IF it[1] = "one" THEN it[3] ELSE ""
Zero == "0"                 \* what surrounds the subject
At(s) == IF s = 0 \/ s = end THEN Zero ELSE subj[s]

\* Where the string that is balanced from s ends: cont is the depth.
RECURSIVE Balance(_, _, _)
Balance(s, it, cont) ==
    CASE s >= end -> NULL
      [] s < end /\ subj[s] = it[3] -> IF cont = 1 THEN s + 1 ELSE Balance(s + 1, it, cont - 1)
      [] s < end /\ subj[s] # it[3] -> Balance(s + 1, it, IF subj[s] = it[2] THEN cont + 1 ELSE cont)
matchbalance(s, it) == IF At(s) # it[2] THEN NULL ELSE Balance(s + 1, it, 1)

check_capture(ms, n) == n <= ms.level /\ ms.cap[n][2] # CAP_UNFINISHED
\* The innermost capture that is open, or 0
capture_to_close(ms) ==
    LET open == {n \in 1 .. ms.level : ms.cap[n][2] = CAP_UNFINISHED}
    IN  IF open = {} THEN 0 ELSE CHOOSE n \in open : \A m \in open : m <= n
\* A position capture has no length: (size_t)(-2) is more than any string has.
match_capture(ms, s, n) ==
    LET from == ms.cap[n][1]
        len == ms.cap[n][2]
    IN  IF len # CAP_POSITION /\ end - s >= len
           /\ SubSeq(subj, from, from + len - 1) = SubSeq(subj, s, s + len - 1)
        THEN s + len ELSE NULL

RECURSIVE match(_, _, _), max_expand(_, _, _, _), min_expand(_, _, _), Repeats(_, _)

\* How often the item p matches from s on.
Repeats(s, p) == IF singlematch(s, pat[p]) THEN 1 + Repeats(s + 1, p) ELSE 0
max_expand(ms, s, p, i) ==
    LET r == match(ms, s + i, p + 1)
    IN  IF i < 0 THEN Fail(ms) ELSE IF r[1] # NULL THEN r ELSE max_expand(r[2], s, p, i - 1)
min_expand(ms, s, p) ==
    LET r == match(ms, s, p + 1)
    IN  IF r[1] # NULL THEN r
        ELSE IF singlematch(s, pat[p]) THEN min_expand(r[2], s + 1, p) ELSE Fail(r[2])

start_capture(ms, s, p, what) ==
    IF ms.level >= LUA_MAXCAPTURES THEN Throw(ms)
    ELSE LET r == match([level |-> ms.level + 1,
                         cap |-> [ms.cap EXCEPT ![ms.level + 1] = <<s, what>>]], s, p)
         IN  IF r[1] # NULL THEN r ELSE Fail([r[2] EXCEPT !.level = @ - 1])
end_capture_keep(ms, s, p) ==
    LET l == capture_to_close(ms)
    IN  IF l = 0 THEN Throw(ms) ELSE match([ms EXCEPT !.cap[l][2] = s - ms.cap[l][1]], s, p)
end_capture(ms, s, p) ==
    LET l == capture_to_close(ms)
        r == match([ms EXCEPT !.cap[l][2] = s - ms.cap[l][1]], s, p)
    IN  IF l = 0 THEN Throw(ms)
        ELSE IF r[1] # NULL THEN r ELSE Fail([r[2] EXCEPT !.cap[l][2] = CAP_UNFINISHED])

\* The position after the match (or NULL, or ERROR) and the MatchState.
Item(ms, s, p) ==
    LET it == pat[p]
        m == singlematch(s, it)
        r == match(ms, s + 1, p + 1)
    IN  CASE suffix(it) = "?" -> IF m /\ r[1] # NULL THEN r
                                 ELSE match(IF m THEN r[2] ELSE ms, s, p + 1)
          [] suffix(it) = "*" -> max_expand(ms, s, p, Repeats(s, p))
          [] suffix(it) = "+" -> IF m THEN max_expand(ms, s + 1, p, Repeats(s + 1, p)) ELSE Fail(ms)
          [] suffix(it) = "-" -> min_expand(ms, s, p)
          [] OTHER -> IF m THEN r ELSE Fail(ms)
GoOn(ms, s, p) == IF s = NULL THEN Fail(ms) ELSE match(ms, s, p)
match(ms, s, p) ==
    IF p > Len(pat) THEN <<s, ms>>
    ELSE LET it == pat[p]
         IN  CASE it[1] = "(" -> start_capture(ms, s, p + 1, CAP_UNFINISHED)
               [] it[1] = "()" -> start_capture(ms, s, p + 1, CAP_POSITION)
               [] it[1] = ")" -> end_capture(ms, s, p + 1)
               [] it[1] = "bal" -> GoOn(ms, matchbalance(s, it), p + 1)
               [] it[1] = "front" -> IF At(s - 1) \in it[2] \/ At(s) \notin it[2] THEN Fail(ms)
                                     ELSE match(ms, s, p + 1)
               [] it[1] = "ref" -> IF ~check_capture(ms, it[2]) THEN Throw(ms)
                                   ELSE GoOn(ms, match_capture(ms, s, it[2]), p + 1)
               [] it[1] = "$" /\ p = Len(pat) -> IF s = end THEN <<s, ms>> ELSE Fail(ms)
               [] OTHER -> Item(ms, s, p)

\* push_captures raises an error for a capture left open.
Unfinished(ms) == \E n \in 1 .. ms.level : ms.cap[n][2] = CAP_UNFINISHED
\* find and gsub take a ^ from the pattern; for gmatch it is a character.
anchor == loop # "gmatch" /\ pat # <<>> /\ pat[1] = <<"^">>
First == IF anchor THEN 2 ELSE 1
Matched(s) == CHOOSE r \in {match(Start, s, First)} : TRUE
Captures(ms) == [n \in 1 .. ms.level |-> ms.cap[n]]
Result(s, r) == <<"match", s, r[1], Captures(r[2])>>

-----------------------------------------------------------------------------
(* The functions, one step for each match they try.                        *)

matchInit ==
    /\ subj \in Subjects /\ pat \in Patterns
    /\ loop \in {"find", "gmatch", "gsub"}
    /\ init \in IF loop = "find" THEN 1 .. end ELSE {1}
    /\ max_s \in IF loop = "gsub" THEN {1, end} ELSE {0}
    /\ src = init /\ out = <<>> /\ over = FALSE

Stop == over' = TRUE /\ UNCHANGED src
Raise(r) == r[1] = ERROR \/ (r[1] # NULL /\ Unfinished(r[2]))

str_find_aux ==
    /\ loop = "find" /\ ~over
    /\ \E r \in {Matched(src)} :
         \/ Raise(r) /\ Stop /\ out' = <<<<"error">>>>
         \/ r[1] # NULL /\ ~Raise(r) /\ Stop /\ out' = <<Result(src, r)>>
         \/ r[1] = NULL /\ src < end /\ ~anchor /\ src' = src + 1 /\ UNCHANGED <<out, over>>
         \/ r[1] = NULL /\ (src = end \/ anchor) /\ Stop /\ UNCHANGED out
    /\ UNCHANGED <<subj, pat, loop, init, max_s>>

\* gmatch_aux: the next call starts after the match, or one character on.
gmatch_aux_stay ==
    /\ loop = "gmatch" /\ ~over
    /\ \/ src > end /\ Stop /\ UNCHANGED out
       \/ /\ src <= end
          /\ \E r \in {Matched(src)} :
               \/ Raise(r) /\ Stop /\ out' = <<<<"error">>>>
               \/ r[1] # NULL /\ ~Raise(r) /\ out' = Append(out, Result(src, r))
                  /\ src' = r[1] + 1 /\ UNCHANGED over
               \/ r[1] = NULL /\ src' = src + 1 /\ UNCHANGED <<out, over>>
    /\ UNCHANGED <<subj, pat, loop, init, max_s>>
gmatch_aux ==
    /\ loop = "gmatch" /\ ~over
    /\ \/ src > end /\ Stop /\ UNCHANGED out
       \/ /\ src <= end
          /\ \E r \in {Matched(src)} :
               \/ Raise(r) /\ Stop /\ out' = <<<<"error">>>>
               \/ r[1] # NULL /\ ~Raise(r) /\ out' = Append(out, Result(src, r))
                  /\ src' = (IF r[1] = src THEN src + 1 ELSE r[1]) /\ UNCHANGED over
               \/ r[1] = NULL /\ src' = src + 1 /\ UNCHANGED <<out, over>>
    /\ UNCHANGED <<subj, pat, loop, init, max_s>>

\* str_gsub: a character that no match takes is copied, also after an empty
\* match at it, and so is what is left when the loop ends.
Matches == SelectSeq(out, LAMBDA o : o[1] = "match")
Copied(s) == IF s < end THEN <<<<"copy", s>>>> ELSE <<>>
Rest(s) == [k \in 1 .. end - s |-> <<"copy", s + k - 1>>]
Substituted_lose(r) == IF r[1] = NULL THEN Copied(src) ELSE <<Result(src, r)>>
Substituted(r) == (IF r[1] = NULL THEN <<>> ELSE <<Result(src, r)>>)
                  \o (IF r[1] > src THEN <<>> ELSE Copied(src))
Advanced(r) == IF r[1] > src THEN r[1] ELSE IF src < end THEN src + 1 ELSE src
Break(o, s) == over' = TRUE /\ src' = s /\ out' = o \o Rest(s)
\* Only a replacement that uses its captures raises an error for an open one.
str_gsub ==
    /\ loop = "gsub" /\ ~over
    /\ \/ Len(Matches) >= max_s /\ Break(out, src)
       \/ /\ Len(Matches) < max_s
          /\ \E r \in {Matched(src)} :
               \/ Raise(r) /\ Stop /\ out' = <<<<"error">>>>
               \/ /\ r[1] # ERROR /\ (anchor \/ (src = end /\ r[1] <= src))
                  /\ Break(out \o Substituted(r), Advanced(r))
               \/ /\ r[1] # ERROR /\ ~anchor /\ (src < end \/ r[1] > src)
                  /\ out' = out \o Substituted(r) /\ src' = Advanced(r) /\ UNCHANGED over
    /\ UNCHANGED <<subj, pat, loop, init, max_s>>

matchNext == str_find_aux \/ gmatch_aux \/ str_gsub

-----------------------------------------------------------------------------
(* The reference: all the ways in which a pattern matches, the preferred    *)
(* ones first, each with captures of its own.                              *)

\* The numbers of repetitions of an item that matches up to m times.
Preferred(sfx, m) ==
    CASE sfx = "" -> IF m > 0 THEN <<1>> ELSE <<>>
      [] sfx = "?" -> IF m > 0 THEN <<1, 0>> ELSE <<0>>
      [] sfx = "*" -> [k \in 1 .. m + 1 |-> m + 1 - k]
      [] sfx = "+" -> [k \in 1 .. m |-> m + 1 - k]
      [] sfx = "-" -> [k \in 1 .. m + 1 |-> k - 1]
Most(s, it) == CHOOSE m \in 0 .. end - s : /\ \A k \in s .. s + m - 1 : singlematch(k, it)
                                           /\ ~singlematch(s + m, it)
Count(s, e, c) == Len(SelectSeq(SubSeq(subj, s, e - 1), LAMBDA x : x = c))
Balanced(s, it) == {e \in s + 1 .. end : At(s) = it[2] /\ Count(s, e, it[2]) = Count(s, e, it[3])}
Least(S) == CHOOSE e \in S : \A d \in S : e <= d
Open(caps) == {n \in DOMAIN caps : caps[n][2] = CAP_UNFINISHED}
Text(s, len) == SubSeq(subj, s, s + len - 1)
Refused == <<<<ERROR, <<>>>>>>

RECURSIVE All(_, _, _)
All(s, p, caps) ==
    LET it == pat[p]
        new(what) == IF Len(caps) = LUA_MAXCAPTURES THEN Refused
                     ELSE All(s, p + 1, Append(caps, <<s, what>>))
        last == CHOOSE n \in Open(caps) : \A m \in Open(caps) : m <= n
        reps == Preferred(suffix(it), Most(s, it))
    IN  IF p > Len(pat) THEN <<<<s, caps>>>>
        ELSE CASE it[1] = "(" -> new(CAP_UNFINISHED)
               [] it[1] = "()" -> new(CAP_POSITION)
               [] it[1] = ")" -> IF Open(caps) = {} THEN Refused
                                 ELSE All(s, p + 1, [caps EXCEPT ![last][2] = s - caps[last][1]])
               [] it[1] = "bal" -> IF Balanced(s, it) = {} THEN <<>>
                                   ELSE All(Least(Balanced(s, it)), p + 1, caps)
               [] it[1] = "front" -> IF At(s - 1) \notin it[2] /\ At(s) \in it[2]
                                     THEN All(s, p + 1, caps) ELSE <<>>
               [] it[1] = "ref" ->
                    IF it[2] \notin DOMAIN caps \ Open(caps) THEN Refused
                    ELSE LET c == caps[it[2]]
                         IN  IF c[2] >= 0 /\ c[2] <= end - s /\ Text(c[1], c[2]) = Text(s, c[2])
                             THEN All(s + c[2], p + 1, caps) ELSE <<>>
               [] it[1] = "$" -> IF p = Len(pat) /\ s = end THEN <<<<s, caps>>>> ELSE <<>>
               [] OTHER -> FlattenSeq([k \in DOMAIN reps |-> All(s + reps[k], p + 1, caps)])

-----------------------------------------------------------------------------
(* Properties.                                                             *)

\* match finds the first of the ways in which the pattern matches, with the
\* captures of that way alone: backtracking leaves no trace in the MatchState.
MatchRight ==
    src <= end =>
      \E r \in {Matched(src)}, all \in {All(src, First, <<>>)} :
        IF all = <<>> THEN r[1] = NULL
        ELSE IF all[1][1] = ERROR THEN r[1] = ERROR
        ELSE r[1] = all[1][1] /\ Captures(r[2]) = all[1][2]

Failed == out = <<<<"error">>>>
\* find, gmatch and gsub report matches that follow one another, and pass over
\* no position where the pattern matches, unless it is inside a match reported,
\* or after all that they were asked for.
Asked(s) == /\ s >= init /\ (anchor => s = init)
            /\ loop = "find" => \A m \in DOMAIN Matches : s <= Matches[m][2]
            /\ loop = "gsub" /\ Len(Matches) = max_s => \E m \in DOMAIN Matches : s < Matches[m][3]
ScanRight ==
    /\ \A m, n \in DOMAIN Matches : m < n => Matches[m][2] < Matches[n][2]
                                            /\ Matches[m][3] <= Matches[n][2]
    /\ over /\ ~Failed =>
         \A s \in 1 .. end :
           Asked(s) /\ All(s, First, <<>>) # <<>> =>
             \E m \in DOMAIN Matches : \/ Matches[m][2] = s
                                       \/ Matches[m][2] < s /\ s < Matches[m][3]

\* What gsub puts out is the whole subject: every character is copied once or
\* in one match, in order, and the loop makes at most max_s matches.
Ends(o) == IF o[1] = "copy" THEN <<o[2], o[2] + 1>> ELSE <<o[2], o[3]>>
GsubWhole ==
    loop = "gsub" /\ ~Failed =>
      /\ \A m \in DOMAIN out :
           Ends(out[m])[1] = IF m = 1 THEN 1 ELSE Ends(out[m - 1])[2]
      /\ over => (IF out = <<>> THEN 1 ELSE Ends(Last(out))[2]) = end
      /\ Len(Matches) <= max_s
=============================================================================
