----------------------------- MODULE LuaRequire -----------------------------
(***************************************************************************)
(* require and module (loadlib.c), with package.loaded.  While a module is *)
(* loaded its entry holds a sentinel, which is still there after an error  *)
(* of the module.  The chunk of a module may call require and module, and  *)
(* assign to package.loaded.                                               *)
(***************************************************************************)
EXTENDS Integers, SequencesExt

CONSTANTS
    Names,
    MaxDepth        \* bound of the calls of require that run

VARIABLES
    loaded,     \* package.loaded
    globals,    \* the global variables with the names of modules
    calls,      \* the modules whose chunks run, the innermost last
    returned,   \* what the last require did: <<name, value>>, or <<>>
    failed      \* history: the modules whose last load ended with an error

reqVars == <<loaded, globals, calls, returned, failed>>

\* An entry is "nil", "false", "true", "sentinel", "table" or another "value".
toboolean(v) == v \notin {"nil", "false"}

reqInit ==
    /\ loaded = [n \in Names |-> "nil"] /\ calls = <<>> /\ returned = <<>> /\ failed = {}
    /\ globals \in [Names -> {"nil", "value"}]

\* An error is caught by a chunk that is left running, or by the program.
Error(most) ==
    /\ \E k \in 0 .. most :
         /\ calls' = SubSeq(calls, 1, k)
         /\ failed' = failed \cup {calls[m] : m \in k + 1 .. Len(calls)}
    /\ returned' = <<>>

\* The outcomes of package.loaders: a loader returns the chunk of the module,
\* raises an error (loaderror), or none of them finds the module.
loaders(n) == {"chunk", "error", "not found"}

\* ll_require: the module is there, or is searched for and its chunk called.
require_loaded(n) ==
    /\ toboolean(loaded[n])
    /\ IF loaded[n] = "sentinel" THEN Error(Len(calls))
       ELSE returned' = <<n, loaded[n]>> /\ UNCHANGED <<calls, failed>>
    /\ UNCHANGED loaded
require_run_unmarked(n) ==
    /\ calls' = Append(calls, n) /\ returned' = <<>> /\ failed' = failed \ {n}
    /\ UNCHANGED loaded
require_run(n) ==
    /\ loaded' = [loaded EXCEPT ![n] = "sentinel"]
    /\ calls' = Append(calls, n) /\ returned' = <<>> /\ failed' = failed \ {n}
ll_require_early(n) ==
    \/ require_loaded(n)
    \/ /\ ~toboolean(loaded[n])
       /\ \E r \in loaders(n) :
            IF r = "chunk" THEN Len(calls) < MaxDepth /\ require_run(n)
            ELSE Error(Len(calls)) /\ loaded' = [loaded EXCEPT ![n] = "sentinel"]
ll_require(n) ==
    \/ require_loaded(n)
    \/ /\ ~toboolean(loaded[n])
       /\ \E r \in loaders(n) :
            IF r = "chunk" THEN Len(calls) < MaxDepth /\ require_run(n)
            ELSE Error(Len(calls)) /\ UNCHANGED loaded

\* The rest of ll_require, after the chunk has returned v.
Final_raw(n, v) == IF v # "nil" THEN v ELSE loaded[n]
Final(n, v) ==
    LET w == IF v # "nil" THEN v ELSE loaded[n]
    IN  IF w = "sentinel" THEN "true" ELSE w
require_end(n) ==
    /\ \E v \in {"nil", "false", "value", loaded[n]} :
         /\ loaded' = [loaded EXCEPT ![n] = Final(n, v)]
         /\ returned' = <<n, Final(n, v)>>
    /\ calls' = Front(calls)
    /\ UNCHANGED failed

\* ll_module, called for its own name by the chunk of a module
ll_module(n) ==
    IF loaded[n] # "table" /\ globals[n] = "value"      \* name conflict
    THEN Error(Len(calls)) /\ UNCHANGED <<loaded, globals>>
    ELSE /\ loaded' = [loaded EXCEPT ![n] = "table"]
         /\ globals' = [globals EXCEPT ![n] = IF loaded[n] = "table" THEN @ ELSE "table"]
         /\ returned' = <<>> /\ UNCHANGED <<calls, failed>>

Running == calls # <<>>
Require == (\E n \in Names : ll_require(n)) /\ UNCHANGED globals
ReturnChunk == Running /\ require_end(Last(calls)) /\ UNCHANGED globals
ChunkError == Running /\ Error(Len(calls) - 1) /\ UNCHANGED <<loaded, globals>>
Module == Running /\ ll_module(Last(calls))
\* A chunk sets its own entry; one that failed is cleared, to try it again.
Assign ==
    /\ \/ Running /\ loaded' = [loaded EXCEPT ![Last(calls)] = "value"] /\ UNCHANGED failed
       \/ \E n \in Names \ ToSet(calls) : loaded' = [loaded EXCEPT ![n] = "nil"]
                                          /\ failed' = failed \ {n}
    /\ returned' = <<>> /\ UNCHANGED <<globals, calls>>

reqNext == Require \/ ReturnChunk \/ ChunkError \/ Module \/ Assign
reqSpec == reqInit /\ [][reqNext]_reqVars

-----------------------------------------------------------------------------
(* Properties.                                                             *)

\* The chunk of a module is never run inside itself: modules that require one
\* another end with an error, also after some of them failed.
NoLoop == IsInjective(calls)

\* require returns the value that package.loaded then has for the module, and
\* never the sentinel, whatever the chunk returned, assigned or left there.
ReturnsLoaded ==
    returned # <<>> => returned[2] = loaded[returned[1]] /\ returned[2] # "sentinel"

\* The sentinel stands for what the message of require says: a module that is
\* being loaded, or one whose load ended with an error.
SentinelMeans ==
    \A n \in Names : loaded[n] = "sentinel" => n \in ToSet(calls) \cup failed
\* ll_require never runs the chunk of a module inside itself, and returns what
\* package.loaded then has and never the sentinel, which is there only of a
\* module that is loaded now, or whose load failed.
RequireRight == NoLoop /\ ReturnsLoaded /\ SentinelMeans
=============================================================================
