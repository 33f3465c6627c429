------------------------------ MODULE LuaFold -------------------------------
(***************************************************************************)
(* The fold that the compiler, the virtual machine and the semantics use:  *)
(* a module of its own, as a recursive operator is for model checking only. *)
(***************************************************************************)
EXTENDS Sequences

\* Op(... Op(Op(acc, s[1]), s[2]) ..., s[n]).  r is bound to each value in
\* turn, so that TLC computes it before it goes on.
RECURSIVE Fold(_, _, _)
Fold(Op(_, _), acc, s) ==
    IF s = <<>> THEN acc
    ELSE CHOOSE z \in {Fold(Op, r, Tail(s)) : r \in {Op(acc, Head(s))}} : TRUE
=============================================================================
