SPECIFICATION Spec
CONSTANTS
  Tab = {g}
  Udt = {u, w}
  Cls = {}
  Upv = {}
  Thr = {m}
  Str = {}
  FixedStr = {}
  Node = {1}
  Array = {1}
  Reg = {1, 2}
  Uses = {"collect"}
  main = m
  registry = g
  globals = g
  nil = nil
  prim = prim
  dead = dead
  c1 = none
  v1 = none
  Events <- GcEvents
SYMMETRY Sym
VIEW View
INVARIANT NoDangling
PROPERTY FreedFinalized
PROPERTY FinalizedOnce
