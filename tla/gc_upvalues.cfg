SPECIFICATION Spec
CONSTANTS
  Tab = {g}
  Udt = {}
  Cls = {c, d}
  Upv = {u}
  Thr = {m, h}
  Str = {}
  FixedStr = {}
  Node = {}
  Array = {}
  Reg = {1}
  Uses = {}
  main = m
  registry = g
  globals = g
  nil = nil
  prim = prim
  dead = dead
  c1 = none
  v1 = none
  Events <- NoEvents
SYMMETRY Sym
VIEW View
INVARIANT NoDangling
