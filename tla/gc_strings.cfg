SPECIFICATION Spec
CONSTANTS
  Tab = {g}
  Udt = {}
  Cls = {}
  Upv = {}
  Thr = {m}
  Str = {s, f}
  FixedStr = {f}
  Node = {1, 2}
  Array = {1}
  Reg = {1}
  Uses = {"meta", "basic", "setfenv"}
  main = m
  registry = g
  globals = g
  nil = nil
  prim = prim
  dead = dead
  c1 = none
  v1 = none
  Events <- ModeEvents
SYMMETRY Sym
VIEW View
INVARIANT TypeOK
INVARIANT NoDangling
