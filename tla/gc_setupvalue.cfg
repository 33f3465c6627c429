SPECIFICATION SpecLoaded
CONSTANTS
  Tab = {g}
  Udt = {}
  Cls = {c, d}
  Upv = {u}
  Thr = {m}
  Str = {}
  FixedStr = {}
  Node = {1}
  Array = {1}
  Reg = {1, 2}
  Uses = {}
  main = m
  registry = g
  globals = g
  nil = nil
  prim = prim
  dead = dead
  c1 = c
  v1 = u
  Events <- NoEvents
SYMMETRY Sym
VIEW View
INVARIANT NoDangling
