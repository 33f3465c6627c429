SPECIFICATION Spec
CONSTANTS
  Tab = {g, t}
  Udt = {}
  Cls = {}
  Upv = {}
  Thr = {m}
  Str = {}
  FixedStr = {}
  Node = {1}
  Array = {}
  Reg = {1}
  Uses = {"meta"}
  main = m
  registry = g
  globals = g
  nil = nil
  prim = prim
  dead = dead
  c1 = none
  v1 = none
  Events <- KeyEvents
INVARIANT NoDangling
INVARIANT BlackToWhite
INVARIANT OneGclist
PROPERTY ClearsOnlyGarbage
VIEW View
