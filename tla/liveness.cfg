SPECIFICATION LSpec
CONSTANTS
  MAX_INT = 15
  MAXASIZE = 8
  MAXBITS = 3
  Keys = {1, 2, 3, 4, 5, 6, 7, 8, 9}
CONSTANTS
  g = g udata = udata mainthread = mainthread
  nil = nil
  prim = prim
  dead = dead
  none = none
INVARIANT Boundary
INVARIANT SizesRight
PROPERTY Terminates
PROPERTY CollectsGarbage
