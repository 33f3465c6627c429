CONSTANTS
  MAXINDEXRK = 1
  LFIELDS_PER_FLUSH = 2
  BASIC_STACK_SIZE = 4
  LUA_MINSTACK = 2
  EXTRA_STACK = 5
  Suite = "all"
  Parse <- luaY_parser
  Accepts <- checkall
  Reference <- Meaning
  CFun <- CFunction
SPECIFICATION Spec
INVARIANT CodeSound
INVARIANT Correct
 
INVARIANT Ends
