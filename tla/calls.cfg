SPECIFICATION MCSpec
VIEW MCView
CONSTANTS
    Co = {"c1", "c2"}
    LUAI_MAXCCALLS = 3
    SpareCcalls = 1
    LUAI_MAXCALLS = 4
    BASIC_CI_SIZE = 2
    Programs = {{"c1", "c2", "tailcalls"}, {"c1", "pcall", "tailcalls"},
                {"c1", "upvalues", "tailcalls"}, {"c1", "hooks"},
                {"c1", "finalizers"}, {"c1", "parser"},
                {"pcall", "upvalues", "tailcalls", "memory"},
                {"handlers", "parser", "memory"},
                {"pcall", "handlers", "hooks", "finalizers"}}
INVARIANT TypeOK
INVARIANT FramesMatch
INVARIANT CDepth
INVARIANT FieldsMatch
INVARIANT StatusRight
PROPERTY PcallRestores
PROPERTY YieldClean
