CONSTANTS
    Programs <- MCPrograms
    Compiled <- MCCompiled
    Structured <- MCStructured
    MaxStack = 6
    MaxCalls = 2
    MaxHandlers = 4
SPECIFICATION FairSpec
CHECK_DEADLOCK FALSE
INVARIANTS
    TypeOK
    FramesNested
    Aligned
    TryProtects
PROPERTIES
    FramesKeptApart
    ForwardProgramsEnd
