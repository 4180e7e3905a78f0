CONSTANTS
    Genesis = Genesis
    OldGenesis = OldGenesis
    OtherFirst = OtherFirst
    Blocks = {b1, b2}
    MaxLen = 3
SPECIFICATION Spec
INVARIANTS
    TypeOK
    FileReadable
PROPERTIES
    ForeignKept
    SavesAtomic
