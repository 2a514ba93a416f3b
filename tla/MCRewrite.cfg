CONSTANTS
    Programs <- MCPrograms
    Throws <- MCThrows
    SelfAdd = FALSE
    CallArgSize = 4
    ImmMax = 5
    MemSize = 40
SPECIFICATION Spec
INVARIANTS
    Preserved
    Lowered
PROPERTY
    TransformEnds
