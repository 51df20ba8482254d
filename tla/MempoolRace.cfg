CONSTANTS
    COUNT <- ThreeAndTwo
    Unguarded = {"free"}
    Interrupts = TRUE
SPECIFICATION Spec
INVARIANT OneOwner
CHECK_DEADLOCK FALSE
