CONSTANTS
    COUNT <- ThreeAndTwo
    Unguarded = {}
    Interrupts = TRUE
SPECIFICATION Spec
INVARIANTS
    TypeOK
    OneOwner
