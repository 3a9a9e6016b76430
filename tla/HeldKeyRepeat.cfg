SPECIFICATION Spec

CONSTANTS
    Keys = {a, b}
    Fields = {f1, f2}
    None = None
    MaxPress = 3

INVARIANTS
    HeldKeyTypeOK
    NoOrphanTimer

PROPERTIES
    TypesOnlyWhileHeld
    HeldKeyRepeats
