\* A tab that loads, calls, logs in and out, and other tabs.
SPECIFICATION Spec
CONSTANTS
    a1 = a1  a2 = a2  a3 = a3  
    Activities = {a1, a2, a3}
    First = First
    None = None
CHECK_DEADLOCK FALSE
SYMMETRY Symmetry
INVARIANTS
    TypeOK
    ScreenIsStored
    TokensOfUser
PROPERTIES
    EndsForCause
