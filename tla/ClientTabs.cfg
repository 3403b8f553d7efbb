\* Two tabs that call, log in and log out.
SPECIFICATION Spec
CONSTANTS
    a1 = a1  a2 = a2  a3 = a3
    t1 = t1  t2 = t2
    Activities = {a1, a2, a3}
    Tabs = {t1, t2}
    First = First
    None = None
CHECK_DEADLOCK FALSE
SYMMETRY Symmetry
INVARIANTS
    TypeOK
    PresentedOnce
PROPERTIES
    NewestLoginStays
