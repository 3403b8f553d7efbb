\* Evaluations and the analysts who work on their alerts, any request lost half-way.
SPECIFICATION Spec
CONSTANTS
    r1 = r1  r2 = r2  r3 = r3 r4 = r4
    Requests = {r1, r2, r3, r4}
    None = None
    Inputs <- FewInputs
CHECK_DEADLOCK FALSE
SYMMETRY Symmetry
INVARIANTS
    TypeOK
    OneCasePerAlert
    EngineMonotone
