\* Two setups and a verification at once.
SPECIFICATION Spec
CONSTANTS
    r1 = r1  r2 = r2  r3 = r3  r4 = r4
    Requests = {r1, r2, r3, r4}
    None = None
    CodeIds = {1}
    Ops = {"setup", "verifySetup"}
CHECK_DEADLOCK FALSE
SYMMETRY Symmetry
PROPERTY
    VerifiedSecretActive
