\* The owner's page and logins at any time, any answer lost half-way.
SPECIFICATION PageSpec
CONSTANTS
    r1 = r1  r2 = r2  r3 = r3  r4 = r4  r5 = r5
    Requests = {r1, r2, r3, r4, r5}
    None = None
    CodeIds = {1}
    Ops = {"setup", "verifySetup", "regenerate", "disable", "codeLogin", "recoveryLogin"}
CHECK_DEADLOCK FALSE
SYMMETRY Symmetry
INVARIANTS
    PageTypeOK
    RecoveryCodeOnce
    CodesKnown
    ShownIsTrue
PROPERTIES
    VerifiedUnlessOvertaken
