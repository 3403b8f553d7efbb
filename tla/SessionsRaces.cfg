\* Three requests of any kind, around an open session; two failures lock.
SPECIFICATION Spec
CONSTANTS
    r1 = r1  r2 = r2  r3 = r3
    Requests = {r1, r2, r3}
    Prior = Prior
    None = None
    Ops = {"login", "refresh", "logout", "changePassword", "revokeSession",
           "revokeDevice", "revokeAll", "updateRole", "updateStatus", 
           "mfaLogin", "forgotPassword", "resetPassword"}
    p1 = p1  p2 = p2  d1 = d1  d2 = d2  x1 = x1  x2 = x2
    Passwords = {p1, p2}
    Devices = {d1, d2}
    Roles = {x1, x2}
    Password0 = p1
    Device0 = d1
    Role0 = x1
    MfaEnabled = {TRUE, FALSE}
    MaxFailures = 2
    ShortLived = {Prior, r1, r2, r3}
CHECK_DEADLOCK FALSE
SYMMETRY Symmetry
INVARIANTS
    SessionsEndWithPassword
    IInv
    FailuresLock
PROPERTIES
    RejectedForever
    ImplementsRotation
