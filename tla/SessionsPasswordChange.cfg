\* A refresh in the middle of a password change.
SPECIFICATION Spec
CONSTANTS
    r1 = r1  r2 = r2
    Requests = {r1, r2}
    Prior = Prior
    None = None
    Ops = {"refresh", "changePassword"}
    p1 = p1  p2 = p2  d1 = d1  x1 = x1
    Passwords = {p1, p2}
    Devices = {d1}
    Roles = {x1}
    Password0 = p1
    Device0 = d1
    Role0 = x1
    MfaEnabled = {FALSE}
    MaxFailures = 2
    ShortLived = {}
CHECK_DEADLOCK FALSE
PROPERTY PasswordChangeEndsSessions
