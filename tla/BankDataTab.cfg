\* A tab of the frontend, and other tabs and browsers.
SPECIFICATION TabSpec
CONSTANTS
    a1 = a1  a2 = a2  c1 = c1  r1 = r1  r2 = r2  l1 = l1  l2 = l2
    Users = {a1, a2, c1}
    Admins = {a1, a2}
    Requests = {r1, r2}
    Visitors = {a1, c1}
    Ours = {r1}
    Orders <- MCOrders
    Elsewhere <- MCElsewhere
    Loads = {l1, l2}
    None = None
CHECK_DEADLOCK FALSE
SYMMETRY Symmetry
INVARIANTS
    TabTypeOK
    AdministratorStays
    NoTwins
    ShownIsOwn
    OwnChangesShown
