\* Two transfers, crossing or repeated, and two reversals, statement by
\* statement: what each ensures, and that each is answered.
SPECIFICATION TxFairSpec
CONSTANTS
    u1 = u1  u2 = u2  a1 = a1  a2 = a2  k1 = k1
    Users <- MCUsers
    Accounts <- MCAccounts
    Owner <- MCOwner
    Currency <- MCCurrency
    Funding <- MCFunding
    Keys = {k1}
    NoKey = NoKey
    Calls <- MCCalls
    Requests = {r1, r2}
    Reversals = {v1, v2}
    NoRow = NoRow
    Free = Free
    PerTransferLimit = 2
    DailyLimit = 3
    LastDay = 0
CHECK_DEADLOCK FALSE
INVARIANTS
    TrailMatchesRows
PROPERTIES
    ImplementsTransfers
    RequestsAnswered
