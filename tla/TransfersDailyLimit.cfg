\* Two concurrent transfers out of one account.
SPECIFICATION Spec
CONSTANTS
    u1 = u1  u2 = u2  a1 = a1  a2 = a2  a3 = a3  k1 = k1
    Users <- MCUsers
    Accounts <- MCAccounts
    Owner <- MCOwner
    Currency <- MCCurrency
    Funding <- MCRichFunding
    Keys = {k1}
    NoKey = NoKey
    Calls <- MCCalls
    Requests = {r1, r2}
    Reversals = {v1}
    NoRow = NoRow
    PerTransferLimit = 2
    DailyLimit = 3
    LastDay = 0
CHECK_DEADLOCK FALSE
INVARIANTS
    DailyLimitHeld
