\* A tab of the security dashboard and other analysts at one alert and its case.
SPECIFICATION PagesSpec
CONSTANTS
    r1 = r1  r2 = r2  r3 = r3
    Requests = {r1, r2, r3}
    None = None
    Calls <- MCCalls
    Elsewhere <- MCElsewhere
SYMMETRY Symmetry
INVARIANTS
    PagesTypeOK
    OneCase
    EntriesChain
    Synchronized
    TableIsStored
