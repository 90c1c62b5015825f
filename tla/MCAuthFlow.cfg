SPECIFICATION AuthSpec
CONSTANTS
    Requests = {r1, r2}
    Limit = 2
    Window = 2
    MaxTime = 5
    States = {s1, s2}
    Users = {u1}
    Ttl = 3
    None = None
SYMMETRY Symmetry
INVARIANTS
    RateBound RetriesOnce StateReuseBounded OnlyFirstLoginsLost LoginsWithinBudget
PROPERTIES
    ImplementsBudget
