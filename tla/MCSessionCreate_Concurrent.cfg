SPECIFICATION Spec
CONSTANTS
    u1 = u1
    p1 = p1
    p2 = p2
    g1 = g1
    Posts = {p1, p2}
    Gets = {}
    UserOf <- OneUser
    Fingerprints = {f1}
    Deployments = {d1, d2, d3}
    Limit = 1
    TTL = 1
    Cooldown = 1
    FpCooldown = 1
    Crashes = TRUE
    MaxTime = 2
    MaxReopens = 1
SYMMETRY Symmetry
INVARIANTS
    CapacityBounded
    OpenBounded
