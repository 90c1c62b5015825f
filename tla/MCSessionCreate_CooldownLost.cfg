SPECIFICATION Spec
CONSTANTS
    u1 = u1
    p1 = p1
    p2 = p2
    g1 = g1
    Posts = {p1}
    Gets = {g1}
    UserOf <- OneUser
    Fingerprints = {f1, f2, f3}
    Deployments = {d1, d2, d3}
    Limit = 1
    TTL = 1
    Cooldown = 2
    FpCooldown = 3
    Crashes = FALSE
    MaxTime = 3
    MaxReopens = 0
SYMMETRY Symmetry
INVARIANTS
    CooldownKept
