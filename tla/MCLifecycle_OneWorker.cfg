SPECIFICATION Spec
CONSTANTS
    p1 = p1
    p2 = p2
    t1 = t1
    t2 = t2
    c1 = c1
    c2 = c2
    f1 = f1
    f2 = f2
    f3 = f3
    f4 = f4
    f5 = f5
    Kinds = {"provision", "refresh", "terminate", "cleanup"}
    RowsOf <- SomeRows
    NoKind = NoKind
    None = None
    MaxOvertakes = 0
    JobIds = {p1, t1, t2, c1, c2, f1, f2}
    Workers = {w1}
    Clients = {w1, x1, g1}
    Deletes = {x1}
    Gets = {g1}
    Loops = {}
    Droplets = {d1, d2, d3}
    Records = {}
    MaxAttempts = 2
    BatchSize = 1
    MaxCrashes = 0
    MaxFaults = 2
SYMMETRY LifecycleSymmetry
INVARIANTS TypeOK OverMeansGone LedgerTruthful StraysBounded ChainsBounded OneNotice
PROPERTIES ClosingReleases OverStaysOver ReadyIsStable ImplementsTenancy DeleteIsCarried
CHECK_DEADLOCK FALSE
