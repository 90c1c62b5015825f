SPECIFICATION Spec
CONSTANTS
    p1 = p1
    p2 = p2
    t1 = t1
    t2 = t2
    c1 = c1
    c2 = c2
    f1 = f1
    f2 = f2
    f3 = f3
    f4 = f4
    f5 = f5
    Kinds = {"provision", "refresh", "terminate", "cleanup"}
    RowsOf <- SomeRows
    NoKind = NoKind
    None = None
    MaxOvertakes = 1
    JobIds = {p1, p2, t1, t2, c1, c2, f1, f2, f3, f4, f5}
    Workers = {w1, w2}
    Clients = {w1, w2}
    Deletes = {}
    Gets = {}
    Loops = {}
    Droplets = {d1, d2, d3}
    Records = {}
    MaxAttempts = 2
    BatchSize = 1
    MaxCrashes = 0
    MaxFaults = 0
SYMMETRY LifecycleSymmetry
INVARIANTS ChainsBounded NoticesBounded
PROPERTIES RecordedStaysWatched
CHECK_DEADLOCK FALSE
