SPECIFICATION FairSpec
CONSTANTS
    p1 = p1
    p2 = p2
    t1 = t1
    t2 = t2
    c1 = c1
    c2 = c2
    f1 = f1
    f2 = f2
    f3 = f3
    f4 = f4
    f5 = f5
    Kinds = {"provision", "refresh", "terminate", "cleanup"}
    RowsOf <- SomeRows
    NoKind = NoKind
    None = None
    MaxOvertakes = 0
    JobIds = {p1, t1, t2, c1, f1, f2}
    Workers = {w1}
    Clients = {w1, x1}
    Deletes = {x1}
    Gets = {}
    Loops = {}
    Droplets = {d1, d2}
    Records = {r1, r2}
    MaxAttempts = 2
    BatchSize = 1
    MaxCrashes = 0
    MaxFaults = 1
PROPERTIES ClosingReleases TerminationHappens
CHECK_DEADLOCK FALSE
