SPECIFICATION FairQueueSpec
CONSTANTS
    JobIds = {j1, j2}
    Kinds = {refresh, cleanup}
    RowsOf <- AnyRow
    Workers = {w1, w2}
    Clients = {w1, w2, api}
    NoKind = NoKind
    MaxAttempts = 2
    BatchSize = 2
    MaxOvertakes = 1
    MaxCrashes = 1
INVARIANTS Exclusive AttemptsBounded
PROPERTIES EveryJobEnds ImplementsPool
