CONSTANTS
    Ids = {m1, m2}
    Origins = {o1, o2}
    Bodies <- MCBodies
    NoBody = NoBody
    SizeOf <- MCSizeOf
    MaxBody = 3
    RowsLimit = 2
    BytesLimit = 3
    ReplayPerRequest = 1
SPECIFICATION Spec
INVARIANTS
    TypeOK
    CountersExact
    WithinBounds
    OwedUntilConfirmed
    BodyUntilArchived
PROPERTY RowsMoveForward
