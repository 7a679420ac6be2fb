CONSTANTS
    Ids = {"m1", "m2"}
    Origins = {"o1", "o2"}
    Bodies <- MCBodies
    NoBody = NoBody
    SizeOf <- MCSizeOf
    MaxBody = 2
    RowsLimit = 1
    BytesLimit = 3
    ReplayPerRequest = 1
    Hubs = {"h1", "h2"}
    Boxes = {"kept", "plain"}
    BoxOf <- MCBoxOf
    RetainedBoxes = {"kept"}
    LongBodies = {"long"}
    Sends <- MCSends
    Acks <- MCAcks
    Lists <- MCLists
    Consumers = {c1, c2}
    Endings <- MCEndings
    Workloads <- Races
    Author = "author"
    Purges <- MCPurges
    Reads <- MCReads
    MaxBatch = 2
SPECIFICATION TSpec
INVARIANTS
    DoneIsSo
    RetainedCopyIsHeld
    StoredIsKept
    CutIsSaid
PROPERTIES
    ArchiveMovesForward
    
CHECK_DEADLOCK FALSE
