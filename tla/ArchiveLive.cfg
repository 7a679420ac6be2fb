CONSTANTS
    Ids = {"m1"}
    Origins = {"o1", "o2"}
    Bodies <- MCBodies
    NoBody = NoBody
    SizeOf <- MCSizeOf
    MaxBody = 2
    RowsLimit = 1
    BytesLimit = 3
    ReplayPerRequest = 1
    Hubs = {"h1"}
    Boxes = {"kept", "plain"}
    BoxOf <- MCBoxOf
    RetainedBoxes = {"kept"}
    LongBodies = {"long"}
    Sends <- OneSend
    Acks <- OneAck
    Lists <- OneList
    Consumers = {c1}
    Endings <- NoEnding
    Workloads <- Relisting
    Author = "author"
    Purges = {}
    Reads = {}
    MaxBatch = 3
SPECIFICATION TFairSpec
PROPERTIES
    HubsAreMailboxes
    OwedIsConfirmed
CHECK_DEADLOCK FALSE
