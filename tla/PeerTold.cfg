CONSTANTS
    Raws = {"ws1"}
    Sios = {"io1", "io2"}
    Casts <- MCCasts
    Ttl = 1
    ReplayWindow = 0
SPECIFICATION PeerSpec
INVARIANTS
    NewsIsParked
    GoneIsHeard
CHECK_DEADLOCK FALSE
