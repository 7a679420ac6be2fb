CONSTANTS
    Rooms = {"game", "lobby"}
    Lobby = {"lobby"}
    Raws = {"w1"}
    Sios = {"e1", "e2"}
    Casts <- Flaps
SPECIFICATION FairSpec
INVARIANTS
    DepartureIsOwed
    AbsenceIsConfirmed
PROPERTIES
    SeatedIsNotAnnounced
    DepartureSettles
CHECK_DEADLOCK FALSE
