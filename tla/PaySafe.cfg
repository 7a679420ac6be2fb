CONSTANTS
    s1 = s1
    s2 = s2
    c1 = c1
    c2 = c2
    e1 = e1
    e2 = e2
    Etags = {e1, e2}
    Gone = Gone
    SpoolEtag = e1
    Sends <- SendPair
    Crons <- CronPair
    Settings <- Races
    Ceiling = 1
SYMMETRY CronsAlike
SPECIFICATION Spec
INVARIANTS
    OlderNamesAreSpared
    DeferredIsOwed
CHECK_DEADLOCK FALSE
