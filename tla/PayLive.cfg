CONSTANTS
    s1 = s1
    s2 = s2
    c1 = c1
    c2 = c2
    e1 = e1
    e2 = e2
    Etags = {e1}
    Gone = Gone
    SpoolEtag = e1
    Sends = {s1}
    Crons = {c1}
    Settings <- Failing
    Ceiling = 2
SPECIFICATION FairSpec
INVARIANT LetGoIsQueued
PROPERTIES
    LetGoGoes
    FeeIsOver
