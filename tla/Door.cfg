SPECIFICATION Spec
CONSTANTS
    fee = fee
    other = other
    None = None
    Terms <- Asked
    MostRequests = 2
    Lookups = 2
    MaxHeight = 3
    Works <- MCWorks
INVARIANTS
    VerifiedIsSound
    ScriptsArePaidFor
PROPERTY
    PaymentIsJudged
CHECK_DEADLOCK FALSE
