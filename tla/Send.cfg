SPECIFICATION Spec
CONSTANTS
    a = a
    b = b
    x = x
    y = y
    m = m
    k = k
    hi = hi
    ho = ho
    Senders = {a, b}
    Recipients = {x, y}
    Fees <- MCFees
    DefaultFee = 0
    Ttl = 2
    Attempts = 3
    Capacity = 1
    Window = 2
    Budget <- MCBudget
    Works <- MCWorks
INVARIANTS
    AnsweredIsStored
    FeeIsRecent
    BudgetBinds
CHECK_DEADLOCK FALSE
