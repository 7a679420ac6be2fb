SPECIFICATION TurnSpec
CONSTANTS
    a = a
    b = b
    p = p
    s = s
    p48 = p48
    TurnWorks <- MCWorks
    Names = 2
    Caps <- MCCaps
    Ttl = 1
    Window = 2
INVARIANTS
    BudgetsBind
    HandedIsRevocable
CHECK_DEADLOCK FALSE
