SPECIFICATION Spec
CONSTANTS
    Threads = {t1, t2}
    Guards = {1, 2}
    MaxShifts = 4
    MaxSwaps = 2
    Scopes <- MCScopes
    None = None
INVARIANTS
    SwapsAreTrue
    RosterIsTrue
PROPERTIES
    SwapsExchange
SYMMETRY Symmetry
CHECK_DEADLOCK FALSE
