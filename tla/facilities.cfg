SPECIFICATION Spec
CONSTANTS
    Threads = {t1, t2}
    Items = {i1, i2, i3}
    Fee = 1
    FreeLimit = 0
    MaxVisits = 1
    Residents <- MCResidents
    None = None
INVARIANTS
    FeeChargedOnce
    PaymentIsTrue
    LimitsBounded
PROPERTIES
    DecisionsHold
SYMMETRY Symmetry
