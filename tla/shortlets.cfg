SPECIFICATION ShortletFairSpec
CONSTANTS
    Threads = {t1}
    Properties = {p1}
    Bookings = {k1, k2}
    PropertyOf <- MCPropertyOf
    None = None
INVARIANTS
    StatusIsTrue
PROPERTIES
    ShortletDecisionsHold
    WhatIsOverEnds
