SPECIFICATION Spec
CONSTANTS
    Threads = {t1, t2}
    Visitors = {v1}
    MaxEntries = 2
    MaxUpdates = 1
    MaxSessions = 2
    None = None
INVARIANTS
    EntriesBounded
    InsideIsAccountedFor
PROPERTIES
    DecisionsHold
SYMMETRY Symmetry
