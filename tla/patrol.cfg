SPECIFICATION PatrolFairSpec
CONSTANTS
    Threads = {t1}
    Monitors = {m1, m2}
    Checkpoints = {c1, c2}
    None = None
INVARIANTS
    AlertsAreTrue
PROPERTIES
    MissedIsAlerted
