SPECIFICATION LevyFairSpec
CONSTANTS
    Threads = {t1, t2}
    Levies = {l1, l2}
    Grace <- MCGrace
    GraceSettings = {TRUE, FALSE}
    MaxTime = 1
    MaxChanges = 1
    None = None
PROPERTIES
    FlagIsTrue
    StaleFlagIsCorrected
