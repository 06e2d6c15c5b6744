SPECIFICATION FairSpec
CONSTANTS
    Threads = {t1, t2}
    Withdrawals = {w1, w2, w3}
    Levies = {l1, l2}
    None = None
    Amount <- MCAmount
    LevyAmount <- MCLevyAmount
INVARIANTS
    TransfersAreReserved
    BalanceIsExplained
PROPERTIES
    ReservationsEnd
CHECK_DEADLOCK FALSE
