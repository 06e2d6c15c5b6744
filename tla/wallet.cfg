SPECIFICATION WalletSpec
CONSTANTS
    Threads = {t1, t2}
    Residents = {p1}
    Withdrawals = {w1, w2, w3}
    FundingRefs = {f1}
    LevyRefs = {}
    TransferRefs = {v1, v2}
    Bills = {b1}
    f1 = f1
    v1 = v1
    v2 = v2
    b1 = b1
    w1 = w1
    w2 = w2
    w3 = w3
    MaxAmount = 2
    MaxTransfers = 2
    None = None
    Owner <- MCOwner
    Amount <- MCAmount
    Opening <- MCOpening
    Payer <- MCPayer
    BillOf <- NoLevyRefs
    Debtor <- MCDebtor
    BillAmount <- MCBillAmount
    Scopes <- MCScopes
INVARIANTS
    SettlementsBounded
    StatementIsTrue
    WalletIsExplained
PROPERTIES
    DecidedStaysDecided
CHECK_DEADLOCK FALSE
SYMMETRY Symmetry
