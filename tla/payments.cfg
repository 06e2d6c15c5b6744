SPECIFICATION FairSpec
CONSTANTS
    Threads = {t1, t2}
    Residents = {p1}
    FundingRefs = {}
    LevyRefs = {l1}
    TransferRefs = {v1}
    Bills = {b1}
    MaxAmount = 2
    None = None
    Payer <- MCPayer
    BillOf <- MCBillOf
    Debtor <- MCDebtor
    BillAmount <- MCBillAmount
INVARIANTS
    CreditsBounded
    PaidIsInEstateLedger
    BalanceIsExplained
PROPERTIES
    ChargesAreSettled
    TransfersExactlyOnce
