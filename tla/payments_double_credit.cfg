SPECIFICATION Spec
CONSTANTS
    Threads = {t1, t2}
    Residents = {p1}
    FundingRefs = {f1}
    LevyRefs = {}
    TransferRefs = {}
    Bills = {}
    MaxAmount = 1
    None = None
    Payer <- MCPayer
    BillOf <- MCBillOf
    Debtor <- MCDebtor
    BillAmount <- MCBillAmount
INVARIANT CheckoutsCreditedOnce
