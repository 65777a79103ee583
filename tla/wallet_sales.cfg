CONSTANTS
    alice = alice
    bob = bob
    boss = boss
    treasury = treasury
    Account <- MCAccount
    InitBalance <- MCInitBalance
    Job <- SaleJobs
    Op = {"buy", "buy2", "refund", "set"}
    Serial = FALSE
    NoRow = NoRow
    MaxRetries = 2
SPECIFICATION FairSpec
INVARIANTS LedgerChain AllOrNothing
PROPERTIES LedgerSpec EveryCallReturns
