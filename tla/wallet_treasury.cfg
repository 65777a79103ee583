CONSTANTS
    alice = alice
    bob = bob
    boss = boss
    treasury = treasury
    Account <- MCAccount
    InitBalance <- MCInitBalance
    Job <- TreasuryJobs
    Op = {"cost", "topup", "debit", "set", "none"}
    Serial = TRUE
    NoRow = NoRow
    MaxRetries = 2
SPECIFICATION Spec
INVARIANTS OverdraftOnlyByCost SetReachesTarget
