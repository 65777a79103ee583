CONSTANTS
    cust = cust
    boss = boss
    mod = mod
    agent = agent
    pool = pool
    Account <- MCAccount
    InitBalance <- MCInitBalance
    Role <- MCRole
    Home <- MCHome
    Referrer <- MCReferrer
    Manager <- MCManager
    Treasury <- MCTreasury
    Existing <- MCExisting
    Fresh <- MCFresh
    Op <- MCOp
    Request = {"buy", "spend", "hand", "renew", "renew2", "reset"}
    Story <- Stories
    Form <- MCForm
    Inbound = {1, 2}
    Deletable = {2}
    Percent = 50
SPECIFICATION FairSpec
INVARIANTS LinkedAsListed OnlySpentRevenueWithheld PaidInFull RefundedNotSold NameSoldOnce
PROPERTIES OrdersSettle
