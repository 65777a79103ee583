CONSTANTS
    buyer = buyer
    Account <- MCAccount
    InitBalance <- MCInitBalance
    Op <- MCOp
    Gateway <- MCGateway
    User <- MCUser
    Amount <- MCAmount
    Bonus <- MCBonus
    Payment = {"zarinpal", "plisio"}
    Calls = 2
    Rates = {2, 7, 300}
    Weather = {{}, {"rate"}, {"database", "gateway", "crash", "rate"}}
SPECIFICATION FairSpec
INVARIANTS CreditedOnce 
 
