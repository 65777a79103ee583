SPECIFICATION PageSpec
CONSTANTS
    Pages = {"users", "tenantUsers", "managers", "groups", "tickets", "ticket", "categories",
             "products", "services", "store", "billing", "deposit", "deposits", "nodes", "geo", "inbounds", "home",
             "settings", "security", "cards", "referrals", "workspace", "gateways", "profile", "bell",
             "outbounds", "outboundSubs", "warp", "nord", "finance", "customers", "referral", "clientInfo",
             "clientIps", "purchase", "nodeForm", "versions", "login", "register"}
    Row = {1, 2, 3}
    MaxClicks = 4
    MaxAwaited = 2
PROPERTY ViewKept
INVARIANTS
    
    OnceEach
CHECK_DEADLOCK FALSE
