CONSTANTS
    Protocols = {"vless", "hysteria", "shadowsocks"}
    MaxEdits = 3
    MaxAsks = 2
    MaxInbounds = 3
SPECIFICATION Spec
INVARIANTS LinksReach ReopenedReaches
CHECK_DEADLOCK FALSE
