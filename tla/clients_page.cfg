SPECIFICATION Spec
CONSTANTS
  Ids = {1, 2, 3}
  Clients = {1, 2}
  Emails = {1, 2, 3}
  Inbounds = {"vless", "ws"}
  Capable = {"vless"}
  PageSize = 1
  MaxClicks = 3
  MaxUnderway = 2
  Kinds = {"delete", "bulkDelete", "ungroup", "delDepleted", "reset", "resetAll", "group", "adjust", "attach", "detach", "bulkAdd"}
  None = None
INVARIANTS NeverMixed 
PROPERTIES SavedIsStored SwitchOnlySwitches
CHECK_DEADLOCK FALSE
