SPECIFICATION FairSpec
CONSTANTS
  Roles = {"Passive"}
  Callers = {}
  CallTypes = {}
  PeerTypes = {"LinktestReq"}
  CallerIDs = {}
  MaxSystemID = 1
  Channel = {k1, k2}
  InboundCap = 1
  WireCap = 1
  T7Enabled = TRUE
  LinktestEnabled = FALSE
  TTLEnabled = FALSE
  RateLimited = FALSE
  CloseFrom = "new"
  None = None
  NoMsg = NoMsg
PROPERTIES T7DropsUnselected
CHECK_DEADLOCK FALSE
