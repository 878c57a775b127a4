SPECIFICATION FairSpec
CONSTANTS
  Roles = {"Active", "Passive"}
  Callers = {c1}
  CallTypes = {"LinktestReq"}
  PeerTypes = {"SelectRsp"}
  CallerIDs = {}
  MaxSystemID = 1
  Channel = {k1, k2, k3}
  InboundCap = 1
  WireCap = 1
  T7Enabled = TRUE
  LinktestEnabled = TRUE
  TTLEnabled = TRUE
  RateLimited = FALSE
  CloseFrom = "setup"
  None = None
  NoMsg = NoMsg
PROPERTIES CallsReturn CloseStopsLoops T7DropsUnselected
CHECK_DEADLOCK FALSE
