SPECIFICATION Spec
CONSTANTS
  Roles = {"Active", "Passive"}
  Callers = {c1}
  CallTypes = {"LinktestReq"}
  PeerTypes = {"Event", "SelectReq", "SelectRsp", "SeparateReq", "Bad"}
  CallerIDs = {1}
  MaxSystemID = 2
  Channel = {k1, k2, k3}
  InboundCap = 1
  WireCap = 1
  T7Enabled = FALSE
  LinktestEnabled = FALSE
  TTLEnabled = FALSE
  RateLimited = TRUE
  CloseFrom = "setup"
  None = None
  NoMsg = NoMsg
INVARIANTS TypeOK PendingMatchesCalls RepliesCorrelated CloseRunsOnce CloseReleasesAll
PROPERTIES QueuedOnlyWhenSelected
CHECK_DEADLOCK FALSE
VIEW EndpointView
