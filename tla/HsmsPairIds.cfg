SPECIFICATION Spec
CONSTANTS
  HostCallers = {h1}
  EquipCallers = {e1, e2}
  HostTypes = {"Data"}
  EquipTypes = {"Event"}
  HostCloses = "never"
  EquipCloses = "never"
  CallerIDs = {}
  MaxSystemID = 2
  Channel = {k1, k2, k3}
  InboundCap = 1
  WireCap = 2
  None = None
  NoMsg = NoMsg
INVARIANT RepliesAreReplies
CHECK_DEADLOCK FALSE
