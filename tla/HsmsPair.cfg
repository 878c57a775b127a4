SPECIFICATION FairSpec
CONSTANTS
  HostCallers = {h1}
  EquipCallers = {}
  HostTypes = {"Data", "DeselectReq", "SeparateReq"}
  EquipTypes = {}
  HostCloses = "setup"
  EquipCloses = "never"
  CallerIDs = {}
  MaxSystemID = 2
  Channel = {k1, k2, k3}
  InboundCap = 1
  WireCap = 2
  None = None
  NoMsg = NoMsg
INVARIANTS PassiveAcceptsData SelectedAgreement
PROPERTIES CloseReachesPeer
CHECK_DEADLOCK FALSE
