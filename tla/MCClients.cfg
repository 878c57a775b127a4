SPECIFICATION PartSpec
CONSTANTS
  Carrier = {ca, cb}
  Port = {p1, p2}
  Unloaders = {u1, u2}
  NoCarrier = NoCarrier
  NoPort = NoPort
  ProcessJob = {j1, j2}
  ControlJob = {k1}
  Substrate = {w1}
  Slots = {1, 2}
  MaxMoves = 4
  EPTStates = {"NonScheduled", "Idle", "Busy", "DownUnscheduled"}
  MaxTime = 4
  MaxUnits = 2
  Event = {e1, e2, e3}
  Known = {e1}
  Timer = {t1, t2, t3}
  NoTimer = NoTimer
  BatchSize = 2
  RetryCount = 1
  Rate = 2
  Burst = 2
  Second = 3
  MaxTicks = 8
  TxnModulus = 3
  MaxCalls = 5
  QuantityModulus = 16
  CountModulus = 4
  Coils = 9
  CoilLists <- MCCoilLists
  Items <- MCItems
  MaxItems = 2
  Lengths = {0, 255, 256, 65535, 65536, 16777215, 16777216}
INVARIANTS TypeOK PortsMatch UnloadPortHasDoneCarrier HistoryExplainsState OEEConsistent
  EventsAccounted BatchWillFlush RateBounded ResponseBelongs DecodeInvertsEncode
PROPERTIES CarrierStaysWhileAccessed CarrierStepsValid JobStepsValid EventsSettle
CHECK_DEADLOCK FALSE
