SPECIFICATION MCSpec
CONSTANTS
  Carrier = {ca, cb}
  Port = {p1, p2}
  Unloaders = {u1, u2}
  NoCarrier = NoCarrier
  NoPort = NoPort
  ProcessJob = {j1, j2}
  ControlJob = {k1}
  Substrate = {w1}
  Slots = {1, 2}
  MaxMoves = 4
  EPTStates = {"NonScheduled", "Idle", "Busy", "DownUnscheduled"}
  MaxTime = 4
  MaxUnits = 2
INVARIANT OffersDoneCarrier
