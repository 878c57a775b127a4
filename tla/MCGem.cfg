SPECIFICATION MCSpec
CONSTANTS
  NoPolicy = NoPolicy
  Policies <- MCPolicies
  ALID = {overheat}
  Severity <- MCSeverity
  Thresholds = {32, 128}
  AlarmCallers = {c1, c2}
  NoInterlock = NoInterlock
  ECID = {speed, label}
  MinValue <- MCMin
  MaxValue <- MCMax
  Numbers = {0, 1, 2, 3}
  Item = Item
  NoBound = NoBound
  CEID = {done}
  RPTID = {r1}
  VIDs = {wafers}
  EventCallers = {e1}
INVARIANTS TypeOK OnlineOnlyCommunicating InterlockTrips ConstantsInRange
PROPERTIES RestrictedWritesNothing OnlyOnlineSkips SafetyAlarmGoesOffline
