SPECIFICATION Spec
CONSTANTS
  Clients = {c1, c2}
  Faults = {"switch", "init", "restart", "servo", "length"}
  MaxCalls = 3
INVARIANTS TrackingTruth ScanAlone
PROPERTY FlagsFall
