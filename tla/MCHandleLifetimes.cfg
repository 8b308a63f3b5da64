CONSTANTS
  Engine = {"e"}
  Model = {"m1", "m2"}
  Session = {"s1", "s2"}
  Device = {0, 1}
  DeviceOf <- MCDeviceOf
  None = "none"
SPECIFICATION Spec
CHECK_DEADLOCK FALSE
INVARIANTS
  SessionsReachTheirMemory
  NothingLeftBehind
  CallerDeviceKept
PROPERTIES
  FreesAreSound
  CallsOnHandlesEnd
