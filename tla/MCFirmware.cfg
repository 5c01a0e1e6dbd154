SPECIFICATION Spec
CONSTANTS
  Drives = {d}
  Servos = {s1, s2}
  HeartbeatTimeout = 0
INVARIANTS
  DrivesNeedRunning
  BatteryLossCaught
  ServosIdleWhenHalted
PROPERTIES
  PulsesNeedEnable
  SilenceStopsRobot
