CONSTANTS
  OtherCmds = {"START", "RESET", "ESTOP"}
  MaxWire = 1
SPECIFICATION Spec
INVARIANTS
  PlanAgrees NoLostWakeup
PROPERTIES
  LatestFollows ConfirmationBeatsDeadline
