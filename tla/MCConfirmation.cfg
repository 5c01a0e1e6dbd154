CONSTANTS
  OtherCmds = {"START", "RESET", "ESTOP"}
  MaxWire = 1
SPECIFICATION Spec
PROPERTY ConfirmationIsRead
