CONSTANTS
    Motions = {m1, m2, m3}
    None = None
    Program = Program
    Patient = FALSE
SPECIFICATION Spec
INVARIANTS
    OneMotion
    LeavesNothing
    ShutdownDisables
PROPERTY CancelEnds
