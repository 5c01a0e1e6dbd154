CONSTANTS
    Motions = {m1, m2}
    None = None
    Program = Program
    Patient = FALSE
SPECIFICATION Spec
INVARIANT FinishedMeansReleased
