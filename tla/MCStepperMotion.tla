--------------------------- MODULE MCStepperMotion ---------------------------
(***************************************************************************)
(* StepperMotion for TLC, on a slow clock, and what is said of it.         *)
(***************************************************************************)
EXTENDS StepperMotion

(* One velocity that ramps in a step, one that ramps in two, and one that  *)
(* overflows a uint16_t, divides by zero and is too slow to ramp.          *)
McVelocities == {2, 3, MaxWord + 1}
McDistances == {-1, 3}
McPositions == {0}

(* StepperMotor.h:228: "Steps remaining to target".                        *)
RemainingIsToTarget ==
  state \in Ramping => pos + direction * remaining = target
=============================================================================
