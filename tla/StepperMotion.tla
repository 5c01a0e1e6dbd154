---------------------------- MODULE StepperMotion ----------------------------
(***************************************************************************)
(* One stepper channel: the motion profile of drivers/StepperMotor.cpp,    *)
(* run by the Timer3 interrupt, against the commands of loop().            *)
(*                                                                         *)
(* The interrupt may come between any two atomic blocks of a command.  It  *)
(* reads neither enabled_ nor acceleration_, so writes of these are joined *)
(* to the next atomic block.  stop(), smoothStop() and setPosition() are   *)
(* called by nobody.  The counters that no one reads during homing are     *)
(* left out of it.  Travel bounds the positions that are commanded, and    *)
(* homing steps no further than HomeTravel: the switch is closed there.    *)
(***************************************************************************)
EXTENDS Integers

CONSTANTS
  Timer,      (* TIMER_FREQ_HZ                                           *)
  MaxRate,    (* STEPPER_MAX_RATE_SPS                                    *)
  MinStart,   (* kMinStartSpeedSps                                       *)
  StopTicks,  (* kStopIntervalTicks                                      *)
  One,        (* 1 in the fixed-point format of intervalQ16_             *)
  MaxWord,    (* the largest uint16_t                                    *)
  HasLimit,   (* hasLimit_: a home switch is wired                       *)
  Velocities, (* configured velocities, as received                      *)
  Accels,     (* configured accelerations, as received                   *)
  Distances,  (* of relative moves                                       *)
  Positions,  (* of absolute moves                                       *)
  Travel,     (* bound on the positions commanded                        *)
  HomeTravel  (* bound on the positions that homing steps to             *)

ASSUME TimingAssumption ==
  /\ Timer \in Nat \ {0} /\ MaxRate \in Nat \ {0} /\ MinStart \in Nat \ {0}
  /\ StopTicks \in Nat \ {0} /\ One \in Nat \ {0}
  /\ MaxWord \in Nat /\ Timer <= MaxWord /\ Timer \div MinStart <= StopTicks
ASSUME InputAssumption ==
  /\ HasLimit \in BOOLEAN /\ Velocities \subseteq Nat /\ Accels \subseteq Nat
  /\ Distances \subseteq Int /\ Positions \subseteq Int
  /\ Travel \in Nat /\ HomeTravel \in Nat

VARIABLES
  enabled,      (* enabled_                                              *)
  coils,        (* the driver's enable pin                               *)
  dirPin,       (* the driver's direction pin                            *)
  state,        (* state_                                                *)
  pos,          (* currentPosition_                                      *)
  target,       (* targetPosition_                                       *)
  remaining,    (* stepsRemaining_; homing has no end, and leaves it 0   *)
  direction,    (* direction_                                            *)
  interval,     (* stepInterval_, in ticks                               *)
  counter,      (* stepCounter_                                          *)
  frac,         (* intervalQ16_                                          *)
  ramp,         (* accelSteps_, cruiseSteps_, accelDelta (= decelDelta)  *)
  count,        (* stepCount_                                            *)
  maxVelocity,  (* maxVelocity_                                          *)
  acceleration, (* acceleration_                                         *)
  pc,           (* where loop() is in a command                          *)
  steps, base,  (* locals of moveSteps(): steps, currentPosition         *)
  stood, to,    (* history: the motor stood when the command being       *)
                (* executed came; and where it was to move to            *)
  rest, goal,   (* history: the same of the move under way               *)
  error,        (* history: pos minus the shaft's true position          *)
  since,        (* history: ticks since the last pulse, up to MaxWord    *)
  fastest       (* history: the shortest minInterval_ of this motion     *)

pinVars     == <<enabled, coils, dirPin>>
moveVars    == <<state, pos, target, remaining, direction>>
profileVars == <<interval, counter, frac, ramp, count>>
configVars  == <<maxVelocity, acceleration>>
loopVars    == <<pc, steps, base, to, stood>>
callHist    == <<goal, rest>>
tickHist    == <<error, since>>
vars == <<pinVars, moveVars, profileVars, configVars, loopVars, callHist, tickHist, fastest>>

Ramping == {"ACCEL", "CRUISE", "DECEL"}

AtLeast(a, b) == IF a < b THEN b ELSE a
AtMost(a, b)  == IF a > b THEN b ELSE a
Magnitude(n)  == IF n < 0 THEN -n ELSE n

(* The AVR's 16-bit division yields all ones for a zero divisor.           *)
Quotient(a, b) == IF b = 0 THEN MaxWord ELSE a \div b

-----------------------------------------------------------------------------
(* Faulty variants of the helpers below.                                   *)
Mut_AccelSteps(v, a, n) == (v * v) \div (2 * a)
Mut_StartInterval(v) == Quotient(Timer, AtLeast(v \div 4, MinStart))
Mut_PinFor(d) == dirPin
Mut_Finished(left) == left <= 1
Mut_Counted == IF counter > 1 THEN counter - 1 ELSE counter

-----------------------------------------------------------------------------
(* setMaxVelocity(): the velocity and the interval it stands for           *)
MaxVelocity(v) == AtMost(v % (MaxWord + 1), MaxRate)
MinInterval(v) == AtLeast(Quotient(Timer, v), 1)

(* setAcceleration() *)
Acceleration(a) == AtLeast(a % (MaxWord + 1), 1)

(* moveSteps(): the steps to speed up and those at full speed, of n        *)
RampSteps(v, a) == (v * v) \div (2 * a)
AccelSteps(v, a, n) ==
  IF 2 * RampSteps(v, a) >= n THEN n \div 2 ELSE RampSteps(v, a)
CruiseSteps(v, a, n) ==
  IF 2 * RampSteps(v, a) >= n THEN 0 ELSE n - 2 * RampSteps(v, a)

(* ... and the interval to start with                                      *)
StartInterval(v) ==
  LET startSpeed == AtMost(AtLeast(v \div 4, MinStart), v)
  IN  AtLeast(Quotient(Timer, startSpeed), MinInterval(v))

(* ... and its change with each step of the ramps                          *)
Delta(v, accelSteps) ==
  IF accelSteps > 0 /\ StartInterval(v) > MinInterval(v)
  THEN ((StartInterval(v) - MinInterval(v)) * One) \div accelSteps
  ELSE 0

HomeInterval(v) == AtLeast(Timer \div AtLeast(v \div 4, MinStart), MinInterval(v))

PinFor(d) == d

(* timerCallback() *)
Finished(left) == left <= 0
Counted == counter - 1

Init ==
  /\ enabled = FALSE /\ coils = FALSE /\ dirPin \in {-1, 1}
  /\ state = "IDLE" /\ pos = 0 /\ target = 0 /\ remaining = 0 /\ direction = 1
  /\ interval = 0 /\ counter = 0 /\ frac = 0 /\ count = 0
  /\ ramp = [accel |-> 0, cruise |-> 0, delta |-> 0]
  /\ maxVelocity \in {MaxVelocity(v) : v \in Velocities}
  /\ acceleration \in {Acceleration(a) : a \in Accels}
  /\ pc = "free" /\ steps = 0 /\ base = 0 /\ to = 0 /\ stood = FALSE
  /\ goal = 0 /\ rest = FALSE /\ error = 0 /\ since = 0 /\ fastest = 0

(* A command returns, and its locals are gone.                             *)
Return == pc' = "free" /\ steps' = 0 /\ base' = 0 /\ to' = 0 /\ stood' = FALSE

(* A motion ends, and with it what is recorded of it.                      *)
Ended == goal' = 0 /\ rest' = FALSE /\ since' = 0 /\ fastest' = 0

-----------------------------------------------------------------------------
(* Commands, from loop().                                                  *)

(* enable() *)
Enable ==
  /\ pc = "free"
  /\ enabled' = TRUE /\ coils' = TRUE
  /\ UNCHANGED <<dirPin, moveVars, profileVars, configVars, loopVars, callHist, tickHist, fastest>>

(* disable(): enabled_ and the atomic block ...                            *)
Disable ==
  /\ pc = "free"
  /\ enabled' = FALSE
  /\ state' = "IDLE" /\ target' = pos /\ remaining' = 0
  /\ pc' = "release" /\ Ended
  /\ UNCHANGED <<coils, dirPin, pos, direction, profileVars, configVars,
                 steps, base, to, stood, error>>

(* ... and the pin                                                         *)
Release ==
  /\ pc = "release"
  /\ coils' = FALSE /\ Return
  /\ UNCHANGED <<enabled, dirPin, moveVars, profileVars, configVars, callHist, tickHist, fastest>>

(* setMaxVelocity()'s atomic block; minInterval_ follows maxVelocity_      *)
SetMaxVelocity(v) ==
  /\ maxVelocity' = MaxVelocity(v)
  /\ fastest' = AtMost(fastest, MinInterval(maxVelocity'))

(* handleStepConfigSet() *)
ConfigSet(v, a) ==
  /\ pc = "free"
  /\ SetMaxVelocity(v)
  /\ acceleration' = Acceleration(a)
  /\ UNCHANGED <<pinVars, moveVars, profileVars, loopVars, callHist, tickHist>>

(* handleStepMove(): the distance is computed from the position, at once   *)
Move(distance) ==
  /\ pc = "free"
  /\ \A p \in {pos, pos + direction * remaining} : Magnitude(p + distance) <= Travel
  /\ steps' = distance /\ stood' = (state = "IDLE")
  /\ to' = IF stood' THEN pos + distance ELSE 0
  /\ pc' = "move"
  /\ UNCHANGED <<pinVars, moveVars, profileVars, configVars, base, callHist, tickHist, fastest>>

MoveRelative == \E distance \in Distances : Move(distance)
MoveAbsolute == \E position \in Positions : Move(position - pos)

(* moveSteps(): the early return, or the position is read again            *)
Plan ==
  /\ pc = "move"
  /\ IF steps = 0 \/ ~enabled
     THEN Return
     ELSE pc' = "commit" /\ base' = pos /\ UNCHANGED <<steps, to, stood>>
  /\ UNCHANGED <<pinVars, moveVars, profileVars, configVars, callHist, tickHist, fastest>>

(* ... and the profile, computed meanwhile, is committed                   *)
Commit ==
  /\ pc = "commit" /\ Return
  /\ LET n     == Magnitude(steps)
         accel == AccelSteps(maxVelocity, acceleration, n)
     IN  /\ ramp' = [accel  |-> accel,
                     cruise |-> CruiseSteps(maxVelocity, acceleration, n),
                     delta  |-> Delta(maxVelocity, accel)]
         /\ remaining' = n
  /\ state' = CASE ramp'.accel > 0                      -> "ACCEL"
                [] ramp'.accel = 0 /\ ramp'.cruise > 0  -> "CRUISE"
                [] OTHER                                -> "DECEL"
  /\ direction' = IF steps > 0 THEN 1 ELSE -1
  /\ dirPin' = PinFor(direction')
  /\ target' = base + steps
  /\ interval' = StartInterval(maxVelocity) /\ counter' = interval'
  /\ frac' = interval' * One /\ count' = 0
  /\ goal' = to /\ rest' = stood
  /\ since' = 0 /\ fastest' = MinInterval(maxVelocity)
  /\ UNCHANGED <<enabled, coils, pos, configVars, error>>

(* handleStepHome(): the velocity, if there is one, becomes the maximum    *)
Home(v, d) ==
  /\ pc = "free" /\ pc' = "home" /\ steps' = d
  /\ IF v > 0 THEN SetMaxVelocity(v) ELSE UNCHANGED <<maxVelocity, fastest>>
  /\ UNCHANGED <<pinVars, moveVars, profileVars, acceleration, base, to, stood,
                 callHist, tickHist>>

(* ... and home() goes at a quarter of it                                  *)
Seek ==
  /\ pc = "home" /\ Return
  /\ IF enabled /\ HasLimit
     THEN /\ state' = "HOMING" /\ remaining' = 0
          /\ direction' = steps /\ dirPin' = PinFor(direction')
          /\ interval' = HomeInterval(maxVelocity) /\ counter' = interval'
          /\ goal' = 0 /\ rest' = FALSE
          /\ since' = 0 /\ fastest' = MinInterval(maxVelocity)
     ELSE UNCHANGED <<state, remaining, direction, dirPin, interval, counter, callHist, since, fastest>>
  /\ UNCHANGED <<enabled, coils, pos, target, frac, ramp, count, configVars, error>>

-----------------------------------------------------------------------------
(* timerCallback(), from the Timer3 interrupt.                             *)

(* Between pulses *)
TickCount ==
  /\ state # "IDLE" /\ counter > 0
  /\ counter' = Counted /\ since' = AtMost(since + 1, MaxWord)
  /\ UNCHANGED <<pinVars, moveVars, interval, frac, ramp, count, configVars,
                 loopVars, callHist, error, fastest>>

(* The home switch is closed                                               *)
TickLimit ==
  /\ state = "HOMING" /\ counter = 0
  /\ counter' = interval
  /\ state' = "IDLE" /\ pos' = 0 /\ remaining' = 0 /\ Ended
  /\ UNCHANGED <<pinVars, target, direction, interval, frac, ramp, count, configVars,
                 loopVars, error>>

(* A pulse: the driver turns the shaft if its coils are powered            *)
Pulse ==
  /\ state # "IDLE" /\ counter = 0
  /\ counter' = interval /\ since' = 0
  /\ pos' = pos + direction
  /\ error' = error + direction - (IF coils THEN dirPin ELSE 0)

(* ... of homing                                                           *)
TickHoming ==
  /\ state = "HOMING" /\ Magnitude(pos + direction) <= HomeTravel
  /\ Pulse
  /\ UNCHANGED <<pinVars, state, target, remaining, direction, interval, frac, ramp, count,
                 configVars, loopVars, callHist, fastest>>

(* ... the last one of a move                                              *)
TickLast ==
  /\ state \in Ramping /\ Finished(remaining - 1)
  /\ Pulse
  /\ state' = "IDLE" /\ remaining' = remaining - 1 /\ count' = count + 1 /\ Ended
  /\ UNCHANGED <<pinVars, target, direction, interval, frac, ramp, configVars, loopVars>>

(* ... one of the ramp up: the interval shrinks, not below the minimum     *)
Accelerated ==
  LET floor == MinInterval(maxVelocity) * One
  IN  IF frac > floor + ramp.delta THEN frac - ramp.delta ELSE floor

TickAccel ==
  /\ state = "ACCEL" /\ ~Finished(remaining - 1)
  /\ Pulse
  /\ remaining' = remaining - 1 /\ count' = count + 1
  /\ LET shrinks == ramp.delta > 0 /\ interval > MinInterval(maxVelocity)
     IN  /\ interval' = IF shrinks
                        THEN AtLeast(Accelerated \div One, MinInterval(maxVelocity))
                        ELSE interval
         /\ IF count' >= ramp.accel
            THEN /\ state' = IF ramp.cruise > 0 THEN "CRUISE" ELSE "DECEL"
                 /\ frac' = interval' * One
            ELSE /\ state' = state
                 /\ frac' = IF shrinks THEN Accelerated ELSE frac
  /\ UNCHANGED <<pinVars, target, direction, ramp, configVars, loopVars, callHist, fastest>>

(* ... one at full speed                                                   *)
TickCruise ==
  /\ state = "CRUISE" /\ ~Finished(remaining - 1)
  /\ Pulse
  /\ remaining' = remaining - 1 /\ count' = count + 1
  /\ IF count' >= ramp.accel + ramp.cruise
     THEN state' = "DECEL" /\ frac' = interval * One
     ELSE UNCHANGED <<state, frac>>
  /\ UNCHANGED <<pinVars, target, direction, interval, ramp, configVars,
                 loopVars, callHist, fastest>>

(* ... one of the ramp down: the interval grows, up to the longest         *)
Decelerated ==
  LET longest == StopTicks * One
  IN  IF frac + ramp.delta < longest THEN frac + ramp.delta ELSE longest

TickDecel ==
  /\ state = "DECEL" /\ ~Finished(remaining - 1)
  /\ Pulse
  /\ remaining' = remaining - 1 /\ count' = count + 1
  /\ IF ramp.delta > 0
     THEN /\ frac' = Decelerated
          /\ interval' = AtMost(AtLeast(Decelerated \div One, MinInterval(maxVelocity)),
                                StopTicks)
     ELSE UNCHANGED <<frac, interval>>
  /\ UNCHANGED <<pinVars, state, target, direction, ramp, configVars,
                 loopVars, callHist, fastest>>

-----------------------------------------------------------------------------
Loop ==
  \/ Enable \/ Disable \/ Release
  \/ \E v \in Velocities, a \in Accels : ConfigSet(v, a)
  \/ MoveRelative \/ MoveAbsolute \/ Plan \/ Commit
  \/ \E v \in Velocities \union {0}, d \in {-1, 1} : Home(v, d)
  \/ Seek

Tick ==
  TickCount \/ TickLimit \/ TickHoming \/ TickLast \/ TickAccel \/ TickCruise \/ TickDecel

Next == Loop \/ Tick

(* The timer never stops.                                                  *)
Spec == Init /\ [][Next]_vars /\ WF_vars(Tick)

-----------------------------------------------------------------------------
(* Properties.                                                             *)

(* Types; no counter of the profile underflows.                            *)
TypeOK ==
  /\ enabled \in BOOLEAN /\ coils \in BOOLEAN /\ dirPin \in {-1, 1}
  /\ state \in Ramping \union {"IDLE", "HOMING"}
  /\ pos \in Int /\ target \in Int /\ remaining \in Nat /\ direction \in {-1, 1}
  /\ interval \in Nat /\ counter \in Nat /\ frac \in Nat /\ count \in Nat
  /\ ramp \in [accel : Nat, cruise : Nat, delta : Nat]
  /\ maxVelocity \in 0 .. MaxRate /\ acceleration \in Nat \ {0}
  /\ pc \in {"free", "release", "move", "commit", "home"}
  /\ steps \in Int /\ base \in Int /\ to \in Int /\ stood \in BOOLEAN
  /\ goal \in Int /\ rest \in BOOLEAN
  /\ error \in Int /\ since \in Nat /\ fastest \in Nat

(* The position is that of the shaft: every pulse the interrupt counts     *)
(* goes to a powered driver, and in the direction it counts in.            *)
PositionIsTrue == error = 0

(* A move commanded while the motor stands ends where it was to end.       *)
RestMovesLand ==
  [][rest /\ state \in Ramping /\ state' = "IDLE" /\ enabled' => pos' = goal]_vars

(* While a move is not slowing down there are more steps left than it has  *)
(* to speed up: it can always come to its end at the speed it began with.  *)
RoomToSlow ==
  state \in {"ACCEL", "CRUISE"} => remaining > ramp.accel

(* Pulses are never closer than the highest velocity that was in force     *)
(* during the motion allows, whatever is configured on the way.            *)
PulsesSpaced ==
  state # "IDLE" /\ counter = 0 => since >= fastest

(* A move that is left alone comes to its end.                             *)
MovesEnd == state \in Ramping ~> (state \notin Ramping \/ pc = "commit")
=============================================================================
