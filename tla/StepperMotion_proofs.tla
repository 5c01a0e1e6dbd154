------------------------ MODULE StepperMotion_proofs ------------------------
(***************************************************************************)
(* The safety properties of StepperMotion, for every clock, configuration  *)
(* and command; that a move runs down; and that its arithmetic fits in the *)
(* driver's words.                                                         *)
(***************************************************************************)
EXTENDS StepperMotion, TLAPS

(* The motor moves only while it is powered, and in the direction it       *)
(* counts in.                                                              *)
Pins ==
  /\ enabled => coils
  /\ pc = "release" => ~enabled
  /\ pc = "commit" => enabled /\ steps # 0
  /\ pc = "home" => steps \in {-1, 1}
  /\ state # "IDLE" => enabled /\ dirPin = direction
  /\ error = 0

Ahead == IF direction = 1 THEN remaining ELSE -remaining

(* Between the command and its commitment a motor that stood still stands. *)
Landing ==
  /\ pc \in {"move", "commit"} /\ stood => state = "IDLE" /\ to = pos + steps
  /\ state \in Ramping => remaining >= 1
  /\ state \in Ramping /\ rest => pos + Ahead = goal

(* The steps left and made add up to two ramps and the cruise, at least.   *)
Room ==
  /\ state \in {"ACCEL", "CRUISE"} => remaining + count >= 2 * ramp.accel + ramp.cruise
  /\ state = "ACCEL" => count < ramp.accel
  /\ state = "CRUISE" => count < ramp.accel + ramp.cruise

(* The interval and the ticks to the next pulse respect the velocities.    *)
Spacing ==
  /\ fastest <= MinInterval(maxVelocity) /\ fastest <= MaxWord
  /\ state # "IDLE" => fastest <= interval /\ fastest <= counter + since
  /\ state \in Ramping /\ ramp.delta > 0 => fastest <= StopTicks

Inv == TypeOK /\ Pins /\ Landing /\ Room /\ Spacing

-----------------------------------------------------------------------------
(* The arithmetic of the profile.                                          *)

LEMMA DivFacts ==
  ASSUME NEW a \in Nat, NEW b \in Nat \ {0}
  PROVE  a \div b \in Nat /\ a \div b <= a
OBVIOUS

LEMMA DivFloor ==
  ASSUME NEW a \in Nat, NEW b \in Nat \ {0}, NEW q \in Nat
  PROVE  q <= a \div b <=> q * b <= a
OBVIOUS

LEMMA DivMonotone ==
  ASSUME NEW a \in Nat, NEW b \in Nat \ {0}, NEW c \in Nat \ {0}, b <= c
  PROVE  a \div c <= a \div b
<1> DEFINE q == a \div c
<1>1. q \in Nat /\ q * c <= a
  BY DivFacts, DivFloor
<1>2. q * b <= q * c
  BY <1>1
<1> QED
  BY <1>1, <1>2, DivFloor

LEMMA MinFacts ==
  ASSUME NEW v \in 0 .. MaxRate
  PROVE  MinInterval(v) \in Nat /\ MinInterval(v) >= 1 /\ MinInterval(v) <= MaxWord
<1>1. v # 0 => Timer \div v \in Nat /\ Timer \div v <= Timer
  BY DivFacts, TimingAssumption
<1> QED
  BY <1>1, TimingAssumption DEF MinInterval, Quotient, AtLeast

LEMMA ConfigFacts ==
  /\ \A v \in Velocities \union {0} : MaxVelocity(v) \in 0 .. MaxRate
  /\ \A a \in Accels : Acceleration(a) \in Nat \ {0}
<1>1. \A n \in Nat : n % (MaxWord + 1) \in Nat
  BY TimingAssumption
<1> QED
  BY <1>1, TimingAssumption, InputAssumption DEF MaxVelocity, Acceleration, AtMost, AtLeast

(* A ramp begins slower than it ends, but not slower than the stop.        *)
LEMMA StartFacts ==
  ASSUME NEW v \in 0 .. MaxRate
  PROVE  /\ StartInterval(v) \in Nat /\ MinInterval(v) <= StartInterval(v)
         /\ StartInterval(v) > MinInterval(v) =>
              MinInterval(v) <= StopTicks /\ StartInterval(v) <= StopTicks
<1> DEFINE speed == AtMost(AtLeast(v \div 4, MinStart), v)
<1>1. speed \in Nat /\ speed <= v
  BY TimingAssumption, DivFacts DEF AtMost, AtLeast
<1>2. Quotient(Timer, speed) \in Nat
  BY <1>1, DivFacts, TimingAssumption DEF Quotient
<1>3. StartInterval(v) = AtLeast(Quotient(Timer, speed), MinInterval(v))
  BY DEF StartInterval
<1>4. ASSUME StartInterval(v) > MinInterval(v)
      PROVE  MinInterval(v) <= StopTicks /\ StartInterval(v) <= StopTicks
  <2>1. speed # v
    <3>1. ASSUME speed = v PROVE FALSE
      <4>1. Quotient(Timer, speed) <= MinInterval(v)
        BY <3>1, <1>2 DEF MinInterval, AtLeast
      <4> QED
        BY <4>1, <1>2, <1>3, <1>4, MinFacts DEF AtLeast
    <3> QED
      BY <3>1
  <2>2. MinStart <= speed
    BY <2>1, TimingAssumption, DivFacts DEF AtMost, AtLeast
  <2>3. Timer \div speed <= Timer \div MinStart
    BY <2>2, <1>1, DivMonotone, TimingAssumption
  <2>4. Quotient(Timer, speed) = Timer \div speed
    BY <2>2, <1>1, TimingAssumption DEF Quotient
  <2>5. StartInterval(v) <= StopTicks
    <3>1. Timer \div MinStart \in Nat /\ StopTicks \in Nat
      BY DivFacts, TimingAssumption
    <3>2. Quotient(Timer, speed) <= StopTicks
      BY <3>1, <2>3, <2>4, <1>2, TimingAssumption
    <3> QED
      BY <3>1, <3>2, <1>2, <1>3, <1>4, MinFacts DEF AtLeast
  <2> QED
    BY <2>5, <1>4, <1>3, <1>2, MinFacts, TimingAssumption DEF AtLeast
<1>5. StartInterval(v) \in Nat /\ MinInterval(v) <= StartInterval(v)
  BY <1>2, <1>3, MinFacts DEF AtLeast
<1> QED
  BY <1>4, <1>5

(* The two ramps and the cruise make up the move.                          *)
LEMMA RampFacts ==
  ASSUME NEW v \in 0 .. MaxRate, NEW a \in Nat \ {0}, NEW n \in Nat
  PROVE  /\ AccelSteps(v, a, n) \in Nat /\ CruiseSteps(v, a, n) \in Nat
         /\ 2 * AccelSteps(v, a, n) + CruiseSteps(v, a, n) <= n
<1>1. v * v \in Nat /\ 2 * a \in Nat \ {0}
  BY TimingAssumption
<1>2. RampSteps(v, a) \in Nat
  BY <1>1, DivFacts DEF RampSteps
<1> QED
  BY <1>2 DEF AccelSteps, CruiseSteps

LEMMA DeltaFacts ==
  ASSUME NEW v \in 0 .. MaxRate, NEW accel \in Nat
  PROVE  Delta(v, accel) \in Nat /\ (Delta(v, accel) > 0 => MinInterval(v) <= StopTicks)
<1>1. CASE accel > 0 /\ StartInterval(v) > MinInterval(v)
  <2> DEFINE rise == (StartInterval(v) - MinInterval(v)) * One
  <2>1. rise \in Nat
    <3>1. StartInterval(v) - MinInterval(v) \in Nat
      BY <1>1, StartFacts, MinFacts
    <3> QED
      BY <3>1, TimingAssumption
  <2> QED
    BY <2>1, <1>1, StartFacts, DivFacts DEF Delta
<1>2. CASE ~(accel > 0 /\ StartInterval(v) > MinInterval(v))
  BY <1>2 DEF Delta
<1> QED
  BY <1>1, <1>2

LEMMA HomeFacts ==
  ASSUME NEW v \in 0 .. MaxRate
  PROVE  HomeInterval(v) \in Nat /\ MinInterval(v) <= HomeInterval(v)
<1>1. AtLeast(v \div 4, MinStart) \in Nat \ {0}
  BY DivFacts, TimingAssumption DEF AtLeast
<1>2. Timer \div AtLeast(v \div 4, MinStart) \in Nat
  BY <1>1, DivFacts, TimingAssumption
<1> QED
  BY <1>2, MinFacts DEF HomeInterval, AtLeast

-----------------------------------------------------------------------------
(* The invariant.                                                          *)

(* TypeOK, apart for what each prover is good at.                          *)
Flags == enabled \in BOOLEAN /\ coils \in BOOLEAN /\ stood \in BOOLEAN /\ rest \in BOOLEAN
Numbers ==
  /\ dirPin \in {-1, 1}
  /\ state \in Ramping \union {"IDLE", "HOMING"}
  /\ pos \in Int /\ target \in Int /\ remaining \in Nat /\ direction \in {-1, 1}
  /\ interval \in Nat /\ counter \in Nat /\ frac \in Nat /\ count \in Nat
  /\ ramp \in [accel : Nat, cruise : Nat, delta : Nat]
  /\ maxVelocity \in 0 .. MaxRate /\ acceleration \in Nat \ {0}
  /\ pc \in {"free", "release", "move", "commit", "home"}
  /\ steps \in Int /\ base \in Int /\ to \in Int /\ goal \in Int
  /\ error \in Int /\ since \in Nat /\ fastest \in Nat

LEMMA TypeParts == (TypeOK <=> Flags /\ Numbers) /\ (TypeOK' <=> Flags' /\ Numbers')
BY DEF TypeOK, Flags, Numbers

LEMMA InitInv == Init => Inv
<1> SUFFICES ASSUME Init PROVE Inv
  OBVIOUS
<1>1. maxVelocity \in 0 .. MaxRate /\ acceleration \in Nat \ {0}
  BY ConfigFacts DEF Init
<1>2. TypeOK
  <2>1. Flags
    BY Zenon DEF Init, Flags
  <2>2. Numbers
    BY <1>1 DEF Init, Numbers, Ramping
  <2> QED
    BY <2>1, <2>2, TypeParts
<1>3. Pins /\ Landing /\ Room
  BY DEF Init, Pins, Landing, Room, Ramping
<1>4. Spacing
  BY <1>1, MinFacts, TimingAssumption DEF Init, Spacing, Ramping
<1> QED
  BY <1>2, <1>3, <1>4 DEF Inv

(* What the interval becomes on the ramps.                                 *)
LEMMA RampTypes ==
  ASSUME TypeOK
  PROVE  /\ Accelerated \in Nat /\ Accelerated \div One \in Nat
         /\ Decelerated \in Nat /\ Decelerated \div One \in Nat
<1>1. MinInterval(maxVelocity) * One \in Nat /\ StopTicks * One \in Nat
  BY MinFacts, TimingAssumption DEF TypeOK
<1>2. Accelerated \in Nat /\ Decelerated \in Nat
  BY <1>1 DEF TypeOK, Accelerated, Decelerated
<1> QED
  BY <1>2, DivFacts, TimingAssumption

LEMMA SetMaxFacts ==
  ASSUME TypeOK, NEW v \in Velocities \union {0}, SetMaxVelocity(v)
  PROVE  /\ maxVelocity' \in 0 .. MaxRate /\ fastest' \in Nat
         /\ fastest' <= fastest /\ fastest' <= MinInterval(maxVelocity')
<1>1. maxVelocity' \in 0 .. MaxRate
  BY ConfigFacts DEF SetMaxVelocity
<1> QED
  BY <1>1, MinFacts DEF SetMaxVelocity, AtMost, TypeOK

(* What Commit computes.                                                   *)
LEMMA CommitFacts ==
  ASSUME TypeOK, Commit
  PROVE  /\ remaining' = Magnitude(steps) /\ remaining' \in Nat
         /\ ramp' \in [accel : Nat, cruise : Nat, delta : Nat]
         /\ 2 * ramp'.accel + ramp'.cruise <= remaining'
         /\ ramp'.delta > 0 => MinInterval(maxVelocity) <= StopTicks
         /\ interval' \in Nat /\ MinInterval(maxVelocity) <= interval'
         /\ frac' \in Nat
         /\ state' \in Ramping
         /\ state' = "ACCEL" => ramp'.accel > 0
         /\ state' = "CRUISE" => ramp'.accel = 0 /\ ramp'.cruise > 0
<1> DEFINE n == Magnitude(steps)
           accel == AccelSteps(maxVelocity, acceleration, n)
<1>1. n \in Nat /\ remaining' = n
  BY DEF TypeOK, Magnitude, Commit
<1>2. maxVelocity \in 0 .. MaxRate /\ acceleration \in Nat \ {0}
  BY DEF TypeOK
<1>3. ramp' = [accel |-> accel, cruise |-> CruiseSteps(maxVelocity, acceleration, n),
               delta |-> Delta(maxVelocity, accel)]
  BY DEF Commit
<1>4. accel \in Nat
  BY <1>1, <1>2, RampFacts
<1>5. /\ ramp' \in [accel : Nat, cruise : Nat, delta : Nat]
      /\ 2 * ramp'.accel + ramp'.cruise <= remaining'
      /\ ramp'.delta > 0 => MinInterval(maxVelocity) <= StopTicks
  BY <1>1, <1>2, <1>3, <1>4, RampFacts, DeltaFacts
<1>6. interval' \in Nat /\ MinInterval(maxVelocity) <= interval'
  BY <1>2, StartFacts DEF Commit
<1>7. frac' \in Nat
  BY <1>6, TimingAssumption DEF Commit
<1>8. state' = CASE ramp'.accel > 0                      -> "ACCEL"
                 [] ramp'.accel = 0 /\ ramp'.cruise > 0  -> "CRUISE"
                 [] OTHER                                -> "DECEL"
  BY DEF Commit
<1>9. /\ state' \in Ramping
      /\ state' = "ACCEL" => ramp'.accel > 0
      /\ state' = "CRUISE" => ramp'.accel = 0 /\ ramp'.cruise > 0
  BY <1>5, <1>8 DEF Ramping
<1> QED
  BY <1>1, <1>5, <1>6, <1>7, <1>9

(* A move, relative or absolute, is one of some distance.                  *)
LEMMA Moves == TypeOK /\ (MoveRelative \/ MoveAbsolute) => \E d \in Int : Move(d)
BY InputAssumption DEF MoveRelative, MoveAbsolute, TypeOK

LEMMA TypeStep == TypeOK /\ Pins /\ Landing /\ [Next]_vars => TypeOK'
<1> SUFFICES ASSUME TypeOK, Pins, Landing, [Next]_vars PROVE TypeOK'
  OBVIOUS
<1>1. CASE Enable
  BY <1>1 DEF Enable, TypeOK, moveVars, profileVars, configVars, loopVars, callHist, tickHist
<1>2. CASE Disable
  <2>1. Flags'
    BY <1>2, TypeParts, Zenon DEF Disable, Ended, Flags
  <2>2. Numbers'
    BY <1>2, TypeParts DEF Disable, Ended, Numbers, profileVars, configVars
  <2> QED
    BY <2>1, <2>2, TypeParts
<1>3. CASE Release
  <2>1. Flags'
    BY <1>3, TypeParts, Zenon DEF Release, Return, Flags, callHist
  <2>2. Numbers'
    BY <1>3, TypeParts
       DEF Release, Return, Numbers, moveVars, profileVars, configVars, callHist, tickHist
  <2> QED
    BY <2>1, <2>2, TypeParts
<1>4. ASSUME NEW v \in Velocities, NEW a \in Accels, ConfigSet(v, a) PROVE TypeOK'
  BY <1>4, SetMaxFacts, ConfigFacts
     DEF ConfigSet, TypeOK, pinVars, moveVars, profileVars, loopVars, callHist, tickHist
<1>5. ASSUME NEW d \in Int, Move(d) PROVE TypeOK'
  <2>1. to' \in Int /\ stood' \in BOOLEAN
    BY <1>5 DEF Move, TypeOK
  <2> QED
    BY <1>5, <2>1 DEF Move, TypeOK, pinVars, moveVars, profileVars, configVars, callHist, tickHist
<1>6. CASE Plan
  <2>1. Flags'
    BY <1>6, TypeParts, Zenon DEF Plan, Return, Flags, pinVars, callHist
  <2>2. Numbers'
    BY <1>6, TypeParts
       DEF Plan, Return, Numbers, pinVars, moveVars, profileVars, configVars, callHist, tickHist
  <2> QED
    BY <2>1, <2>2, TypeParts
<1>7. CASE Commit
  <2>1. fastest' \in Nat
    BY <1>7, MinFacts DEF Commit, TypeOK
  <2>2. direction' \in {-1, 1} /\ dirPin' \in {-1, 1}
    BY <1>7 DEF Commit, PinFor
  <2>3. counter' = interval' /\ count' = 0 /\ since' = 0 /\ goal' = to /\ target' = base + steps
    BY <1>7 DEF Commit
  <2>4. UNCHANGED <<pos, configVars, error>> /\ Return
    BY <1>7 DEF Commit
  <2>5. Numbers'
    BY <1>7, <2>1, <2>2, <2>3, <2>4, CommitFacts, TypeParts DEF Numbers, Return, configVars
  <2>6. Flags'
    BY <1>7, TypeParts, Zenon DEF Commit, Return, Flags
  <2> QED
    BY <2>5, <2>6, TypeParts
<1>8. ASSUME NEW v \in Velocities \union {0}, NEW d \in {-1, 1}, Home(v, d) PROVE TypeOK'
  <2>1. maxVelocity' \in 0 .. MaxRate /\ fastest' \in Nat
    BY <1>8, SetMaxFacts DEF Home, TypeOK
  <2> QED
    BY <1>8, <2>1
       DEF Home, TypeOK, pinVars, moveVars, profileVars, callHist, tickHist
<1>9. CASE Seek
  <2>1. HomeInterval(maxVelocity) \in Nat /\ MinInterval(maxVelocity) \in Nat
    BY HomeFacts, MinFacts DEF TypeOK
  <2>2. steps \in {-1, 1}
    BY <1>9 DEF Seek, Pins
  <2>3. Flags'
    BY <1>9, TypeParts, Zenon DEF Seek, Return, Flags, callHist
  <2>4. Numbers'
    BY <1>9, <2>1, <2>2, TypeParts DEF Seek, Return, PinFor, Numbers, configVars, callHist
  <2> QED
    BY <2>3, <2>4, TypeParts
<1>10. CASE TickCount
  BY <1>10, TimingAssumption
     DEF TickCount, Counted, AtMost, TypeOK, pinVars, moveVars, configVars, loopVars, callHist
<1>11. CASE TickLimit
  <2>1. Flags'
    BY <1>11, TypeParts, Zenon DEF TickLimit, Ended, Flags, pinVars, loopVars
  <2>2. Numbers'
    BY <1>11, TypeParts DEF TickLimit, Ended, Numbers, pinVars, configVars, loopVars
  <2> QED
    BY <2>1, <2>2, TypeParts
<1>12. Pulse => counter' \in Nat /\ since' \in Nat /\ pos' \in Int /\ error' \in Int
  BY DEF Pulse, TypeOK
<1>13. CASE TickHoming
  BY <1>12, <1>13 DEF TickHoming, TypeOK, pinVars, configVars, loopVars, callHist
<1>14. state \in Ramping => remaining - 1 \in Nat
  BY DEF Landing, TypeOK
<1>15. CASE TickLast
  <2>1. Flags'
    BY <1>15, TypeParts, Zenon DEF TickLast, Ended, Flags, pinVars, loopVars
  <2>2. Numbers'
    BY <1>12, <1>14, <1>15, TypeParts
       DEF TickLast, Pulse, Ended, Numbers, pinVars, configVars, loopVars
  <2> QED
    BY <2>1, <2>2, TypeParts
<1>16. CASE TickAccel
  <2>1. interval' \in Nat
    BY <1>16, RampTypes, MinFacts DEF TickAccel, TypeOK, AtLeast
  <2>2. frac' \in Nat /\ state' \in Ramping
    BY <1>16, <2>1, RampTypes, TimingAssumption DEF TickAccel, TypeOK, Ramping
  <2> QED
    BY <1>12, <1>14, <1>16, <2>1, <2>2
       DEF TickAccel, TypeOK, Ramping, pinVars, configVars, loopVars, callHist
<1>17. CASE TickCruise
  <2>1. frac' \in Nat /\ state' \in Ramping
    BY <1>17, TimingAssumption DEF TickCruise, TypeOK, Ramping
  <2> QED
    BY <1>12, <1>14, <1>17, <2>1
       DEF TickCruise, TypeOK, Ramping, pinVars, configVars, loopVars, callHist
<1>18. CASE TickDecel
  <2>1. frac' \in Nat /\ interval' \in Nat
    BY <1>18, RampTypes, MinFacts, TimingAssumption DEF TickDecel, TypeOK, AtLeast, AtMost
  <2> QED
    BY <1>12, <1>14, <1>18, <2>1
       DEF TickDecel, TypeOK, Ramping, pinVars, configVars, loopVars, callHist
<1>19. CASE UNCHANGED vars
  BY <1>19 DEF vars, TypeOK, pinVars, moveVars, profileVars, configVars, loopVars, callHist, tickHist
<1> QED
  BY <1>1, <1>2, <1>3, <1>4, <1>5, <1>6, <1>7, <1>8, <1>9, <1>10, <1>11, <1>13, <1>15, <1>16,
     <1>17, <1>18, <1>19, Moves DEF Next, Loop, Tick

(* No pulse goes to a motor that is off, or the wrong way.                 *)
LEMMA PinStep == Inv /\ [Next]_vars => Pins'
<1> SUFFICES ASSUME Inv, [Next]_vars PROVE Pins'
  OBVIOUS
<1>0. TypeOK /\ Pins
  BY DEF Inv
<1>1. CASE Enable
  BY <1>0, <1>1, Zenon DEF Enable, Pins, moveVars, loopVars, tickHist
<1>2. CASE Disable
  BY <1>0, <1>2, Zenon DEF Disable, Pins
<1>3. CASE Release
  BY <1>0, <1>3 DEF Release, Return, Pins, moveVars, tickHist
<1>4. ASSUME NEW v \in Velocities, NEW a \in Accels, ConfigSet(v, a) PROVE Pins'
  BY <1>0, <1>4 DEF ConfigSet, Pins, pinVars, moveVars, loopVars, tickHist
<1>5. ASSUME NEW d \in Int, Move(d) PROVE Pins'
  BY <1>0, <1>5 DEF Move, Pins, pinVars, moveVars, tickHist
<1>6. CASE Plan
  BY <1>0, <1>6 DEF Plan, Return, Pins, pinVars, moveVars, tickHist
<1>7. CASE Commit
  BY <1>0, <1>7 DEF Commit, Return, PinFor, Pins
<1>8. ASSUME NEW v \in Velocities \union {0}, NEW d \in {-1, 1}, Home(v, d) PROVE Pins'
  BY <1>0, <1>8 DEF Home, Pins, pinVars, moveVars, tickHist
<1>9. CASE Seek
  BY <1>0, <1>9 DEF Seek, Return, PinFor, Pins
<1>10. CASE TickCount
  BY <1>0, <1>10 DEF TickCount, Pins, pinVars, moveVars, loopVars
<1>11. CASE TickLimit
  BY <1>0, <1>11 DEF TickLimit, Pins, pinVars, loopVars
<1>12. ASSUME Pulse PROVE error' = 0
  <2>1. coils /\ dirPin = direction
    BY <1>0, <1>12, Zenon DEF Pulse, Pins
  <2>2. error' = error + direction - dirPin
    BY <1>12, <2>1 DEF Pulse
  <2> QED
    BY <1>0, <2>1, <2>2 DEF Pins, TypeOK
<1>13. CASE TickHoming
  BY <1>0, <1>12, <1>13 DEF TickHoming, Pins, pinVars, loopVars
<1>14. CASE TickLast
  BY <1>0, <1>12, <1>14 DEF TickLast, Pins, pinVars, loopVars
<1>15. CASE TickAccel
  BY <1>0, <1>12, <1>15 DEF TickAccel, Pins, pinVars, loopVars, Ramping
<1>16. CASE TickCruise
  BY <1>0, <1>12, <1>16 DEF TickCruise, Pins, pinVars, loopVars, Ramping
<1>17. CASE TickDecel
  BY <1>0, <1>12, <1>17 DEF TickDecel, Pins, pinVars, loopVars, Ramping
<1>18. CASE UNCHANGED vars
  BY <1>0, <1>18 DEF vars, Pins, pinVars, moveVars, loopVars, tickHist
<1> QED
  BY <1>0, <1>1, <1>2, <1>3, <1>4, <1>5, <1>6, <1>7, <1>8, <1>9, <1>10, <1>11, <1>13, <1>14,
     <1>15, <1>16, <1>17, <1>18, Moves DEF Next, Loop, Tick

(* A move keeps pointing at its goal, one step nearer with each pulse.     *)
LEMMA LandingStep == Inv /\ [Next]_vars => Landing'
<1> SUFFICES ASSUME Inv, [Next]_vars PROVE Landing'
  OBVIOUS
<1>0. TypeOK /\ Pins /\ Landing
  BY DEF Inv
<1>1. CASE Enable
  BY <1>0, <1>1 DEF Enable, Landing, Ahead, moveVars, loopVars, callHist
<1>2. CASE Disable
  BY <1>0, <1>2 DEF Disable, Ended, Landing, Ramping
<1>3. CASE Release
  BY <1>0, <1>3 DEF Release, Return, Landing, Ahead, moveVars, callHist
<1>4. ASSUME NEW v \in Velocities, NEW a \in Accels, ConfigSet(v, a) PROVE Landing'
  BY <1>0, <1>4 DEF ConfigSet, Landing, Ahead, moveVars, loopVars, callHist
<1>5. ASSUME NEW d \in Int, Move(d) PROVE Landing'
  BY <1>0, <1>5 DEF Move, Landing, Ahead, moveVars, callHist
<1>6. CASE Plan
  BY <1>0, <1>6 DEF Plan, Return, Landing, Ahead, moveVars, callHist
<1>7. CASE Commit
  <2>1. remaining' = Magnitude(steps) /\ direction' = (IF steps > 0 THEN 1 ELSE -1)
    BY <1>7 DEF Commit
  <2>2. steps \in Int /\ steps # 0 /\ pos' = pos /\ goal' = to /\ rest' = stood /\ pc' = "free"
    BY <1>0, <1>7 DEF Commit, Return, Pins, TypeOK
  <2>3. remaining' >= 1 /\ Ahead' = steps
    BY <2>1, <2>2 DEF Magnitude, Ahead
  <2>4. stood => to = pos + steps
    BY <1>0, <1>7 DEF Commit, Landing
  <2> QED
    BY <2>2, <2>3, <2>4 DEF Landing
<1>8. ASSUME NEW v \in Velocities \union {0}, NEW d \in {-1, 1}, Home(v, d) PROVE Landing'
  BY <1>0, <1>8 DEF Home, Landing, Ahead, moveVars, callHist
<1>9. CASE Seek
  <2>1. CASE enabled /\ HasLimit
    BY <1>9, <2>1 DEF Seek, Return, Landing, Ramping
  <2>2. CASE ~(enabled /\ HasLimit)
    BY <1>0, <1>9, <2>2 DEF Seek, Return, Landing, Ahead, callHist
  <2> QED
    BY <2>1, <2>2
<1>10. CASE TickCount
  BY <1>0, <1>10 DEF TickCount, Landing, Ahead, moveVars, loopVars, callHist
<1>11. CASE TickLimit
  <2>1. pc \in {"move", "commit"} => ~stood
    BY <1>0, <1>11 DEF TickLimit, Landing
  <2> QED
    BY <2>1, <1>11 DEF TickLimit, Landing, Ramping, loopVars
<1>12. state # "IDLE" /\ UNCHANGED loopVars => ~(pc' \in {"move", "commit"} /\ stood')
  BY <1>0 DEF Landing, loopVars
<1>13. CASE TickHoming
  BY <1>12, <1>13 DEF TickHoming, Landing, Ramping
<1>14. CASE TickLast
  BY <1>12, <1>14 DEF TickLast, Landing, Ramping
<1>15. ASSUME state \in Ramping, Pulse, ~Finished(remaining - 1), remaining' = remaining - 1,
              UNCHANGED <<direction, loopVars, callHist>>
       PROVE  Landing'
  <2>1. remaining' >= 1
    BY <1>0, <1>15 DEF TypeOK, Finished
  <2>2. pos' + Ahead' = pos + Ahead
    BY <1>0, <1>15 DEF Pulse, TypeOK, Ahead
  <2>3. state # "IDLE"
    BY <1>15 DEF Ramping
  <2> QED
    BY <1>0, <1>12, <1>15, <2>1, <2>2, <2>3 DEF Landing, callHist
<1>16. CASE TickAccel
  BY <1>15, <1>16 DEF TickAccel, Ramping
<1>17. CASE TickCruise
  BY <1>15, <1>17 DEF TickCruise, Ramping
<1>18. CASE TickDecel
  BY <1>15, <1>18 DEF TickDecel, Ramping
<1>19. CASE UNCHANGED vars
  BY <1>0, <1>19 DEF vars, Landing, Ahead, moveVars, loopVars, callHist
<1> QED
  BY <1>0, <1>1, <1>2, <1>3, <1>4, <1>5, <1>6, <1>7, <1>8, <1>9, <1>10, <1>11, <1>13, <1>14,
     <1>16, <1>17, <1>18, <1>19, Moves DEF Next, Loop, Tick

(* The steps made and left always add up.                                  *)
LEMMA RoomStep == Inv /\ [Next]_vars => Room'
<1> SUFFICES ASSUME Inv, [Next]_vars PROVE Room'
  OBVIOUS
<1>0. TypeOK /\ Landing /\ Room
  BY DEF Inv
<1>1. CASE UNCHANGED <<state, remaining, count, ramp>>
  BY <1>0, <1>1 DEF Room
<1>2. CASE state' \in {"IDLE", "HOMING", "DECEL"}
  BY <1>2 DEF Room
<1>3. CASE Commit
  BY <1>0, <1>3, CommitFacts DEF Commit, Room
<1>4. state \in Ramping => remaining - 1 + (count + 1) = remaining + count
  BY <1>0 DEF TypeOK
<1>5. CASE TickAccel
  <2>1. /\ remaining' = remaining - 1 /\ count' = count + 1 /\ ramp' = ramp
        /\ state = "ACCEL" /\ state \in Ramping
    BY <1>5 DEF TickAccel, Ramping
  <2>2. count' >= ramp.accel => count' = ramp.accel
    BY <1>0, <2>1 DEF Room, TypeOK
  <2>3. /\ count' >= ramp.accel => state' = (IF ramp.cruise > 0 THEN "CRUISE" ELSE "DECEL")
        /\ ~(count' >= ramp.accel) => state' = "ACCEL"
    BY <1>5, <2>1 DEF TickAccel
  <2> QED
    BY <1>0, <1>4, <2>1, <2>2, <2>3 DEF Room, TypeOK
<1>6. CASE TickCruise
  <2>1. /\ remaining' = remaining - 1 /\ count' = count + 1 /\ ramp' = ramp
        /\ state = "CRUISE" /\ state \in Ramping
        /\ count' >= ramp.accel + ramp.cruise => state' = "DECEL"
        /\ ~(count' >= ramp.accel + ramp.cruise) => state' = "CRUISE"
    BY <1>6 DEF TickCruise, Ramping
  <2> QED
    BY <1>0, <1>4, <2>1 DEF Room, TypeOK
<1>7. CASE Seek
  BY <1>1, <1>2, <1>7 DEF Seek
<1>8. CASE \E d \in Int : Move(d)
  BY <1>1, <1>8 DEF Move, moveVars, profileVars
<1> QED
  BY <1>0, <1>1, <1>2, <1>3, <1>5, <1>6, <1>7, <1>8, Moves
     DEF Next, Loop, Tick, Enable, Disable, Release, ConfigSet, Plan, Home, TickCount,
         TickLimit, TickHoming, TickLast, TickDecel, vars, moveVars, profileVars

(* No interval is shorter than the velocities in force allow.              *)
LEMMA SpacingStep == Inv /\ [Next]_vars => Spacing'
<1> SUFFICES ASSUME Inv, [Next]_vars PROVE Spacing'
  OBVIOUS
<1>0. TypeOK /\ Pins /\ Spacing
  BY DEF Inv
<1>1. MinInterval(maxVelocity) \in Nat /\ MinInterval(maxVelocity) <= MaxWord
  BY <1>0, MinFacts DEF TypeOK
<1>2. CASE UNCHANGED <<state, profileVars, configVars, since, fastest>>
  BY <1>0, <1>2 DEF Spacing, profileVars, configVars
<1>3. ASSUME Ended, state' = "IDLE", UNCHANGED maxVelocity PROVE Spacing'
  BY <1>1, <1>3, TimingAssumption DEF Ended, Spacing, Ramping
<1>4. ASSUME NEW v \in Velocities \union {0}, SetMaxVelocity(v),
             UNCHANGED <<state, profileVars, since>>
      PROVE  Spacing'
  <2>1. /\ fastest' \in Nat /\ fastest' <= fastest /\ fastest' <= MinInterval(maxVelocity')
    BY <1>0, <1>4, SetMaxFacts
  <2>2. MinInterval(maxVelocity') <= MaxWord
    BY <1>0, <1>4, SetMaxFacts, MinFacts
  <2> QED
    BY <1>0, <1>4, <2>1, <2>2, TimingAssumption DEF Spacing, TypeOK, profileVars
<1>5. CASE Commit
  <2>1. /\ interval' \in Nat /\ MinInterval(maxVelocity) <= interval'
        /\ ramp'.delta > 0 => MinInterval(maxVelocity) <= StopTicks
    BY <1>0, <1>5, CommitFacts
  <2>2. /\ fastest' = MinInterval(maxVelocity) /\ counter' = interval' /\ since' = 0
        /\ maxVelocity' = maxVelocity
    BY <1>5 DEF Commit, configVars
  <2> QED
    BY <1>1, <2>1, <2>2 DEF Spacing
<1>6. CASE Seek
  <2>1. CASE enabled /\ HasLimit
    <3>1. /\ fastest' = MinInterval(maxVelocity) /\ counter' = interval' /\ since' = 0
          /\ maxVelocity' = maxVelocity /\ interval' = HomeInterval(maxVelocity)
          /\ state' = "HOMING"
      BY <1>6, <2>1 DEF Seek, configVars
    <3>2. HomeInterval(maxVelocity) \in Nat /\ MinInterval(maxVelocity) <= HomeInterval(maxVelocity)
      BY <1>0, HomeFacts DEF TypeOK
    <3> QED
      BY <1>1, <3>1, <3>2 DEF Spacing, Ramping
  <2>2. CASE ~(enabled /\ HasLimit)
    BY <1>2, <1>6, <2>2 DEF Seek, profileVars
  <2> QED
    BY <2>1, <2>2
<1>7. CASE TickCount
  <2>1. /\ counter' = counter - 1 /\ since' = AtMost(since + 1, MaxWord)
        /\ UNCHANGED <<state, interval, ramp, maxVelocity, fastest>> /\ state # "IDLE"
    BY <1>7 DEF TickCount, Counted, moveVars, configVars
  <2>2. fastest <= counter' + since'
    BY <1>0, <1>7, <2>1, TimingAssumption DEF Spacing, AtMost, TypeOK, TickCount
  <2> QED
    BY <1>0, <2>1, <2>2 DEF Spacing
(* A pulse on the ramps or in homing reloads the counter.                  *)
<1>8. ASSUME Pulse, state # "IDLE", UNCHANGED <<ramp, maxVelocity, fastest>>,
             fastest <= interval', state' \in Ramping => state \in Ramping
      PROVE  Spacing'
  <2>1. counter' = interval /\ since' = 0
    BY <1>8 DEF Pulse
  <2>2. fastest <= counter' + since'
    BY <1>0, <1>8, <2>1 DEF Spacing, TypeOK
  <2> QED
    BY <1>0, <1>8, <2>2 DEF Spacing
<1>9. fastest \in Nat /\ (state # "IDLE" => fastest <= interval)
  BY <1>0 DEF Spacing, TypeOK
<1>10. CASE TickHoming
  BY <1>8, <1>9, <1>10 DEF TickHoming, configVars, Ramping
<1>11. CASE TickAccel
  <2>1. fastest <= interval'
    BY <1>0, <1>1, <1>9, <1>11, RampTypes DEF TickAccel, AtLeast, Spacing, TypeOK
  <2> QED
    BY <1>8, <1>11, <2>1 DEF TickAccel, configVars, Ramping
<1>12. CASE TickCruise
  BY <1>8, <1>9, <1>12 DEF TickCruise, configVars, Ramping
<1>13. CASE TickDecel
  <2>1. ramp.delta > 0 => fastest <= StopTicks
    BY <1>0, <1>13 DEF TickDecel, Spacing, Ramping
  <2>2. fastest <= interval'
    BY <1>0, <1>1, <1>9, <1>13, <2>1, RampTypes, TimingAssumption
       DEF TickDecel, AtLeast, AtMost, Spacing, TypeOK
  <2> QED
    BY <1>8, <1>13, <2>2 DEF TickDecel, configVars, Ramping
<1>14. CASE \E d \in Int : Move(d)
  BY <1>2, <1>14 DEF Move, moveVars, tickHist
<1>15. ASSUME NEW v \in Velocities, NEW a \in Accels, ConfigSet(v, a) PROVE Spacing'
  BY <1>4, <1>15 DEF ConfigSet, moveVars, tickHist
<1>16. ASSUME NEW v \in Velocities \union {0}, NEW d \in {-1, 1}, Home(v, d) PROVE Spacing'
  <2>1. CASE v > 0
    BY <1>4, <1>16, <2>1 DEF Home, moveVars, tickHist
  <2>2. CASE ~(v > 0)
    BY <1>2, <1>16, <2>2 DEF Home, moveVars, tickHist, configVars
  <2> QED
    BY <2>1, <2>2
<1>17. CASE Disable \/ TickLimit \/ TickLast
  BY <1>3, <1>17 DEF Disable, TickLimit, TickLast, configVars
<1>18. CASE Enable \/ Release \/ Plan \/ UNCHANGED vars
  BY <1>2, <1>18 DEF Enable, Release, Plan, vars, moveVars, tickHist
<1> QED
  BY <1>0, <1>5, <1>6, <1>7, <1>10, <1>11, <1>12, <1>13, <1>14, <1>15, <1>16, <1>17, <1>18, Moves
     DEF Next, Loop, Tick

LEMMA InvHolds == Spec => []Inv
<1>1. Inv /\ [Next]_vars => Inv'
  BY TypeStep, PinStep, LandingStep, RoomStep, SpacingStep DEF Inv
<1> QED
  BY InitInv, <1>1, PTL DEF Spec

-----------------------------------------------------------------------------
(* Types, for every clock, configuration and command.                      *)
THEOREM Types == Spec => []TypeOK
<1>1. Inv => TypeOK
  BY DEF Inv
<1> QED
  BY InvHolds, <1>1, PTL

(* The position the motor counts is the position of its shaft.             *)
THEOREM PositionTrue == Spec => []PositionIsTrue
<1>1. Inv => PositionIsTrue
  BY DEF Inv, Pins, PositionIsTrue
<1> QED
  BY InvHolds, <1>1, PTL

(* A move never runs out of the steps it needs to slow down.               *)
THEOREM AlwaysRoom == Spec => []RoomToSlow
<1>1. Inv => RoomToSlow
  BY DEF Inv, Room, RoomToSlow, TypeOK
<1> QED
  BY InvHolds, <1>1, PTL

(* No two pulses are closer than the configured velocities allow.          *)
THEOREM AlwaysSpaced == Spec => []PulsesSpaced
<1>1. Inv => PulsesSpaced
  BY DEF Inv, Spacing, PulsesSpaced, TypeOK
<1> QED
  BY InvHolds, <1>1, PTL

(* A move commanded at rest ends at its goal.                              *)
THEOREM RestLands == Spec => RestMovesLand
<1> DEFINE Lands == rest /\ state \in Ramping /\ state' = "IDLE" /\ enabled' => pos' = goal
<1>1. ASSUME Inv, [Next]_vars PROVE [Lands]_vars
  <2>1. CASE TickLast
    <3>1. remaining = 1
      BY <1>1, <2>1 DEF Inv, TypeOK, Landing, TickLast, Finished
    <3>2. pos' = pos + direction /\ direction \in {-1, 1} /\ pos \in Int
      BY <1>1, <2>1 DEF Inv, TypeOK, TickLast, Pulse
    <3> QED
      BY <1>1, <2>1, <3>1, <3>2 DEF Inv, Landing, Ahead, TickLast
  <2>2. CASE state' # "IDLE" \/ state \notin Ramping \/ state' = state
    BY <2>2 DEF Ramping
  <2>3. CASE Disable
    BY <2>3, Zenon DEF Disable
  <2>4. CASE Commit
    BY <1>1, <2>2, <2>4, CommitFacts DEF Inv, Ramping
  <2>5. CASE \E d \in Int : Move(d)
    BY <2>2, <2>5 DEF Move, moveVars
  <2>6. CASE Seek
    BY <2>2, <2>6 DEF Seek
  <2>7. CASE TickLimit \/ TickHoming
    BY <2>2, <2>7 DEF TickLimit, TickHoming, Ramping
  <2>8. CASE TickAccel \/ TickCruise \/ TickDecel
    BY <2>2, <2>8 DEF TickAccel, TickCruise, TickDecel
  <2> QED
    BY <1>1, <2>1, <2>2, <2>3, <2>4, <2>5, <2>6, <2>7, <2>8, Moves
       DEF Inv, Next, Loop, Tick, Enable, Release, ConfigSet, Plan, Home, TickCount, vars, moveVars
<1> QED
  BY InvHolds, <1>1, PTL DEF Spec, RestMovesLand

-----------------------------------------------------------------------------
(* Why a move ends, short of the timer's fairness: every tick of it counts *)
(* down the ticks it can still take.                                       *)

Longest == AtLeast(MaxWord, StopTicks)

Bounded ==
  state \in Ramping => interval <= Longest /\ counter <= Longest /\ frac <= Longest * One

(* A bound on the ticks that the move under way can still take.            *)
TicksLeft == remaining * (Longest + 1) + counter

LEMMA LongestFacts == Longest \in Nat /\ MaxWord <= Longest /\ StopTicks <= Longest /\ Longest * One \in Nat
<1>1. Longest \in Nat /\ MaxWord <= Longest /\ StopTicks <= Longest
  BY TimingAssumption DEF Longest, AtLeast
<1> QED
  BY <1>1, TimingAssumption

LEMMA TimesMonotone ==
  ASSUME NEW a \in Nat, NEW b \in Nat, NEW c \in Nat, a <= b
  PROVE  a * c \in Nat /\ a * c <= b * c
OBVIOUS

LEMMA DivBound ==
  ASSUME NEW a \in Nat, NEW b \in Nat, a <= b * One
  PROVE  a \div One \in Nat /\ a \div One <= b
<1>1. a \div One \in Nat /\ One \in Nat \ {0} /\ b * One \in Nat
  BY DivFacts, TimingAssumption
<1>2. ASSUME a \div One >= b + 1
      PROVE  FALSE
  <2>1. (b + 1) * One <= a
    BY <1>1, <1>2, DivFloor
  <2>2. (b + 1) * One = b * One + One
    BY <1>1
  <2> QED
    BY <1>1, <2>1, <2>2
<1> QED
  BY <1>1, <1>2

LEMMA StartBound ==
  ASSUME NEW v \in 0 .. MaxRate
  PROVE  StartInterval(v) <= MaxWord
<1> DEFINE speed == AtMost(AtLeast(v \div 4, MinStart), v)
<1>1. speed \in Nat
  BY TimingAssumption, DivFacts DEF AtMost, AtLeast
<1>2. Quotient(Timer, speed) \in Nat /\ Quotient(Timer, speed) <= MaxWord
  <2>1. CASE speed = 0
    BY <2>1, TimingAssumption DEF Quotient
  <2>2. CASE speed # 0
    <3>1. Timer \div speed \in Nat /\ Timer \div speed <= Timer
      BY <1>1, <2>2, DivFacts, TimingAssumption
    <3> QED
      BY <2>2, <3>1, TimingAssumption DEF Quotient
  <2> QED
    BY <2>1, <2>2
<1>3. StartInterval(v) = AtLeast(Quotient(Timer, speed), MinInterval(v))
  BY DEF StartInterval
<1> QED
  BY <1>2, <1>3, MinFacts DEF AtLeast

(* What a ramp makes of the interval stays in bounds.                      *)
LEMMA RampBounds ==
  ASSUME TypeOK, frac <= Longest * One
  PROVE  /\ Accelerated <= Longest * One /\ Accelerated \div One <= Longest
         /\ Decelerated <= Longest * One
         /\ MinInterval(maxVelocity) \in Nat /\ MinInterval(maxVelocity) <= Longest
<1>1. MinInterval(maxVelocity) \in Nat /\ MinInterval(maxVelocity) <= Longest
  BY MinFacts, LongestFacts, TimingAssumption DEF TypeOK
<1>2. MinInterval(maxVelocity) * One \in Nat /\ MinInterval(maxVelocity) * One <= Longest * One
  BY <1>1, LongestFacts, TimesMonotone, TimingAssumption
<1>3. StopTicks * One \in Nat /\ StopTicks * One <= Longest * One
  BY LongestFacts, TimesMonotone, TimingAssumption
<1>4. frac \in Nat /\ ramp.delta \in Nat
  BY DEF TypeOK
<1> DEFINE top == Longest * One
<1>5. top \in Nat
  BY LongestFacts
<1>6. Accelerated <= top
  <2> HIDE DEF top
  <2> QED
    BY <1>2, <1>4, <1>5 DEF Accelerated, top
<1>7. Decelerated <= top
  <2> HIDE DEF top
  <2> QED
    BY <1>3, <1>4, <1>5 DEF Decelerated, top
<1> QED
  BY <1>1, <1>6, <1>7, RampTypes, LongestFacts, DivBound

LEMMA BoundedStep == Inv /\ Bounded /\ [Next]_vars => Bounded'
<1> SUFFICES ASSUME Inv, Bounded, [Next]_vars PROVE Bounded'
  OBVIOUS
<1>0. TypeOK
  BY DEF Inv
<1> DEFINE top == Longest * One
<1>1. Longest \in Nat /\ top \in Nat
  BY LongestFacts
<1> HIDE DEF top
<1>2. CASE UNCHANGED <<state, interval, counter, frac>>
  BY <1>2 DEF Bounded
<1>3. CASE state' \notin Ramping
  BY <1>3 DEF Bounded
<1>4. CASE Commit
  <2>1. interval' \in Nat /\ interval' <= Longest
    <3>1. StartInterval(maxVelocity) \in Nat /\ StartInterval(maxVelocity) <= MaxWord
      BY <1>0, StartFacts, StartBound DEF TypeOK
    <3> QED
      BY <1>4, <3>1, LongestFacts, TimingAssumption DEF Commit
  <2>2. interval' * One <= Longest * One
    BY <2>1, LongestFacts, TimesMonotone, TimingAssumption
  <2> QED
    BY <1>4, <2>1, <2>2 DEF Commit, Bounded
<1>5. CASE TickCount
  <2>1. counter' = counter - 1 /\ counter \in Nat /\ UNCHANGED <<state, interval, frac>>
    BY <1>0, <1>5 DEF TickCount, Counted, moveVars, TypeOK
  <2> QED
    BY <1>1, <2>1 DEF Bounded
<1>6. ASSUME state \in Ramping, counter' = interval, interval' \in Nat, interval' <= Longest,
             frac' \in {frac, Accelerated, Decelerated, interval' * One}
      PROVE  Bounded'
  <2>1. interval <= Longest /\ frac <= Longest * One
    BY <1>6 DEF Bounded
  <2>2. interval' * One <= Longest * One
    BY <1>6, LongestFacts, TimesMonotone, TimingAssumption
  <2>3. frac' <= Longest * One
    BY <1>0, <1>6, <2>1, <2>2, RampBounds
  <2> QED
    BY <1>6, <2>1, <2>3 DEF Bounded
<1>7. ASSUME state \in Ramping
      PROVE  /\ interval \in Nat /\ interval <= Longest /\ frac <= Longest * One
             /\ Accelerated \div One \in Nat /\ Accelerated \div One <= Longest
             /\ MinInterval(maxVelocity) \in Nat /\ MinInterval(maxVelocity) <= Longest
  BY <1>0, <1>7, RampBounds, RampTypes DEF Bounded, TypeOK
<1>8. CASE TickAccel
  <2>1. state \in Ramping /\ counter' = interval
    BY <1>8 DEF TickAccel, Ramping, Pulse
  <2> DEFINE shrunk == AtLeast(Accelerated \div One, MinInterval(maxVelocity))
  <2>2. shrunk \in Nat /\ shrunk <= Longest
    BY <1>7, <2>1 DEF AtLeast
  <2>3. interval' \in {interval, shrunk} /\ frac' \in {frac, Accelerated, interval' * One}
    <3> HIDE DEF shrunk
    <3>1. interval' = IF ramp.delta > 0 /\ interval > MinInterval(maxVelocity) THEN shrunk ELSE interval
      BY <1>8, Zenon DEF TickAccel, shrunk
    <3>2. \/ frac' = interval' * One
          \/ frac' = IF ramp.delta > 0 /\ interval > MinInterval(maxVelocity) THEN Accelerated ELSE frac
      BY <1>8, Zenon DEF TickAccel
    <3> QED
      BY <3>1, <3>2, Zenon
  <2>4. interval' \in Nat /\ interval' <= Longest
    BY <1>7, <2>1, <2>2, <2>3
  <2> QED
    BY <1>6, <2>1, <2>3, <2>4
<1>9. CASE TickCruise
  <2>1. state \in Ramping /\ counter' = interval /\ interval' = interval
        /\ frac' \in {frac, interval' * One}
    BY <1>9 DEF TickCruise, Ramping, Pulse
  <2> QED
    BY <1>6, <1>7, <2>1
<1>10. CASE TickDecel
  <2>1. state \in Ramping /\ counter' = interval
    BY <1>10 DEF TickDecel, Ramping, Pulse
  <2> DEFINE grown == AtLeast(Decelerated \div One, MinInterval(maxVelocity))
  <2>2. interval' \in {interval, AtMost(grown, StopTicks)} /\ frac' \in {frac, Decelerated}
    BY <1>10, Zenon DEF TickDecel
  <2>3. grown \in Nat
    BY <1>0, <1>7, <2>1, RampTypes DEF AtLeast
  <2>4. AtMost(grown, StopTicks) \in Nat /\ AtMost(grown, StopTicks) <= Longest
    <3> HIDE DEF grown
    <3> QED
      BY <1>1, <2>3, LongestFacts, TimingAssumption DEF AtMost
  <2>5. interval' \in Nat /\ interval' <= Longest
    <3> HIDE DEF grown
    <3> QED
      BY <1>7, <2>1, <2>2, <2>4
  <2> QED
    BY <1>6, <2>1, <2>2, <2>5
<1>11. CASE Disable \/ TickLimit \/ TickLast
  <2>1. state' = "IDLE"
    BY <1>11, Zenon DEF Disable, TickLimit, TickLast
  <2> QED
    BY <1>3, <2>1 DEF Ramping
<1>12. CASE Seek
  <2>1. state' = "HOMING" \/ UNCHANGED <<state, interval, counter, frac>>
    BY <1>12, Zenon DEF Seek
  <2> QED
    BY <1>2, <1>3, <2>1 DEF Ramping
<1>13. CASE TickHoming
  BY <1>3, <1>13 DEF TickHoming, Ramping
<1>14. CASE \E d \in Int : Move(d)
  BY <1>2, <1>14 DEF Move, moveVars, profileVars
<1> QED
  BY <1>0, <1>2, <1>4, <1>5, <1>8, <1>9, <1>10, <1>11, <1>12, <1>13, <1>14, Moves
     DEF Next, Loop, Tick, Enable, Release, ConfigSet, Plan, Home, vars, moveVars, profileVars

(* Between two states of a move a tick uses ticks up, and nothing else but *)
(* another move changes how many are left.                                 *)
RunsDown ==
  state \in Ramping /\ state' \in Ramping =>
    /\ Tick => TicksLeft' < TicksLeft
    /\ ~Tick => Commit \/ TicksLeft' = TicksLeft

(* A move that is left alone comes to its end, if the timer never stops:   *)
(* each tick it takes leaves it fewer to take, no command but a new move   *)
(* changes how many, and there is a bound from the start.                  *)
THEOREM MovesRunDown ==
  Spec => [](state \in Ramping => TicksLeft \in Nat) /\ [][RunsDown]_vars
<1>1. Init => Bounded
  BY DEF Init, Bounded, Ramping
<1>2. TypeOK => TicksLeft \in Nat
  BY LongestFacts DEF TypeOK, TicksLeft
<1>3. ASSUME Inv, Bounded, Next, state \in Ramping, state' \in Ramping
      PROVE  (Tick => TicksLeft' < TicksLeft) /\ (~Tick => Commit \/ TicksLeft' = TicksLeft)
  <2> DEFINE turn == Longest + 1
  <2>1. /\ remaining \in Nat /\ counter \in Nat /\ interval \in Nat /\ interval < turn
        /\ turn \in Nat
    BY <1>3, LongestFacts DEF Inv, TypeOK, Bounded
  <2>2. TicksLeft = remaining * turn + counter /\ TicksLeft' = remaining' * turn + counter'
    BY DEF TicksLeft
  <2> HIDE DEF turn
  <2>3. CASE Tick
    <3>1. CASE TickCount
      <4>1. remaining' = remaining /\ counter' = counter - 1
        BY <3>1 DEF TickCount, Counted, moveVars
      <4>2. remaining * turn \in Nat
        BY <2>1
      <4> QED
        BY <2>1, <2>2, <2>3, <4>1, <4>2
    <3>2. CASE TickAccel \/ TickCruise \/ TickDecel
      <4>1. remaining' = remaining - 1 /\ counter = 0 /\ counter' = interval
        BY <3>2 DEF TickAccel, TickCruise, TickDecel, Pulse
      <4>2. (remaining - 1) * turn = remaining * turn - turn /\ remaining * turn \in Nat
        BY <2>1
      <4> QED
        BY <2>1, <2>2, <2>3, <4>1, <4>2
    <3>3. ~TickLast /\ ~TickLimit /\ ~TickHoming
      BY <1>3 DEF TickLast, TickLimit, TickHoming, Ramping
    <3> QED
      BY <2>3, <3>1, <3>2, <3>3 DEF Tick
  <2>4. CASE ~Tick /\ ~Commit
    <3>1. UNCHANGED <<remaining, counter>>
      <4>1. CASE Disable
        BY <1>3, <4>1 DEF Disable, Ramping
      <4>2. CASE Seek
        BY <1>3, <4>2 DEF Seek, Ramping
      <4>3. CASE \E d \in Int : Move(d)
        BY <4>3 DEF Move, moveVars, profileVars
      <4> QED
        BY <1>3, <2>4, <4>1, <4>2, <4>3, Moves
           DEF Inv, Next, Loop, Enable, Release, ConfigSet, Plan, Home, moveVars, profileVars
    <3> QED
      BY <2>4, <3>1 DEF TicksLeft
  <2> QED
    BY <2>3, <2>4
<1>4. Inv /\ Bounded /\ [Next]_vars => [RunsDown]_vars
  BY <1>3 DEF RunsDown
<1>5. Inv => (state \in Ramping => TicksLeft \in Nat)
  BY <1>2 DEF Inv
<1> QED
  BY InvHolds, <1>1, <1>4, <1>5, BoundedStep, PTL DEF Spec

-----------------------------------------------------------------------------
(* The integers above are the driver's words: 16 bits for the intervals, 32*)
(* for the same in fixed point, their sums included.                       *)

(* A ramp that has a slope stays below the interval of the slowest stop.   *)
Gradual ==
  state \in Ramping /\ ramp.delta > 0 =>
    interval <= StopTicks /\ frac <= StopTicks * One /\ ramp.delta <= StopTicks * One

FitsWords ==
  state \in Ramping =>
    /\ interval <= MaxWord /\ counter <= MaxWord /\ frac <= MaxWord * One
    /\ ramp.delta > 0 => frac + ramp.delta <= MaxWord * One
    /\ ramp.delta > 0 /\ interval > MinInterval(maxVelocity) =>
         MinInterval(maxVelocity) * One + ramp.delta <= MaxWord * One

(* A ramp has a slope only if it starts between full speed and the stop.   *)
LEMMA SlopeBounds ==
  ASSUME NEW v \in 0 .. MaxRate, NEW accel \in Nat, Delta(v, accel) > 0
  PROVE  StartInterval(v) <= StopTicks /\ Delta(v, accel) <= StopTicks * One
<1>1. accel \in Nat \ {0} /\ StartInterval(v) > MinInterval(v)
  BY DEF Delta
<1>2. StartInterval(v) <= StopTicks
  BY <1>1, StartFacts
<1> DEFINE rise == (StartInterval(v) - MinInterval(v)) * One
<1>3. StartInterval(v) - MinInterval(v) \in Nat /\ StartInterval(v) - MinInterval(v) <= StopTicks
  BY <1>1, <1>2, StartFacts, MinFacts, TimingAssumption
<1>4. rise \in Nat /\ rise <= StopTicks * One
  BY <1>3, TimesMonotone, TimingAssumption
<1>5. Delta(v, accel) = rise \div accel
  BY <1>1 DEF Delta
<1>6. StopTicks * One \in Nat
  BY TimingAssumption
<1> QED
  BY <1>1, <1>2, <1>4, <1>5, <1>6, DivFacts

LEMMA GradualStep == Inv /\ Gradual /\ [Next]_vars => Gradual'
<1> SUFFICES ASSUME Inv, Gradual, [Next]_vars PROVE Gradual'
  OBVIOUS
<1>0. TypeOK
  BY DEF Inv
<1> DEFINE top == StopTicks * One
<1>1. StopTicks \in Nat /\ top \in Nat
  BY TimingAssumption
<1>2. CASE UNCHANGED <<state, interval, frac, ramp>>
  BY <1>2 DEF Gradual
<1>3. CASE state' \notin Ramping
  BY <1>3 DEF Gradual
<1>4. CASE Commit
  <2> DEFINE accel == AccelSteps(maxVelocity, acceleration, Magnitude(steps))
  <2>1. ramp'.delta = Delta(maxVelocity, accel) /\ accel \in Nat
    <3>1. Magnitude(steps) \in Nat /\ maxVelocity \in 0 .. MaxRate /\ acceleration \in Nat \ {0}
      BY <1>0 DEF TypeOK, Magnitude
    <3> QED
      BY <1>4, <3>1, RampFacts DEF Commit
  <2>2. interval' = StartInterval(maxVelocity) /\ frac' = interval' * One
    BY <1>4 DEF Commit
  <2>3. maxVelocity \in 0 .. MaxRate
    BY <1>0 DEF TypeOK
  <2> HIDE DEF accel
  <2> SUFFICES ASSUME ramp'.delta > 0
               PROVE  interval' <= StopTicks /\ frac' <= top /\ ramp'.delta <= top
    BY DEF Gradual
  <2>4. interval' <= StopTicks /\ ramp'.delta <= top /\ interval' \in Nat
    BY <2>1, <2>2, <2>3, SlopeBounds, StartFacts
  <2> QED
    BY <2>2, <2>4, TimesMonotone, TimingAssumption
<1>5. ASSUME state \in Ramping, ramp' = ramp, ramp.delta > 0 => interval' \in Nat /\ interval' <= StopTicks,
             ramp.delta > 0 => frac' \in {frac, interval' * One} \/ frac' <= top
      PROVE  Gradual'
  <2> SUFFICES ASSUME ramp.delta > 0
               PROVE  interval' <= StopTicks /\ frac' <= top /\ ramp.delta <= top
    BY <1>5 DEF Gradual
  <2>1. frac <= top /\ ramp.delta <= top
    BY <1>5 DEF Gradual
  <2>2. interval' * One <= top
    BY <1>5, TimesMonotone, TimingAssumption
  <2> QED
    BY <1>5, <2>1, <2>2
<1>6. ASSUME state \in Ramping, ramp.delta > 0
      PROVE  /\ interval \in Nat /\ interval <= StopTicks /\ frac <= top
             /\ MinInterval(maxVelocity) \in Nat
  BY <1>0, <1>6, MinFacts DEF Gradual, TypeOK
<1>7. CASE TickAccel
  <2>1. state \in Ramping /\ ramp' = ramp
    BY <1>7 DEF TickAccel, Ramping
  <2>2. CASE ~(ramp.delta > 0)
    BY <1>5, <2>1, <2>2
  <2>3. CASE ramp.delta > 0 /\ ~(interval > MinInterval(maxVelocity))
    <3>1. interval' = interval /\ frac' \in {frac, interval' * One}
      BY <1>7, <2>3 DEF TickAccel
    <3> QED
      BY <1>5, <1>6, <2>1, <2>3, <3>1
  <2>4. CASE ramp.delta > 0 /\ interval > MinInterval(maxVelocity)
    <3>1. /\ interval' = AtLeast(Accelerated \div One, MinInterval(maxVelocity))
          /\ frac' \in {Accelerated, interval' * One}
      BY <1>7, <2>4 DEF TickAccel
    <3>2. /\ MinInterval(maxVelocity) <= StopTicks
          /\ MinInterval(maxVelocity) * One \in Nat /\ MinInterval(maxVelocity) * One <= top
      <4>1. MinInterval(maxVelocity) \in Nat /\ MinInterval(maxVelocity) <= StopTicks
        BY <1>1, <1>6, <2>1, <2>4
      <4> QED
        BY <4>1, TimesMonotone, TimingAssumption
    <3>3. Accelerated <= top
      <4>1. frac \in Nat /\ ramp.delta \in Nat /\ frac <= top
        BY <1>0, <1>6, <2>1, <2>4 DEF TypeOK
      <4> HIDE DEF top
      <4> QED
        BY <1>1, <3>2, <4>1 DEF Accelerated
    <3>4. Accelerated \div One \in Nat /\ Accelerated \div One <= StopTicks
      BY <1>0, <1>1, <3>3, RampTypes, DivBound
    <3>5. interval' \in Nat /\ interval' <= StopTicks
      BY <1>6, <2>1, <2>4, <3>1, <3>2, <3>4 DEF AtLeast
    <3>6. frac' \in {frac, interval' * One} \/ frac' <= top
      BY <3>1, <3>3
    <3> QED
      BY <1>5, <2>1, <3>5, <3>6
  <2> QED
    BY <2>2, <2>3, <2>4
<1>8. CASE TickCruise
  <2>1. state \in Ramping /\ ramp' = ramp /\ interval' = interval /\ frac' \in {frac, interval' * One}
    BY <1>8 DEF TickCruise, Ramping
  <2> QED
    BY <1>5, <1>6, <2>1
<1>9. CASE TickDecel
  <2>1. state \in Ramping /\ ramp' = ramp
    BY <1>9 DEF TickDecel, Ramping
  <2>2. CASE ~(ramp.delta > 0)
    BY <1>5, <2>1, <2>2
  <2>3. CASE ramp.delta > 0
    <3> DEFINE grown == AtLeast(Decelerated \div One, MinInterval(maxVelocity))
    <3>1. interval' = AtMost(grown, StopTicks) /\ frac' = Decelerated
      BY <1>9, <2>3 DEF TickDecel
    <3>2. grown \in Nat
      BY <1>0, <1>6, <2>1, <2>3, RampTypes DEF AtLeast
    <3>3. interval' \in Nat /\ interval' <= StopTicks
      <4> HIDE DEF grown
      <4> QED
        BY <1>1, <3>1, <3>2 DEF AtMost
    <3>4. Decelerated <= top
      <4>1. frac \in Nat /\ ramp.delta \in Nat
        BY <1>0 DEF TypeOK
      <4> QED
        BY <1>1, <4>1 DEF Decelerated
    <3> QED
      BY <1>5, <2>1, <3>1, <3>3, <3>4
  <2> QED
    BY <2>2, <2>3
<1>10. CASE Disable \/ TickLimit \/ TickLast
  <2>1. state' = "IDLE"
    BY <1>10, Zenon DEF Disable, TickLimit, TickLast
  <2> QED
    BY <1>3, <2>1 DEF Ramping
<1>11. CASE Seek
  <2>1. state' = "HOMING" \/ UNCHANGED <<state, interval, frac, ramp>>
    BY <1>11, Zenon DEF Seek
  <2> QED
    BY <1>2, <1>3, <2>1 DEF Ramping
<1>12. CASE TickHoming
  BY <1>3, <1>12 DEF TickHoming, Ramping
<1>13. CASE \E d \in Int : Move(d)
  BY <1>2, <1>13 DEF Move, moveVars, profileVars
<1> QED
  BY <1>0, <1>2, <1>4, <1>7, <1>8, <1>9, <1>10, <1>11, <1>12, <1>13, Moves
     DEF Next, Loop, Tick, Enable, Release, ConfigSet, Plan, Home, TickCount, vars, moveVars, profileVars

(* If the stop is slow enough, at most half of the range of a 16-bit word, *)
(* as the driver's 1000 ticks are, no interval of a move and no sum of its *)
(* fixed-point ramp overflows, whatever is configured during the move.     *)
THEOREM NoOverflow ==
  ASSUME 2 * StopTicks <= MaxWord
  PROVE  Spec => []FitsWords
<1>1. Init => Bounded /\ Gradual
  BY DEF Init, Bounded, Gradual, Ramping
<1>2. Inv /\ Bounded /\ Gradual => FitsWords
  <2> SUFFICES ASSUME Inv, Bounded, Gradual, state \in Ramping PROVE FitsWords
    BY DEF FitsWords
  <2> DEFINE one == StopTicks * One
             top == MaxWord * One
             min == MinInterval(maxVelocity)
  <2>1. Longest = MaxWord
    BY TimingAssumption DEF Longest, AtLeast
  <2>2. one \in Nat /\ top \in Nat /\ 2 * one <= top
    <3>1. 2 * StopTicks \in Nat /\ MaxWord \in Nat
      BY TimingAssumption
    <3>2. (2 * StopTicks) * One <= MaxWord * One
      BY <3>1, TimesMonotone, TimingAssumption
    <3>3. (2 * StopTicks) * One = 2 * (StopTicks * One) /\ one \in Nat /\ top \in Nat
      BY TimingAssumption
    <3> QED
      BY <3>2, <3>3
  <2>3. interval <= MaxWord /\ counter <= MaxWord /\ frac <= top
    BY <2>1 DEF Bounded
  <2>4. interval \in Nat /\ frac \in Nat /\ ramp.delta \in Nat /\ min \in Nat
    BY MinFacts DEF Inv, TypeOK
  <2>5. ASSUME ramp.delta > 0
        PROVE  interval <= StopTicks /\ frac <= one /\ ramp.delta <= one
    BY <2>5 DEF Gradual
  <2>6. ASSUME ramp.delta > 0, interval > min
        PROVE  min * One \in Nat /\ min * One <= one
    <3>1. min <= StopTicks
      BY <2>4, <2>5, <2>6, TimingAssumption
    <3> QED
      BY <2>4, <3>1, TimesMonotone, TimingAssumption
  <2>7. ramp.delta > 0 => frac + ramp.delta <= top
    <3> HIDE DEF one, top
    <3> QED
      BY <2>2, <2>4, <2>5
  <2>8. ramp.delta > 0 /\ interval > min => min * One + ramp.delta <= top
    <3> DEFINE floor == min * One
    <3>1. ramp.delta > 0 /\ interval > min => floor \in Nat /\ floor <= one
      BY <2>6
    <3> HIDE DEF one, top, floor
    <3>2. ramp.delta > 0 /\ interval > min => floor + ramp.delta <= top
      BY <2>2, <2>4, <2>5, <3>1
    <3> QED
      BY <3>2 DEF floor
  <2> QED
    BY <2>3, <2>7, <2>8 DEF FitsWords
<1> QED
  BY InvHolds, <1>1, <1>2, BoundedStep, GradualStep, PTL DEF Spec
=============================================================================
