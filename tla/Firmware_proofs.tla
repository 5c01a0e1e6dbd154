--------------------------- MODULE Firmware_proofs ---------------------------
(***************************************************************************)
(* Proofs about the firmware's loop, for any set of drives and servo       *)
(* channels and any heartbeat timeout.                                     *)
(*                                                                         *)
(* The properties of Firmware.tla are together inductive but for           *)
(* BatteryLossCaught, which needs Watched: in a RUNNING session the battery*)
(* that is there has armed the fault, or taskSafety() has yet to see the   *)
(* reading that found it.                                                  *)
(*                                                                         *)
(* The last parts are about loop() itself, Scheduler.tla, for any table of *)
(* tasks: who runs before whom, how late a task can be, and how long a pass*)
(* is.                                                                     *)
(***************************************************************************)
EXTENDS Firmware, Scheduler, FiniteSetTheorems, TLAPS

Watched == state = "RUNNING" /\ BatteryPresent => armed \/ unchecked

Inv == TypeOK /\ DrivesNeedRunning /\ ArmedOnlyRunning /\ ErrorHasCause
              /\ ServosIdleWhenHalted /\ Watched /\ BatteryLossCaught

-----------------------------------------------------------------------------
(* What the steps that disable everything have in common.                  *)
LEMMA Disabled ==
  ASSUME DisableAllActuators
  PROVE  /\ driven' = {} /\ servoEnabled' = {} /\ servoDirty' = FALSE
         /\ pulseDirty' = {} /\ offDirty' = {} /\ pcaEnabled' = FALSE
         /\ UNCHANGED <<pcaReady, pulsing>>
  BY DEF DisableAllActuators, ForgetServos

(* A battery that is not good has a flag. *)
LEMMA BadBatteryHasFlag ==
  ASSUME battery \in Readings, battery # "good"
  PROVE  BatteryFlags # {}
  BY DEF Readings, BatteryFlags

LEMMA FlagsAreFlags == BatteryFlags \subseteq Flags /\ ErrLivenessLost \in Flags
  BY DEF BatteryFlags, Flags, ErrLivenessLost

(* What a safety fault does, whatever caused it. *)
Fault == HeartbeatFault \/ (state = "RUNNING" /\ NowArmed /\ battery # "good")

LEMMA FaultStep ==
  ASSUME TypeOK, SafetyTask, Fault
  PROVE  /\ state = "RUNNING" /\ state' = "ERROR" /\ armed' = FALSE
         /\ latch' # {} /\ latch' \in SUBSET Flags
         /\ DisableAllActuators
         /\ unchecked' = FALSE
         /\ UNCHANGED <<linkVars, battery, magQueued>>
<1>1. state = "RUNNING"
  BY DEF Fault, HeartbeatFault
<1>2. /\ latch' = latch \union (IF HeartbeatFault THEN {ErrLivenessLost} ELSE {})
                        \union BatteryFlags
      /\ state' = "ERROR" /\ DisableAllActuators /\ armed' = FALSE
      /\ unchecked' = FALSE /\ UNCHANGED <<linkVars, battery, magQueued>>
  BY DEF SafetyTask, Fault, Disarm
<1>3. latch \subseteq Flags /\ battery \in Readings
  BY DEF TypeOK
<1>4. latch' \subseteq Flags
  BY <1>2, <1>3, FlagsAreFlags
<1>5. latch' # {}
  <2>1. CASE HeartbeatFault
    BY <1>2, <2>1
  <2>2. CASE ~HeartbeatFault
    <3>1. BatteryFlags # {}
      BY <2>2, <1>3, BadBatteryHasFlag DEF Fault
    <3> QED BY <1>2, <3>1
  <2> QED BY <2>1, <2>2
<1> QED BY <1>1, <1>2, <1>4, <1>5

(* The safety task when all is well. *)
LEMMA CalmStep ==
  ASSUME SafetyTask, ~Fault
  PROVE  /\ armed' = NowArmed /\ unchecked' = FALSE
         /\ UNCHANGED <<state, latch, driven, servoVars, pcaVars, linkVars, battery, magQueued>>
  BY DEF SafetyTask, Fault

-----------------------------------------------------------------------------
LEMMA InitInv == Init => Inv
<1> SUFFICES ASSUME Init PROVE Inv
  OBVIOUS
<1>1. silence \in 0..(HeartbeatTimeout + 1)
  BY TimeoutAssumption DEF Init
<1>2. TypeOK
  BY <1>1 DEF Init, TypeOK, States, Flags, Readings
<1>3. DrivesNeedRunning /\ ErrorHasCause /\ ServosIdleWhenHalted /\ Watched
                        /\ BatteryLossCaught
  BY DEF Init, DrivesNeedRunning, ErrorHasCause, ServosIdleWhenHalted, Watched, BatteryLossCaught
<1>4. ArmedOnlyRunning
  BY DEF Init, ArmedOnlyRunning
<1> QED BY <1>2, <1>3, <1>4 DEF Inv

(* taskUART() and the servo work in it. *)
LEMMA UartStep ==
  ASSUME TypeOK, UartTask
  PROVE  /\ hbValid' \in BOOLEAN /\ magQueued' = FALSE
         /\ UNCHANGED <<state, armed, latch, silence, link, battery, unchecked, driven>>
         /\ servoEnabled' = servoEnabled /\ pcaReady' = pcaReady
         /\ servoDirty' \in BOOLEAN /\ pcaEnabled' \in BOOLEAN
         /\ pulseDirty' \subseteq Servos /\ offDirty' \subseteq Servos
         /\ pulsing' \subseteq pulsing \union servoEnabled
<1>1. PICK failed \in SUBSET Servos : ProcessDeferredServo(failed)
  BY DEF UartTask
<1>2. /\ hbValid' \in BOOLEAN /\ magQueued' = FALSE
      /\ UNCHANGED <<state, armed, latch, silence, link, battery, unchecked, driven>>
  BY DEF UartTask, TypeOK, safetyVars
<1>3. CASE servoDirty \/ pulseDirty # {} \/ offDirty # {}
  <2>1. servoDirty' = FALSE /\ pulseDirty' = {} /\ offDirty' = {}
        /\ servoEnabled' = servoEnabled /\ pcaReady' = pcaReady
    BY <1>1, <1>3 DEF ProcessDeferredServo
  <2>2. CASE pcaReady
    BY <1>1, <1>2, <1>3, <2>1, <2>2 DEF ProcessDeferredServo, Written
  <2>3. CASE ~pcaReady
    BY <1>1, <1>2, <1>3, <2>1, <2>3 DEF ProcessDeferredServo, TypeOK
  <2> QED BY <2>2, <2>3
<1>4. CASE ~(servoDirty \/ pulseDirty # {} \/ offDirty # {})
  BY <1>1, <1>2, <1>4 DEF ProcessDeferredServo, TypeOK, servoVars, pcaVars
<1> QED BY <1>3, <1>4

(* A received message leaves the environment's part of the types alone. *)
LinkTyped == /\ hbValid \in BOOLEAN /\ silence \in 0..(HeartbeatTimeout + 1)
             /\ link \in {"up", "down"} /\ battery \in Readings
             /\ unchecked \in BOOLEAN

LEMMA ReceiveTypes ==
  ASSUME TypeOK, Receive
  PROVE  LinkTyped'
<1>1. 0 \in 0..(HeartbeatTimeout + 1)
  BY TimeoutAssumption
<1> QED BY <1>1 DEF Receive, TypeOK, LinkTyped

(* Disabling everything keeps the types of what it touches. *)
LEMMA DisabledTypes ==
  ASSUME TypeOK, DisableAllActuators
  PROVE  /\ driven' \in SUBSET Drives
         /\ servoEnabled' \in SUBSET Servos /\ servoDirty' \in BOOLEAN
         /\ pulseDirty' \in SUBSET Servos /\ offDirty' \in SUBSET Servos
         /\ pcaReady' \in BOOLEAN /\ pcaEnabled' \in BOOLEAN
         /\ pulsing' \in SUBSET Servos
  BY Disabled DEF TypeOK

(* Every step keeps the types. *)
LEMMA TypeStep == TypeOK /\ [Next]_vars => TypeOK'
<1> SUFFICES ASSUME TypeOK, [Next]_vars PROVE TypeOK'
  OBVIOUS
<1>0. HeartbeatTimeout \in Nat
  BY TimeoutAssumption
<1>1. CASE Boot
  BY <1>1 DEF Boot, Disarm, TypeOK, linkVars, servoVars, pcaVars, States
<1>2. CASE Heartbeat
  BY <1>0, <1>2 DEF Heartbeat, Receive, TypeOK, safetyVars, servoVars, pcaVars
<1>3. CASE StartCmd
  BY <1>0, <1>3 DEF StartCmd, Receive, BatteryPresent, TypeOK, servoVars, pcaVars, States
<1>4. CASE \E cmd \in {"STOP", "RESET"} : IdleCmd(cmd)
  <2>1. PICK cmd \in {"STOP", "RESET"} : IdleCmd(cmd)
    BY <1>4
  <2>2. latch' \in SUBSET Flags
    BY <2>1 DEF IdleCmd, TypeOK
  <2>3. DisableAllActuators
    BY <2>1 DEF IdleCmd
  <2>4. state' \in States /\ armed' \in BOOLEAN /\ magQueued' \in BOOLEAN
    BY <2>1 DEF IdleCmd, Disarm, States
  <2>5. LinkTyped'
    BY <2>1, ReceiveTypes DEF IdleCmd
  <2> QED BY <2>2, <2>3, <2>4, <2>5, DisabledTypes DEF TypeOK, LinkTyped
<1>5. CASE EstopCmd
  <2>1. DisableAllActuators
    BY <1>5 DEF EstopCmd
  <2>2. /\ state' \in States /\ armed' \in BOOLEAN /\ magQueued' \in BOOLEAN
        /\ latch' \in SUBSET Flags
    BY <1>5 DEF EstopCmd, Disarm, States, TypeOK
  <2>3. LinkTyped'
    BY <1>5, ReceiveTypes DEF EstopCmd
  <2> QED BY <2>1, <2>2, <2>3, DisabledTypes DEF TypeOK, LinkTyped
<1>6. CASE MagCalCmd
  BY <1>0, <1>6 DEF MagCalCmd, Receive, TypeOK, safetyVars, servoVars, pcaVars
<1>7. CASE \E d \in Drives : DriveEnable(d) \/ DriveDisable(d)
  <2>1. PICK d \in Drives : DriveEnable(d) \/ DriveDisable(d)
    BY <1>7
  <2>2. driven' \in SUBSET Drives
    BY <2>1 DEF DriveEnable, DriveDisable, TypeOK
  <2>3. LinkTyped' /\ UNCHANGED <<safetyVars, magQueued, servoVars, pcaVars>>
    BY <2>1, ReceiveTypes DEF DriveEnable, DriveDisable
  <2> QED
    BY <2>2, <2>3 DEF TypeOK, LinkTyped, safetyVars, servoVars, pcaVars
<1>8. CASE \E c \in Servos : ServoSet(c)
  BY <1>0, <1>8 DEF ServoSet, Receive, TypeOK, safetyVars, pcaVars
<1>9. CASE \E chs \in SUBSET Servos : ServoEnable(chs)
  BY <1>0, <1>9 DEF ServoEnable, Receive, TypeOK, safetyVars, pcaVars
<1>10. CASE \E c \in Servos : ServoDisable(c)
  BY <1>0, <1>10 DEF ServoDisable, Receive, TypeOK, safetyVars, pcaVars
<1>11. CASE ServoDisableAll
  BY <1>0, <1>11 DEF ServoDisableAll, Receive, TypeOK, safetyVars, pcaVars
<1>12. CASE UartTask
  BY <1>12, UartStep DEF TypeOK
<1>13. CASE SafetyTask
  <2>1. CASE Fault
    BY <1>13, <2>1, FaultStep, Disabled DEF TypeOK, States, linkVars
  <2>2. CASE ~Fault
    BY <1>13, <2>2, CalmStep
    DEF TypeOK, linkVars, servoVars, pcaVars, NowArmed, BatteryPresent
  <2> QED BY <2>1, <2>2
<1>14. CASE SensorTask
  BY <1>14 DEF SensorTask, TypeOK, safetyVars, linkVars, servoVars, pcaVars
<1>15. CASE I2CRetryTask
  BY <1>15 DEF I2CRetryTask, TypeOK, safetyVars, linkVars, servoVars
<1>16. CASE Elapse
  BY <1>0, <1>16 DEF Elapse, TypeOK, safetyVars, servoVars, pcaVars
<1>17. CASE LinkChange
  BY <1>17 DEF LinkChange, TypeOK, safetyVars, servoVars, pcaVars
<1>18. CASE UNCHANGED vars
  BY <1>18 DEF vars, TypeOK, safetyVars, linkVars, servoVars, pcaVars
<1> QED
  BY <1>1, <1>2, <1>3, <1>4, <1>5, <1>6, <1>7, <1>8, <1>9, <1>10, <1>11, <1>12,
     <1>13, <1>14, <1>15, <1>16, <1>17, <1>18
  DEF Next, Message, Task

-----------------------------------------------------------------------------
(* The safety parts of Inv, named together. *)
Safe == DrivesNeedRunning /\ ArmedOnlyRunning /\ ErrorHasCause
        /\ ServosIdleWhenHalted /\ Watched /\ BatteryLossCaught

(* A step that leaves these variables alone is safe. *)
LEMMA SafeFrame ==
  ASSUME Safe, UNCHANGED <<state, armed, latch, battery, unchecked, driven, servoEnabled>>
  PROVE  Safe'
  BY DEF Safe, DrivesNeedRunning, ArmedOnlyRunning, ErrorHasCause,
         ServosIdleWhenHalted, Watched, BatteryLossCaught, BatteryPresent

(* A step that disables everything is safe when it leaves RUNNING, or the  *)
(* fault latch says why it enters ERROR.                                   *)
LEMMA SafeHalt ==
  ASSUME DisableAllActuators, armed' = FALSE, state' # "RUNNING",
         state' = "ERROR" => latch' # {}
  PROVE  Safe'
  BY Disabled
  DEF Safe, DrivesNeedRunning, ArmedOnlyRunning, ErrorHasCause,
      ServosIdleWhenHalted, Watched, BatteryLossCaught

(* Every step is safe.  The battery fault's arming is the delicate part:   *)
(* a drive is enabled before taskSafety() has armed the fault, and only    *)
(* taskSensors() can lose the battery, which must wait for taskSafety().   *)
LEMMA SafeStep == Inv /\ [Next]_vars => Safe'
<1> SUFFICES ASSUME Inv, [Next]_vars PROVE Safe'
  OBVIOUS
<1>0. TypeOK /\ Safe
  BY DEF Inv, Safe
<1>1. CASE Boot
  <2>1. driven = {} /\ armed' = FALSE /\ state' = "IDLE" /\ driven' = driven
    BY <1>0, <1>1 DEF Boot, Disarm, Safe, DrivesNeedRunning
  <2> QED
    BY <2>1 DEF Safe, DrivesNeedRunning, ArmedOnlyRunning, ErrorHasCause,
                ServosIdleWhenHalted, Watched, BatteryLossCaught
<1>2. CASE Heartbeat \/ MagCalCmd \/ \E c \in Servos : ServoSet(c)
  BY <1>0, <1>2, SafeFrame
  DEF Heartbeat, MagCalCmd, ServoSet, Receive, safetyVars, servoVars
<1>3. CASE StartCmd
  <2>1. state = "IDLE" /\ state' = "RUNNING" /\ driven' = driven /\ driven = {}
    BY <1>0, <1>3 DEF StartCmd, Allowed, Safe, DrivesNeedRunning
  <2> QED
    BY <2>1, <1>3 DEF StartCmd, Safe, DrivesNeedRunning, ArmedOnlyRunning,
            ErrorHasCause, ServosIdleWhenHalted, Watched, BatteryLossCaught,
            BatteryPresent, Receive
<1>4. CASE \E cmd \in {"STOP", "RESET"} : IdleCmd(cmd)
  <2>1. DisableAllActuators /\ armed' = FALSE /\ state' = "IDLE"
    BY <1>4 DEF IdleCmd, Disarm
  <2> QED BY <2>1, SafeHalt
<1>5. CASE EstopCmd
  <2>1. DisableAllActuators /\ armed' = FALSE /\ state' = "ESTOP"
    BY <1>5 DEF EstopCmd, Disarm
  <2> QED BY <2>1, SafeHalt
<1>6. CASE \E d \in Drives : DriveEnable(d)
  <2>1. /\ state = "RUNNING" /\ BatteryPresent
        /\ UNCHANGED <<state, armed, latch, battery, unchecked, servoEnabled>>
    BY <1>6 DEF DriveEnable, CanRunDrive, Receive, safetyVars, servoVars
  <2> QED
    BY <1>0, <2>1, <1>6 DEF Safe, DrivesNeedRunning, ArmedOnlyRunning, ErrorHasCause,
                     ServosIdleWhenHalted, Watched, BatteryLossCaught, BatteryPresent
<1>7. CASE \E d \in Drives : DriveDisable(d)
  <2>1. /\ driven' \subseteq driven
        /\ UNCHANGED <<state, armed, latch, battery, unchecked, servoEnabled>>
    BY <1>7 DEF DriveDisable, Receive, safetyVars, servoVars
  <2> QED
    BY <1>0, <2>1 DEF Safe, DrivesNeedRunning, ArmedOnlyRunning, ErrorHasCause,
                      ServosIdleWhenHalted, Watched, BatteryLossCaught, BatteryPresent
<1>8. CASE \E chs \in SUBSET Servos : ServoEnable(chs)
  <2>1. /\ state \in {"IDLE", "RUNNING"}
        /\ UNCHANGED <<state, armed, latch, battery, unchecked, driven>>
    BY <1>8 DEF ServoEnable, CanEnableServo, Receive, safetyVars
  <2> QED
    BY <1>0, <2>1 DEF Safe, DrivesNeedRunning, ArmedOnlyRunning, ErrorHasCause,
                      ServosIdleWhenHalted, Watched, BatteryLossCaught, BatteryPresent
<1>9. CASE ServoDisableAll \/ \E c \in Servos : ServoDisable(c)
  <2>1. /\ servoEnabled' \subseteq servoEnabled
        /\ UNCHANGED <<state, armed, latch, battery, unchecked, driven>>
    BY <1>9 DEF ServoDisableAll, ServoDisable, Receive, safetyVars
  <2> QED
    BY <1>0, <2>1 DEF Safe, DrivesNeedRunning, ArmedOnlyRunning, ErrorHasCause,
                      ServosIdleWhenHalted, Watched, BatteryLossCaught, BatteryPresent
<1>10. CASE UartTask
  BY <1>0, <1>10, UartStep, SafeFrame
<1>11. CASE SafetyTask
  <2>1. CASE Fault
    BY <1>0, <1>11, <2>1, FaultStep, SafeHalt
  <2>2. CASE ~Fault
    <3>1. /\ armed' = NowArmed /\ unchecked' = FALSE
          /\ UNCHANGED <<state, latch, driven, battery, servoEnabled>>
      BY <1>11, <2>2, CalmStep DEF servoVars
    <3>2. /\ DrivesNeedRunning' /\ ErrorHasCause' /\ ServosIdleWhenHalted'
      BY <1>0, <3>1 DEF Safe, DrivesNeedRunning, ErrorHasCause, ServosIdleWhenHalted
    <3>3. ArmedOnlyRunning'
      BY <1>0, <3>1 DEF Safe, ArmedOnlyRunning, NowArmed
    <3>4. state = "RUNNING" /\ BatteryPresent => NowArmed
      BY DEF NowArmed
    <3>5. Watched' /\ BatteryLossCaught'
      BY <1>0, <3>1, <3>4 DEF Safe, Watched, BatteryLossCaught, BatteryPresent, NowArmed
    <3> QED BY <3>2, <3>3, <3>5 DEF Safe
  <2> QED BY <2>1, <2>2
<1>12. CASE SensorTask
  <2>1. /\ ~unchecked /\ unchecked'
        /\ UNCHANGED <<state, armed, latch, driven, servoEnabled>>
    BY <1>12 DEF SensorTask, SensorsDue, safetyVars, servoVars
  <2> QED
    BY <1>0, <2>1 DEF Safe, DrivesNeedRunning, ArmedOnlyRunning, ErrorHasCause,
                      ServosIdleWhenHalted, Watched, BatteryLossCaught, BatteryPresent
<1>13. CASE I2CRetryTask \/ Elapse \/ LinkChange
  BY <1>0, <1>13, SafeFrame
  DEF I2CRetryTask, Elapse, LinkChange, safetyVars, linkVars, servoVars
<1>14. CASE UNCHANGED vars
  BY <1>0, <1>14, SafeFrame DEF vars, safetyVars, servoVars
<1> QED
  BY <1>1, <1>2, <1>3, <1>4, <1>5, <1>6, <1>7, <1>8, <1>9, <1>10, <1>11, <1>12,
     <1>13, <1>14
  DEF Next, Message, Task

-----------------------------------------------------------------------------
LEMMA InvHolds == Spec => []Inv
<1>1. Inv /\ [Next]_vars => Inv'
  BY TypeStep, SafeStep DEF Inv, Safe
<1> QED BY InitInv, <1>1, PTL DEF Spec

(* The firmware's variables keep their types. *)
THEOREM Types == Spec => []TypeOK
<1>1. Inv => TypeOK
  BY DEF Inv
<1> QED BY InvHolds, <1>1, PTL

(* No drive is on outside RUNNING: the gates of the enable handlers and     *)
(* disableAllActuators() at every way out.                                 *)
THEOREM DrivesGated == Spec => []DrivesNeedRunning
<1>1. Inv => DrivesNeedRunning
  BY DEF Inv
<1> QED BY InvHolds, <1>1, PTL

(* The loss of the battery a drive runs on will be a fault:                *)
(* shouldTripBatteryFault() and the priorities of taskSafety() and         *)
(* taskSensors().                                                          *)
THEOREM DrivesWatched == Spec => []BatteryLossCaught
<1>1. Inv => BatteryLossCaught
  BY DEF Inv
<1> QED BY InvHolds, <1>1, PTL

(* The battery fault stays disarmed outside RUNNING. *)
THEOREM DisarmedOutside == Spec => []ArmedOnlyRunning
<1>1. Inv => ArmedOnlyRunning
  BY DEF Inv
<1> QED BY InvHolds, <1>1, PTL

(* ERROR always comes with a latched cause. *)
THEOREM CauseLatched == Spec => []ErrorHasCause
<1>1. Inv => ErrorHasCause
  BY DEF Inv
<1> QED BY InvHolds, <1>1, PTL

(* No servo is enabled in ERROR or ESTOP. *)
THEOREM ServosIdle == Spec => []ServosIdleWhenHalted
<1>1. Inv => ServosIdleWhenHalted
  BY DEF Inv
<1> QED BY InvHolds, <1>1, PTL

(* A fault strikes a running robot only, and disables everything at once.  *)
THEOREM FaultStops == Spec => FaultsStopRunning
<1>1. Inv /\ [Next]_vars =>
        [state' = "ERROR" /\ state # "ERROR" =>
           /\ state = "RUNNING" /\ latch' # {}
           /\ driven' = {} /\ servoEnabled' = {}]_vars
  <2> SUFFICES ASSUME Inv, [Next]_vars, state' = "ERROR", state # "ERROR"
               PROVE  /\ state = "RUNNING" /\ latch' # {}
                      /\ driven' = {} /\ servoEnabled' = {}
    OBVIOUS
  <2>1. SafetyTask
    <3>1. ~Message
      BY DEF Message, Heartbeat, StartCmd, EstopCmd, MagCalCmd, IdleCmd, DriveEnable,
             DriveDisable, ServoSet, ServoEnable, ServoDisable, ServoDisableAll, safetyVars
    <3>2. ~(Boot \/ UartTask \/ SensorTask \/ I2CRetryTask \/ Elapse \/ LinkChange)
      BY DEF Boot, UartTask, SensorTask, I2CRetryTask, Elapse, LinkChange, safetyVars
    <3>3. state' # state
      OBVIOUS
    <3> QED BY <3>1, <3>2, <3>3 DEF Next, Task, vars, safetyVars
  <2>2. Fault
    BY <2>1, CalmStep
  <2> QED BY <2>1, <2>2, FaultStep, Disabled DEF Inv
<1> QED BY InvHolds, <1>1, PTL DEF Spec, FaultsStopRunning

(* A channel gains a pulse only when it is enabled, in IDLE or RUNNING:    *)
(* whatever was queued when the robot stopped, disableAllActuators() and   *)
(* the enabled mask keep processDeferredServo() from writing it.           *)
THEOREM PulsesFollowEnable == Spec => PulsesNeedEnable
<1>1. Inv /\ [Next]_vars =>
        [\A c \in pulsing' \ pulsing :
            c \in servoEnabled /\ state \in {"IDLE", "RUNNING"}]_vars
  <2> SUFFICES ASSUME Inv, [Next]_vars, NEW c \in pulsing' \ pulsing
               PROVE  c \in servoEnabled /\ state \in {"IDLE", "RUNNING"}
    OBVIOUS
  <2>1. UartTask
    <3>1. ~Message
      BY Disabled
      DEF Message, Heartbeat, StartCmd, EstopCmd, MagCalCmd, IdleCmd, DriveEnable,
          DriveDisable, ServoSet, ServoEnable, ServoDisable, ServoDisableAll, pcaVars
    <3>2. ~SafetyTask
      <4>1. SafetyTask => pulsing' = pulsing
        BY FaultStep, CalmStep, Disabled DEF Inv, pcaVars
      <4> QED BY <4>1
    <3>3. ~(Boot \/ SensorTask \/ I2CRetryTask \/ Elapse \/ LinkChange)
      BY DEF Boot, SensorTask, I2CRetryTask, Elapse, LinkChange, pcaVars
    <3>4. pulsing' # pulsing
      OBVIOUS
    <3> QED BY <3>1, <3>2, <3>3, <3>4 DEF Next, Task, vars, pcaVars
  <2>2. c \in servoEnabled
    BY <2>1, UartStep DEF Inv
  <2>3. state \notin {"ERROR", "ESTOP"}
    BY <2>2 DEF Inv, ServosIdleWhenHalted
  <2>4. state \in States /\ state # "INIT"
    BY <2>1 DEF UartTask, Inv, TypeOK
  <2> QED BY <2>2, <2>3, <2>4 DEF States
<1> QED BY InvHolds, <1>1, PTL DEF Spec, PulsesNeedEnable

(* What SilenceStopsRobot rests on besides the fairness: a robot that runs *)
(* with its link down, and the steps it has left to.                       *)
Unheard == state = "RUNNING" /\ link = "down"
Grace == (HeartbeatTimeout + 1 - silence) + (IF hbValid THEN 1 ELSE 0)

GraceRunsOut ==
  Unheard /\ Unheard' =>
    /\ Grace' <= Grace
    /\ Elapse \/ (UartTask /\ TimedOut /\ hbValid) => Grace' < Grace
    /\ SafetyTask => hbValid

(* Time, then taskUART(), use up the grace of a robot whose link is down,  *)
(* and no step gives any of it back: the time that silence may last and    *)
(* the heartbeat that is still held valid.  taskSafety() never leaves a    *)
(* robot running that has none left.                                       *)
THEOREM SilenceCounted == Spec => [](Grace \in Nat) /\ [][GraceRunsOut]_vars
<1>0. HeartbeatTimeout \in Nat
  BY TimeoutAssumption
<1>1. Inv => Grace \in Nat
  <2> SUFFICES ASSUME Inv PROVE Grace \in Nat
    OBVIOUS
  <2>1. HeartbeatTimeout + 1 - silence \in Nat
    BY <1>0 DEF Inv, TypeOK
  <2> QED
    BY <2>1 DEF Grace
<1>2. ASSUME Inv, [Next]_vars PROVE [GraceRunsOut]_vars
  <2> SUFFICES ASSUME Next, Unheard, Unheard'
               PROVE  /\ Grace' <= Grace
                      /\ Elapse \/ (UartTask /\ TimedOut /\ hbValid) => Grace' < Grace
                      /\ SafetyTask => hbValid
    BY <1>2 DEF GraceRunsOut
  <2>0. silence \in 0..(HeartbeatTimeout + 1) /\ hbValid \in BOOLEAN
    BY <1>2 DEF Inv, TypeOK
  <2>1. ~Receive
    BY DEF Receive, Unheard
  <2>2. Boot \/ Task \/ Elapse \/ LinkChange
    BY <2>1 DEF Next, Message, Heartbeat, StartCmd, EstopCmd, MagCalCmd, IdleCmd, DriveEnable,
           DriveDisable, ServoSet, ServoEnable, ServoDisable, ServoDisableAll
  <2>3. SafetyTask => hbValid
    BY FaultStep, <1>2 DEF Fault, HeartbeatFault, Unheard, Inv
  <2>4. CASE Elapse
    <3>1. silence' = silence + 1 /\ hbValid' = hbValid /\ ~UartTask
      BY <2>0, <2>4 DEF Elapse, UartTask
    <3> QED
      BY <1>0, <2>0, <2>3, <3>1 DEF Grace
  <2>5. CASE UartTask
    <3>0. hbValid' \in BOOLEAN /\ (hbValid' <=> hbValid /\ ~TimedOut)
      BY <1>2, <2>0, <2>5, UartStep DEF UartTask, Inv
    <3>1. silence' = silence /\ ~Elapse
      BY <2>0, <2>5 DEF Elapse, UartTask
    <3>2. CASE TimedOut /\ hbValid
      <4>1. ~hbValid'
        BY <3>0, <3>2
      <4>2. Grace' = HeartbeatTimeout + 1 - silence + 0 /\ Grace = HeartbeatTimeout + 1 - silence + 1
        BY <3>1, <3>2, <4>1 DEF Grace
      <4> QED
        BY <1>0, <2>0, <3>2, <4>2
    <3>3. CASE ~hbValid
      <4>1. ~hbValid'
        BY <3>0, <3>3
      <4>2. Grace' = Grace
        BY <3>1, <3>3, <4>1 DEF Grace
      <4>3. Grace' <= Grace
        BY <1>1, <1>2, <4>2
      <4> QED
        BY <2>3, <3>1, <3>3, <4>3
    <3>4. CASE hbValid /\ ~TimedOut
      <4>1. hbValid'
        BY <3>0, <3>4
      <4>2. Grace' = Grace
        BY <3>1, <3>4, <4>1 DEF Grace
      <4>3. Grace' <= Grace
        BY <1>1, <1>2, <4>2
      <4> QED
        BY <2>3, <3>1, <3>4, <4>3
    <3> QED
      BY <3>2, <3>3, <3>4
  <2>6. CASE ~Elapse /\ ~UartTask
    <3>1. UNCHANGED <<silence, hbValid>>
      BY <2>2, <2>6 DEF Boot, Task, SafetyTask, SensorTask, I2CRetryTask, LinkChange, linkVars
    <3> QED
      BY <1>0, <2>0, <2>3, <2>6, <3>1 DEF Grace
  <2> QED
    BY <2>4, <2>5, <2>6
<1> QED
  BY InvHolds, <1>1, <1>2, PTL DEF Spec

-----------------------------------------------------------------------------
(* loop(), for any table of tasks.  Firmware.tla lets taskSensors() run only  *)
(* when taskSafety() has run since it last did; that the order of the table   *)
(* and the scheduler's rule see to it is LeadersRunFirst of Scheduler.tla.    *)

Clocks ==
  /\ age \in [Tasks -> Nat] /\ \A t \in Tasks : age[t] <= Period[t]
  /\ waiting \in [Tasks -> 0..(Lag + 1)] /\ \A t \in Tasks : waiting[t] > 0 => Due(t)
  /\ since \in [Tasks -> SUBSET Tasks]

Burst ==
  /\ at \in {"setup", "first", "periodic", "between", "last"}
  /\ count \in Nat
  /\ at = "setup" => count <= Len(Priority)
  /\ at = "periodic" => count <= kMaxPeriodicBurst
  /\ at = "between" => count < kMaxPeriodicBurst
  /\ at \in {"first", "last"} => count = 0
  /\ burst \in 0..(kMaxControlFastLaneBurst - 1)
  /\ (progress => InFastLane)
  /\ work \subseteq {"motors", "rx", "tx"} /\ spent \in 0..(PassTime + 1)

\* A task that has not run since t did, and leads it, has waited for as long as
\* t has, or is due; and no task ages before it is registered.
Waiting ==
  \A t \in Tasks :
    /\ since[t] \subseteq Leaders(t)
    /\ \A u \in Leaders(t) \ since[t] : age[u] >= age[t] \/ Due(u)

Registered == at = "setup" => \A t \in Tasks : t > count => age[t] = 0

Asked == progress \in BOOLEAN

LoopInv == Asked /\ Clocks /\ Burst /\ Waiting /\ Registered

LEMMA TaskFacts ==
  /\ Tasks = 1..Len(Priority) /\ Len(Priority) \in Nat
  /\ \A t \in Tasks : /\ Priority[t] \in 0..7 /\ Period[t] \in Nat /\ Period[t] >= 1
                      /\ Leaders(t) \subseteq Tasks
  /\ \A t \in Tasks : \A u \in Leaders(t) :
       u < t /\ Priority[u] < Priority[t] /\ Period[u] <= Period[t]
<1>1. Tasks = 1..Len(Priority) /\ Len(Priority) \in Nat
  BY TasksAssumption DEF Tasks
<1>2. ASSUME NEW t \in Tasks
      PROVE  Priority[t] \in 0..7 /\ Period[t] \in Nat /\ Period[t] >= 1
  <2>1. Period[t] \in Nat \ {0}
    BY TasksAssumption
  <2>2. Priority[t] \in 0..7
    BY <1>1, TasksAssumption
  <2> QED
    BY <2>1, <2>2
<1>3. ASSUME NEW t \in Tasks, NEW u \in Leaders(t)
      PROVE  u \in Tasks /\ u < t /\ Priority[u] < Priority[t] /\ Period[u] <= Period[t]
  BY <1>1 DEF Leaders
<1> QED
  BY <1>1, <1>2, <1>3

LEMMA InitLoop == LoopInit => LoopInv
<1> SUFFICES ASSUME LoopInit PROVE LoopInv
  OBVIOUS
<1>1. Clocks
  BY TaskFacts, TimeAssumption DEF LoopInit, Clocks
<1>2. Burst
  <2>1. Len(Priority) \in Nat /\ PassTime \in Nat
    BY TaskFacts, TimeAssumption
  <2> QED
    BY <2>1 DEF LoopInit, Burst, kMaxControlFastLaneBurst, InFastLane
<1>3. Waiting
  <2>1. \A t \in Tasks : Leaders(t) \subseteq Tasks
    BY TaskFacts
  <2> QED
    BY <2>1 DEF LoopInit, Waiting
<1>4. Registered
  BY DEF LoopInit, Registered
<1>5. Asked
  BY Zenon DEF LoopInit, Asked
<1> QED
  BY <1>1, <1>2, <1>3, <1>4, <1>5, Zenon DEF LoopInv

\* A task runs: it is in the history of those it leads, and its own starts anew.
LEMMA RunKeepsOrder ==
  ASSUME Clocks, Waiting, NEW t \in Tasks, Run(t)
  PROVE  Clocks' /\ Waiting'
<1>1. /\ age' = [age EXCEPT ![t] = 0] /\ waiting' = [waiting EXCEPT ![t] = 0]
      /\ since' = [u \in Tasks |-> IF u = t THEN {} ELSE since[u] \union ({t} \intersect Leaders(u))]
  BY DEF Run
<1>2. \A u \in Tasks : age'[u] = (IF u = t THEN 0 ELSE age[u]) /\ age'[u] \in Nat
  BY <1>1 DEF Clocks
<1>3. Clocks'
  <2>1. since' \in [Tasks -> SUBSET Tasks]
    BY <1>1 DEF Clocks
  <2>2. age' \in [Tasks -> Nat]
    BY <1>1 DEF Clocks
  <2>3. ASSUME NEW u \in Tasks
        PROVE  age'[u] <= Period[u]
    <3>1. age[u] <= Period[u] /\ Period[u] \in Nat
      BY TaskFacts DEF Clocks
    <3> QED
      BY <1>2, <3>1
  <2>4. waiting' \in [Tasks -> 0..(Lag + 1)]
    BY <1>1, TimeAssumption DEF Clocks
  <2>5. ASSUME NEW u \in Tasks, waiting'[u] > 0
        PROVE  Due(u)'
    <3>1. u # t /\ waiting[u] > 0 /\ age'[u] = age[u]
      BY <1>1, <1>2, <2>5 DEF Clocks
    <3>2. Due(u)
      BY <3>1 DEF Clocks
    <3> QED
      BY <3>1, <3>2 DEF Due
  <2> QED
    BY <2>1, <2>2, <2>3, <2>4, <2>5 DEF Clocks
<1>4. ASSUME NEW u \in Tasks
      PROVE  /\ since'[u] \subseteq Leaders(u)
             /\ \A v \in Leaders(u) \ since'[u] : age'[v] >= age'[u] \/ Due(v)'
  <2>1. CASE u = t
    <3>1. since'[u] = {} /\ age'[u] = 0
      BY <1>1, <1>2, <2>1
    <3>2. \A v \in Leaders(u) : age'[v] \in Nat
      BY <1>2, TaskFacts
    <3> QED
      BY <3>1, <3>2
  <2>2. CASE u # t
    <3>1. since'[u] = since[u] \union ({t} \intersect Leaders(u)) /\ age'[u] = age[u]
      BY <1>1, <1>2, <2>2
    <3>2. since[u] \subseteq Leaders(u)
      BY DEF Waiting
    <3>3. ASSUME NEW v \in Leaders(u) \ since'[u]
          PROVE  age'[v] >= age'[u] \/ Due(v)'
      <4>1. v # t /\ v \in Leaders(u) \ since[u] /\ v \in Tasks
        BY <3>1, <3>3, TaskFacts
      <4>2. age'[v] = age[v]
        BY <1>2, <4>1
      <4>3. age[v] >= age[u] \/ Due(v)
        BY <4>1 DEF Waiting
      <4> QED
        BY <3>1, <4>2, <4>3 DEF Due
    <3> QED
      BY <3>1, <3>2, <3>3
  <2> QED
    BY <2>1, <2>2
<1> QED
  BY <1>3, <1>4 DEF Waiting

\* Time passes for a task only if it passes for those that lead it.
LEMMA ElapseKeepsOrder ==
  ASSUME Clocks, Burst, Waiting, Registered, TimePasses
  PROVE  Clocks' /\ Waiting' /\ Registered'
<1> DEFINE held(t) == (at = "setup" /\ t > count) \/ Due(t)
<1>1. /\ age' = [t \in Tasks |-> IF held(t) THEN age[t] ELSE age[t] + 1]
      /\ UNCHANGED <<at, count, since>>
  BY DEF TimePasses
<1>2. \A t \in Tasks : /\ age[t] \in Nat /\ age[t] <= Period[t] /\ Period[t] \in Nat
                       /\ age'[t] = (IF held(t) THEN age[t] ELSE age[t] + 1)
                       /\ ~Due(t) => age[t] < Period[t]
                       /\ Due(t) => Due(t)'
  <2> SUFFICES ASSUME NEW t \in Tasks
               PROVE  /\ age[t] \in Nat /\ age[t] <= Period[t] /\ Period[t] \in Nat
                      /\ age'[t] = (IF held(t) THEN age[t] ELSE age[t] + 1)
                      /\ ~Due(t) => age[t] < Period[t]
                      /\ Due(t) => Due(t)'
    OBVIOUS
  <2>1. /\ age[t] \in Nat /\ age[t] <= Period[t] /\ Period[t] \in Nat
        /\ age'[t] = (IF held(t) THEN age[t] ELSE age[t] + 1)
    BY <1>1, TaskFacts DEF Clocks
  <2>2. Due(t) => age'[t] = age[t]
    BY <2>1
  <2> HIDE DEF held
  <2> QED
    BY <2>1, <2>2 DEF Due
<1>3. Clocks'
  <2>1. \A t \in Tasks : age'[t] \in Nat /\ age'[t] <= Period[t]
    BY <1>2
  <2>2. age' \in [Tasks -> Nat]
    BY <1>1, <1>2
  <2>3. waiting' \in [Tasks -> 0..(Lag + 1)]
    <3>1. waiting \in [Tasks -> 0..(Lag + 1)] /\ Lag \in Nat
      BY TimeAssumption DEF Clocks
    <3>2. waiting' = [t \in Tasks |->
            IF at = "setup" \/ Overrun \/ ~Due(t) THEN 0
            ELSE IF waiting[t] > Lag THEN waiting[t] ELSE waiting[t] + 1]
      BY DEF TimePasses
    <3> QED
      BY <3>1, <3>2
  <2>4. \A t \in Tasks : waiting'[t] > 0 => Due(t)
    BY DEF TimePasses
  <2> QED
    BY <1>1, <1>2, <2>1, <2>2, <2>3, <2>4 DEF Clocks
<1>4. ASSUME NEW t \in Tasks, NEW u \in Leaders(t) \ since[t]
      PROVE  age'[u] >= age'[t] \/ Due(u)'
  <2>1. u \in Tasks /\ t \in Nat /\ u \in Nat /\ u < t
    BY TaskFacts
  <2>2. age[u] >= age[t] \/ Due(u)
    BY DEF Waiting
  <2>3. CASE Due(u)
    BY <1>2, <2>1, <2>3
  <2>4. CASE ~Due(u) /\ ~held(u)
    <3>1. age'[u] = age[u] + 1 /\ age[u] >= age[t] /\ age[u] \in Nat /\ age[t] \in Nat
      BY <1>2, <2>1, <2>2, <2>4
    <3>2. age'[t] = age[t] \/ age'[t] = age[t] + 1
      BY <1>2
    <3> QED
      BY <3>1, <3>2
  <2>5. CASE ~Due(u) /\ held(u)
    <3>1. at = "setup" /\ u > count
      BY <2>5
    <3>2. at = "setup" /\ t > count
      <4>1. count \in Nat
        BY DEF Burst
      <4> QED
        BY <2>1, <3>1, <4>1
    <3>3. age'[t] = age[t] /\ age'[u] = age[u]
      BY <1>2, <2>1, <3>1, <3>2
    <3> QED
      BY <2>2, <2>5, <3>3
  <2> HIDE DEF held
  <2> QED
    BY <2>3, <2>4, <2>5
<1>5. Waiting'
  <2>1. since' = since
    BY <1>1
  <2>2. \A t \in Tasks : since[t] \subseteq Leaders(t)
    BY DEF Waiting
  <2> QED
    BY <1>4, <2>1, <2>2 DEF Waiting
<1>6. Registered'
  BY <1>1, <1>2 DEF Registered
<1> QED
  BY <1>3, <1>5, <1>6

LEMMA BurstStep ==
  ASSUME Burst, LoopNext
  PROVE  Burst' /\ (at' = "setup" => at = "setup" /\ count' >= count)
<1> USE DEF kMaxPeriodicBurst, kMaxControlFastLaneBurst, InFastLane
<1>0. Len(Priority) \in Nat /\ PassTime \in Nat
  BY TaskFacts, TimeAssumption
<1>1. CASE Register
  BY <1>0, <1>1 DEF Register, Burst
<1>2. CASE ServiceFastLane
  BY <1>0, <1>2 DEF ServiceFastLane, InFastLane, Burst
<1>3. ASSUME Return, work' \subseteq work, at # "setup", at # "periodic"
      PROVE  Burst' /\ at' # "setup"
  BY <1>0, <1>3 DEF Return, Burst
<1>4. CASE NothingToDo
  BY <1>3, <1>4 DEF NothingToDo
<1>5. CASE NoPendingRound
  BY <1>3, <1>5 DEF NoPendingRound, Burst
<1>6. CASE Again
  BY <1>0, <1>6 DEF Again, Burst
<1>7. CASE BurstEnds
  BY <1>3, <1>7 DEF BurstEnds, Burst
<1>8. ASSUME Ticking, Ticked, work' \subseteq work \union {"motors"}
      PROVE  Burst' /\ at' # "setup"
  BY <1>0, <1>8 DEF Ticking, Ticked, Burst
<1>9. ASSUME NEW t \in Tasks, Run(t)
      PROVE  Burst' /\ at' # "setup"
  BY <1>8, <1>9 DEF Run
<1>10. CASE RunNothing
  BY <1>8, <1>10 DEF RunNothing
<1>11. CASE LastBurst
  BY <1>0, <1>11 DEF LastBurst, Burst
<1>12. CASE TimePasses
  BY <1>0, <1>12 DEF TimePasses, Burst
<1>13. ASSUME NEW n \in DOMAIN FastTasks, Arrive(FastTasks[n])
       PROVE  Burst' /\ at' # "setup"
  <2>1. FastTasks[n] \in {"motors", "rx", "tx"}
    BY DEF FastTasks
  <2> HIDE DEF FastTasks
  <2>2. work' \subseteq {"motors", "rx", "tx"} /\ at # "setup" /\ UNCHANGED <<at, count, burst, progress, spent>>
    BY <1>13, <2>1 DEF Arrive, Burst
  <2> QED
    BY <2>2 DEF Burst
<1> QED
  BY <1>1, <1>2, <1>4, <1>5, <1>6, <1>7, <1>9, <1>10, <1>11, <1>12, <1>13 DEF LoopNext
LEMMA AskedStep ==
  ASSUME Asked, LoopNext
  PROVE  Asked'
<1>1. progress' = TRUE \/ progress' = FALSE \/ progress' = progress
  BY Zenon DEF LoopNext, Register, ServiceFastLane, NothingToDo, NoPendingRound, Again,
       BurstEnds, Return, Run, RunNothing, Ticked, LastBurst, TimePasses, Arrive
<1> QED
  BY <1>1, Zenon DEF Asked

\* The steps that are neither a run nor a tick of the clock.
LEMMA OtherSteps ==
  ASSUME LoopNext
  PROVE  \/ UNCHANGED <<age, waiting, since>>
         \/ \E t \in Tasks : Run(t)
         \/ TimePasses
  BY DEF LoopNext, Register, ServiceFastLane, NothingToDo, NoPendingRound, Again,
       BurstEnds, Return, RunNothing, LastBurst, Arrive

LEMMA LoopStep ==
  ASSUME LoopInv, LoopNext
  PROVE  LoopInv'
<1>0. Asked /\ Clocks /\ Burst /\ Waiting /\ Registered
  BY Zenon DEF LoopInv
<1>1. Asked' /\ Burst' /\ (at' = "setup" => at = "setup" /\ count' >= count)
  BY <1>0, AskedStep, BurstStep, Zenon
<1>2. Clocks' /\ Waiting' /\ Registered'
  <2>1. CASE UNCHANGED <<age, waiting, since>>
    <3>1. Clocks' /\ Waiting'
      BY <1>0, <2>1 DEF Clocks, Waiting, Due
    <3>2. Registered'
      BY <1>0, <1>1, <2>1, TaskFacts DEF Registered, Burst
    <3> QED
      BY <3>1, <3>2
  <2>2. ASSUME NEW t \in Tasks, Run(t)
        PROVE  Clocks' /\ Waiting' /\ Registered'
    <3>1. at # "setup" /\ at' # "setup"
      BY <2>2 DEF Run, Ticking, Ticked
    <3> QED
      BY <1>0, <2>2, <3>1, RunKeepsOrder DEF Registered
  <2>3. CASE TimePasses
    BY <1>0, <2>3, ElapseKeepsOrder
  <2> QED
    BY <2>1, <2>2, <2>3, OtherSteps
<1> QED
  BY <1>1, <1>2, Zenon DEF LoopInv

\* Whoever runs has been waited for by nobody that leads it.
LEMMA LeadersRan ==
  ASSUME LoopInv, LoopNext, NEW t \in Tasks, Due(t), age'[t] = 0
  PROVE  since[t] = Leaders(t)
<1>0. Clocks /\ Waiting
  BY Zenon DEF LoopInv
<1>1. age[t] >= Period[t] /\ age[t] \in Nat /\ Period[t] \in Nat /\ Period[t] >= 1
  BY <1>0, TaskFacts DEF Due, Clocks
<1>2. Run(t)
  <2>1. ASSUME NEW u \in Tasks, Run(u), u # t PROVE FALSE
    BY <1>0, <1>1, <2>1 DEF Run, Clocks
  <2>2. CASE TimePasses
    BY <1>0, <1>1, <2>2 DEF TimePasses, Clocks
  <2> QED
    BY <1>1, <2>1, <2>2, OtherSteps
<1>3. ASSUME NEW u \in Leaders(t) \ since[t]
      PROVE  FALSE
  <2>1. /\ u \in Tasks /\ Priority[u] < Priority[t] /\ Period[u] <= Period[t]
        /\ Priority[u] \in Nat /\ Priority[t] \in Nat /\ Period[u] \in Nat
    <3>1. u \in Tasks /\ Priority[u] \in 0..7 /\ Priority[t] \in 0..7 /\ Period[u] \in Nat
      BY TaskFacts
    <3>2. Priority[u] < Priority[t] /\ Period[u] <= Period[t]
      BY TaskFacts
    <3> QED
      BY <3>1, <3>2
  <2>2. age[u] >= age[t] \/ Due(u)
    BY <1>0 DEF Waiting
  <2>3. age[u] \in Nat
    BY <1>0, <2>1 DEF Clocks
  <2>4. Due(u)
    BY <1>1, <2>1, <2>2, <2>3 DEF Due
  <2>5. MoreUrgent(t, u)
    BY <1>2, <2>1, <2>4 DEF Run
  <2> QED
    BY <2>1, <2>5 DEF MoreUrgent
<1>4. since[t] \subseteq Leaders(t)
  BY <1>0 DEF Waiting
<1> QED
  BY <1>3, <1>4

LEMMA LoopStutters ==
  ASSUME LoopInv, UNCHANGED loopVars
  PROVE  LoopInv'
<1>1. /\ at' = at /\ count' = count /\ burst' = burst /\ progress' = progress
      /\ work' = work /\ age' = age /\ spent' = spent
      /\ waiting' = waiting /\ since' = since
  BY DEF loopVars
<1>2. Asked'
  BY <1>1, Zenon DEF LoopInv, Asked
<1>3. Asked /\ Clocks /\ Burst /\ Waiting /\ Registered
  BY Zenon DEF LoopInv
<1>4. Clocks' /\ Waiting' /\ Registered'
  BY <1>1, <1>3 DEF Clocks, Waiting, Registered, Due
<1>5. Burst'
  BY <1>1, <1>3 DEF Burst, InFastLane
<1> QED
  BY <1>2, <1>4, <1>5, Zenon DEF LoopInv

\* For every table of tasks: when a task runs, every task that is more urgent, no
\* less frequent and registered before it has run since it last did.
THEOREM LeadersFirst == LoopSpec => [](LoopTypeOK) /\ LeadersRunFirst
<1> DEFINE Ran == \A t \in Tasks : Due(t) /\ age'[t] = 0 => since[t] = Leaders(t)
<1>1. LoopInit => LoopInv
  BY InitLoop
<1>2. LoopInv /\ [LoopNext]_loopVars => LoopInv'
  <2>1. LoopInv /\ LoopNext => LoopInv'
    BY LoopStep
  <2>2. LoopInv /\ UNCHANGED loopVars => LoopInv'
    BY LoopStutters
  <2> QED
    BY <2>1, <2>2
<1>3. LoopInv /\ [LoopNext]_loopVars => [Ran]_loopVars
  <2>1. LoopInv /\ LoopNext => Ran
    BY LeadersRan
  <2> QED
    BY <2>1
<1>4. LoopInv => LoopTypeOK
  <2>1. Clocks /\ Burst => /\ at \in {"setup", "first", "periodic", "between", "last"}
                           /\ count \in 0..(Len(Priority) + kMaxPeriodicBurst)
                           /\ burst \in 0..(kMaxControlFastLaneBurst - 1)
                           /\ work \subseteq {"motors", "rx", "tx"}
                           /\ age \in [Tasks -> Nat] /\ \A t \in Tasks : age[t] <= Period[t]
                           /\ spent \in 0..(PassTime + 1)
                           /\ waiting \in [Tasks -> 0..(Lag + 1)]
                           /\ since \in [Tasks -> SUBSET Tasks]
    BY TaskFacts DEF Clocks, Burst, kMaxPeriodicBurst
  <2> QED
    BY <2>1, Zenon DEF LoopInv, Asked, LoopTypeOK
<1>5. LoopSpec => []LoopInv
  BY <1>1, <1>2, PTL DEF LoopSpec
<1>6. LoopSpec => [][Ran]_loopVars
  BY <1>3, <1>5, PTL DEF LoopSpec
<1>7. LoopSpec => [](LoopTypeOK)
  BY <1>4, <1>5, PTL
<1> QED
  BY <1>6, <1>7 DEF LeadersRunFirst

-----------------------------------------------------------------------------
(* Waiting.  When a task is due, what may run before it are the runs of the   *)
(* tasks ahead of it that are due by the time it has waited too long, and     *)
(* each pass of loop() makes kMaxPeriodicBurst runs.  What setup() or an      *)
(* overrun adds is time, and never more than one run of each task.            *)

\* The tasks that go before t when both are due.
Ahead(t) == {u \in Tasks \ {t} : MoreUrgent(u, t)}

\* All their runs that can come while t waits no longer than Lag, numbered; all are
\* due when t is, at worst.
Backlog(t) ==
  {job \in Ahead(t) \X (1..(Lag + 1)) : job[2] * Period[job[1]] <= Period[job[1]] + Lag}

\* So many whole passes as fit into Lag, the one under way not counted, have room for
\* these runs and for that of t.
Schedulable(t) ==
  \E passes \in 0..Lag : /\ (passes + 1) * PassTime <= Lag + 1
                         /\ Cardinality(Backlog(t)) < kMaxPeriodicBurst * passes

\* The time t has left, and the runs that can still come in it.
Slack(t) == Lag - waiting[t]
Jobs(t) ==
  {job \in Ahead(t) \X (1..(Lag + 1)) : job[2] * Period[job[1]] <= age[job[1]] + Slack(t)}

\* The runs that this pass still makes.
TicksLeft ==
  IF at \in {"setup", "first"} THEN kMaxPeriodicBurst
  ELSE IF at = "periodic" THEN kMaxPeriodicBurst - count
  ELSE IF at = "between" THEN kMaxPeriodicBurst - count - 1
  ELSE 0

\* The time that this pass may take and still be no overrun; of one that is, the
\* time does not count.
TimeLeft == IF spent > PassTime THEN 0 ELSE PassTime - spent

\* While t is due there is room for all of them and for t.
Feasible(t) ==
  Due(t) => \E passes \in Nat : /\ passes * PassTime + TimeLeft <= Slack(t)
                                /\ Cardinality(Jobs(t)) < kMaxPeriodicBurst * passes + TicksLeft

LEMMA Products ==
  /\ \A a \in Nat : \A b \in Nat : a * b \in Nat /\ (a + 1) * b = a * b + b
  /\ \A a \in Nat : \A b \in Nat \ {0} :
       (a \div b) \in Nat /\ (a \div b) * b <= a /\ a < (a \div b) * b + b /\ (a \div b) <= a
<1>1. ASSUME NEW a \in Nat, NEW b \in Nat
      PROVE  a * b \in Nat /\ (a + 1) * b = a * b + b
  OBVIOUS
<1>2. ASSUME NEW a \in Nat, NEW b \in Nat \ {0}
      PROVE  (a \div b) \in Nat /\ (a \div b) * b <= a /\ a < (a \div b) * b + b /\ (a \div b) <= a
  <2>1. (a \div b) \in Nat /\ (a \div b) * b <= a /\ a < (a \div b) * b + b
    BY SMTT(30)
  <2>2. (a \div b) <= (a \div b) * b
    BY <2>1, SMTT(30)
  <2> QED
    BY <2>1, <2>2
<1> QED
  BY <1>1, <1>2

LEMMA JobsFinite ==
  ASSUME NEW t \in Tasks
  PROVE  IsFiniteSet(Backlog(t)) /\ IsFiniteSet(Jobs(t)) /\ IsFiniteSet(Jobs(t)')
<1>1. IsFiniteSet(Tasks) /\ IsFiniteSet(1..(Lag + 1))
  BY TaskFacts, TimeAssumption, FS_Interval
<1>2. IsFiniteSet(Ahead(t))
  BY <1>1, FS_Subset DEF Ahead
<1>3. IsFiniteSet(Ahead(t) \X (1..(Lag + 1)))
  BY <1>1, <1>2, FS_Product
<1> QED
  BY <1>3, FS_Subset DEF Backlog, Jobs

\* What Feasible needs of a step that leaves the ages alone: the runs left stay, or a
\* pass without any left ends.
LEMMA TicksKept ==
  ASSUME Clocks, Burst, LoopNext, ~TimePasses, UNCHANGED age
  PROVE  \/ TicksLeft' = TicksLeft /\ spent' = spent
         \/ TicksLeft = 0 /\ TicksLeft' = kMaxPeriodicBurst /\ spent' = 0
         \/ \A t \in Tasks : ~Due(t)
<1> USE DEF kMaxPeriodicBurst, InFastLane
<1> DEFINE Kept == TicksLeft' = TicksLeft /\ spent' = spent
           Over == TicksLeft = 0 /\ TicksLeft' = 4 /\ spent' = 0
<1>0. /\ at \in {"setup", "first", "periodic", "between", "last"} /\ count \in Nat
      /\ at = "periodic" => count <= 4
      /\ progress => InFastLane
  BY DEF Burst
<1>1. ASSUME Return, InFastLane PROVE Kept \/ Over
  BY <1>0, <1>1 DEF Return, TicksLeft
<1>2. CASE Register
  BY <1>0, <1>2 DEF Register, TicksLeft
<1>3. CASE ServiceFastLane \/ Again
  BY <1>0, <1>3 DEF ServiceFastLane, Again, TicksLeft
<1>4. CASE NothingToDo \/ NoPendingRound \/ BurstEnds
  BY <1>0, <1>1, <1>4 DEF NothingToDo, NoPendingRound, BurstEnds
<1>5. ASSUME NEW t \in Tasks, Run(t) PROVE FALSE
  <2>1. age[t] >= Period[t] /\ age' = [age EXCEPT ![t] = 0] /\ Period[t] >= 1 /\ Period[t] \in Nat
    BY <1>5, TaskFacts DEF Run, Due
  <2>2. age \in [Tasks -> Nat]
    BY DEF Clocks
  <2> QED
    BY <2>1, <2>2
<1>6. CASE RunNothing
  BY <1>6 DEF RunNothing
<1>7. CASE LastBurst
  BY <1>0, <1>7 DEF LastBurst, TicksLeft
<1>9. ASSUME NEW n \in DOMAIN FastTasks, Arrive(FastTasks[n]) PROVE Kept
  BY <1>0, <1>9 DEF Arrive, TicksLeft
<1> QED
  BY <1>1, <1>2, <1>3, <1>4, <1>5, <1>6, <1>7, <1>9 DEF LoopNext

LEMMA FeasibleIdle ==
  ASSUME LoopInv, LoopNext, ~TimePasses, UNCHANGED <<age, waiting>>, NEW t \in Tasks, Feasible(t)
  PROVE  Feasible(t)'
<1>0. Clocks /\ Burst /\ PassTime \in Nat /\ spent \in 0..(PassTime + 1)
  BY TimeAssumption, Zenon DEF LoopInv, Burst
<1> SUFFICES ASSUME Due(t)' PROVE \E passes \in Nat :
      /\ passes * PassTime + TimeLeft' <= Slack(t)'
      /\ Cardinality(Jobs(t)') < kMaxPeriodicBurst * passes + TicksLeft'
  BY DEF Feasible
<1>1. Due(t) /\ Slack(t)' = Slack(t) /\ Jobs(t)' = Jobs(t)
  BY DEF Due, Slack, Jobs
<1>2. PICK passes \in Nat : /\ passes * PassTime + TimeLeft <= Slack(t)
                            /\ Cardinality(Jobs(t)) < kMaxPeriodicBurst * passes + TicksLeft
  BY <1>1 DEF Feasible
<1>3. Cardinality(Jobs(t)) \in Nat
  BY JobsFinite, FS_CardinalityType
<1>4. CASE TicksLeft' = TicksLeft /\ spent' = spent
  BY <1>1, <1>2, <1>4 DEF TimeLeft
<1>5. CASE TicksLeft = 0 /\ TicksLeft' = kMaxPeriodicBurst /\ spent' = 0
  <2>1. passes - 1 \in Nat
    BY <1>2, <1>3, <1>5 DEF kMaxPeriodicBurst
  <2>2. passes * PassTime = (passes - 1) * PassTime + PassTime
    BY <1>0, <2>1, Products
  <2>3. (passes - 1) * PassTime \in Nat /\ Slack(t) \in Int
    <3>1. (passes - 1) * PassTime \in Nat
      BY <1>0, <2>1, Products
    <3> QED
      BY <1>0, <3>1, TimeAssumption DEF Clocks, Slack
  <2>4. (passes - 1) * PassTime + PassTime <= Slack(t) /\ TimeLeft' = PassTime
    <3>1. TimeLeft \in Nat /\ TimeLeft' = PassTime
      BY <1>0, <1>5 DEF TimeLeft
    <3> QED
      BY <1>0, <1>2, <2>2, <2>3, <3>1
  <2>5. Cardinality(Jobs(t)) < kMaxPeriodicBurst * (passes - 1) + kMaxPeriodicBurst
    BY <1>2, <1>3, <1>5, <2>1 DEF kMaxPeriodicBurst
  <2> QED
    BY <1>1, <1>5, <2>1, <2>4, <2>5
<1> QED
  BY <1>0, <1>1, <1>4, <1>5, TicksKept

\* A run takes one place, and one of the runs that could still come.
LEMMA FeasibleRun ==
  ASSUME LoopInv, NEW u \in Tasks, Run(u), NEW t \in Tasks, Feasible(t)
  PROVE  Feasible(t)'
<1>0. /\ Clocks /\ Burst /\ PassTime \in Nat /\ spent \in 0..(PassTime + 1) /\ Lag \in Nat
      /\ Period[u] \in Nat \ {0} /\ Period[t] \in Nat /\ Period[t] >= 1
  <2>1. Clocks /\ Burst
    BY Zenon DEF LoopInv
  <2>2. Period[u] \in Nat /\ Period[u] >= 1 /\ Period[t] \in Nat /\ Period[t] >= 1
    BY TaskFacts
  <2> QED
    BY <2>1, <2>2, TimeAssumption DEF Burst
<1>1. /\ age \in [Tasks -> Nat] /\ age' = [age EXCEPT ![u] = 0] /\ age[u] <= Period[u]
      /\ waiting \in [Tasks -> 0..(Lag + 1)] /\ waiting' = [waiting EXCEPT ![u] = 0]
  BY <1>0 DEF Clocks, Run
<1> SUFFICES ASSUME Due(t)' PROVE \E passes \in Nat :
      /\ passes * PassTime + TimeLeft' <= Slack(t)'
      /\ Cardinality(Jobs(t)') < kMaxPeriodicBurst * passes + TicksLeft'
  BY DEF Feasible
<1>2. u # t /\ age'[t] = age[t] /\ age'[u] = 0 /\ Due(t) /\ Slack(t)' = Slack(t)
  BY <1>0, <1>1 DEF Due, Slack
<1>3. PICK passes \in Nat : /\ passes * PassTime + TimeLeft <= Slack(t)
                            /\ Cardinality(Jobs(t)) < kMaxPeriodicBurst * passes + TicksLeft
  BY <1>2 DEF Feasible
<1>4. u \in Ahead(t) /\ age[u] = Period[u]
  BY <1>0, <1>1, <1>2 DEF Run, Due, Ahead
<1>5. Slack(t) \in Nat /\ Slack(t) <= Lag
  <2>1. passes * PassTime \in Nat
    BY <1>0, Products
  <2>2. Slack(t) \in Int /\ Slack(t) <= Lag /\ TimeLeft \in Nat
    BY <1>0, <1>1 DEF Slack, TimeLeft
  <2>3. Slack(t) >= 0
    BY <1>0, <1>3, <2>1, <2>2
  <2> QED
    BY <2>2, <2>3
<1> DEFINE s == Slack(t)
           q == s \div Period[u]
           last == <<u, q + 1>>
<1> HIDE DEF s, q
<1>6. /\ s = Slack(t) /\ s \in Nat /\ s <= Lag /\ q \in Nat /\ q <= s
      /\ q * Period[u] <= s /\ s < q * Period[u] + Period[u]
      /\ (q + 1) * Period[u] = q * Period[u] + Period[u] /\ q * Period[u] \in Nat
  <2>1. s = Slack(t) /\ s \in Nat /\ s <= Lag
    BY <1>5 DEF s
  <2>2. q \in Nat /\ q <= s /\ q * Period[u] <= s /\ s < q * Period[u] + Period[u]
    BY <1>0, <2>1, Products DEF q
  <2>3. (q + 1) * Period[u] = q * Period[u] + Period[u] /\ q * Period[u] \in Nat
    BY <1>0, <2>2, Products
  <2> QED
    BY <2>1, <2>2, <2>3
<1>7. last \in Jobs(t)
  <2>1. last \in Ahead(t) \X (1..(Lag + 1)) /\ last[1] = u /\ last[2] = q + 1
    BY <1>0, <1>4, <1>6
  <2>2. (q + 1) * Period[u] <= age[u] + Slack(t)
    BY <1>0, <1>4, <1>6
  <2> QED
    BY <2>1, <2>2 DEF Jobs
<1>8. Jobs(t)' \subseteq Jobs(t) \ {last}
  <2> SUFFICES ASSUME NEW v \in Ahead(t), NEW k \in 1..(Lag + 1), k * Period[v] <= age'[v] + Slack(t)
               PROVE  <<v, k>> \in Jobs(t) /\ <<v, k>> # last
    <3>1. Jobs(t)' = {job \in Ahead(t) \X (1..(Lag + 1)) : job[2] * Period[job[1]] <= age'[job[1]] + Slack(t)}
      BY <1>2 DEF Jobs
    <3> QED
      BY <3>1
  <2>1. v \in Tasks /\ Period[v] \in Nat /\ Period[v] >= 1 /\ age[v] \in Nat
    BY <1>1, TaskFacts DEF Ahead
  <2>2. CASE v # u
    <3>1. age'[v] = age[v]
      BY <1>1, <2>1, <2>2
    <3> QED
      BY <2>2, <3>1 DEF Jobs
  <2>3. CASE v = u
    <3>1. age'[v] = 0 /\ age[v] = Period[u]
      BY <1>2, <1>4, <2>3
    <3>2. k * Period[u] <= s /\ k * Period[u] \in Nat
      <4>1. k * Period[u] \in Nat
        <5>1. k \in Nat /\ Period[u] \in Nat
          BY <1>0
        <5> QED
          BY <5>1, Products, Zenon
      <4>2. k * Period[u] <= 0 + s
        BY <1>6, <2>3, <3>1, Zenon
      <4> QED
        BY <1>6, <4>1, <4>2, SMTT(30)
    <3>3. k # q + 1
      BY <1>0, <1>6, <3>2
    <3>4. k * Period[u] <= Period[u] + s
      BY <1>0, <1>6, <3>2
    <3>5. <<v, k>> \in Jobs(t)
      BY <1>6, <2>3, <3>1, <3>4 DEF Jobs
    <3> QED
      BY <3>3, <3>5
  <2> QED
    BY <2>2, <2>3
<1>9. Cardinality(Jobs(t)') <= Cardinality(Jobs(t)) - 1 /\ Cardinality(Jobs(t)) \in Nat /\ Cardinality(Jobs(t)') \in Nat
  <2>1. IsFiniteSet(Jobs(t)) /\ IsFiniteSet(Jobs(t)')
    BY JobsFinite
  <2>2. IsFiniteSet(Jobs(t) \ {last}) /\ Cardinality(Jobs(t) \ {last}) = Cardinality(Jobs(t)) - 1
    BY <1>7, <2>1, FS_RemoveElement
  <2>3. Cardinality(Jobs(t)') <= Cardinality(Jobs(t) \ {last})
    BY <1>8, <2>2, FS_Subset
  <2> QED
    BY <2>1, <2>2, <2>3, FS_CardinalityType
<1>10. TicksLeft' = TicksLeft - 1 /\ TicksLeft \in Nat /\ spent' = spent
  <2>1. at = "periodic" /\ count < 4 /\ count \in Nat /\ spent' = spent
    BY <1>0 DEF Run, Ticking, Ticked, Burst, kMaxPeriodicBurst
  <2>2. TicksLeft = 4 - count
    BY <2>1 DEF TicksLeft, kMaxPeriodicBurst
  <2>3. \/ at' = "between" /\ count' = count
        \/ at' = "periodic" /\ count' = count + 1
    BY <2>1 DEF Run, Ticked
  <2>4. TicksLeft' = 4 - count - 1
    BY <2>1, <2>3 DEF TicksLeft, kMaxPeriodicBurst
  <2> QED
    BY <2>1, <2>2, <2>4
<1>11. Cardinality(Jobs(t)') < kMaxPeriodicBurst * passes + TicksLeft'
  BY <1>3, <1>9, <1>10 DEF kMaxPeriodicBurst
<1> QED
  BY <1>2, <1>3, <1>10, <1>11 DEF TimeLeft

\* Time uses up what a task has left, may make it due, or begins its waiting anew.
LEMMA FeasibleLater ==
  ASSUME LoopInv, TimePasses, NEW t \in Tasks, Feasible(t), Schedulable(t)
  PROVE  Feasible(t)'
<1>0. /\ Clocks /\ Burst /\ PassTime \in Nat /\ spent \in 0..(PassTime + 1) /\ Lag \in Nat
      /\ Period[t] \in Nat /\ Period[t] >= 1 /\ count \in Nat
  BY TaskFacts, TimeAssumption, Zenon DEF LoopInv, Burst
<1>1. /\ UNCHANGED <<at, count>>
      /\ spent' = IF at = "setup" \/ spent > PassTime THEN spent ELSE spent + 1
      /\ waiting'[t] = IF at = "setup" \/ Overrun \/ ~Due(t) THEN 0
                       ELSE IF waiting[t] > Lag THEN waiting[t] ELSE waiting[t] + 1
      /\ waiting[t] \in 0..(Lag + 1)
  BY <1>0 DEF TimePasses, Clocks
<1>2. ASSUME NEW u \in Tasks
      PROVE  /\ age[u] \in Nat /\ age'[u] \in Nat /\ Period[u] \in Nat
             /\ age'[u] <= age[u] + 1 /\ age'[u] <= Period[u]
  <2>1. /\ age[u] \in Nat /\ age[u] <= Period[u] /\ Period[u] \in Nat
        /\ ~Due(u) => age[u] < Period[u]
    BY <1>0, TaskFacts DEF Clocks, Due
  <2>2. age'[u] = (IF (at = "setup" /\ u > count) \/ Due(u) THEN age[u] ELSE age[u] + 1)
    BY DEF TimePasses
  <2> QED
    BY <2>1, <2>2
<1> SUFFICES ASSUME Due(t)' PROVE \E passes \in Nat :
      /\ passes * PassTime + TimeLeft' <= Slack(t)'
      /\ Cardinality(Jobs(t)') < kMaxPeriodicBurst * passes + TicksLeft'
  BY DEF Feasible
<1>3. TicksLeft' = TicksLeft /\ TicksLeft \in Nat /\ (at = "setup" => TicksLeft = 4)
  <2>1. /\ at = "periodic" => count <= 4
        /\ at = "between" => count < 4
    BY <1>0 DEF Burst, kMaxPeriodicBurst
  <2>2. TicksLeft' = TicksLeft
    BY <1>1 DEF TicksLeft
  <2>3. TicksLeft \in Nat /\ (at = "setup" => TicksLeft = 4)
    BY <1>0, <2>1 DEF TicksLeft, kMaxPeriodicBurst
  <2> QED
    BY <2>2, <2>3
<1>4. /\ IsFiniteSet(Jobs(t)) /\ Cardinality(Jobs(t)) \in Nat /\ Cardinality(Jobs(t)') \in Nat
      /\ IsFiniteSet(Backlog(t)) /\ Cardinality(Backlog(t)) \in Nat
  BY JobsFinite, FS_CardinalityType
<1>5. Jobs(t)' = {job \in Ahead(t) \X (1..(Lag + 1)) : job[2] * Period[job[1]] <= age'[job[1]] + Slack(t)'}
  BY DEF Jobs
<1>6. \A v \in Ahead(t) : v \in Tasks
  BY DEF Ahead
<1>7. \A v \in Tasks : \A k \in 1..(Lag + 1) : k * Period[v] \in Nat
  BY <1>2, Products
<1>8. CASE at # "setup" /\ ~Overrun /\ Due(t)
  <2>1. PICK passes \in Nat : /\ passes * PassTime + TimeLeft <= Slack(t)
                              /\ Cardinality(Jobs(t)) < kMaxPeriodicBurst * passes + TicksLeft
    BY <1>8 DEF Feasible
  <2>2. passes * PassTime \in Nat
    BY <1>0, Products
  <2>3. spent < PassTime /\ spent' = spent + 1
    BY <1>0, <1>1, <1>8 DEF Overrun
  <2>4. TimeLeft \in Nat /\ TimeLeft > 0 /\ TimeLeft' = TimeLeft - 1
    BY <1>0, <2>3 DEF TimeLeft
  <2>5. Slack(t) \in Int /\ Slack(t) > 0
    BY <1>0, <1>1, <2>1, <2>2, <2>4 DEF Slack
  <2>6. Slack(t)' = Slack(t) - 1
    BY <1>0, <1>1, <1>8, <2>5 DEF Slack
  <2>7. Jobs(t)' \subseteq Jobs(t)
    <3> SUFFICES ASSUME NEW v \in Ahead(t), NEW k \in 1..(Lag + 1), k * Period[v] <= age'[v] + Slack(t)'
                 PROVE  <<v, k>> \in Jobs(t)
      BY <1>5
    <3>1. k * Period[v] <= age[v] + Slack(t)
      BY <1>2, <1>6, <1>7, <2>5, <2>6
    <3> QED
      BY <3>1 DEF Jobs
  <2>8. Cardinality(Jobs(t)') <= Cardinality(Jobs(t))
    BY <1>4, <2>7, FS_Subset
  <2>9. passes * PassTime + TimeLeft' <= Slack(t)'
    BY <2>1, <2>2, <2>4, <2>5, <2>6
  <2>10. Cardinality(Jobs(t)') < kMaxPeriodicBurst * passes + TicksLeft'
    BY <1>3, <1>4, <2>1, <2>8 DEF kMaxPeriodicBurst
  <2> QED
    BY <2>9, <2>10
<1>9. CASE at = "setup" \/ Overrun \/ ~Due(t)
  <2>1. Slack(t)' = Lag
    BY <1>0, <1>1, <1>9 DEF Slack
  <2>2. PICK passes \in 0..Lag : /\ (passes + 1) * PassTime <= Lag + 1
                                 /\ Cardinality(Backlog(t)) < kMaxPeriodicBurst * passes
    BY DEF Schedulable
  <2>3. passes \in Nat /\ passes - 1 \in Nat
    BY <1>0, <1>4, <2>2 DEF kMaxPeriodicBurst
  <2>4. /\ passes * PassTime \in Nat /\ (passes + 1) * PassTime = passes * PassTime + PassTime
        /\ (passes - 1) * PassTime \in Nat /\ passes * PassTime = (passes - 1) * PassTime + PassTime
    BY <1>0, <2>3, Products
  <2>5. Jobs(t)' \subseteq Backlog(t)
    <3> SUFFICES ASSUME NEW v \in Ahead(t), NEW k \in 1..(Lag + 1), k * Period[v] <= age'[v] + Slack(t)'
                 PROVE  <<v, k>> \in Backlog(t)
      BY <1>5
    <3>1. k * Period[v] <= Period[v] + Lag
      BY <1>0, <1>2, <1>6, <1>7, <2>1
    <3> QED
      BY <3>1 DEF Backlog
  <2>6. Cardinality(Jobs(t)') <= Cardinality(Backlog(t))
    BY <1>4, <2>5, FS_Subset
  <2>7. CASE at = "setup"
    <3>1. TimeLeft' <= PassTime /\ TimeLeft' \in Nat
      BY <1>0, <1>1, <2>7 DEF TimeLeft
    <3>2. passes * PassTime <= Lag
      BY <1>0, <2>2, <2>4
    <3>3. (passes - 1) * PassTime + TimeLeft' <= Slack(t)'
      <4> DEFINE one == (passes - 1) * PassTime
                 left == TimeLeft'
      <4>1. one \in Nat /\ one + PassTime <= Lag
        BY <2>4, <3>2
      <4>2. left \in Nat /\ left <= PassTime
        BY <3>1
      <4> HIDE DEF one, left
      <4>3. one + left <= Lag
        BY <1>0, <4>1, <4>2
      <4> QED
        BY <2>1, <4>3 DEF one, left
    <3>4. Cardinality(Jobs(t)') < kMaxPeriodicBurst * (passes - 1) + TicksLeft'
      BY <1>3, <1>4, <2>2, <2>3, <2>6, <2>7 DEF kMaxPeriodicBurst
    <3> QED
      BY <2>3, <3>3, <3>4
  <2>8. CASE at # "setup"
    <3>1. TimeLeft' \in Nat /\ (TimeLeft' = 0 \/ TimeLeft' <= PassTime - 1)
      BY <1>0, <1>1, <2>8 DEF TimeLeft
    <3>2. passes * PassTime <= Lag
      BY <1>0, <2>2, <2>4
    <3>3. passes * PassTime + TimeLeft' <= Slack(t)'
      <4> DEFINE all == passes * PassTime
                 left == TimeLeft'
      <4>1. all \in Nat /\ all <= Lag /\ all + PassTime <= Lag + 1
        BY <2>2, <2>4, <3>2
      <4>2. left \in Nat /\ (left = 0 \/ left <= PassTime - 1)
        BY <3>1
      <4> HIDE DEF all, left
      <4>3. all + left <= Lag
        BY <1>0, <4>1, <4>2
      <4> QED
        BY <2>1, <4>3 DEF all, left
    <3>4. Cardinality(Jobs(t)') < kMaxPeriodicBurst * passes + TicksLeft'
      BY <1>3, <1>4, <2>2, <2>3, <2>6 DEF kMaxPeriodicBurst
    <3> QED
      BY <2>3, <3>3, <3>4
  <2> QED
    BY <2>7, <2>8
<1> QED
  BY <1>8, <1>9

\* What TLC checks of one table, for every table of tasks: one with room for all that
\* may run before it never waits longer than Lag, whatever the fast lane is asked to
\* do and however long setup() and earlier passes took.
Prompt == \A t \in Tasks : Schedulable(t) => waiting[t] <= Lag
AllFeasible == \A t \in Tasks : Schedulable(t) => Feasible(t)

THEOREM InTime == LoopSpec => []Prompt
<1>1. LoopInit => LoopInv /\ AllFeasible
  <2> SUFFICES ASSUME LoopInit, NEW t \in Tasks PROVE Feasible(t)
    BY InitLoop DEF AllFeasible
  <2>1. age[t] = 0 /\ Period[t] >= 1 /\ Period[t] \in Nat
    BY TaskFacts DEF LoopInit
  <2> QED
    BY <2>1 DEF Feasible, Due
<1>2. LoopInv /\ AllFeasible /\ [LoopNext]_loopVars => LoopInv' /\ AllFeasible'
  <2> SUFFICES ASSUME LoopInv, AllFeasible, [LoopNext]_loopVars PROVE LoopInv' /\ AllFeasible'
    OBVIOUS
  <2>1. LoopInv'
    BY LoopStep, LoopStutters
  <2>2. ASSUME NEW t \in Tasks, Schedulable(t)
        PROVE  Feasible(t)'
    <3>1. Feasible(t)
      BY <2>2 DEF AllFeasible
    <3>2. CASE LoopNext /\ TimePasses
      BY <2>2, <3>1, <3>2, FeasibleLater
    <3>3. ASSUME NEW u \in Tasks, Run(u)
          PROVE  Feasible(t)'
      BY <3>1, <3>3, FeasibleRun
    <3>4. CASE LoopNext /\ ~TimePasses /\ UNCHANGED <<age, waiting>>
      BY <3>1, <3>4, FeasibleIdle
    <3>5. CASE UNCHANGED loopVars
      <4>1. at' = at /\ count' = count /\ age' = age /\ waiting' = waiting /\ spent' = spent
        BY <3>5 DEF loopVars
      <4> QED
        BY <3>1, <4>1 DEF Feasible, Due, Slack, Jobs, TicksLeft, TimeLeft
    <3> QED
      BY <3>2, <3>3, <3>4, <3>5, OtherSteps
  <2>3. \A t \in Tasks : Schedulable(t)' <=> Schedulable(t)
    BY DEF Schedulable, Backlog, Ahead, MoreUrgent, Tasks, kMaxPeriodicBurst
  <2> QED
    BY <2>1, <2>2, <2>3 DEF AllFeasible
<1>3. LoopInv /\ AllFeasible => Prompt
  <2> SUFFICES ASSUME LoopInv, NEW t \in Tasks, Feasible(t) PROVE waiting[t] <= Lag
    BY DEF AllFeasible, Prompt
  <2>1. /\ waiting[t] \in 0..(Lag + 1) /\ Lag \in Nat /\ PassTime \in Nat /\ spent \in 0..(PassTime + 1)
        /\ waiting[t] > 0 => Due(t)
    BY TimeAssumption DEF LoopInv, Clocks, Burst
  <2>2. CASE ~Due(t)
    BY <2>1, <2>2
  <2>3. CASE Due(t)
    <3>1. PICK passes \in Nat : passes * PassTime + TimeLeft <= Slack(t)
      BY <2>3 DEF Feasible
    <3>2. passes * PassTime \in Nat /\ TimeLeft \in Nat
      BY <2>1, Products DEF TimeLeft
    <3> QED
      BY <2>1, <3>1, <3>2 DEF Slack
  <2> QED
    BY <2>2, <2>3
<1> QED
  BY <1>1, <1>2, <1>3, PTL DEF LoopSpec

\* NoneFallsBehind, for every table with room for all its tasks.
THEOREM NoneLate ==
  ASSUME \A t \in Tasks : Schedulable(t)
  PROVE  LoopSpec => []NoneFallsBehind
<1>1. Prompt => NoneFallsBehind
  BY DEF Prompt, NoneFallsBehind
<1> QED
  BY <1>1, InTime, PTL

\* The first n runs of a task, and how many there are of several.
Runs(u, n) == {u} \X (1..n)

LEMMA RunsCounted ==
  \A u : \A n \in Nat : IsFiniteSet(Runs(u, n)) /\ Cardinality(Runs(u, n)) = n
<1> SUFFICES ASSUME NEW u, NEW n \in Nat
             PROVE  IsFiniteSet(Runs(u, n)) /\ Cardinality(Runs(u, n)) = n
  OBVIOUS
<1>1. IsFiniteSet(1..n) /\ Cardinality(1..n) = n
  <2>1. IsFiniteSet(1..n) /\ Cardinality(1..n) = IF 1 > n THEN 0 ELSE n - 1 + 1
    BY 1 \in Int, n \in Int, FS_Interval, Zenon
  <2> QED
    BY <2>1
<1> DEFINE S == {u}
           T == 1..n
<1>2. IsFiniteSet(S) /\ Cardinality(S) = 1 /\ IsFiniteSet(T) /\ Cardinality(T) = n
  BY <1>1, FS_Singleton
<1> HIDE DEF S, T
<1>3. IsFiniteSet(S \X T) /\ Cardinality(S \X T) = 1 * n
  BY <1>2, FS_Product
<1>4. 1 * n = n
  OBVIOUS
<1> QED
  BY <1>3, <1>4 DEF Runs, S, T

LEMMA UnionCounted ==
  \A S, T : \A m, n \in Nat :
    IsFiniteSet(S) /\ Cardinality(S) <= m /\ IsFiniteSet(T) /\ Cardinality(T) = n
    => IsFiniteSet(S \union T) /\ Cardinality(S \union T) <= m + n
<1> SUFFICES ASSUME NEW S, IsFiniteSet(S), NEW T, IsFiniteSet(T), NEW m \in Nat, NEW n \in Nat,
                    Cardinality(S) <= m, Cardinality(T) = n
             PROVE  IsFiniteSet(S \union T) /\ Cardinality(S \union T) <= m + n
  OBVIOUS
<1>1. /\ IsFiniteSet(S \union T)
      /\ Cardinality(S \union T) = Cardinality(S) + Cardinality(T) - Cardinality(S \intersect T)
  BY FS_Union
<1>2. IsFiniteSet(S \intersect T)
  BY FS_Intersection
<1>3. Cardinality(S) \in Nat /\ Cardinality(T) \in Nat /\ Cardinality(S \intersect T) \in Nat
  BY <1>2, FS_CardinalityType
<1> QED
  BY <1>1, <1>3

\* The table of setup(), in milliseconds, with a pass of up to 7 ms for an ordinary one,
\* in which the 1 to 6 ms that taskUART() typically takes find room: however long
\* setup() and some passes take, no task that is due then waits longer than 118 ms of
\* ordinary passes.
THEOREM TableInTime ==
  ASSUME Priority = <<0, 1, 2, 3, 4, 7>>, Period = <<10, 10, 5, 10, 50, 1000>>,
         PassTime <= 7, Lag = 118
  PROVE  LoopSpec => []NoneFallsBehind
<1>1. /\ Tasks = {1, 2, 3, 4, 5, 6}
      /\ Priority[1] = 0 /\ Priority[2] = 1 /\ Priority[3] = 2 /\ Priority[4] = 3
      /\ Priority[5] = 4 /\ Priority[6] = 7
      /\ Period[1] = 10 /\ Period[2] = 10 /\ Period[3] = 5 /\ Period[4] = 10 /\ Period[5] = 50
  BY DEF Tasks
<1> DEFINE Most == (((Runs(1, 12) \union Runs(2, 12)) \union Runs(3, 24)) \union Runs(4, 12)) \union Runs(5, 3)
<1>2. IsFiniteSet(Most) /\ Cardinality(Most) <= 63
  <2> DEFINE A == Runs(1, 12)
             B == A \union Runs(2, 12)
             C == B \union Runs(3, 24)
             D == C \union Runs(4, 12)
  <2>1. IsFiniteSet(A) /\ Cardinality(A) <= 12
    BY RunsCounted
  <2>2. IsFiniteSet(B) /\ Cardinality(B) <= 12 + 12
    BY <2>1, RunsCounted, UnionCounted, 12 \in Nat, Zenon
  <2>3. IsFiniteSet(C) /\ Cardinality(C) <= (12 + 12) + 24
    BY <2>2, RunsCounted, UnionCounted, 12 + 12 \in Nat, 24 \in Nat, Zenon
  <2>4. IsFiniteSet(D) /\ Cardinality(D) <= ((12 + 12) + 24) + 12
    BY <2>3, RunsCounted, UnionCounted, (12 + 12) + 24 \in Nat, 12 \in Nat, Zenon
  <2>5. IsFiniteSet(Most) /\ Cardinality(Most) <= (((12 + 12) + 24) + 12) + 3
    BY <2>4, RunsCounted, UnionCounted, ((12 + 12) + 24) + 12 \in Nat, 3 \in Nat, Zenon
  <2>6. (((12 + 12) + 24) + 12) + 3 = 63
    OBVIOUS
  <2> QED
    BY <2>5, <2>6
<1>3. ASSUME NEW t \in Tasks
      PROVE  Schedulable(t)
  <2>1. ASSUME NEW u \in Ahead(t), NEW k \in Nat, k >= 1, k * Period[u] <= Period[u] + 118
        PROVE  <<u, k>> \in Most
    <3>1. u \in {1, 2, 3, 4, 5}
      BY <1>1 DEF Ahead, MoreUrgent
    <3>2. CASE u \in {1, 2, 4}
      <4>1. Period[u] = 10
        BY <1>1, <3>2
      <4>2. k \in 1..12
        BY <2>1, <4>1
      <4> QED
        BY <3>2, <4>2 DEF Runs
    <3>3. CASE u = 3
      <4>1. k \in 1..24
        BY <1>1, <2>1, <3>3
      <4> QED
        BY <3>3, <4>1 DEF Runs
    <3>4. CASE u = 5
      <4>1. k \in 1..3
        BY <1>1, <2>1, <3>4
      <4> QED
        BY <3>4, <4>1 DEF Runs
    <3> QED
      BY <3>1, <3>2, <3>3, <3>4
  <2>2. Cardinality(Backlog(t)) <= 63 /\ Cardinality(Backlog(t)) \in Nat
    <3> HIDE DEF Most
    <3>1. Backlog(t) \subseteq Most
      <4> SUFFICES ASSUME NEW job \in Backlog(t) PROVE job \in Most
        OBVIOUS
      <4> DEFINE n == Lag + 1
      <4> HIDE DEF n
      <4>1. job \in Ahead(t) \X (1..n) /\ job[2] * Period[job[1]] <= Period[job[1]] + Lag
        BY Zenon DEF Backlog, n
      <4>2. PICK u \in Ahead(t), k \in 1..n : job = <<u, k>>
        BY <4>1
      <4>3. k * Period[u] <= Period[u] + Lag
        BY <4>1, <4>2
      <4>4. k \in Nat /\ k >= 1
        BY <4>2, TimeAssumption DEF n
      <4> QED
        BY <2>1, <4>2, <4>3, <4>4
    <3>2. IsFiniteSet(Backlog(t)) /\ Cardinality(Backlog(t)) <= Cardinality(Most)
      BY <1>2, <3>1, FS_Subset
    <3> QED
      BY <1>2, <3>2, FS_CardinalityType
  <2>3. (16 + 1) * PassTime <= Lag + 1 /\ Cardinality(Backlog(t)) < kMaxPeriodicBurst * 16 /\ 16 \in 0..Lag
    BY <2>2, TimeAssumption DEF kMaxPeriodicBurst
  <2> QED
    BY <2>3 DEF Schedulable
<1> QED
  BY <1>3, NoneLate

-----------------------------------------------------------------------------
(* The length of a pass of loop(), in steps of its own.                      *)

\* The calls of serviceFastLane() and hasPendingRound() left in a burst of the fast
\* lane, and in the pass, in which a whole burst may follow each periodic task.
BurstLeft == 2 * kMaxControlFastLaneBurst - 2 * burst - (IF progress THEN 1 ELSE 0)
WholeBurst == 2 * kMaxControlFastLaneBurst
FromPeriodic(i) == (kMaxPeriodicBurst - i) * (WholeBurst + 1) + WholeBurst + 1

StepsLeft ==
  CASE at = "setup"    -> Len(Priority) - count + 1 + WholeBurst + FromPeriodic(0)
    [] at = "first"    -> BurstLeft + FromPeriodic(0)
    [] at = "periodic" -> FromPeriodic(count)
    [] at = "between"  -> BurstLeft + FromPeriodic(count + 1)
    [] at = "last"     -> BurstLeft

PassOver == at = "last" /\ at' = "first"
FromOutside == TimePasses \/ \E n \in DOMAIN FastTasks : Arrive(FastTasks[n])

\* What the steps below need to know of the two states.
LEMMA BurstRange ==
  ASSUME LoopInv
  PROVE  /\ BurstLeft \in 1..WholeBurst /\ count \in Nat /\ Len(Priority) \in Nat
         /\ at \in {"setup", "first", "periodic", "between", "last"}
         /\ at = "setup" => count <= Len(Priority)
         /\ at = "periodic" => count <= kMaxPeriodicBurst
         /\ at = "between" => count < kMaxPeriodicBurst
<1>1. Burst
  BY Zenon DEF LoopInv
<1> QED
  BY <1>1, TaskFacts DEF Burst, BurstLeft, WholeBurst, kMaxControlFastLaneBurst

\* StepsLeft, in numbers.
InNumbers ==
  /\ at = "setup"    => StepsLeft = Len(Priority) - count + 30
  /\ at = "first"    => StepsLeft = BurstLeft + 25
  /\ at = "periodic" => StepsLeft = (4 - count) * 5 + 5
  /\ at = "between"  => StepsLeft = BurstLeft + (4 - (count + 1)) * 5 + 5
  /\ at = "last"     => StepsLeft = BurstLeft

LEMMA StepsLeftValue == LoopInv => InNumbers
<1> SUFFICES ASSUME LoopInv PROVE InNumbers
  OBVIOUS
<1>1. WholeBurst = 4 /\ kMaxPeriodicBurst = 4
  BY DEF WholeBurst, kMaxControlFastLaneBurst, kMaxPeriodicBurst
<1>2. /\ BurstLeft \in Int /\ count \in Nat /\ Len(Priority) \in Nat
  BY <1>1, BurstRange
<1>3. ASSUME NEW i \in Nat
      PROVE  FromPeriodic(i) = (4 - i) * 5 + 5
  BY <1>1 DEF FromPeriodic
<1>4. /\ at = "setup"    => StepsLeft = Len(Priority) - count + 1 + WholeBurst + FromPeriodic(0)
      /\ at = "first"    => StepsLeft = BurstLeft + FromPeriodic(0)
      /\ at = "periodic" => StepsLeft = FromPeriodic(count)
      /\ at = "between"  => StepsLeft = BurstLeft + FromPeriodic(count + 1)
      /\ at = "last"     => StepsLeft = BurstLeft
  <2> HIDE DEF BurstLeft, FromPeriodic, WholeBurst
  <2> QED
    BY DEF StepsLeft
<1>5. FromPeriodic(0) = 25 /\ FromPeriodic(count) = (4 - count) * 5 + 5
      /\ FromPeriodic(count + 1) = (4 - (count + 1)) * 5 + 5
  BY <1>2, <1>3
<1> HIDE DEF BurstLeft, FromPeriodic, StepsLeft
<1> QED
  BY <1>1, <1>2, <1>4, <1>5 DEF InNumbers

LEMMA StepsLeftValueNext == LoopInv' => InNumbers'
  BY StepsLeftValue, PTL

LEMMA BurstNumbers == \A b \in 0..1, x \in {0, 1} : 2 * 2 - 2 * b - x \in 1..4
  OBVIOUS

LEMMA StepsLeftRange ==
  ASSUME LoopInv
  PROVE  StepsLeft \in 1..(Len(Priority) + 30)
<1>1. BurstLeft \in 1..4
  BY BurstRange DEF WholeBurst, kMaxControlFastLaneBurst
<1>2. /\ count \in Nat /\ Len(Priority) \in Nat
      /\ at \in {"setup", "first", "periodic", "between", "last"}
      /\ at = "setup" => count <= Len(Priority)
      /\ at = "periodic" => count <= 4
      /\ at = "between" => count < 4
  BY BurstRange DEF kMaxPeriodicBurst
<1> HIDE DEF BurstLeft, StepsLeft
<1> QED
  BY <1>1, <1>2, StepsLeftValue DEF InNumbers

LEMMA StepTaken ==
  ASSUME LoopInv, LoopInv', LoopNext, ~FromOutside, ~PassOver
  PROVE  StepsLeft' < StepsLeft
<1> DEFINE left == BurstLeft
           leftNext == BurstLeft'
<1>1. left \in 1..4 /\ leftNext \in 1..4
  <2>1. left \in 1..4
    BY BurstRange DEF WholeBurst, kMaxControlFastLaneBurst
  <2>2. burst' \in 0..1
    <3>1. Burst'
      BY Zenon DEF LoopInv
    <3>2. burst' \in 0..(kMaxControlFastLaneBurst - 1)
      BY <3>1, Zenon DEF Burst
    <3> QED
      BY <3>2 DEF kMaxControlFastLaneBurst
  <2>3. (IF progress' THEN 1 ELSE 0) \in {0, 1}
    BY Zenon
  <2>4. leftNext = 2 * 2 - 2 * burst' - (IF progress' THEN 1 ELSE 0)
    BY Zenon DEF BurstLeft, kMaxControlFastLaneBurst
  <2> QED
    BY <2>1, <2>2, <2>3, <2>4, BurstNumbers, Zenon
<1>2. /\ count \in Nat /\ Len(Priority) \in Nat
      /\ at \in {"setup", "first", "periodic", "between", "last"}
      /\ at = "setup" => count <= Len(Priority)
      /\ at = "periodic" => count <= 4
      /\ at = "between" => count < 4
  BY BurstRange DEF kMaxPeriodicBurst
<1>3. /\ at = "setup"    => StepsLeft = Len(Priority) - count + 30
      /\ at = "first"    => StepsLeft = left + 25
      /\ at = "periodic" => StepsLeft = (4 - count) * 5 + 5
      /\ at = "between"  => StepsLeft = left + (4 - (count + 1)) * 5 + 5
      /\ at = "last"     => StepsLeft = left
  BY StepsLeftValue DEF InNumbers
<1>4. /\ at' = "setup"    => StepsLeft' = Len(Priority) - count' + 30
      /\ at' = "first"    => StepsLeft' = leftNext + 25
      /\ at' = "periodic" => StepsLeft' = (4 - count') * 5 + 5
      /\ at' = "between"  => StepsLeft' = leftNext + (4 - (count' + 1)) * 5 + 5
      /\ at' = "last"     => StepsLeft' = leftNext
  BY StepsLeftValueNext DEF InNumbers
<1>5. CASE Register
  BY <1>1, <1>2, <1>3, <1>4, <1>5 DEF Register
<1>6. ASSUME InFastLane, UNCHANGED <<at, count>>, leftNext < left
      PROVE  StepsLeft' < StepsLeft
  <2> HIDE DEF left, leftNext
  <2> QED
    BY <1>1, <1>2, <1>3, <1>4, <1>6 DEF InFastLane
<1>7. ASSUME InFastLane, Return
      PROVE  StepsLeft' < StepsLeft
  <2> HIDE DEF left, leftNext
  <2> QED
    BY <1>1, <1>2, <1>3, <1>4, <1>7 DEF InFastLane, Return, PassOver
<1>8. progress => InFastLane
  BY Zenon DEF LoopInv, Burst
<1>9. CASE ServiceFastLane
  <2>1. leftNext < left
    BY <1>9 DEF ServiceFastLane, BurstLeft, kMaxControlFastLaneBurst, LoopInv, Burst
  <2> QED
    BY <1>6, <1>9, <2>1 DEF ServiceFastLane
<1>10. CASE Again
  <2>1. leftNext < left
    BY <1>10 DEF Again, BurstLeft, kMaxControlFastLaneBurst, LoopInv, Burst
  <2> QED
    BY <1>6, <1>8, <1>10, <2>1 DEF Again
<1>11. CASE NothingToDo \/ NoPendingRound \/ BurstEnds
  BY <1>7, <1>8, <1>11, Zenon DEF NothingToDo, NoPendingRound, BurstEnds
<1>12. ASSUME Ticking, Ticked
       PROVE  StepsLeft' < StepsLeft
  <2> HIDE DEF left, leftNext
  <2> QED
    BY <1>1, <1>2, <1>3, <1>4, <1>12 DEF Ticking, Ticked, kMaxPeriodicBurst
<1>13. CASE RunNothing \/ \E t \in Tasks : Run(t)
  BY <1>12, <1>13, Zenon DEF RunNothing, Run
<1>14. CASE LastBurst
  <2> HIDE DEF left, leftNext
  <2> QED
    BY <1>1, <1>2, <1>3, <1>4, <1>14 DEF LastBurst, kMaxPeriodicBurst
<1> QED
  BY <1>5, <1>9, <1>10, <1>11, <1>13, <1>14, Zenon DEF LoopNext, FromOutside

\* A pass of loop() always comes to its end: whatever the interrupts and the UART
\* bring, and however many tasks are due, each step that loop() takes leaves it fewer
\* to take before the next pass, and a pass has less than 30 (but for setup()).
THEOREM PassesEnd ==
  LoopSpec => /\ [](StepsLeft \in 1..(Len(Priority) + 30))
              /\ [][IF FromOutside THEN StepsLeft' = StepsLeft
                                   ELSE PassOver \/ StepsLeft' < StepsLeft]_loopVars
<1>1. LoopInit => LoopInv
  BY InitLoop
<1>2. LoopInv /\ [LoopNext]_loopVars => LoopInv'
  BY LoopStep, LoopStutters
<1>3. LoopInv => StepsLeft \in 1..(Len(Priority) + 30)
  BY StepsLeftRange
<1> DEFINE Shorter == IF FromOutside THEN StepsLeft' = StepsLeft
                                     ELSE PassOver \/ StepsLeft' < StepsLeft
<1>4. LoopInv /\ LoopInv' /\ [LoopNext]_loopVars => [Shorter]_loopVars
  <2> SUFFICES ASSUME LoopInv, LoopInv', LoopNext PROVE Shorter
    OBVIOUS
  <2>1. CASE FromOutside
    <3>1. at' = at /\ count' = count /\ burst' = burst /\ progress' = progress
      BY <2>1 DEF FromOutside, TimePasses, Arrive
    <3>2. StepsLeft' = StepsLeft
      BY <3>1, Zenon DEF StepsLeft, BurstLeft, FromPeriodic, WholeBurst
    <3> QED
      BY <2>1, <3>2
  <2> QED
    BY <2>1, StepTaken
<1> QED
  BY <1>1, <1>2, <1>3, <1>4, PTL DEF LoopSpec
=============================================================================
