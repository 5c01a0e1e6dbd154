------------------------------ MODULE Firmware ------------------------------
(***************************************************************************)
(* The firmware's loop(): the system state machine (SystemManager.cpp), the*)
(* safety watchdog (modules/SafetyManager.cpp), message gating, heartbeat, *)
(* deferred servo and calibration work (modules/MessageCenter.cpp) and the *)
(* servo outputs (drivers/ServoController.cpp).                            *)
(*                                                                         *)
(* Every handler and task runs to completion in loop(), so each is one     *)
(* action; received messages, tasks and the passing of time interleave in  *)
(* any order, but for the one order that matters here and the scheduler    *)
(* imposes: taskSensors() and taskSafety() have the same period and        *)
(* taskSafety() goes first, so it has run whenever taskSensors() runs      *)
(* again.  A drive is a DC motor or a stepper, on when enabled (the DC     *)
(* outputs themselves are module MotorControl).  Times are counted in      *)
(* units of which HeartbeatTimeout make up HEARTBEAT_TIMEOUT_MS; voltages  *)
(* are classed as the firmware's predicates class them.                    *)
(***************************************************************************)
EXTENDS Integers, FiniteSets, SystemFsm

CONSTANTS
  Drives,           (* DC motors and steppers         *)
  Servos,           (* channels of the servo board    *)
  HeartbeatTimeout  (* heartbeatTimeoutMs_, in units  *)

ASSUME TimeoutAssumption == HeartbeatTimeout \in Nat

VARIABLES
  state,         (* SystemManager::state_                                   *)
  armed,         (* SystemManager::batteryFaultArmed_                       *)
  latch,         (* MessageCenter::faultLatchFlags_                         *)
  hbValid,       (* MessageCenter::heartbeatValid_                          *)
  silence,       (* time since the last TLV, up to HeartbeatTimeout + 1     *)
  link,          (* environment: whether TLVs still arrive                  *)
  battery,       (* SensorManager's last reading of the battery             *)
  unchecked,     (* taskSafety() has not run since taskSensors() last did   *)
  driven,        (* the enabled drives                                      *)
  magQueued,     (* deferredMagCalAction_ # DEFER_MAG_NONE                  *)
  servoEnabled,  (* servoEnabledMask_                                       *)
  servoDirty,    (* servoHardwareDirty_                                     *)
  pulseDirty,    (* servoPulseDirtyMask_                                    *)
  offDirty,      (* servoOffDirtyMask_                                      *)
  pcaReady,      (* ServoController::initialized_                           *)
  pcaEnabled,    (* ServoController::enabled_                               *)
  pulsing        (* servo board: channels whose registers hold a pulse      *)

safetyVars == <<state, armed, latch>>
linkVars   == <<hbValid, silence, link>>
servoVars  == <<servoEnabled, servoDirty, pulseDirty, offDirty>>
pcaVars    == <<pcaReady, pcaEnabled, pulsing>>
vars == <<safetyVars, linkVars, battery, unchecked, driven, magQueued, servoVars, pcaVars>>

(* The bits of the fault latch.  ERR_LIVENESS_LOST is an alias of a warning*)
(* flag, 0x01, and in the error flags that bit is ERR_UNDERVOLTAGE.        *)
Flags == {"UNDERVOLTAGE", "OVERVOLTAGE"}
ErrLivenessLost == "UNDERVOLTAGE"
Readings == {"none", "critical", "good", "over"}

-----------------------------------------------------------------------------
(* Faulty variants of the helpers below.                                   *)
Mut_CanRunDrive == battery # "none"
Mut_SensorsDue == TRUE
Mut_ForgetServos ==
  /\ servoDirty' = FALSE /\ pulseDirty' = {} /\ offDirty' = {}
  /\ UNCHANGED servoEnabled
Mut_Written(failed) == pulseDirty \ failed
Mut_Watched == state = "RUNNING" /\ ~hbValid /\ armed

-----------------------------------------------------------------------------
(* SensorManager::isBatteryPresent(), SystemManager::canRunDriveActuator() *)
(* and canEnableServoActuator()                                            *)
BatteryPresent == battery # "none"
CanRunDrive == BatteryPresent /\ state = "RUNNING"
CanEnableServo == state \in {"IDLE", "RUNNING"}

(* resetRunningPowerMonitor() *)
Disarm == armed' = FALSE

(* The servo part of disableAllActuators(): what is queued is dropped. *)
ForgetServos ==
  /\ servoEnabled' = {} /\ servoDirty' = FALSE
  /\ pulseDirty' = {} /\ offDirty' = {}

(* disableAllActuators(): no channel register is written, and the board    *)
(* has no output-enable line (PIN_SERVO_OE is not defined).                *)
DisableAllActuators ==
  /\ driven' = {}
  /\ ForgetServos
  /\ pcaEnabled' = FALSE
  /\ UNCHANGED <<pcaReady, pulsing>>

Init ==
  /\ state = "INIT" /\ armed = FALSE /\ latch = {}
  /\ hbValid = FALSE /\ silence = 0 /\ link = "up"
  /\ battery = "none" /\ unchecked = TRUE
  /\ driven = {} /\ magQueued = FALSE
  /\ servoEnabled = {} /\ servoDirty = FALSE /\ pulseDirty = {} /\ offDirty = {}
  /\ pcaReady \in BOOLEAN /\ pcaEnabled = FALSE /\ pulsing = {}

(* setup(), its last step: triggerBootCompleted() *)
Boot ==
  /\ state = "INIT" /\ Allowed(state, "IDLE")
  /\ state' = "IDLE"
  /\ Disarm
  /\ UNCHANGED <<latch, linkVars, battery, unchecked, driven, magQueued, servoVars, pcaVars>>

-----------------------------------------------------------------------------
(* Messages.  routeMessage() refreshes the liveness timer for any TLV,     *)
(* before and whatever it does with it.                                    *)
Receive ==
  /\ state # "INIT" /\ link = "up"
  /\ hbValid' = TRUE /\ silence' = 0
  /\ UNCHANGED <<link, battery, unchecked>>

(* SYS_HEARTBEAT, a query, or a message that is ignored *)
Heartbeat ==
  /\ Receive
  /\ UNCHANGED <<safetyVars, driven, magQueued, servoVars, pcaVars>>

(* SYS_CMD_START *)
StartCmd ==
  /\ Receive
  /\ Allowed(state, "RUNNING")
  /\ state' = "RUNNING" /\ armed' = BatteryPresent
  /\ UNCHANGED <<latch, driven, magQueued, servoVars, pcaVars>>

(* SYS_CMD_STOP and SYS_CMD_RESET: the transition comes first; only RESET  *)
(* clears the fault latch.                                                 *)
IdleCmd(cmd) ==
  /\ Receive
  /\ Allowed(state, "IDLE")
  /\ state' = "IDLE"
  /\ Disarm
  /\ DisableAllActuators
  /\ magQueued' = FALSE
  /\ latch' = IF cmd = "RESET" THEN {} ELSE latch

(* SYS_CMD_ESTOP *)
EstopCmd ==
  /\ Receive
  /\ Disarm
  /\ DisableAllActuators
  /\ magQueued' = FALSE
  /\ state' = "ESTOP"
  /\ UNCHANGED latch

(* DC_ENABLE and STEP_ENABLE; disabling is allowed in every state *)
DriveEnable(d) ==
  /\ Receive
  /\ CanRunDrive
  /\ driven' = driven \union {d}
  /\ UNCHANGED <<safetyVars, magQueued, servoVars, pcaVars>>

DriveDisable(d) ==
  /\ Receive
  /\ driven' = driven \ {d}
  /\ UNCHANGED <<safetyVars, magQueued, servoVars, pcaVars>>

(* SERVO_ENABLE for the channels chs: one, or all of them *)
ServoEnable(chs) ==
  /\ Receive
  /\ CanEnableServo
  /\ servoEnabled' = servoEnabled \union chs /\ servoDirty' = TRUE
  /\ UNCHANGED <<safetyVars, driven, magQueued, pulseDirty, offDirty, pcaVars>>

(* Disabling one channel drops its pending pulse, disabling all does not *)
ServoDisable(c) ==
  /\ Receive
  /\ servoEnabled' = servoEnabled \ {c} /\ servoDirty' = TRUE
  /\ offDirty' = offDirty \union {c}
  /\ pulseDirty' = pulseDirty \ {c}
  /\ UNCHANGED <<safetyVars, driven, magQueued, pcaVars>>

ServoDisableAll ==
  /\ Receive
  /\ servoEnabled' = {} /\ servoDirty' = TRUE
  /\ offDirty' = Servos
  /\ UNCHANGED <<safetyVars, driven, magQueued, pulseDirty, pcaVars>>

(* SERVO_SET, accepted in every state *)
ServoSet(c) ==
  /\ Receive
  /\ pulseDirty' = pulseDirty \union {c}
  /\ UNCHANGED <<safetyVars, driven, magQueued, servoEnabled, servoDirty, offDirty, pcaVars>>

(* SENSOR_MAG_CAL_CMD: the action is queued, in IDLE only *)
MagCalCmd ==
  /\ Receive
  /\ state = "IDLE"
  /\ magQueued' = TRUE
  /\ UNCHANGED <<safetyVars, driven, servoVars, pcaVars>>

-----------------------------------------------------------------------------
(* Tasks.                                                                  *)

(* checkHeartbeatTimeout() finds the link silent *)
TimedOut == silence > HeartbeatTimeout

(* processDeferredServo(): the channels whose pending pulse reaches the    *)
(* board, when writes to the channels of failed fail on the bus            *)
Written(failed) == (pulseDirty \intersect servoEnabled) \ failed

(* processDeferredServo(): work for an absent board is dropped; a write    *)
(* that fails is not retried.                                              *)
ProcessDeferredServo(failed) ==
  IF servoDirty \/ pulseDirty # {} \/ offDirty # {}
  THEN /\ servoDirty' = FALSE /\ pulseDirty' = {} /\ offDirty' = {}
       /\ IF pcaReady
          THEN /\ pcaEnabled' = (servoEnabled # {})
               /\ pulsing' = (pulsing \ (offDirty \ failed)) \union Written(failed)
          ELSE UNCHANGED <<pcaEnabled, pulsing>>
       /\ UNCHANGED <<servoEnabled, pcaReady>>
  ELSE UNCHANGED <<servoVars, pcaVars>>

(* taskUART(): heartbeat timeout, then the deferred calibration and servo  *)
(* work, in whatever state the firmware is by now                          *)
UartTask ==
  /\ state # "INIT"
  /\ hbValid' = (hbValid /\ ~TimedOut)
  /\ magQueued' = FALSE
  /\ \E failed \in SUBSET Servos : ProcessDeferredServo(failed)
  /\ UNCHANGED <<safetyVars, silence, link, battery, unchecked, driven>>

(* shouldTripHeartbeatFault() and isHeartbeatValid() *)
HeartbeatFault == state = "RUNNING" /\ ~hbValid

(* getBatteryFaultFlags() *)
BatteryFlags == (IF battery \in {"none", "critical"} THEN {"UNDERVOLTAGE"} ELSE {})
                \union (IF battery = "over" THEN {"OVERVOLTAGE"} ELSE {})

(* shouldTripBatteryFault() arms the fault when it sees a battery *)
NowArmed == armed \/ (state = "RUNNING" /\ BatteryPresent)

(* taskSafety(): SafetyManager::check(), which does nothing in ERROR and   *)
(* ESTOP.  A fault does not cancel deferred work.                          *)
SafetyTask ==
  /\ state # "INIT"
  /\ IF HeartbeatFault \/ (state = "RUNNING" /\ NowArmed /\ battery # "good")
     THEN /\ Disarm
          /\ DisableAllActuators
          /\ latch' = latch \union (IF HeartbeatFault THEN {ErrLivenessLost} ELSE {})
                            \union BatteryFlags
          /\ state' = "ERROR"
     ELSE /\ armed' = NowArmed
          /\ UNCHANGED <<state, latch, driven, servoVars, pcaVars>>
  /\ unchecked' = FALSE
  /\ UNCHANGED <<linkVars, battery, magQueued>>

(* taskSensors() must let the more urgent taskSafety() run first *)
SensorsDue == ~unchecked

(* taskSensors(): a new battery reading *)
SensorTask ==
  /\ state # "INIT" /\ SensorsDue
  /\ battery' \in Readings /\ unchecked' = TRUE
  /\ UNCHANGED <<safetyVars, linkVars, driven, magQueued, servoVars, pcaVars>>

(* taskI2CRetry(): a servo board found late is initialised, all channels   *)
(* off, and its outputs enabled                                            *)
I2CRetryTask ==
  /\ state # "INIT" /\ ~pcaReady
  /\ pcaReady' = TRUE /\ pcaEnabled' = TRUE /\ pulsing' = {}
  /\ UNCHANGED <<safetyVars, linkVars, battery, unchecked, driven, magQueued, servoVars>>

-----------------------------------------------------------------------------
(* Environment.                                                            *)
Elapse ==
  /\ state # "INIT" /\ silence <= HeartbeatTimeout
  /\ silence' = silence + 1
  /\ UNCHANGED <<safetyVars, hbValid, link, battery, unchecked, driven, magQueued, servoVars, pcaVars>>

LinkChange ==
  /\ state # "INIT"
  /\ link' \in {"up", "down"}
  /\ UNCHANGED <<safetyVars, hbValid, silence, battery, unchecked, driven, magQueued, servoVars, pcaVars>>

Message ==
  \/ Heartbeat \/ StartCmd \/ EstopCmd \/ MagCalCmd
  \/ \E cmd \in {"STOP", "RESET"} : IdleCmd(cmd)
  \/ \E d \in Drives : DriveEnable(d) \/ DriveDisable(d)
  \/ \E c \in Servos : ServoSet(c) \/ ServoEnable({c}) \/ ServoDisable(c)
  \/ ServoEnable(Servos) \/ ServoDisableAll

Task == UartTask \/ SafetyTask \/ SensorTask \/ I2CRetryTask

Next == Boot \/ Message \/ Task \/ Elapse \/ LinkChange

(* The scheduler runs each periodic task again and again, and time passes. *)
Fairness == WF_vars(Boot) /\ WF_vars(Elapse) /\ WF_vars(UartTask) /\ WF_vars(SafetyTask)

Spec == Init /\ [][Next]_vars /\ Fairness

-----------------------------------------------------------------------------
(* Properties.                                                             *)

(* Every variable keeps its type: among others no flag is latched that     *)
(* SYS_STATE cannot report.                                                *)
TypeOK ==
  /\ state \in States /\ armed \in BOOLEAN /\ latch \in SUBSET Flags
  /\ hbValid \in BOOLEAN /\ silence \in 0..(HeartbeatTimeout + 1)
  /\ link \in {"up", "down"}
  /\ battery \in Readings /\ unchecked \in BOOLEAN
  /\ driven \in SUBSET Drives /\ magQueued \in BOOLEAN
  /\ servoEnabled \in SUBSET Servos /\ servoDirty \in BOOLEAN
  /\ pulseDirty \in SUBSET Servos /\ offDirty \in SUBSET Servos
  /\ pcaReady \in BOOLEAN /\ pcaEnabled \in BOOLEAN /\ pulsing \in SUBSET Servos

(* canRunDriveActuator() is asked only when a drive is enabled, yet however*)
(* the state is left a drive is never on outside RUNNING.                  *)
DrivesNeedRunning == driven # {} => state = "RUNNING"

(* A drive was enabled because a battery was seen, so its loss is a fault: *)
(* whenever a drive is on and the battery is gone, the fault is armed.     *)
(* shouldTripBatteryFault() arms it a task later than the enable command   *)
(* was accepted.                                                           *)
BatteryLossCaught == driven # {} /\ ~BatteryPresent => armed

(* The battery fault armed in one RUNNING session is never armed in a      *)
(* later state: a session started without a battery is allowed to run.     *)
ArmedOnlyRunning == armed => state = "RUNNING"

(* SYS_STATE in ERROR always says why: the fault latch holds a cause,      *)
(* through every command that ERROR accepts.                               *)
ErrorHasCause == state = "ERROR" => latch # {}

(* After a fault or an emergency stop no servo is enabled, so that no task *)
(* writes a pulse, and none becomes enabled when the robot goes idle.      *)
ServosIdleWhenHalted == state \in {"ERROR", "ESTOP"} => servoEnabled = {}

(* A channel gains a pulse only while the robot is IDLE or RUNNING and the *)
(* channel is enabled, whatever SERVO_SET requests were queued before.     *)
PulsesNeedEnable ==
  [][\A c \in pulsing' \ pulsing :
        c \in servoEnabled /\ state \in {"IDLE", "RUNNING"}]_vars

(* Faults strike a running robot only: ERROR is entered from RUNNING, with *)
(* every drive and servo disabled in the same step.                        *)
FaultsStopRunning ==
  [][state' = "ERROR" /\ state # "ERROR" =>
        /\ state = "RUNNING" /\ latch' # {}
        /\ driven' = {} /\ servoEnabled' = {}]_vars

(* What MANUAL.md says of a heartbeat timeout, "The firmware remains in     *)
(* RUNNING state (it does not transition to ERROR)": with a good battery no *)
(* running robot enters ERROR.  It is violated: SafetyManager::check()     *)
(* makes a fault of a lapse.                                               *)
LapseKeepsRunning ==
  [][state = "RUNNING" /\ battery = "good" => state' # "ERROR"]_vars

(* The watchdog works: a robot that runs while its link stays down leaves  *)
(* RUNNING in the end.                                                     *)
SilenceStopsRobot ==
  (state = "RUNNING" /\ link = "down") ~> (state # "RUNNING" \/ link = "up")
=============================================================================
