--------------------------- MODULE MagCalibration ---------------------------
(***************************************************************************)
(* The magnetometer calibration: the commands deferred by MessageCenter.cpp*)
(* and executed by SensorManager.cpp on the record of PersistentStorage,   *)
(* the status and samples it streams, and the controller of the backend    *)
(* (mag_calibration.py) that fits the samples and sends a calibration back.*)
(*                                                                         *)
(* A handler and a task of the firmware each run to completion, except that*)
(* power may be lost during the EEPROM writes.  Frames travel in order and *)
(* may be lost.  The controller counts time in samples.  Every command of  *)
(* the protocol may also come from a user, at most MaxAsks times.          *)
(***************************************************************************)
EXTENDS PersistentStorage

CONSTANTS
  MinSamples, (* MAG_CAL_MIN_SAMPLES                                        *)
  MinAge,     (* samples before the controller tries to fit                 *)
  MaxAge,     (* samples until the controller gives up                      *)
  MaxDown,    (* bound on the commands under way to the firmware            *)
  MaxUp,      (* bound on the frames under way to the backend               *)
  MaxAsks     (* bound on the commands of users                             *)

ASSUME SamplesAssumption == MinSamples \in Nat /\ MinAge \in Nat \ {0} /\ MaxAge \in Nat /\ MinAge <= MaxAge
ASSUME BoundsAssumption == MaxDown \in Nat \ {0} /\ MaxUp \in Nat \ {0} /\ MaxAsks \in Nat

VARIABLES
  task,     (* "off", setup() ("init"), an EEPROM write ("apply"), "free"  *)
  sys,      (* SystemManager's state: IDLE or another                      *)
  mag,      (* "none" without an IMU, "blind" until the magnetometer has   *)
            (* given a reading, then "works"                               *)
  slot,     (* deferredMagCalAction_, with the calibration of an APPLY     *)
  report,   (* pendingMagCal_                                              *)
  state,    (* magCal_.state                                               *)
  samples,  (* magCal_.sampleCount, counted to MinSamples                  *)
  active,   (* the calibration the IMU driver applies                      *)
  backup,   (* magCalBackup*_, or <<>> when not magCalBackupValid_         *)
  down, up, (* frames to the firmware and to the backend                   *)
  sampling, (* controller: _sampling                                       *)
  sent,     (* controller: _apply_sent                                     *)
  age,      (* controller: samples since _start_time                       *)
  mixed,    (* controller: a sample was already corrected                  *)
  asks,     (* commands the users sent                                     *)
  upset,    (* history: a frame, a deferred action or a report was lost    *)
  tainted,  (* history: a calibration was fitted to mixed samples          *)
  previous  (* history: the calibration in use when this session began     *)

bootVars == <<task, sys, mag>>
deferVars == <<slot, report>>
calVars == <<state, samples, active, backup, previous>>
hostVars == <<sampling, sent, age, mixed, tainted>>
vars == <<storageVars, bootVars, deferVars, calVars, down, up, hostVars, asks, upset>>

None == <<>>
States == {"IDLE", "SAMPLING", "SAVED", "ERROR"}
Apply(c) == <<"APPLY", c>>
Command(name) == <<name, Plain>>
Commands == {Apply(c) : c \in Cals} \union {Command(n) : n \in {"START", "STOP", "SAVE", "CLEAR"}}
Frames == States \union {"raw", "corrected", "zero"}

-----------------------------------------------------------------------------
(* Faulty variants *)
Mut_ForgetBackup == UNCHANGED backup
Mut_Ends(s) == s \in {"IDLE", "ERROR"}

-----------------------------------------------------------------------------
Init ==
  /\ StorageInit
  /\ task = "off" /\ sys = "IDLE" /\ mag = "none" /\ slot = None /\ report = FALSE
  /\ state = "IDLE" /\ samples = 0 /\ active = Identity /\ backup = None
  /\ down = <<>> /\ up = <<>>
  /\ sampling = FALSE /\ sent = FALSE /\ age = 0 /\ mixed = FALSE
  /\ asks = 0 /\ upset = FALSE /\ tainted = FALSE /\ previous = Identity

(* setup(): PersistentStorage::init(), then initMagCalFromStorage() *)
PowerOn ==
  /\ task = "off"
  /\ task' = "init"
  /\ Open
  /\ UNCHANGED <<sys, mag, deferVars, calVars, down, up, hostVars, asks, upset>>

(* SensorManager::init() looks for the IMU; initMagCalFromStorage() if     *)
(* there is one                                                            *)
Boot ==
  /\ task = "init" /\ phase = "idle"
  /\ task' = "free" /\ mag' \in {"none", "blind"}
  /\ \/ mag' = "blind" /\ Loads /\ state' = "SAVED" /\ active' = cells
     \/ (mag' = "blind" => Refuses) /\ UNCHANGED <<state, active>>
  /\ previous' = active'
  /\ UNCHANGED <<storageVars, sys, deferVars, samples, backup, down, up, hostVars, asks, upset>>

(* One EEPROM write of setup() or of a calibration being stored *)
Put ==
  /\ task \in {"init", "apply"}
  /\ PutHeader \/ PutInvalid \/ PutCell(task = "init") \/ PutValid
  /\ UNCHANGED <<bootVars, deferVars, calVars, down, up, hostVars, asks, upset>>

(* Power is lost: with it all that is not in EEPROM *)
PowerLoss ==
  /\ task # "off"
  /\ task' = "off"
  /\ Cut
  /\ sys' = "IDLE" /\ mag' = "none" /\ slot' = None /\ report' = FALSE
  /\ state' = "IDLE" /\ samples' = 0 /\ active' = Identity /\ backup' = None
  /\ previous' = Identity
  /\ down' = <<>> /\ upset' = TRUE
  /\ UNCHANGED <<up, hostVars, asks>>

-----------------------------------------------------------------------------
(* The firmware's messages and tasks.                                      *)

(* handleMagCalCmd(), in IDLE only; there is one slot for a deferred action*)
Receive ==
  /\ task = "free" /\ down # <<>>
  /\ down' = Tail(down)
  /\ slot' = IF sys = "IDLE" THEN Head(down) ELSE slot
  /\ upset' = (upset \/ sys # "IDLE" \/ slot # None)
  /\ UNCHANGED <<storageVars, bootVars, report, calVars, up, hostVars, asks>>

(* SYS_CMD_START leaves IDLE and forgets nothing *)
SysStart ==
  /\ task = "free" /\ sys = "IDLE"
  /\ sys' = "BUSY"
  /\ UNCHANGED <<storageVars, task, mag, deferVars, calVars, down, up, hostVars, asks, upset>>

(* SYS_CMD_ESTOP leaves IDLE, STOP and RESET enter it: cancelDeferredActions()*)
SysHalt ==
  /\ task = "free"
  /\ sys' = (IF sys = "IDLE" THEN "BUSY" ELSE "IDLE")
  /\ slot' = None /\ report' = FALSE
  /\ upset' = (upset \/ slot # None \/ report)
  /\ UNCHANGED <<storageVars, task, mag, calVars, down, up, hostVars, asks>>

(* startMagCalibration(): what is restored on STOP *)
BackedUp == IF state = "SAVED" THEN active ELSE None

StartSampling ==
  /\ slot = Command("START")
  /\ backup' = BackedUp
  /\ state' = "SAMPLING" /\ samples' = 0 /\ active' = Identity
  /\ previous' = IF state \in {"SAMPLING", "ERROR"} THEN previous ELSE active
  /\ UNCHANGED <<storageVars, task, report>>

(* cancelMagCalibration() *)
StopSampling ==
  /\ slot = Command("STOP")
  /\ samples' = 0 /\ backup' = None /\ report' = TRUE
  /\ IF backup # None THEN state' = "SAVED" /\ active' = backup
                      ELSE state' = "IDLE" /\ active' = Identity
  /\ UNCHANGED <<storageVars, task, previous>>

(* saveMagCalibration() with too few samples keeps the driver uncalibrated *)
SaveFails ==
  /\ slot = Command("SAVE") /\ samples < MinSamples
  /\ state' = "ERROR" /\ report' = TRUE
  /\ UNCHANGED <<storageVars, task, samples, active, backup, previous>>

(* applyMagCalibration(), for SAVE of what the samples give, up to storing *)
ApplyCalibration ==
  /\ \E c \in Cals :
       /\ slot = Apply(c) \/ (slot = Command("SAVE") /\ samples >= MinSamples)
       /\ active' = Whole(c)
       /\ Set(Whole(c))
  /\ task' = "apply"
  /\ UNCHANGED <<report, state, samples, backup, previous>>

(* clearMagCalibration() and applyMagCalibration() end the need of a backup*)
DropBackup == backup' = None

ClearCalibration ==
  /\ slot = Command("CLEAR")
  /\ Clear
  /\ active' = Identity /\ state' = "IDLE" /\ samples' = 0 /\ report' = TRUE
  /\ DropBackup
  /\ UNCHANGED <<task, previous>>

(* taskUART(): processDeferredMagCal(), whatever the state is by now.  The *)
(* end of a session still to be reported is not, once START is executed.   *)
Deferred ==
  /\ task = "free" /\ slot # None
  /\ slot' = None
  /\ StartSampling \/ StopSampling \/ SaveFails \/ ApplyCalibration \/ ClearCalibration
  /\ upset' = (upset \/ (report /\ state' = "SAMPLING"))
  /\ UNCHANGED <<sys, mag, down, up, hostVars, asks>>

(* ... the end of applyMagCalibration(), when all is written *)
Applied ==
  /\ task = "apply" /\ phase = "idle"
  /\ task' = "free" /\ report' = TRUE
  /\ state' = "SAVED"
  /\ DropBackup
  /\ UNCHANGED <<storageVars, sys, mag, slot, samples, active, previous, down, up, hostVars, asks, upset>>

(* taskSensors(): update100Hz() reads the IMU, of which the magnetometer   *)
(* may have nothing new, and updateMagCalSampling() counts                 *)
Sample ==
  /\ task = "free" /\ mag # "none"
  /\ mag' \in {mag, "works"}
  /\ samples' = IF state = "SAMPLING" /\ samples < MinSamples THEN samples + 1 ELSE samples
  /\ UNCHANGED <<storageVars, task, sys, deferVars, state, active, backup, previous, down, up, hostVars, asks, upset>>

(* sendTelemetry(): a pending status goes first; while sampling the status *)
(* is also part of the superframe, as are the readings of an IMU that is   *)
(* there: zeros before the magnetometer's first.                           *)
Reading == IF mag = "blind" THEN "zero" ELSE IF active = Identity THEN "raw" ELSE "corrected"

Send ==
  /\ task = "free" /\ Len(up) < MaxUp
  /\ \/ (report \/ state = "SAMPLING") /\ up' = Append(up, state) /\ report' = FALSE
     \/ mag # "none" /\ ~report /\ up' = Append(up, Reading) /\ UNCHANGED report
  /\ UNCHANGED <<storageVars, bootVars, slot, calVars, down, hostVars, asks, upset>>

-----------------------------------------------------------------------------
(* The controller of the backend.                                          *)
Forget == sampling' = FALSE /\ sent' = FALSE /\ age' = 0 /\ mixed' = FALSE

(* The states that end a session of the controller *)
Ends(s) == s \in {"IDLE", "SAVED", "ERROR"}

(* _observe_status() *)
ObserveStatus ==
  /\ Head(up) \in States
  /\ IF Head(up) = "SAMPLING" /\ ~sampling
     THEN sampling' = TRUE /\ sent' = FALSE /\ age' = 0 /\ mixed' = FALSE
     ELSE IF sampling /\ Ends(Head(up)) THEN Forget
     ELSE UNCHANGED <<sampling, sent, age, mixed>>
  /\ UNCHANGED <<down, tainted>>

(* What _observe_imu() does at the n-th sample that is not all zero: the fit may be good enough *)
(* or not, and at MaxAge there may be nothing to fall back to.             *)
Verdicts(n) ==
  IF n < MinAge THEN {"wait"}
  ELSE IF n < MaxAge THEN {"wait", "apply"} ELSE {"apply", "stop"}

ObserveImu ==
  /\ Head(up) \notin States
  /\ IF ~sampling \/ sent \/ Head(up) = "zero" THEN UNCHANGED <<down, hostVars>>
     ELSE LET dirty == mixed \/ Head(up) = "corrected" IN
       \/ /\ "wait" \in Verdicts(age + 1)
          /\ age' = age + 1 /\ mixed' = dirty
          /\ UNCHANGED <<down, sampling, sent, tainted>>
       \/ /\ "apply" \in Verdicts(age + 1)
          /\ \E c \in Cals : down' = Append(down, Apply(c))
          /\ sent' = TRUE /\ tainted' = (tainted \/ dirty)
          /\ age' = 0 /\ mixed' = FALSE
          /\ UNCHANGED sampling
       \/ /\ "stop" \in Verdicts(age + 1)
          /\ down' = Append(down, Command("STOP"))
          /\ Forget
          /\ UNCHANGED tainted

Observe ==
  /\ up # <<>> /\ Len(down) < MaxDown
  /\ up' = Tail(up)
  /\ ObserveStatus \/ ObserveImu
  /\ UNCHANGED <<storageVars, bootVars, deferVars, calVars, asks, upset>>

(* handle_transport_connection_change() resets the controller *)
Reconnect ==
  /\ Forget
  /\ up' = <<>> /\ upset' = TRUE
  /\ UNCHANGED <<storageVars, bootVars, deferVars, calVars, down, tainted, asks>>

-----------------------------------------------------------------------------
(* A user's command, of the web page or of a ROS client *)
Ask ==
  /\ asks < MaxAsks /\ Len(down) < MaxDown
  /\ asks' = asks + 1
  /\ \E n \in {"START", "STOP", "SAVE", "CLEAR"} : down' = Append(down, Command(n))
  /\ UNCHANGED <<storageVars, bootVars, deferVars, calVars, up, hostVars, upset>>

(* A frame is lost, or fails its checksum *)
Lose ==
  /\ \/ down # <<>> /\ down' = Tail(down) /\ UNCHANGED up
     \/ up # <<>> /\ up' = Tail(up) /\ UNCHANGED down
  /\ upset' = TRUE
  /\ UNCHANGED <<storageVars, bootVars, deferVars, calVars, hostVars, asks>>

Next ==
  \/ PowerOn \/ Boot \/ Put \/ PowerLoss
  \/ Receive \/ SysStart \/ SysHalt \/ Deferred \/ Applied \/ Sample \/ Send
  \/ Observe \/ Reconnect \/ Ask \/ Lose

(* Tasks and telemetry run periodically, both ends read what has arrived,  *)
(* and the telemetry includes a status again and again, and a reading of   *)
(* an IMU that is there.                                                   *)
Fairness ==
  /\ WF_vars(PowerOn) /\ WF_vars(Boot) /\ WF_vars(Put) /\ WF_vars(Applied)
  /\ WF_vars(Receive) /\ WF_vars(Deferred) /\ WF_vars(Observe)
  /\ SF_vars(Send /\ up'[Len(up')] \in States)
  /\ SF_vars(Send /\ up'[Len(up')] \notin States)

Spec == Init /\ [][Next]_vars /\ Fairness

-----------------------------------------------------------------------------
(* Properties.                                                             *)

(* Every variable keeps its type. *)
TypeOK ==
  /\ StorageTypeOK
  /\ task \in {"off", "init", "apply", "free"} /\ sys \in {"IDLE", "BUSY"}
  /\ mag \in {"none", "blind", "works"}
  /\ slot \in Commands \union {None} /\ report \in BOOLEAN
  /\ state \in States /\ samples \in 0..MinSamples
  /\ active \in [Cells -> Floats] /\ previous \in [Cells -> Floats]
  /\ backup \in [Cells -> Floats] \union {None}
  /\ down \in Seq(Commands) /\ up \in Seq(Frames)
  /\ sampling \in BOOLEAN /\ sent \in BOOLEAN /\ mixed \in BOOLEAN /\ age \in 0..MaxAge
  /\ asks \in 0..MaxAsks /\ upset \in BOOLEAN /\ tainted \in BOOLEAN

(* Whenever the firmware reports its calibration SAVED, a boot would find  *)
(* the calibration in use, and not another: through failed and cancelled   *)
(* sessions, restored backups and power losses.                            *)
SavedIsStored == task = "free" /\ state = "SAVED" => header /\ valid /\ cells = active

(* The controller fits a calibration to raw samples only, as long as no    *)
(* frame, command or report was lost: the backup that STOP restores is     *)
(* announced before a corrected sample is sent.                            *)
FitsAreRaw == ~upset => ~tainted

(* With a magnetometer that works a session ends by itself, unless a frame,*)
(* a deferred action or a report of it was lost: the controller gives up in*)
(* the end, and hears of the end of one session before it fits the next.   *)
(* Without one it need not: the controller looks at the time when a sample *)
(* comes that is not all zero.                                             *)
SessionsEnd == state = "SAMPLING" /\ mag = "works" ~> (state # "SAMPLING" \/ upset)

(* The record keeps the promise of CalibrationStore: power losses tear it  *)
(* only where that module allows it.                                       *)
Store == INSTANCE CalibrationStore WITH
  Cals <- {Whole(c) : c \in Cals},
  Nothing <- None, Torn <- Whole(Foreign), Format <- Identity,
  stored <- IF ~header \/ ~valid THEN None
            ELSE IF \E c \in Cals : cells = Whole(c) THEN cells ELSE Whole(Foreign),
  pending <- IF phase = "idle" THEN None ELSE value
ImplementsStore == Store!Spec
=============================================================================
