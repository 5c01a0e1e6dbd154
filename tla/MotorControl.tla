---------------------------- MODULE MotorControl ----------------------------
(***************************************************************************)
(* The DC motor pipeline shared by the Timer1 interrupt and loop():        *)
(* modules/MotorControlCoordinator.cpp, taskMotors() and the ISR of        *)
(* arduino.ino, and the output staging of drivers/DCMotor.cpp.             *)
(*                                                                         *)
(* The ISR visits one motor ("slot") per tick, round robin: it publishes   *)
(* the output the loop prepared for the slot's last request, applies the   *)
(* published output to the H-bridge, latches the encoder and files a new   *)
(* request.  The loop takes the oldest pending request, computes and       *)
(* finishes it.  The ISR runs between any two steps of the loop and is     *)
(* never interrupted by it; an ATOMIC_BLOCK of the loop is one step.       *)
(*                                                                         *)
(* Outputs are "off" (drive 0, duty 0) or "on".  PID arithmetic, targets   *)
(* and encoder counts are abstracted: what matters is which sample an      *)
(* output was computed from, kept in the history variables `fresh` and     *)
(* `sampleCurrent`.  The diagnostic counters are replaced by `note`, the   *)
(* set of counters the last step incremented.                              *)
(***************************************************************************)
EXTENDS Integers

CONSTANTS
  N,           (* number of DC motors (NUM_DC_MOTORS is 4)                 *)
  LimitMotors, (* the motors that have a home limit switch                 *)
  Nobody,      (* no motor, in the abstract hand-off                       *)
  MaxRound,    (* bound on the request and round numbers; the code's are   *)
               (* 32 bits wide and last for weeks of continuous running    *)
  LoadSize     (* what one load of the 8-bit processor reads (256 values)  *)

Slots == 0 .. N - 1

ASSUME NAssumption     == N \in Nat \ {0}
ASSUME LimitAssumption == LimitMotors \subseteq Slots
ASSUME RoundAssumption == MaxRound \in Nat
ASSUME NobodyAssumption == Nobody \notin Slots
ASSUME LoadAssumption == LoadSize \in Nat \ {0}

VARIABLES
  sysState,          (* SystemManager: "RUNNING", "IDLE" or "HALTED" (ERROR, ESTOP) *)
  mode,              (* DCMotor::mode_, POSITION, VELOCITY and PWM merged in "DRIVE" *)
  staged,            (* DCMotor::stagedPwm_/Duty_/Drive_: written by the loop        *)
  pending,           (* DCMotor::pendingPwm_/Duty_/Drive_: published by the ISR      *)
  hw,                (* what applyOutput last wrote to the H-bridge                  *)
  isrSlot,           (* the slot the next tick visits                                *)
  roundCount, requestedRound,
  requestedSeq,      (* request filed for each slot by its last visit, 0 for none    *)
  preparedSeq,       (* request each slot's staged output answers                    *)
  pendingMask,       (* slots whose request the loop has not finished                *)
  computeBusy, computeSlot, computeRequestSeq,
  pc,                (* where the loop is                                            *)
  slotSnapshot,      (* taskMotors' local: the motor being computed                  *)
  request,           (* taskMotors' local requestedRound                             *)
  low,               (* the low byte read of requestedRound_, which is read unlocked *)
  todo,              (* the motors a disable or disableAllActuators has yet to stop  *)
  halting,           (* TRUE: ESTOP or fault, the state changes after the disabling  *)
  fresh,             (* history: motors whose staged output uses the newest sample   *)
  sampleCurrent,     (* history: no newer sample since the loop read its own         *)
  note               (* history: diagnostic counters the last step incremented       *)

isrVars    == <<isrSlot, roundCount, requestedRound, requestedSeq>>
handVars   == <<preparedSeq, pendingMask>>
busyVars   == <<computeBusy, computeSlot, computeRequestSeq>>
localVars  == <<slotSnapshot, request, low, sampleCurrent>>
outVars    == <<mode, staged, pending, hw>>
stopVars   == <<todo, halting>>
coordVars  == <<isrVars, handVars, busyVars>>
vars == <<sysState, outVars, coordVars, pc, localVars, stopVars, fresh, note>>

-----------------------------------------------------------------------------
(* Faulty variants of the helpers below, substituted for them to show that *)
(* the properties notice.                                                  *)
Mut_ZeroOutputs(m) == staged' = [staged EXCEPT ![m] = "off"] /\ UNCHANGED pending
Mut_EnabledMotors == {m \in Slots : m > 0 /\ mode[m] # "DISABLED"}
Mut_Superseded == FALSE
Mut_Published(s) == requestedSeq[s] # 0 /\ preparedSeq[s] # 0

-----------------------------------------------------------------------------
(* The slot after s: (slot + 1) % motorCount *)
NextSlot(s) == IF s = N - 1 THEN 0 ELSE s + 1

Enabled(m) == mode[m] # "DISABLED"

(* The motors disableAllActuators() disables *)
EnabledMotors == {m \in Slots : Enabled(m)}

(* The staged and the published output of m are zeroed in one atomic block *)
ZeroOutputs(m) ==
  /\ staged' = [staged EXCEPT ![m] = "off"]
  /\ pending' = [pending EXCEPT ![m] = "off"]

(* hasActiveDcControl(): what both the ISR and taskMotors() call "running" *)
Active == sysState = "RUNNING" /\ \E m \in Slots : Enabled(m)

NoRequests == [s \in Slots |-> 0]

(* clearPendingState(), without the slot the ISR sets once more on its own *)
ClearPendingState ==
  /\ pendingMask' = {}
  /\ computeBusy' = FALSE
  /\ computeSlot' = 0
  /\ computeRequestSeq' = 0
  /\ requestedSeq' = NoRequests
  /\ preparedSeq' = NoRequests

Init ==
  /\ sysState = "IDLE"
  /\ mode = [m \in Slots |-> "DISABLED"]
  /\ staged = [m \in Slots |-> "off"]
  /\ pending = [m \in Slots |-> "off"]
  /\ hw = [m \in Slots |-> "off"]
  /\ isrSlot = 0 /\ roundCount = 0 /\ requestedRound = 0
  /\ requestedSeq = NoRequests /\ preparedSeq = NoRequests
  /\ pendingMask = {}
  /\ computeBusy = FALSE /\ computeSlot = 0 /\ computeRequestSeq = 0
  /\ pc = "free"
  /\ slotSnapshot = 0 /\ request = 0 /\ low = 0 /\ sampleCurrent = FALSE
  /\ todo = {} /\ halting = FALSE
  /\ fresh = Slots
  /\ note = {}

-----------------------------------------------------------------------------
(* ISR(TIMER1_OVF_vect).                                                   *)

(* A tick while nothing is driven: the hand-off is wiped, no motor is      *)
(* touched.                                                                *)
TickInactive ==
  /\ ~Active
  /\ ClearPendingState
  /\ requestedRound' = roundCount
  /\ isrSlot' = NextSlot(isrSlot)
  /\ note' = {}
  /\ UNCHANGED <<sysState, outVars, roundCount, pc, localVars, stopVars, fresh>>

Published(s) == requestedSeq[s] # 0 /\ preparedSeq[s] = requestedSeq[s]

(* The slot's last request is not answered: still pending or being computed *)
MissedBy(s) == s \in pendingMask \/ (computeBusy /\ computeSlot = s)

(* A tick while running visits one motor. *)
TickActive ==
  LET s == isrSlot
  IN  /\ Active
      /\ roundCount' = IF s = 0 THEN roundCount + 1 ELSE roundCount
      /\ roundCount' <= MaxRound
      /\ pending' = IF Published(s) THEN [pending EXCEPT ![s] = staged[s]] ELSE pending
      /\ hw' = [hw EXCEPT ![s] = pending'[s]]
      /\ fresh' = fresh \ {s}
      /\ sampleCurrent' = (sampleCurrent /\ slotSnapshot # s)
      /\ IF Enabled(s)
         THEN /\ requestedRound < MaxRound
              /\ requestedRound' = requestedRound + 1
              /\ requestedSeq' = [requestedSeq EXCEPT ![s] = requestedRound + 1]
              /\ pendingMask' = pendingMask \union {s}
              /\ UNCHANGED preparedSeq
         ELSE /\ requestedSeq' = [requestedSeq EXCEPT ![s] = 0]
              /\ preparedSeq' = [preparedSeq EXCEPT ![s] = 0]
              /\ pendingMask' = pendingMask \ {s}
              /\ UNCHANGED requestedRound
      /\ note' = (IF requestedSeq[s] # 0 /\ ~Published(s) THEN {"reused"} ELSE {})
                 \union
                 (IF Enabled(s) /\ MissedBy(s) THEN {"missed"} ELSE {})
      /\ isrSlot' = NextSlot(s)
      /\ UNCHANGED <<sysState, mode, staged, busyVars, pc, slotSnapshot, request, low, stopVars>>

Tick == TickInactive \/ TickActive

-----------------------------------------------------------------------------
(* Commands, handled by the loop between its tasks.                        *)

(* triggerStartCommand() with a battery present *)
Start ==
  /\ pc = "free" /\ sysState = "IDLE"
  /\ sysState' = "RUNNING"
  /\ note' = {}
  /\ UNCHANGED <<outVars, coordVars, pc, localVars, stopVars, fresh>>

(* DCMotor::enable(), from DC_ENABLE or from a set-point that changes mode *)
Enable(m) ==
  /\ pc = "free" /\ sysState = "RUNNING"
  /\ mode' = [mode EXCEPT ![m] = "DRIVE"]
  /\ ZeroOutputs(m)
  /\ fresh' = fresh \union {m}
  /\ note' = {}
  /\ UNCHANGED <<sysState, hw, coordVars, pc, localVars, stopVars>>

(* DC_HOME: the outputs in flight are kept *)
Home(m) ==
  /\ pc = "free" /\ sysState = "RUNNING"
  /\ Enabled(m) /\ m \in LimitMotors
  /\ mode' = [mode EXCEPT ![m] = "HOMING"]
  /\ note' = {}
  /\ UNCHANGED <<sysState, staged, pending, hw, coordVars, pc, localVars, stopVars, fresh>>

(* DC_ENABLE with mode 0, allowed in every state *)
DisableOne(m) ==
  /\ pc = "free"
  /\ pc' = "disabling" /\ todo' = {m} /\ halting' = FALSE
  /\ note' = {}
  /\ UNCHANGED <<sysState, outVars, coordVars, localVars, fresh>>

(* triggerStopCommand(), triggerResetCommand(): the state changes first *)
Stop ==
  /\ pc = "free" /\ sysState # "IDLE"
  /\ sysState' = "IDLE"
  /\ todo' = EnabledMotors /\ halting' = FALSE
  /\ pc' = IF todo' = {} THEN "free" ELSE "disabling"
  /\ note' = {}
  /\ UNCHANGED <<outVars, coordVars, localVars, fresh>>

(* triggerEstopCommand(), triggerSafetyFaultFromIsr(): the state changes last *)
Halt ==
  /\ pc = "free"
  /\ todo' = EnabledMotors /\ halting' = TRUE
  /\ pc' = IF todo' = {} THEN "free" ELSE "disabling"
  /\ sysState' = IF todo' = {} THEN "HALTED" ELSE sysState
  /\ note' = {}
  /\ UNCHANGED <<outVars, coordVars, localVars, fresh>>

(* DCMotor::disable(), the atomic part: motors are taken in index order *)
ZeroMotor(m) ==
  /\ pc = "disabling" /\ m \in todo /\ \A k \in todo : m <= k
  /\ mode' = [mode EXCEPT ![m] = "DISABLED"]
  /\ ZeroOutputs(m)
  /\ fresh' = fresh \union {m}
  /\ pc' = "zeroed"
  /\ note' = {}
  /\ UNCHANGED <<sysState, hw, coordVars, localVars, stopVars>>

(* DCMotor::disable(), applyOutput(0, 0) outside the atomic block *)
ApplyZero(m) ==
  /\ pc = "zeroed" /\ m \in todo /\ \A k \in todo : m <= k
  /\ hw' = [hw EXCEPT ![m] = "off"]
  /\ todo' = todo \ {m}
  /\ pc' = IF todo' = {} THEN "free" ELSE "disabling"
  /\ sysState' = IF todo' = {} /\ halting THEN "HALTED" ELSE sysState
  /\ note' = {}
  /\ UNCHANGED <<mode, staged, pending, coordVars, localVars, halting, fresh>>

-----------------------------------------------------------------------------
(* taskMotors().                                                           *)

(* resetForNonRunningTask() *)
ResetForNonRunning ==
  /\ pc = "free" /\ ~Active
  /\ ClearPendingState
  /\ isrSlot' = 0
  /\ requestedRound' = roundCount
  /\ note' = {}
  /\ UNCHANGED <<sysState, outVars, roundCount, pc, localVars, stopVars, fresh>>

Oldest(s) ==
  /\ s \in pendingMask /\ requestedSeq[s] # 0
  /\ \A t \in pendingMask : requestedSeq[t] # 0 =>
       requestedSeq[s] < requestedSeq[t] \/ (requestedSeq[s] = requestedSeq[t] /\ s <= t)

(* beginCompute(), its atomic block *)
BeginCompute(s) ==
  /\ pc = "free" /\ Active
  /\ ~computeBusy /\ Oldest(s)
  /\ computeBusy' = TRUE
  /\ computeSlot' = s
  /\ computeRequestSeq' = requestedSeq[s]
  /\ slotSnapshot' = s
  /\ request' = requestedSeq[s]
  /\ pc' = "begun"
  /\ note' = {}
  /\ UNCHANGED <<sysState, outVars, isrVars, handVars, low, sampleCurrent, stopVars, fresh>>

(* beginCompute(), after its atomic block: requestedRound_ is four bytes,  *)
(* read low byte first while the ISR may be incrementing it                *)
ReadLow ==
  /\ pc = "begun"
  /\ low' = requestedRound % LoadSize
  /\ pc' = "reading"
  /\ note' = {}
  /\ UNCHANGED <<sysState, outVars, coordVars, slotSnapshot, request, sampleCurrent, stopVars,
                 fresh>>

(* The lateness test supposes that each of the N motors files a request    *)
(* per round                                                               *)
IsLate == request + N <= (requestedRound - (requestedRound % LoadSize)) + low

CheckLate ==
  /\ pc = "reading"
  /\ pc' = "checked"
  /\ note' = IF IsLate THEN {"late"} ELSE {}
  /\ UNCHANGED <<sysState, outVars, coordVars, localVars, stopVars, fresh>>

(* DCMotor::service(): snapshot of the latched feedback and of the mode *)
Sample ==
  /\ pc = "checked"
  /\ pc' = "sampled"
  /\ sampleCurrent' = TRUE
  /\ note' = {}
  /\ UNCHANGED <<sysState, outVars, coordVars, slotSnapshot, request, low, stopVars, fresh>>

(* DCMotor::service(): the computed output is staged *)
Stage(out) ==
  /\ pc = "sampled"
  /\ Enabled(slotSnapshot) \/ out = "off"
  /\ staged' = [staged EXCEPT ![slotSnapshot] = out]
  /\ fresh' = IF sampleCurrent THEN fresh \union {slotSnapshot}
                                 ELSE fresh \ {slotSnapshot}
  /\ pc' = "staged"
  /\ note' = {}
  /\ UNCHANGED <<sysState, mode, pending, hw, coordVars, localVars, stopVars>>

(* DCMotor::service(): a homing motor meets its limit switch *)
HomeReached ==
  LET m == slotSnapshot
  IN  /\ pc = "sampled" /\ mode[m] = "HOMING"
      /\ mode' = [mode EXCEPT ![m] = "DRIVE"]
      /\ ZeroOutputs(m)
      /\ fresh' = fresh \union {m}
      /\ pc' = "staged"
      /\ note' = {}
      /\ UNCHANGED <<sysState, hw, coordVars, localVars, stopVars>>

(* The slot was visited, and its request replaced, while it was computed *)
Superseded == requestedSeq[computeSlot] # request

(* finishCompute(): an answer to a superseded request is not prepared *)
FinishCompute ==
  LET s == computeSlot
      mine == computeRequestSeq = request
  IN  /\ pc = "staged"
      /\ IF mine /\ ~Superseded
         THEN /\ preparedSeq' = [preparedSeq EXCEPT ![s] = request]
              /\ pendingMask' = pendingMask \ {s}
         ELSE UNCHANGED handVars
      /\ note' = IF mine /\ Superseded THEN {"cross"} ELSE {}
      /\ computeBusy' = FALSE /\ computeSlot' = 0 /\ computeRequestSeq' = 0
      /\ pc' = "free"
      /\ UNCHANGED <<sysState, outVars, isrVars, localVars, stopVars, fresh>>

-----------------------------------------------------------------------------
Command == \/ Start \/ Stop \/ Halt
           \/ \E m \in Slots : Enable(m) \/ Home(m) \/ DisableOne(m)

Disabling == \E m \in Slots : ZeroMotor(m) \/ ApplyZero(m)

Compute == \/ ReadLow \/ CheckLate \/ Sample \/ HomeReached \/ FinishCompute
           \/ \E s \in Slots : BeginCompute(s)
           \/ \E out \in {"off", "on"} : Stage(out)

Next == Tick \/ Command \/ Disabling \/ ResetForNonRunning \/ Compute

Spec == Init /\ [][Next]_vars

-----------------------------------------------------------------------------
Loops == {"free", "disabling", "zeroed", "begun", "reading", "checked", "sampled", "staged"}
Computing == pc \in {"begun", "reading", "checked", "sampled", "staged"}

(* Types of the variables. *)
TypeOK ==
  /\ sysState \in {"IDLE", "RUNNING", "HALTED"}
  /\ mode \in [Slots -> {"DISABLED", "DRIVE", "HOMING"}]
  /\ staged \in [Slots -> {"off", "on"}]
  /\ pending \in [Slots -> {"off", "on"}]
  /\ hw \in [Slots -> {"off", "on"}]
  /\ isrSlot \in Slots /\ roundCount \in Nat /\ requestedRound \in Nat
  /\ requestedSeq \in [Slots -> Nat] /\ preparedSeq \in [Slots -> Nat]
  /\ pendingMask \subseteq Slots
  /\ computeBusy \in BOOLEAN /\ computeSlot \in Slots /\ computeRequestSeq \in Nat
  /\ pc \in Loops
  /\ slotSnapshot \in Slots /\ request \in Nat /\ low \in Nat /\ sampleCurrent \in BOOLEAN
  /\ todo \subseteq Slots /\ halting \in BOOLEAN
  /\ fresh \subseteq Slots
  /\ note \subseteq {"reused", "missed", "late", "cross"}

(* Whatever the ISR is about to publish for a motor was computed from the  *)
(* newest feedback it latched for that motor, however ticks, computes and  *)
(* restarts of the request numbers interleave (or was zeroed since).       *)
PublishedIsCurrent == \A s \in Slots : Published(s) => s \in fresh

(* A disabled motor stays unpowered: once disable() has finished, nothing  *)
(* staged, published or applied survives in any interleaving with the ISR. *)
DisabledIsOff ==
  \A m \in Slots : mode[m] = "DISABLED" =>
    /\ staged[m] = "off" /\ pending[m] = "off"
    /\ hw[m] = "off" \/ (pc = "zeroed" /\ m \in todo /\ \A k \in todo : m <= k)

(* Outside RUNNING no motor is enabled or powered, except while the        *)
(* command that left RUNNING is still disabling them.                      *)
StoppedIsOff ==
  sysState # "RUNNING" /\ pc \notin {"disabling", "zeroed"} =>
    \A m \in Slots : mode[m] = "DISABLED" /\ hw[m] = "off"

(* Requests are distinct and none is older than one round: the oldest-first*)
(* choice of beginCompute() is the order in which the ISR will come back.  *)
Age(s) == IF isrSlot > s THEN isrSlot - s - 1 ELSE isrSlot - s - 1 + N
RequestsWithinRound ==
  /\ \A s \in Slots : requestedSeq[s] # 0 =>
       requestedRound - requestedSeq[s] \in 0 .. Age(s)
  /\ \A s, t \in Slots : requestedSeq[s] # 0 /\ requestedSeq[s] = requestedSeq[t] => s = t

(* The loop never strands the pipeline: outside a compute it is not busy,  *)
(* and a pending slot always has a request beginCompute() can take.        *)
PipelineNotStuck ==
  /\ computeBusy <=> Computing
  /\ \A s \in Slots : s \in pendingMask <=> requestedSeq[s] # 0 /\ ~Published(s)

(* Each reused output is also accounted as a missed request unless the     *)
(* motor has just been disabled; and a compute is dropped as cross-round   *)
(* only when the slot's request was superseded while it ran.               *)
ReuseIsMissed ==
  [][ /\ "reused" \in note' /\ Tick => "missed" \in note' \/ ~Enabled(isrSlot)
      /\ "cross" \in note' => slotSnapshot \in pendingMask' \/ ~Enabled(slotSnapshot) ]_vars

(* A compute counted "late" is one whose motor the ISR has visited again   *)
(* (its answer will be dropped, never applied a round too late), unless a  *)
(* carry into the upper bytes tore the unlocked read of requestedRound_.   *)
LateIsDropped ==
  [][ "late" \in note' => \/ requestedSeq[slotSnapshot] # request
                         \/ low > requestedRound % LoadSize ]_vars

(* The hand-off seen through the sequence numbers: a slot with no request  *)
(* wants nothing, one whose output is prepared is ready; the worker's      *)
(* request stands while its number is still the slot's.                    *)
Want == [s \in Slots |-> IF requestedSeq[s] = 0 THEN "none"
                         ELSE IF Published(s) THEN "ready" ELSE "wanted"]
Handoff == INSTANCE ControlHandoff WITH
  want   <- Want,
  worker <- IF computeBusy THEN computeSlot ELSE Nobody,
  valid  <- computeBusy /\ requestedSeq[computeSlot] = computeRequestSeq

(* The coordinator implements the hand-off: comparing sequence numbers     *)
(* tells exactly whether the request was replaced while it was computed.   *)
ImplementsHandoff == Handoff!Spec
=============================================================================
