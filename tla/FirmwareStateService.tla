------------------------ MODULE FirmwareStateService ------------------------
(***************************************************************************)
(* The ROS service /set_firmware_state: the transition coordinator of      *)
(* bridge/firmware_state_service.py, called by bridge_node.py, against the *)
(* firmware's state machine at the other end of the serial link.           *)
(*                                                                         *)
(* The coordinator reads the last state it was shown, picks a command,     *)
(* sends it and waits on a condition until telemetry shows the target, or  *)
(* a state it may not pass through, or the deadline expires.  Telemetry is *)
(* shown to it by the node's drain timer.  The node is spun by one thread  *)
(* (rclpy.spin), which a waiting call occupies: concurrent is FALSE for    *)
(* the node as it is wired, TRUE for an observer with a thread of its own, *)
(* as the unit tests of the coordinator use it.                            *)
(*                                                                         *)
(* A telemetry message that is lost is one that was never streamed, as the *)
(* state is streamed periodically.  Other clients (the web interface, the  *)
(* /sys_cmd topic) send commands past the coordinator.                     *)
(***************************************************************************)
EXTENDS Naturals, Sequences, SystemFsm

CONSTANTS
  OtherCmds,   (* the commands other clients send                      *)
  MaxWire      (* bound on the states under way, and on the commands   *)
               (* the other clients queue                              *)

ASSUME OtherAssumption      == OtherCmds \subseteq SysCmds
ASSUME WireAssumption       == MaxWire \in Nat

VARIABLES
  concurrent, (* telemetry is observed while a call waits                *)
  fw,        (* the firmware's state                                     *)
  commands,  (* SYS_CMDs sent and not yet received                       *)
  stream,    (* states streamed and not yet observed: the serial link,   *)
             (* the runtime and BridgeNode._decoded_queue                *)
  latest,    (* _latest_state, "none" before the first telemetry         *)
  phase,     (* where request_transition() is                            *)
  target,    (* its argument                                             *)
  basis,     (* the state it planned from                                *)
  command,   (* TransitionPlan.command                                   *)
  due,       (* the waiter is to look at _latest_state: it has just come *)
             (* to the loop, or was notified, or its wait timed out      *)
  expired,   (* the deadline is past                                     *)
  answer     (* the result the last step returned, "none" if it did not  *)

linkVars == <<fw, commands, stream>>
planVars == <<target, basis, command>>
waitVars == <<phase, due, expired>>
vars == <<concurrent, linkVars, latest, planVars, waitVars, answer>>

Answers == {"SUCCESS", "REJECTED", "TIMEOUT", "UNAVAILABLE"}

-----------------------------------------------------------------------------
(* Faulty variants of the helpers below.                                   *)
Mut_Command(cur, tgt) ==
  CASE tgt = "RUNNING" /\ cur \in {"IDLE", "ERROR"}      -> "START"
    [] tgt = "IDLE" /\ cur = "RUNNING"                   -> "STOP"
    [] tgt = "IDLE" /\ cur \in {"ERROR", "ESTOP"}        -> "RESET"
    [] tgt = "ESTOP"                                     -> "ESTOP"
    [] OTHER                                             -> "none"
Mut_Notified == due
Mut_Patient == IF latest = target THEN "SUCCESS" ELSE "none"
Mut_DeadlineFirst ==
  CASE expired          -> "TIMEOUT"
    [] ~expired /\ latest = target  -> "SUCCESS"
    [] OTHER            -> "none"

-----------------------------------------------------------------------------
(* _plan_transition(): the command that leads from cur to tgt, "none" if   *)
(* the request is refused                                                  *)
Command(cur, tgt) ==
  CASE tgt = "RUNNING" /\ cur = "IDLE"              -> "START"
    [] tgt = "IDLE" /\ cur = "RUNNING"              -> "STOP"
    [] tgt = "IDLE" /\ cur \in {"ERROR", "ESTOP"}   -> "RESET"
    [] tgt = "ESTOP"                                -> "ESTOP"
    [] OTHER                                        -> "none"

(* TransitionPlan.wait_states: what telemetry may show on the way          *)
MayPass(cur, tgt) ==
  CASE tgt = "ESTOP"                                -> States
    [] tgt = "IDLE" /\ cur \in {"ERROR", "ESTOP"}   -> {"ERROR", "ESTOP", "IDLE"}
    [] OTHER                                        -> {cur, tgt}

(* The drain timer's callback can run                                      *)
CanObserve == concurrent \/ phase = "free"

(* notify_all() finds a waiter                                             *)
Notified == phase = "waiting"

Init ==
  /\ concurrent \in BOOLEAN
  /\ fw = "INIT" /\ commands = <<>> /\ stream = <<>>
  /\ latest = "none"
  /\ phase = "free" /\ due = FALSE /\ expired = FALSE
  /\ target = "IDLE" /\ basis = "IDLE" /\ command = "none"
  /\ answer = "none"

-----------------------------------------------------------------------------
(* The firmware and the link.                                              *)

(* triggerBootCompleted() *)
Boot ==
  /\ fw = "INIT"
  /\ fw' = "IDLE" /\ answer' = "none"
  /\ UNCHANGED <<concurrent, commands, stream, latest, planVars, waitVars>>

(* A command reaches handleSysCmd(); one that is not allowed is ignored.   *)
Obey ==
  /\ commands # <<>>
  /\ commands' = Tail(commands)
  /\ fw' = IF fw # "INIT" /\ Allowed(fw, Target(Head(commands)))
           THEN Target(Head(commands)) ELSE fw
  /\ answer' = "none"
  /\ UNCHANGED <<concurrent, stream, latest, planVars, waitVars>>

(* A command frame is corrupted and dropped by the decoder.                *)
LoseCommand ==
  /\ commands # <<>>
  /\ commands' = Tail(commands) /\ answer' = "none"
  /\ UNCHANGED <<concurrent, fw, stream, latest, planVars, waitVars>>

(* A safety fault *)
Fault ==
  /\ fw = "RUNNING"
  /\ fw' = "ERROR" /\ answer' = "none"
  /\ UNCHANGED <<concurrent, commands, stream, latest, planVars, waitVars>>

(* SYS_STATE is streamed *)
Stream ==
  /\ Len(stream) < MaxWire
  /\ stream' = Append(stream, fw) /\ answer' = "none"
  /\ UNCHANGED <<concurrent, fw, commands, latest, planVars, waitVars>>

(* Another client sends a command.                                         *)
OtherClient(cmd) ==
  /\ Len(commands) < MaxWire
  /\ commands' = Append(commands, cmd) /\ answer' = "none"
  /\ UNCHANGED <<concurrent, fw, stream, latest, planVars, waitVars>>

-----------------------------------------------------------------------------
(* The coordinator.                                                        *)

(* observe_system_state(), from _drain_decoded_queue(): the waiter is      *)
(* notified                                                                *)
Observe ==
  /\ CanObserve /\ stream # <<>>
  /\ latest' = Head(stream) /\ stream' = Tail(stream)
  /\ due' = Notified /\ answer' = "none"
  /\ UNCHANGED <<concurrent, fw, commands, planVars, phase, expired>>

(* request_transition(), up to the release of the condition                *)
Request(tgt) ==
  /\ phase = "free"
  /\ target' = tgt
  /\ IF latest = "none" \/ latest = tgt \/ Command(latest, tgt) = "none"
     THEN /\ answer' = CASE latest = "none" -> "UNAVAILABLE"
                         [] latest = tgt    -> "SUCCESS"
                         [] OTHER           -> "REJECTED"
          /\ UNCHANGED <<basis, command, phase>>
     ELSE /\ basis' = latest /\ command' = Command(latest, tgt)
          /\ phase' = "planned" /\ answer' = "none"
  /\ UNCHANGED <<concurrent, linkVars, latest, due, expired>>

(* send_command() puts the command on the wire and the deadline is set     *)
Send ==
  /\ phase = "planned" /\ Len(commands) <= MaxWire
  /\ commands' = Append(commands, command)
  /\ phase' = "waiting" /\ due' = TRUE /\ expired' = FALSE /\ answer' = "none"
  /\ UNCHANGED <<concurrent, fw, stream, latest, planVars>>

(* send_command() fails: the port is closed                                *)
SendFails ==
  /\ phase = "planned"
  /\ phase' = "free" /\ answer' = "UNAVAILABLE"
  /\ UNCHANGED <<concurrent, linkVars, latest, planVars, due, expired>>

(* What the loop makes of the last state it was shown; "none" to wait on   *)
Verdict ==
  CASE latest = target                                           -> "SUCCESS"
    [] latest # target /\ latest \notin MayPass(basis, target)    -> "REJECTED"
    [] latest \in MayPass(basis, target) \ {target} /\ expired    -> "TIMEOUT"
    [] OTHER                                                     -> "none"

(* The loop comes to an end, or waits                                      *)
Look ==
  /\ phase = "waiting" /\ due
  /\ answer' = Verdict
  /\ phase' = IF answer' = "none" THEN "waiting" ELSE "free"
  /\ due' = FALSE
  /\ expired' = (expired /\ answer' = "none")
  /\ UNCHANGED <<concurrent, linkVars, latest, planVars>>

(* The deadline passes: a wait returns                                     *)
Expire ==
  /\ phase = "waiting" /\ ~expired
  /\ expired' = TRUE /\ due' = TRUE /\ answer' = "none"
  /\ UNCHANGED <<concurrent, linkVars, latest, planVars, phase>>

-----------------------------------------------------------------------------
Link == Boot \/ Obey \/ LoseCommand \/ Fault \/ Stream \/ \E cmd \in OtherCmds : OtherClient(cmd)

Coordinator == \/ Observe \/ Send \/ SendFails \/ Look \/ Expire
               \/ \E tgt \in States : Request(tgt)

Next == Link \/ Coordinator

(* The firmware receives and streams periodically; the coordinator's       *)
(* thread runs and time passes; the spin loop comes back to the drain      *)
(* timer between calls, however many calls are queued.                     *)
Fairness ==
  /\ WF_vars(Boot) /\ WF_vars(Obey) /\ WF_vars(Stream)
  /\ WF_vars(Send) /\ WF_vars(Look) /\ WF_vars(Expire)
  /\ SF_vars(Observe)

Spec == Init /\ [][Next]_vars /\ Fairness

-----------------------------------------------------------------------------
(* Properties.                                                             *)

(* Types, and the bounds of the queues.                                    *)
TypeOK ==
  /\ concurrent \in BOOLEAN
  /\ fw \in States
  /\ commands \in Seq(SysCmds) /\ stream \in Seq(States)
  /\ latest \in States \union {"none"}
  /\ phase \in {"free", "planned", "waiting"} /\ due \in BOOLEAN /\ expired \in BOOLEAN
  /\ target \in States /\ basis \in States
  /\ command \in SysCmds \union {"none"}
  /\ answer \in Answers \union {"none"}

(* Two transition tables agree, one in the firmware and one in the bridge: *)
(* the command the coordinator sends is one the firmware would obey in the *)
(* state it was planned from, it leads to the requested state, and neither *)
(* state ends the wait before its time.                                    *)
PlanAgrees ==
  phase # "free" =>
    /\ command \in SysCmds
    /\ Allowed(basis, Target(command)) /\ Target(command) = target
    /\ {basis, target} \subseteq MayPass(basis, target)

(* A call that waits either has a verdict to come or a condition to wait   *)
(* for: what it has not looked at yet is marked, so no wake-up is lost.    *)
NoLostWakeup ==
  phase = "waiting" /\ ~due => Verdict = "none"

(* What SetFirmwareState.srv says, "waits for streamed /sys_state telemetry *)
(* to confirm completion": no call times out when the telemetry that       *)
(* confirms it has come, and nothing but this call keeps it from being     *)
(* read.  It is violated: the drain timer waits for the call's thread.     *)
ConfirmationIsRead ==
  [][answer' = "TIMEOUT" => CanObserve \/ \A i \in DOMAIN stream : stream[i] # target]_vars

(* A confirmation that arrives with the deadline wins: no call times out   *)
(* when the coordinator has been shown the target, nor one that telemetry  *)
(* has taken off its way.                                                  *)
ConfirmationBeatsDeadline ==
  [][answer' = "TIMEOUT" => latest # target /\ latest \in MayPass(basis, target)]_vars

(* The coordinator learns in the end what the firmware is doing, although  *)
(* calls keep the drain timer from running.                                *)
LatestFollows == \A s \in States : <>[](fw = s) => []<>(latest = s)
=============================================================================
