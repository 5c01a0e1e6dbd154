------------------------------ MODULE SystemFsm ------------------------------
(***************************************************************************)
(* The transition table of the firmware's state machine, SystemManager.cpp *)
(* requestTransition(), shared by the firmware and by the bridge that      *)
(* watches it.                                                             *)
(***************************************************************************)
States == {"INIT", "IDLE", "RUNNING", "ERROR", "ESTOP"}
SysCmds == {"START", "STOP", "RESET", "ESTOP"}

(* requestTransition(new) succeeds in state cur.  Its ERROR row is never   *)
(* used: faults are forced with forceState().                              *)
Allowed(cur, new) ==
  \/ new = "IDLE" /\ cur # "IDLE"
  \/ new = "RUNNING" /\ cur = "IDLE"
  \/ new = "ESTOP"

(* The state each SYS_CMD asks for: STOP and RESET ask for the same one.   *)
Target(cmd) == CASE cmd = "START" -> "RUNNING"
                 [] cmd = "ESTOP" -> "ESTOP"
                 [] OTHER         -> "IDLE"
=============================================================================
