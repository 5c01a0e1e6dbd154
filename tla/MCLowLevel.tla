----------------------------- MODULE MCLowLevel -----------------------------
(* Three modules checked in one run: the motor pipeline, loop() and the    *)
(* codec.  They share no variable and their properties speak of one each,  *)
(* so a behaviour takes the steps of one of them.                          *)
EXTENDS MotorControl, Scheduler, FrameCodec, Crc16

VARIABLE part  (* the module whose steps are taken *)

lowLevelVars == <<vars, loopVars, codecVars, part>>

MCPriority == <<0, 1, 2, 3, 4, 7>>
MCPeriod == <<2, 2, 1, 2, 4, 5>>

MCMessages == {
  << [type |-> 1, data |-> <<7>>] >>,
  << [type |-> 170, data |-> <<>>], [type |-> 2, data |-> <<170, 85>>] >>,
  << [type |-> 3, data |-> <<170, 85, 90, 165, 14, 0>>] >> }
MCNone == << [type |-> 0, data |-> <<>>] >>

LowLevelInit ==
  /\ part \in {"motors", "loop", "codec"}
  /\ Init /\ LoopInit /\ CodecInit
  /\ part # "codec" => to = "firmware"

LowLevelNext ==
  /\ UNCHANGED part
  /\ \/ part = "motors" /\ Next /\ UNCHANGED <<loopVars, codecVars>>
     \/ part = "loop" /\ LoopNext /\ UNCHANGED <<vars, codecVars>>
     \/ part = "codec" /\ CodecNext /\ UNCHANGED <<vars, loopVars>>

LowLevelSpec == LowLevelInit /\ [][LowLevelNext]_lowLevelVars
=============================================================================
