---------------------------- MODULE MCTelemetry ----------------------------
(* Three replies of which two fit in a frame, and a short superframe.      *)
EXTENDS Telemetry

MCReplyOrder == <<"info", "config", "pid">>
MCReplySize == [info |-> 2, config |-> 1, pid |-> 3]
MCSuperframe == <<{"io"}, {"dc"}>>

=============================================================================
