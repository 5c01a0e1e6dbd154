---------------------------- MODULE MCSerialLink ----------------------------
(* Two snapshots, of which the bridge polls one.                           *)
EXTENDS SerialLink

MCOrder == <<"info", "pid">>
=============================================================================
