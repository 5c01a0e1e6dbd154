----------------------------- MODULE LossyLink -----------------------------
(***************************************************************************)
(* What the framing promises of a line that may lose or alter bytes: only  *)
(* a message that was upset may be lost; what is delivered is the message  *)
(* that is being sent, or the lost one that was sent before it, unaltered  *)
(* and once.                                                               *)
(***************************************************************************)
CONSTANTS Messages, None

VARIABLES
  current, (* the message on the line, or None                              *)
  upset,   (* it was disturbed, or the receiver was not ready for it        *)
  got,     (* what was delivered since it was sent, or None                 *)
  late     (* the message before it, if that was not delivered, or None     *)

lvars == <<current, upset, got, late>>

Init == current = None /\ upset = FALSE /\ got = None /\ late = None

Send(m) ==
  /\ current = None
  /\ current' = m /\ upset' \in BOOLEAN /\ got' = None
  /\ UNCHANGED late

Disturb ==
  /\ current # None
  /\ upset' = TRUE
  /\ UNCHANGED <<current, got, late>>

Deliver ==
  /\ current # None /\ got = None
  /\ \/ got' = current /\ UNCHANGED late
     \/ upset /\ late # None /\ got' = late /\ late' = None
  /\ UNCHANGED <<current, upset>>

\* The end of a message; a delivery or a disturbance may coincide with it.
End ==
  /\ current # None
  /\ current' = None /\ upset' \in {upset, TRUE}
  /\ got' = got \/ (got = None /\ got' \in {current, late})
  /\ late' = IF got' = current THEN None ELSE current
  /\ upset' \/ got' = current

Next == Disturb \/ Deliver \/ End \/ \E m \in Messages : Send(m)

Spec == Init /\ [][Next]_lvars
=============================================================================
