-------------------------- MODULE CalibrationStore --------------------------
(***************************************************************************)
(* What the firmware may rely on when it keeps one magnetometer calibration*)
(* in EEPROM, and what a power loss can leave: a calibration that is stored*)
(* where none was is there entirely or not at all, but one that replaces   *)
(* another, or a record of an older layout that is being formatted, can be *)
(* left torn: a mixture that is taken for a calibration.                   *)
(***************************************************************************)
(* The marks differ from the calibrations and from each other. *)
CONSTANTS
  Cals,    (* calibrations                                          *)
  Nothing, (* no calibration is stored, or none is being stored     *)
  Torn,    (* what is stored is not what anyone stored              *)
  Format   (* instead of a calibration being stored: formatting     *)

VARIABLES
  stored,  (* what a boot would find                                *)
  pending  (* what is being stored                                  *)

vars == <<stored, pending>>

Init == stored = Nothing /\ pending = Nothing

(* A calibration is stored in steps: Begin, perhaps Tear or Land, Done.    *)
Begin(c) ==
  /\ pending = Nothing
  /\ pending' = c
  /\ UNCHANGED stored

Tear ==
  /\ pending = Format \/ (pending \in Cals /\ stored # Nothing)
  /\ stored' = Torn
  /\ UNCHANGED pending

Land ==
  /\ pending \in Cals
  /\ stored' = pending
  /\ UNCHANGED pending

Done ==
  /\ pending # Nothing /\ pending' = Nothing
  /\ stored' = IF pending = Format THEN Nothing ELSE pending

(* Formatting ends with an empty record; clearing takes one step. *)
Erase ==
  /\ pending \notin Cals
  /\ stored' = Nothing
  /\ UNCHANGED pending

(* Power is lost: what was being stored is forgotten; a write that was cut *)
(* short tears a record that is taken for a calibration.                   *)
Abort ==
  /\ pending' = Nothing
  /\ \/ UNCHANGED stored
     \/ pending \in Cals /\ stored # Nothing /\ stored' = Torn

Next == (\E c \in Cals \union {Format} : Begin(c)) \/ Tear \/ Land \/ Done \/ Erase \/ Abort

Spec == Init /\ [][Next]_vars
=============================================================================
