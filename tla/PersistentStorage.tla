------------------------- MODULE PersistentStorage -------------------------
(***************************************************************************)
(* The EEPROM record of modules/PersistentStorage.cpp: a header (magic and *)
(* version), a byte that marks a calibration valid, and the calibration's  *)
(* floats, the cells.  EEPROM writes take milliseconds, and power can be   *)
(* lost between any two and inside that of a float; each is a step.        *)
(***************************************************************************)
EXTENDS Integers, Sequences

CONSTANTS
  Cals,    (* calibrations that are ever stored                           *)
  Plain,   (* a float of the identity calibration, which corrects nothing *)
  Foreign, (* any other float: of an older layout, or cut short           *)
  Offsets, (* number of floats of the offset                              *)
  NumCells (* number of floats                                            *)

ASSUME CellsAssumption == NumCells \in Nat \ {0} /\ Offsets \in 0..NumCells
ASSUME FloatsAssumption == Plain \notin Cals /\ Foreign \notin Cals /\ Plain # Foreign

VARIABLES
  header,  (* the header is that of this layout                           *)
  valid,   (* the byte magCalValid is 1                                   *)
  cells,   (* the floats                                                  *)
  phase,   (* what is written next                                        *)
  at,      (* the cell written next                                       *)
  value    (* the floats to write                                         *)

storageVars == <<header, valid, cells, phase, at, value>>

Cells == 1..NumCells
Floats == Cals \union {Plain, Foreign}

(* A calibration as floats; here only which calibration they are of counts *)
Whole(c) == [i \in Cells |-> c]
Identity == Whole(Plain)

(* A new chip holds 0xFF everywhere; an older layout could hold anything. *)
StorageInit ==
  /\ header = FALSE /\ valid \in BOOLEAN
  /\ cells = Whole(Foreign)
  /\ phase = "idle" /\ at = 1 /\ value = Identity

(* A faulty variant of the next definition: marked valid first *)
Mut_Follows(put, formatting) ==
  CASE put = "header" -> "invalid"
    [] put = "invalid" -> "cells"
    [] put = "set" -> "valid"
    [] put = "valid" -> "cells"
    [] put = "cells" -> "idle"

(* The order of the writes of init() ("header" first) and of               *)
(* setMagCalibration() ("set" first), which marks the floats valid last    *)
Follows(put, formatting) ==
  CASE put = "header" -> "invalid"
    [] put = "invalid" -> "cells"
    [] put = "set" -> "cells"
    [] put = "cells" -> IF formatting THEN "idle" ELSE "valid"
    [] put = "valid" -> "idle"

(* init(): without the right header the record is formatted, header first *)
Open ==
  /\ phase' = IF header THEN "idle" ELSE "header"
  /\ UNCHANGED <<header, valid, cells, at, value>>

PutHeader ==
  /\ phase = "header"
  /\ header' = TRUE /\ phase' = Follows(phase, TRUE)
  /\ UNCHANGED <<valid, cells, at, value>>

PutInvalid ==
  /\ phase = "invalid"
  /\ valid' = FALSE /\ phase' = Follows(phase, TRUE)
  /\ at' = 1 /\ value' = Identity
  /\ UNCHANGED <<header, cells>>

(* setMagCalibration() *)
Set(floats) ==
  /\ phase' = Follows("set", FALSE)
  /\ at' = 1 /\ value' = floats
  /\ UNCHANGED <<header, valid, cells>>

PutCell(formatting) ==
  /\ phase = "cells"
  /\ cells' = [cells EXCEPT ![at] = value[at]]
  /\ IF at < NumCells THEN at' = at + 1 /\ phase' = phase
                      ELSE at' = at /\ phase' = Follows(phase, formatting)
  /\ UNCHANGED <<header, valid, value>>

PutValid ==
  /\ phase = "valid"
  /\ valid' = TRUE /\ phase' = Follows(phase, FALSE)
  /\ UNCHANGED <<header, cells, at, value>>

(* clearMagCalibration() writes one byte *)
Clear ==
  /\ valid' = FALSE
  /\ UNCHANGED <<header, cells, phase, at, value>>

(* Power is lost; a float that was being written may be neither.  What is  *)
(* reset is dead until the next write.                                     *)
Cut ==
  /\ \/ UNCHANGED cells
     \/ phase = "cells" /\ cells' = [cells EXCEPT ![at] = Foreign]
  /\ phase' = "idle" /\ at' = 1 /\ value' = Identity
  /\ UNCHANGED <<header, valid>>

(* getMagCalibration() returns a calibration, or refuses one: a float of   *)
(* the matrix that is not a number is noticed, one of the offset is not    *)
Loads == valid
Refuses == valid => \E i \in (Offsets + 1)..NumCells : cells[i] = Foreign

StorageTypeOK ==
  /\ header \in BOOLEAN /\ valid \in BOOLEAN
  /\ cells \in [Cells -> Floats] /\ value \in [Cells -> Floats]
  /\ phase \in {"idle", "header", "invalid", "cells", "valid"} /\ at \in Cells
=============================================================================
