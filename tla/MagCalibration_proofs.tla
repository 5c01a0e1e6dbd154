----------------------- MODULE MagCalibration_proofs -----------------------
(***************************************************************************)
(* Proofs about the magnetometer calibration, for any calibrations, number *)
(* of floats and bounds.                                                   *)
(***************************************************************************)
EXTENDS MagCalibration, TLAPS

USE CellsAssumption, FloatsAssumption, SamplesAssumption, BoundsAssumption

-----------------------------------------------------------------------------
(* Facts about the data.                                                   *)

LEMMA CellFacts ==
  /\ 1 \in Cells /\ NumCells \in Cells
  /\ \A i \in Cells : i < NumCells => i + 1 \in Cells
  /\ \A i \in Cells : i \in Int /\ (~(i < NumCells) => i = NumCells)
  BY DEF Cells

LEMMA FloatFacts == Cals \subseteq Floats /\ Plain \in Floats /\ Foreign \in Floats
  BY DEF Floats

LEMMA WholeType == \A f \in Floats : Whole(f) \in [Cells -> Floats]
  BY DEF Whole

LEMMA WholeAt == \A f : \A i \in Cells : Whole(f)[i] = f
  BY DEF Whole

LEMMA IdentityType == Identity \in [Cells -> Floats]
  BY WholeType, FloatFacts DEF Identity

LEMMA WholeIsSome == \A f : Whole(f) # None
<1> SUFFICES ASSUME NEW f, Whole(f) = None PROVE FALSE
  OBVIOUS
<1>1. DOMAIN Whole(f) = Cells
  BY DEF Whole
<1>2. DOMAIN None = 1..0
  BY DEF None
<1>3. 1 \notin 1..0
  OBVIOUS
<1> QED
  BY <1>1, <1>2, <1>3, CellFacts

LEMMA WholeApart == \A f, g : Whole(f) = Whole(g) => f = g
  BY WholeAt, CellFacts

LEMMA SameRecord ==
  ASSUME NEW f \in [Cells -> Floats], NEW g \in [Cells -> Floats], \A i \in Cells : f[i] = g[i]
  PROVE  f = g
  OBVIOUS

-----------------------------------------------------------------------------
(* Types, in parts.                                                        *)

Phases == {"idle", "header", "invalid", "cells", "valid"}

Flags ==
  /\ header \in BOOLEAN /\ valid \in BOOLEAN /\ report \in BOOLEAN
  /\ sampling \in BOOLEAN /\ sent \in BOOLEAN /\ mixed \in BOOLEAN
  /\ upset \in BOOLEAN /\ tainted \in BOOLEAN

Records ==
  /\ cells \in [Cells -> Floats] /\ value \in [Cells -> Floats]
  /\ active \in [Cells -> Floats] /\ previous \in [Cells -> Floats]
  /\ backup \in [Cells -> Floats] \union {None}

Marks ==
  /\ phase \in Phases /\ at \in Cells
  /\ task \in {"off", "init", "apply", "free"} /\ sys \in {"IDLE", "BUSY"}
  /\ mag \in {"none", "blind", "works"}
  /\ state \in States /\ samples \in 0..MinSamples
  /\ age \in 0..MaxAge /\ asks \in 0..MaxAsks

Queues ==
  /\ slot \in Commands \union {None}
  /\ down \in Seq(Commands) /\ up \in Seq(Frames)

LEMMA Parts == TypeOK <=> Flags /\ Records /\ Marks /\ Queues
  BY DEF TypeOK, StorageTypeOK, Flags, Records, Marks, Queues, Phases

LEMMA InitType == Init => TypeOK
<1> SUFFICES ASSUME Init PROVE TypeOK
  OBVIOUS
<1>1. Flags
  BY Zenon DEF Init, StorageInit, Flags
<1>2. Records
  BY IdentityType, WholeType, FloatFacts DEF Init, StorageInit, Records
<1>3. Marks
  BY CellFacts DEF Init, StorageInit, Marks, Phases, States
<1>4. Queues
  BY DEF Init, Queues
<1> QED
  BY <1>1, <1>2, <1>3, <1>4, Parts

LEMMA FlagsStep == TypeOK /\ [Next]_vars => Flags'
<1> SUFFICES ASSUME Flags, [Next]_vars PROVE Flags'
  BY Parts
<1> USE DEF Flags
<1>1. CASE PowerOn
  BY <1>1, Zenon DEF PowerOn, Open, storageVars, bootVars, deferVars, calVars, hostVars
<1>2. CASE Boot
  BY <1>2, Zenon DEF Boot, storageVars, bootVars, deferVars, calVars, hostVars
<1>3. CASE Put
  BY <1>3, Zenon DEF Put, PutHeader, PutInvalid, PutCell, PutValid, bootVars, deferVars, calVars, hostVars
<1>4. CASE PowerLoss
  BY <1>4, Zenon DEF PowerLoss, Cut, hostVars
<1>5. CASE Receive
  <2>1. upset' \in BOOLEAN
    BY <1>5, Zenon DEF Receive
  <2> QED
    BY <1>5, <2>1, Zenon DEF Receive, storageVars, bootVars, calVars, hostVars
<1>6. CASE SysStart
  BY <1>6, Zenon DEF SysStart, storageVars, deferVars, calVars, hostVars
<1>7. CASE SysHalt
  <2>1. upset' \in BOOLEAN
    BY <1>7, Zenon DEF SysHalt
  <2> QED
    BY <1>7, <2>1, Zenon DEF SysHalt, storageVars, calVars, hostVars
<1>8. CASE Deferred
  <2>1. upset' \in BOOLEAN
    BY <1>8, Zenon DEF Deferred
  <2>2. header' \in BOOLEAN /\ valid' \in BOOLEAN /\ report' \in BOOLEAN
    BY <1>8, Zenon DEF Deferred, StartSampling, StopSampling, SaveFails, ApplyCalibration, ClearCalibration,
                       Set, Clear, storageVars
  <2> QED
    BY <1>8, <2>1, <2>2, Zenon DEF Deferred, hostVars
<1>9. CASE Applied
  BY <1>9, Zenon DEF Applied, storageVars, hostVars
<1>10. CASE Sample
  BY <1>10, Zenon DEF Sample, storageVars, deferVars, hostVars
<1>11. CASE Send
  BY <1>11, Zenon DEF Send, storageVars, hostVars
<1>12. CASE Observe
  <2>1. UNCHANGED <<storageVars, deferVars, upset>>
    BY <1>12 DEF Observe
  <2>2. CASE ObserveStatus
    BY <2>1, <2>2, Zenon DEF ObserveStatus, Forget, storageVars, deferVars
  <2>3. CASE ObserveImu
    <3> DEFINE dirty == mixed \/ Head(up) = "corrected"
    <3>1. dirty \in BOOLEAN /\ (tainted \/ dirty) \in BOOLEAN
      BY Zenon
    <3>2. sampling' \in BOOLEAN /\ sent' \in BOOLEAN /\ mixed' \in BOOLEAN /\ tainted' \in BOOLEAN
      BY <2>3, <3>1, Zenon DEF ObserveImu, Forget, hostVars
    <3> QED
      BY <2>1, <3>2, Zenon DEF storageVars, deferVars
  <2> QED
    BY <1>12, <2>2, <2>3 DEF Observe
<1>13. CASE Reconnect
  BY <1>13, Zenon DEF Reconnect, Forget, storageVars, deferVars
<1>14. CASE Ask \/ Lose \/ UNCHANGED vars
  BY <1>14, Zenon DEF Ask, Lose, vars, storageVars, deferVars, hostVars
<1> QED
  BY <1>1, <1>2, <1>3, <1>4, <1>5, <1>6, <1>7, <1>8, <1>9, <1>10, <1>11, <1>12, <1>13, <1>14 DEF Next

\* A record of floats that a handler moves about stays one.
LEMMA RecordsStep == TypeOK /\ [Next]_vars => Records'
<1> SUFFICES ASSUME Records, Marks, [Next]_vars PROVE Records'
  BY Parts
<1> USE IdentityType DEF Records
<1>1. CASE PowerOn
  BY <1>1 DEF PowerOn, Open, calVars
<1>2. CASE Boot
  BY <1>2 DEF Boot, storageVars
<1>3. CASE Put
  <2>1. CASE PutHeader \/ PutInvalid \/ PutValid
    BY <1>3, <2>1 DEF Put, PutHeader, PutInvalid, PutValid, calVars
  <2>2. CASE PutCell(task = "init")
    <3>1. cells' \in [Cells -> Floats] /\ value' = value
      BY <2>2 DEF PutCell, Marks
    <3> QED
      BY <1>3, <3>1 DEF Put, calVars
  <2> QED
    BY <1>3, <2>1, <2>2 DEF Put
<1>4. CASE PowerLoss
  <2>1. cells' \in [Cells -> Floats]
    BY <1>4, FloatFacts DEF PowerLoss, Cut, Marks
  <2> QED
    BY <1>4, <2>1 DEF PowerLoss, Cut
<1>5. CASE Deferred
  <2>1. CASE StartSampling
    BY <2>1 DEF StartSampling, BackedUp, storageVars
  <2>2. CASE StopSampling
    BY <2>2 DEF StopSampling, storageVars
  <2>3. CASE SaveFails
    BY <2>3 DEF SaveFails, storageVars
  <2>4. CASE ApplyCalibration
    BY <2>4, WholeType, FloatFacts DEF ApplyCalibration, Set
  <2>5. CASE ClearCalibration
    BY <2>5 DEF ClearCalibration, Clear, DropBackup
  <2> QED
    BY <1>5, <2>1, <2>2, <2>3, <2>4, <2>5 DEF Deferred
<1>6. CASE Applied
  BY <1>6 DEF Applied, DropBackup, storageVars
<1>7. CASE UNCHANGED <<cells, value, active, previous, backup>>
  BY <1>7
<1> QED
  BY <1>1, <1>2, <1>3, <1>4, <1>5, <1>6, <1>7
     DEF Next, Receive, SysStart, SysHalt, Sample, Send, Observe, Reconnect, Ask, Lose, vars, storageVars, calVars

LEMMA MarksStep == TypeOK /\ [Next]_vars => Marks'
<1> SUFFICES ASSUME Marks, [Next]_vars PROVE Marks'
  BY Parts
<1> USE DEF Marks
<1>1. CASE PowerOn
  BY <1>1 DEF PowerOn, Open, deferVars, calVars, hostVars, Phases
<1>2. CASE Boot
  BY <1>2 DEF Boot, storageVars, hostVars, States
<1>3. CASE Put
  <2>1. phase' \in Phases /\ at' \in Cells
    BY <1>3, CellFacts DEF Put, PutHeader, PutInvalid, PutCell, PutValid, Follows, Phases
  <2> QED
    BY <1>3, <2>1 DEF Put, bootVars, calVars, hostVars
<1>4. CASE PowerLoss
  BY <1>4, CellFacts DEF PowerLoss, Cut, hostVars, States, Phases
<1>5. CASE SysStart \/ SysHalt
  BY <1>5 DEF SysStart, SysHalt, storageVars, calVars, hostVars
<1>6. CASE Deferred
  <2>1. CASE StartSampling \/ StopSampling \/ SaveFails
    BY <1>6, <2>1 DEF Deferred, StartSampling, StopSampling, SaveFails, storageVars, hostVars, States
  <2>2. CASE ApplyCalibration
    BY <1>6, <2>2, CellFacts DEF Deferred, ApplyCalibration, Set, Follows, hostVars, Phases
  <2>3. CASE ClearCalibration
    BY <1>6, <2>3 DEF Deferred, ClearCalibration, Clear, hostVars, States
  <2> QED
    BY <1>6, <2>1, <2>2, <2>3 DEF Deferred
<1>7. CASE Applied \/ Sample
  BY <1>7 DEF Applied, Sample, storageVars, bootVars, hostVars, States
<1>8. CASE Observe
  <2>1. age' \in 0..MaxAge
    <3>1. CASE ObserveStatus
      BY <3>1 DEF ObserveStatus, Forget
    <3>2. CASE ObserveImu
      <4>1. "wait" \in Verdicts(age + 1) => age + 1 \in 0..MaxAge
        BY DEF Verdicts
      <4> QED
        BY <3>2, <4>1 DEF ObserveImu, Forget, hostVars
    <3> QED
      BY <1>8, <3>1, <3>2 DEF Observe
  <2> QED
    BY <1>8, <2>1 DEF Observe, storageVars, bootVars, calVars
<1>9. CASE Reconnect
  BY <1>9 DEF Reconnect, Forget, storageVars, bootVars, calVars
<1>10. CASE Ask
  BY <1>10 DEF Ask, storageVars, bootVars, calVars, hostVars
<1>11. CASE Receive \/ Send \/ Lose \/ UNCHANGED vars
  BY <1>11 DEF Receive, Send, Lose, vars, storageVars, bootVars, calVars, hostVars
<1> QED
  BY <1>1, <1>2, <1>3, <1>4, <1>5, <1>6, <1>7, <1>8, <1>9, <1>10, <1>11 DEF Next

LEMMA CommandFacts ==
  /\ \A c \in Cals : Apply(c) \in Commands
  /\ \A n \in {"START", "STOP", "SAVE", "CLEAR"} : Command(n) \in Commands
  /\ States \subseteq Frames /\ {"raw", "corrected", "zero"} \subseteq Frames
  BY DEF Commands, Frames

LEMMA QueuesStep == TypeOK /\ [Next]_vars => Queues'
<1> SUFFICES ASSUME Queues, state \in States, [Next]_vars PROVE Queues'
  BY Parts DEF Marks
<1> USE DEF Queues
<1>1. CASE Receive
  BY <1>1 DEF Receive
<1>2. CASE Send
  <2>1. \E f \in Frames : up' = Append(up, f)
    <3>1. state \in Frames /\ Reading \in Frames
      BY CommandFacts DEF Reading
    <3> QED
      BY <1>2, <3>1, Zenon DEF Send
  <2>2. UNCHANGED <<slot, down>>
    BY <1>2 DEF Send
  <2> QED
    BY <2>1, <2>2
<1>3. CASE Observe
  <2>1. up' \in Seq(Frames) /\ UNCHANGED slot
    BY <1>3 DEF Observe, deferVars
  <2>2. down' \in Seq(Commands)
    <3>1. CASE ObserveStatus
      BY <3>1 DEF ObserveStatus
    <3>2. CASE ObserveImu
      <4>1. \A c \in Cals : Append(down, Apply(c)) \in Seq(Commands)
        BY CommandFacts
      <4>2. Append(down, Command("STOP")) \in Seq(Commands)
        BY CommandFacts
      <4> QED
        BY <3>2, <4>1, <4>2 DEF ObserveImu
    <3> QED
      BY <1>3, <3>1, <3>2 DEF Observe
  <2> QED
    BY <2>1, <2>2
<1>4. CASE Ask
  BY <1>4, CommandFacts DEF Ask, deferVars
<1>5. CASE Lose
  <2>1. CASE down # <<>> /\ down' = Tail(down) /\ up' = up
    <3>1. Tail(down) \in Seq(Commands)
      BY <2>1
    <3> QED
      BY <1>5, <2>1, <3>1, Zenon DEF Lose, deferVars
  <2>2. CASE up # <<>> /\ up' = Tail(up) /\ down' = down
    <3>1. Tail(up) \in Seq(Frames)
      BY <2>2
    <3> QED
      BY <1>5, <2>2, <3>1, Zenon DEF Lose, deferVars
  <2> QED
    BY <1>5, <2>1, <2>2, Zenon DEF Lose
<1>6. CASE PowerLoss \/ SysHalt \/ Deferred \/ Reconnect
  <2>1. <<>> \in Seq(Commands) /\ <<>> \in Seq(Frames)
    OBVIOUS
  <2>2. slot' \in {slot, None} /\ down' \in {down, <<>>} /\ up' \in {up, <<>>}
    BY <1>6 DEF PowerLoss, SysHalt, Deferred, Reconnect, deferVars
  <2> QED
    BY <2>1, <2>2
<1>7. CASE UNCHANGED <<slot, down, up>>
  BY <1>7
<1> QED
  BY <1>1, <1>2, <1>3, <1>4, <1>5, <1>6, <1>7
     DEF Next, PowerOn, Boot, Put, SysStart, Applied, Sample, vars, deferVars

LEMMA TypeStep == TypeOK /\ [Next]_vars => TypeOK'
<1>1. Flags' /\ Records' /\ Marks' /\ Queues' => TypeOK'
  BY DEF TypeOK, StorageTypeOK, Flags, Records, Marks, Queues, Phases
<1> QED
  BY <1>1, FlagsStep, RecordsStep, MarksStep, QueuesStep

(* Every variable keeps its type, for any bounds. *)
THEOREM Types == Spec => []TypeOK
  BY InitType, TypeStep, PTL DEF Spec

-----------------------------------------------------------------------------
(* What each task leaves in the record, between any two writes.            *)

Wholes == {Whole(c) : c \in Cals}

Settled == task \in {"off", "free"} => phase = "idle"

\* setup() formats a record that is not of this layout, and has loaded nothing.
Booting ==
  /\ task \in {"off", "init"} => value = Identity /\ backup = None /\ state = "IDLE"
  /\ task = "init" =>
       /\ phase # "valid"
       /\ phase # "header" => header
       /\ phase = "cells" => ~valid
  /\ ~header => cells = Whole(Foreign)

\* A calibration being stored is the one in use; the cells before `at` hold it.
Storing ==
  task = "apply" =>
    /\ header /\ value = active /\ value \in Wholes
    /\ phase \in {"idle", "cells", "valid"}
    /\ phase = "cells" => \A i \in Cells : i < at => cells[i] = value[i]
    /\ phase # "cells" => cells = value
    /\ phase = "idle" => valid

\* What a running firmware restores is what is stored, as is what it reports.
Kept ==
  task = "free" =>
    /\ header
    /\ backup # None => valid /\ cells = backup
    /\ state = "SAVED" => valid /\ cells = active

RecordInv == Settled /\ Booting /\ Storing /\ Kept

LEMMA RecordInit == Init => RecordInv
  BY DEF Init, StorageInit, RecordInv, Settled, Booting, Storing, Kept

\* A write of setup().
LEMMA PutFormat ==
  ASSUME TypeOK, RecordInv, Put, task = "init"
  PROVE  RecordInv'
<1>1. task' = "init" /\ UNCHANGED <<backup, state>>
  BY DEF Put, bootVars, calVars
<1>2. CASE PutHeader
  BY <1>1, <1>2 DEF PutHeader, Follows, RecordInv, Settled, Booting, Storing, Kept
<1>3. CASE PutInvalid
  BY <1>1, <1>3 DEF PutInvalid, Follows, RecordInv, Settled, Booting, Storing, Kept
<1>4. CASE PutCell(task = "init")
  <2>1. phase = "cells" /\ UNCHANGED <<header, valid, value>>
    BY <1>4 DEF PutCell
  <2>2. phase' \in {"cells", "idle"}
    BY <1>4, <2>1 DEF PutCell, Follows
  <2>3. header /\ ~valid /\ value = Identity /\ backup = None /\ state = "IDLE"
    BY <2>1 DEF RecordInv, Booting
  <2> QED
    BY <1>1, <2>1, <2>2, <2>3 DEF RecordInv, Settled, Booting, Storing, Kept
<1>5. ~PutValid
  <2>1. phase # "valid"
    BY DEF RecordInv, Booting
  <2> QED
    BY <2>1 DEF PutValid
<1> QED
  BY <1>2, <1>3, <1>4, <1>5 DEF Put

\* A write of a calibration.
LEMMA PutStore ==
  ASSUME TypeOK, RecordInv, Put, task = "apply"
  PROVE  RecordInv'
<1>1. task' = "apply" /\ UNCHANGED <<active, backup, state>>
  BY DEF Put, bootVars, calVars
<1>2. CASE PutHeader \/ PutInvalid
  BY <1>2 DEF PutHeader, PutInvalid, RecordInv, Storing
<1>3. CASE PutCell(task = "init")
  <2>1. /\ phase = "cells" /\ UNCHANGED <<header, valid, value>>
        /\ cells' = [cells EXCEPT ![at] = value[at]]
    BY <1>3 DEF PutCell
  <2>2. at \in Cells /\ at \in Int /\ cells \in [Cells -> Floats] /\ value \in [Cells -> Floats]
    BY CellFacts, Parts DEF Marks, Records
  <2>3. \A i \in Cells : i < at \/ i = at => cells'[i] = value[i]
    BY <2>1, <2>2 DEF RecordInv, Storing
  <2>4. CASE at < NumCells
    <3>1. at' = at + 1 /\ phase' = "cells"
      BY <1>3, <2>4 DEF PutCell
    <3>2. \A i \in Cells : i < at + 1 => i < at \/ i = at
      BY <2>2, CellFacts
    <3> QED
      BY <1>1, <2>1, <2>3, <3>1, <3>2 DEF RecordInv, Settled, Booting, Storing, Kept
  <2>5. CASE ~(at < NumCells)
    <3>1. phase' = "valid"
      BY <1>3, <2>5, <2>1 DEF PutCell, Follows
    <3>2. \A i \in Cells : i < at \/ i = at
      BY <2>2, <2>5, CellFacts DEF Cells
    <3>3. cells' \in [Cells -> Floats] /\ \A i \in Cells : cells'[i] = value[i]
      BY <2>1, <2>2, <2>3, <3>2
    <3>4. cells' = value
      BY <3>3, <2>2, SameRecord
    <3> QED
      BY <1>1, <2>1, <3>1, <3>4 DEF RecordInv, Settled, Booting, Storing, Kept
  <2> QED
    BY <2>4, <2>5
<1>4. CASE PutValid
  BY <1>1, <1>4 DEF PutValid, Follows, RecordInv, Settled, Booting, Storing, Kept
<1> QED
  BY <1>2, <1>3, <1>4 DEF Put

LEMMA RecordStep == TypeOK /\ RecordInv /\ [Next]_vars => RecordInv'
<1> SUFFICES ASSUME TypeOK, RecordInv, [Next]_vars PROVE RecordInv'
  OBVIOUS
<1>1. CASE UNCHANGED <<storageVars, task, state, active, backup>>
  BY <1>1 DEF storageVars, RecordInv, Settled, Booting, Storing, Kept
<1>2. CASE PowerOn
  BY <1>2 DEF PowerOn, Open, calVars, RecordInv, Settled, Booting, Storing, Kept
<1>3. CASE Boot
  <2>1. phase = "idle" /\ task' = "free" /\ UNCHANGED <<storageVars, backup>>
    BY <1>3 DEF Boot
  <2>2. header /\ backup = None /\ state = "IDLE"
    BY <1>3, <2>1 DEF Boot, RecordInv, Booting
  <2>3. state' = "SAVED" => valid /\ active' = cells
    BY <1>3, <2>2 DEF Boot, Loads
  <2> QED
    BY <2>1, <2>2, <2>3 DEF storageVars, RecordInv, Settled, Booting, Storing, Kept
<1>4. CASE Put
  BY <1>4, PutFormat, PutStore DEF Put
<1>5. CASE PowerLoss
  <2>1. task \in {"off", "init", "apply", "free"}
    BY Parts DEF Marks
  <2>2. phase = "cells" => header
    BY <2>1 DEF RecordInv, Settled, Booting, Storing, Kept
  <2>3. ~header => UNCHANGED cells
    BY <1>5, <2>2 DEF PowerLoss, Cut
  <2> QED
    BY <1>5, <2>3 DEF PowerLoss, Cut, RecordInv, Settled, Booting, Storing, Kept
<1>6. CASE Deferred
  <2>1. task = "free" /\ phase = "idle" /\ header
    BY <1>6 DEF Deferred, RecordInv, Settled, Kept
  <2>2. CASE StartSampling
    BY <2>1, <2>2 DEF StartSampling, BackedUp, storageVars, RecordInv, Settled, Booting, Storing, Kept
  <2>3. CASE StopSampling
    BY <2>1, <2>3 DEF StopSampling, storageVars, RecordInv, Settled, Booting, Storing, Kept
  <2>4. CASE SaveFails
    BY <2>1, <2>4 DEF SaveFails, storageVars, RecordInv, Settled, Booting, Storing, Kept
  <2>5. CASE ApplyCalibration
    <3>1. /\ task' = "apply" /\ phase' = "cells" /\ at' = 1 /\ UNCHANGED <<header, valid, cells>>
          /\ value' = active' /\ value' \in Wholes
      BY <2>5 DEF ApplyCalibration, Set, Follows, Wholes
    <3>2. \A i \in Cells : ~(i < 1)
      BY DEF Cells
    <3> QED
      BY <2>1, <3>1, <3>2 DEF RecordInv, Settled, Booting, Storing, Kept
  <2>6. CASE ClearCalibration
    BY <2>1, <2>6 DEF ClearCalibration, Clear, DropBackup, RecordInv, Settled, Booting, Storing, Kept
  <2> QED
    BY <1>6, <2>2, <2>3, <2>4, <2>5, <2>6 DEF Deferred
<1>7. CASE Applied
  BY <1>7 DEF Applied, DropBackup, storageVars, RecordInv, Settled, Booting, Storing, Kept
<1> QED
  BY <1>1, <1>2, <1>3, <1>4, <1>5, <1>6, <1>7
     DEF Next, Receive, SysStart, SysHalt, Sample, Send, Observe, Reconnect, Ask, Lose, vars, bootVars, calVars

LEMMA RecordHolds == Spec => [](TypeOK /\ RecordInv)
  BY InitType, TypeStep, RecordInit, RecordStep, PTL DEF Spec

(* A calibration reported SAVED is the one a boot would find. *)
THEOREM SavedStored == Spec => []SavedIsStored
<1>1. RecordInv => SavedIsStored
  BY DEF RecordInv, Kept, SavedIsStored
<1> QED
  BY RecordHolds, <1>1, PTL

-----------------------------------------------------------------------------
(* What the controller fits.  A status other than SAMPLING closes its      *)
(* session.  It is deaf after the first n frames under way when every      *)
(* session, its own or one that a SAMPLING among them opens, is closed by  *)
(* one of them.                                                            *)
Closing == {"IDLE", "SAVED", "ERROR"}

Deaf(q, open, n) ==
  /\ open => \E j \in 1..n : q[j] \in Closing
  /\ \A k \in 1..n : q[k] = "SAMPLING" => \E j \in (k + 1)..n : q[j] \in Closing

(* No corrected sample reaches a controller that could use it, and none can*)
(* be sent to one: what is sent first when a session ended is its end.     *)
Announced ==
  /\ \A n \in 1..Len(up) : up[n] = "corrected" => Deaf(up, sampling, n - 1)
  /\ state # "SAMPLING" /\ ~report => Deaf(up, sampling, Len(up))

(* The strengthening of FitsAreRaw: while it samples the firmware corrects *)
(* nothing.                                                                *)
RawInv ==
  /\ task \in {"off", "init"} => state # "SAMPLING"
  /\ task = "free" /\ state = "SAMPLING" => active = Identity
  /\ ~upset => ~tainted /\ ~mixed /\ Announced

LEMMA DeafAppend ==
  ASSUME NEW q \in Seq(Frames), NEW open \in BOOLEAN, NEW f \in Frames
  PROVE  /\ \A n \in 0..Len(q) : Deaf(q, open, n) => Deaf(Append(q, f), open, n)
         /\ f # "SAMPLING" /\ Deaf(q, open, Len(q)) => Deaf(Append(q, f), open, Len(q) + 1)
         /\ f \in Closing => Deaf(Append(q, f), open, Len(q) + 1)
<1> DEFINE r == Append(q, f)
<1>1. /\ Len(r) = Len(q) + 1 /\ r[Len(q) + 1] = f
      /\ \A i \in 1..Len(q) : r[i] = q[i]
  OBVIOUS
<1>2. Len(q) \in Nat
  OBVIOUS
<1> HIDE DEF r
<1>3. ASSUME NEW n \in 0..Len(q), Deaf(q, open, n)
      PROVE  Deaf(r, open, n)
  BY <1>1, <1>2, <1>3 DEF Deaf
<1>4. ASSUME f # "SAMPLING", Deaf(q, open, Len(q))
      PROVE  Deaf(r, open, Len(q) + 1)
  <2>1. ASSUME NEW k \in 1..(Len(q) + 1), r[k] = "SAMPLING"
        PROVE  \E j \in (k + 1)..(Len(q) + 1) : r[j] \in Closing
    BY <1>1, <1>2, <1>4, <2>1 DEF Deaf
  <2>2. open => \E j \in 1..(Len(q) + 1) : r[j] \in Closing
    BY <1>1, <1>2, <1>4 DEF Deaf
  <2> QED
    BY <2>1, <2>2 DEF Deaf
<1>5. ASSUME f \in Closing
      PROVE  Deaf(r, open, Len(q) + 1)
  <2>1. Len(q) + 1 \in 1..(Len(q) + 1) /\ r[Len(q) + 1] \in Closing
    BY <1>1, <1>2, <1>5
  <2>2. ASSUME NEW k \in 1..(Len(q) + 1), r[k] = "SAMPLING"
        PROVE  Len(q) + 1 \in (k + 1)..(Len(q) + 1)
    BY <1>1, <1>2, <1>5, <2>2 DEF Closing
  <2> QED
    BY <2>1, <2>2 DEF Deaf
<1> QED
  BY <1>3, <1>4, <1>5 DEF r

LEMMA DeafTail ==
  ASSUME NEW q \in Seq(Frames), q # <<>>, NEW open \in BOOLEAN, NEW still \in BOOLEAN,
         Head(q) \in Closing => ~still,
         Head(q) # "SAMPLING" /\ ~open => ~still,
         NEW n \in 1..Len(q), Deaf(q, open, n)
  PROVE  Deaf(Tail(q), still, n - 1)
<1> DEFINE r == Tail(q)
<1>1. Len(q) \in Nat /\ n \in Nat /\ n <= Len(q) /\ Head(q) = q[1]
  OBVIOUS
<1>2. \A i \in 1..(n - 1) : r[i] = q[i + 1]
  OBVIOUS
<1> HIDE DEF r
<1>3. ASSUME still
      PROVE  \E j \in 1..(n - 1) : r[j] \in Closing
  <2>1. q[1] \notin Closing /\ (open \/ q[1] = "SAMPLING")
    BY <1>1, <1>3
  <2>2. PICK j \in 1..n : q[j] \in Closing
    BY <2>1, <1>1 DEF Deaf
  <2>3. j - 1 \in 1..(n - 1) /\ r[j - 1] = q[j]
    BY <1>1, <1>2, <2>1, <2>2
  <2> QED
    BY <2>2, <2>3
<1>4. ASSUME NEW k \in 1..(n - 1), r[k] = "SAMPLING"
      PROVE  \E j \in (k + 1)..(n - 1) : r[j] \in Closing
  <2>1. k + 1 \in 1..n /\ q[k + 1] = "SAMPLING"
    BY <1>1, <1>2, <1>4
  <2>2. PICK j \in (k + 2)..n : q[j] \in Closing
    BY <2>1 DEF Deaf
  <2>3. j - 1 \in (k + 1)..(n - 1) /\ r[j - 1] = q[j]
    BY <1>1, <1>2, <2>2
  <2> QED
    BY <2>2, <2>3
<1> QED
  BY <1>3, <1>4 DEF Deaf, r

LEMMA RawInit == Init => RawInv
<1> SUFFICES ASSUME Init PROVE RawInv
  OBVIOUS
<1>1. up = <<>> /\ Len(up) = 0 /\ ~sampling
  BY DEF Init
<1>2. Announced
  BY <1>1 DEF Announced, Deaf
<1>3. state = "IDLE" /\ task = "off" /\ ~tainted /\ ~mixed
  BY Zenon DEF Init
<1> QED
  BY <1>2, <1>3 DEF RawInv

\* The firmware corrects nothing while it samples.
LEMMA SamplingIsRaw ==
  ASSUME TypeOK, RawInv, [Next]_vars
  PROVE  /\ task' \in {"off", "init"} => state' # "SAMPLING"
         /\ task' = "free" /\ state' = "SAMPLING" => active' = Identity
<1> USE DEF RawInv
<1>1. CASE PowerOn
  BY <1>1 DEF PowerOn, calVars
<1>2. CASE Boot
  BY <1>2 DEF Boot
<1>3. CASE Put
  BY <1>3 DEF Put, bootVars, calVars
<1>4. CASE PowerLoss
  BY <1>4 DEF PowerLoss
<1>5. CASE Deferred
  <2>1. task = "free" /\ task \in {"off", "apply", "init", "free"}
    BY <1>5 DEF Deferred
  <2>2. CASE StartSampling
    BY <2>1, <2>2 DEF StartSampling
  <2>3. CASE StopSampling \/ SaveFails \/ ClearCalibration
    BY <2>1, <2>3 DEF StopSampling, SaveFails, ClearCalibration
  <2>4. CASE ApplyCalibration
    BY <2>4 DEF ApplyCalibration
  <2> QED
    BY <1>5, <2>2, <2>3, <2>4 DEF Deferred
<1>6. CASE Applied
  BY <1>6 DEF Applied
<1>7. CASE Receive \/ SysStart \/ SysHalt \/ Sample \/ Send \/ Observe \/ Reconnect \/ Ask \/ Lose \/ UNCHANGED vars
  BY <1>7 DEF Receive, SysStart, SysHalt, Sample, Send, Observe, Reconnect, Ask, Lose, vars, bootVars, calVars
<1> QED
  BY <1>1, <1>2, <1>3, <1>4, <1>5, <1>6, <1>7 DEF Next

\* A step that moves no frame, and no session, keeps what is announced.
LEMMA StillAnnounced ==
  ASSUME Announced, up' = up, sampling' = sampling, state' # "SAMPLING" /\ ~report' => state # "SAMPLING" /\ ~report
  PROVE  Announced'
  BY DEF Announced

\* The firmware's steps but Send: the end of a session is to be reported.
LEMMA FirmwareAnnounces ==
  ASSUME TypeOK, RawInv, ~upset, ~upset',
         PowerOn \/ Boot \/ Put \/ Receive \/ SysStart \/ SysHalt \/ Deferred \/ Applied \/ Sample
  PROVE  /\ up' = up /\ sampling' = sampling /\ mixed' = mixed /\ tainted' = tainted
         /\ state' # "SAMPLING" /\ ~report' => state # "SAMPLING" /\ ~report
<1>1. CASE PowerOn \/ Put \/ Receive \/ SysStart \/ Sample
  BY <1>1 DEF PowerOn, Put, Receive, SysStart, Sample, deferVars, calVars, hostVars
<1>2. CASE Boot
  BY <1>2 DEF Boot, deferVars, hostVars, RawInv
<1>3. CASE SysHalt
  <2>1. ~report
    BY <1>3 DEF SysHalt
  <2> QED
    BY <1>3, <2>1 DEF SysHalt, calVars, hostVars
<1>4. CASE Deferred
  <2>1. up' = up /\ sampling' = sampling /\ mixed' = mixed /\ tainted' = tainted
    BY <1>4 DEF Deferred, hostVars
  <2>2. CASE StartSampling
    BY <2>1, <2>2 DEF StartSampling
  <2>3. CASE StopSampling \/ SaveFails \/ ClearCalibration
    BY <2>1, <2>3 DEF StopSampling, SaveFails, ClearCalibration
  <2>4. CASE ApplyCalibration
    BY <2>1, <2>4 DEF ApplyCalibration
  <2> QED
    BY <1>4, <2>2, <2>3, <2>4 DEF Deferred
<1>5. CASE Applied
  BY <1>5 DEF Applied, hostVars
<1> QED
  BY <1>1, <1>2, <1>3, <1>4, <1>5

LEMMA SendAnnounces ==
  ASSUME TypeOK, RawInv, Announced, Send
  PROVE  Announced'
<1>1. up \in Seq(Frames) /\ sampling \in BOOLEAN /\ state \in States /\ sampling' = sampling /\ state' = state
  BY DEF TypeOK, Send, hostVars, calVars
<1> DEFINE Sound(f) == \/ f \in Closing
                       \/ f = "SAMPLING" /\ state = "SAMPLING"
                       \/ f \in {"raw", "zero"} /\ ~report
                       \/ f = "corrected" /\ ~report /\ state # "SAMPLING"
<1>2. PICK f \in Frames : up' = Append(up, f) /\ Sound(f) /\ (f \in {"raw", "corrected", "zero"} => report' = report)
  <2>1. CASE up' = Append(up, state)
    BY <1>1, <2>1 DEF Frames, States, Closing
  <2>2. CASE ~report /\ report' = report /\ up' = Append(up, Reading)
    <3>1. state = "SAMPLING" => active = Identity
      BY DEF Send, RawInv
    <3>2. CASE Reading \in {"raw", "zero"}
      BY <2>2, <3>2 DEF Frames
    <3>3. CASE Reading = "corrected"
      BY <2>2, <3>1, <3>3 DEF Reading, Frames
    <3> QED
      BY <3>2, <3>3 DEF Reading
  <2> QED
    BY <2>1, <2>2 DEF Send
<1>3. /\ Len(up') = Len(up) + 1 /\ up'[Len(up) + 1] = f /\ Len(up) \in Nat
      /\ \A i \in 1..Len(up) : up'[i] = up[i]
  BY <1>1, <1>2
<1>4. /\ \A n \in 0..Len(up) : Deaf(up, sampling, n) => Deaf(up', sampling, n)
      /\ f # "SAMPLING" /\ Deaf(up, sampling, Len(up)) => Deaf(up', sampling, Len(up) + 1)
      /\ f \in Closing => Deaf(up', sampling, Len(up) + 1)
  BY <1>1, <1>2, DeafAppend
<1>5. ASSUME NEW n \in 1..Len(up'), up'[n] = "corrected"
      PROVE  Deaf(up', sampling, n - 1)
  <2>1. CASE n \in 1..Len(up)
    <3>1. Deaf(up, sampling, n - 1) /\ n - 1 \in 0..Len(up)
      BY <1>3, <1>5, <2>1 DEF Announced
    <3> QED
      BY <1>4, <3>1
  <2>2. CASE n = Len(up) + 1
    <3>1. f = "corrected" /\ n - 1 = Len(up) /\ Len(up) \in 0..Len(up)
      BY <1>3, <1>5, <2>2
    <3>2. Deaf(up, sampling, Len(up))
      BY <1>2, <3>1 DEF Announced, Closing
    <3> QED
      BY <1>4, <3>1, <3>2
  <2> QED
    BY <1>3, <2>1, <2>2
<1>6. ASSUME state' # "SAMPLING", ~report'
      PROVE  Deaf(up', sampling, Len(up'))
  <2>1. CASE f \in Closing
    BY <1>3, <1>4, <2>1
  <2>2. CASE f \notin Closing
    <3>1. f # "SAMPLING" /\ Deaf(up, sampling, Len(up))
      BY <1>1, <1>2, <1>6, <2>2 DEF Announced
    <3> QED
      BY <1>3, <1>4, <3>1
  <2> QED
    BY <2>1, <2>2
<1> QED
  BY <1>1, <1>5, <1>6 DEF Announced

LEMMA ObserveKeeps ==
  ASSUME TypeOK, ~tainted, ~mixed, Announced, Observe
  PROVE  ~tainted' /\ ~mixed' /\ Announced'
<1>1. /\ up \in Seq(Frames) /\ up # <<>> /\ up' = Tail(up) /\ state' = state /\ report' = report
      /\ sampling \in BOOLEAN /\ sampling' \in BOOLEAN
  <2>1. sampling' \in BOOLEAN
    BY TypeStep, Zenon DEF TypeOK, Next
  <2> QED
    BY <2>1 DEF TypeOK, Observe, calVars, deferVars
<1>2. Len(up) \in Nat /\ Len(up) >= 1 /\ Head(up) = up[1] /\ Len(up') = Len(up) - 1
  BY <1>1
<1>3. \A i \in 1..Len(up') : up'[i] = up[i + 1]
  BY <1>1
<1>4. up[1] = "corrected" => ~sampling
  BY <1>2 DEF Announced, Deaf
<1>5. ~tainted' /\ ~mixed'
  <2>1. CASE ObserveStatus
    BY <2>1 DEF ObserveStatus, Forget
  <2>2. CASE ObserveImu
    <3>1. CASE ~sampling \/ sent \/ Head(up) = "zero"
      BY <2>2, <3>1 DEF ObserveImu, hostVars
    <3>2. CASE sampling /\ ~sent /\ Head(up) # "zero"
      <4>1. ~(mixed \/ Head(up) = "corrected")
        BY <1>2, <1>4, <3>2
      <4> QED
        BY <2>2, <3>2, <4>1 DEF ObserveImu, Forget
    <3> QED
      BY <3>1, <3>2
  <2> QED
    BY <2>1, <2>2 DEF Observe
<1>6. Head(up) \in Closing => ~sampling'
  <2>1. ASSUME Head(up) \in Closing
        PROVE  ~sampling'
    <3>1. Head(up) \in States /\ Head(up) # "SAMPLING" /\ Ends(Head(up))
      BY <2>1 DEF Closing, States, Ends
    <3>2. ObserveStatus
      BY <3>1 DEF Observe, ObserveImu
    <3> QED
      BY <3>1, <3>2 DEF ObserveStatus, Forget
  <2> QED
    BY <2>1
<1>7. Head(up) # "SAMPLING" /\ ~sampling => ~sampling'
  BY DEF Observe, ObserveStatus, ObserveImu, Forget, hostVars
<1>8. ASSUME NEW n \in 1..Len(up), Deaf(up, sampling, n)
      PROVE  Deaf(up', sampling', n - 1)
  BY <1>1, <1>6, <1>7, <1>8, DeafTail
<1>9. ASSUME NEW n \in 1..Len(up'), up'[n] = "corrected"
      PROVE  Deaf(up', sampling', n - 1)
  <2>1. n + 1 \in 1..Len(up) /\ up[n + 1] = "corrected" /\ n \in 1..Len(up)
    BY <1>2, <1>3, <1>9
  <2>2. Deaf(up, sampling, n)
    BY <2>1 DEF Announced
  <2> QED
    BY <1>8, <2>1, <2>2
<1>10. ASSUME state' # "SAMPLING", ~report'
       PROVE  Deaf(up', sampling', Len(up'))
  <2>1. Deaf(up, sampling, Len(up)) /\ Len(up) \in 1..Len(up) /\ Len(up') = Len(up) - 1
    BY <1>1, <1>2, <1>10 DEF Announced
  <2> QED
    BY <1>8, <2>1
<1> QED
  BY <1>5, <1>9, <1>10 DEF Announced

LEMMA RawStep == TypeOK /\ RawInv /\ [Next]_vars => RawInv'
<1> SUFFICES ASSUME TypeOK, RawInv, [Next]_vars PROVE RawInv'
  OBVIOUS
<1> SUFFICES ASSUME ~upset' PROVE ~tainted' /\ ~mixed' /\ Announced'
  BY SamplingIsRaw DEF RawInv
<1>1. ~(PowerLoss \/ Reconnect \/ Lose)
  BY DEF PowerLoss, Reconnect, Lose
<1>2. ~upset
  BY <1>1, Zenon DEF Next, PowerOn, Boot, Put, Receive, SysStart, SysHalt, Deferred, Applied, Sample, Send,
                     Observe, Ask, vars
<1>3. ~tainted /\ ~mixed /\ Announced
  BY <1>2 DEF RawInv
<1>4. CASE PowerOn \/ Boot \/ Put \/ Receive \/ SysStart \/ SysHalt \/ Deferred \/ Applied \/ Sample
  BY <1>2, <1>3, <1>4, FirmwareAnnounces, StillAnnounced
<1>5. CASE Send
  BY <1>3, <1>5, SendAnnounces DEF Send, hostVars
<1>6. CASE Observe
  BY <1>3, <1>6, ObserveKeeps
<1>7. CASE Ask \/ UNCHANGED vars
  BY <1>3, <1>7, StillAnnounced DEF Ask, vars, deferVars, calVars, hostVars
<1> QED
  BY <1>1, <1>4, <1>5, <1>6, <1>7 DEF Next

(* The controller fits raw samples only, unless something was lost: with   *)
(* queues of any length and any number of sessions.                        *)
THEOREM FitsRaw == Spec => []FitsAreRaw
<1>1. RawInv => FitsAreRaw
  BY DEF RawInv, FitsAreRaw
<1> QED
  BY InitType, TypeStep, RawInit, RawStep, <1>1, PTL DEF Spec

-----------------------------------------------------------------------------
(* The refinement: what the record means, and each write as a step of it.  *)

StoredNow == IF ~header \/ ~valid THEN None
             ELSE IF \E c \in Cals : cells = Whole(c) THEN cells ELSE Whole(Foreign)

PendingNow == IF phase = "idle" THEN None ELSE value

\* Each abstract step, in these terms.
LEMMA Steps ==
  /\ Store!Init <=> StoredNow = None /\ PendingNow = None
  /\ UNCHANGED <<StoredNow, PendingNow>> => UNCHANGED Store!vars
  /\ /\ PendingNow = None /\ PendingNow' \in Wholes \union {Identity} /\ StoredNow' = StoredNow
     => Store!Next
  /\ /\ PendingNow = Identity \/ (PendingNow \in Wholes /\ StoredNow # None)
     /\ StoredNow' = Whole(Foreign) /\ PendingNow' = PendingNow
     => Store!Next
  /\ /\ PendingNow \in Wholes /\ StoredNow' = PendingNow /\ PendingNow' = PendingNow
     => Store!Next
  /\ /\ PendingNow # None /\ PendingNow' = None
     /\ StoredNow' = IF PendingNow = Identity THEN None ELSE PendingNow
     => Store!Next
  /\ /\ PendingNow \notin Wholes /\ StoredNow' = None /\ PendingNow' = PendingNow
     => Store!Next
  /\ /\ PendingNow' = None
     /\ StoredNow' = StoredNow \/ (PendingNow \in Wholes /\ StoredNow # None /\ StoredNow' = Whole(Foreign))
     => Store!Next
  BY Zenon DEF Store!Init, Store!vars, Store!Next, Store!Begin, Store!Tear, Store!Land, Store!Done, Store!Erase, Store!Abort,
         StoredNow, PendingNow, Wholes

LEMMA WholesFacts == /\ \A w \in Wholes : w # None /\ w # Identity /\ w # Whole(Foreign)
                     /\ Identity # None /\ Whole(Foreign) # None
  BY WholeIsSome, WholeApart DEF Wholes, Identity

LEMMA StoreInit == Init => Store!Init
<1> SUFFICES ASSUME Init PROVE StoredNow = None /\ PendingNow = None
  BY Steps
<1> QED
  BY DEF Init, StorageInit, StoredNow, PendingNow

\* A record with a foreign float is no calibration that was stored.
LEMMA ForeignTears ==
  ASSUME NEW i \in Cells, cells'[i] = Foreign, header' /\ valid'
  PROVE  StoredNow' = Whole(Foreign)
<1>1. \A c \in Cals : cells' # Whole(c)
  BY WholeAt
<1> QED
  BY <1>1 DEF StoredNow

\* After a float of a calibration was written, the record holds all of that
\* calibration or none.
LEMMA CellTears ==
  ASSUME NEW c \in Cals, NEW i \in Cells, cells'[i] = c, header' /\ valid'
  PROVE  StoredNow' \in {Whole(c), Whole(Foreign)}
<1>1. \A d \in Cals : cells' = Whole(d) => d = c
  BY WholeAt
<1> QED
  BY <1>1 DEF StoredNow

LEMMA StorePut ==
  ASSUME TypeOK, RecordInv, RecordInv', Put
  PROVE  Store!Next \/ UNCHANGED Store!vars
<1>1. CASE PutHeader
  <2>1. phase = "header" /\ phase' = "invalid" /\ header' /\ UNCHANGED <<valid, cells, value>>
    BY <1>1 DEF PutHeader, Follows
  <2>2. task = "init"
    BY <2>1 DEF Put, RecordInv, Storing
  <2>3. PendingNow = Identity /\ PendingNow' = PendingNow
    BY <2>1, <2>2 DEF PendingNow, RecordInv, Booting
  <2>4. StoredNow' = StoredNow \/ StoredNow' = Whole(Foreign)
    <3>1. CASE header
      BY <2>1, <3>1 DEF StoredNow
    <3>2. CASE ~header
      BY <2>1, <3>2 DEF StoredNow, RecordInv, Booting
    <3> QED
      BY <3>1, <3>2
  <2> QED
    BY <2>3, <2>4, Steps
<1>2. CASE PutInvalid
  <2>1. phase = "invalid" /\ phase' = "cells" /\ ~valid' /\ value' = Identity
    BY <1>2 DEF PutInvalid, Follows
  <2>2. task = "init"
    BY <2>1 DEF Put, RecordInv, Storing
  <2>3. PendingNow = Identity /\ PendingNow' = PendingNow /\ StoredNow' = None
    BY <2>1, <2>2 DEF PendingNow, StoredNow, RecordInv, Booting
  <2> QED
    BY <2>3, Steps, WholesFacts
<1>3. CASE PutCell(task = "init")
  <2>1. phase = "cells" /\ UNCHANGED <<header, valid, value>> /\ cells' = [cells EXCEPT ![at] = value[at]]
    BY <1>3 DEF PutCell
  <2>2. CASE task = "init"
    <3>1. phase' \in {"cells", "idle"}
      BY <1>3, <2>1, <2>2 DEF PutCell, Follows
    <3>2. PendingNow = Identity /\ PendingNow' \in {Identity, None}
      BY <2>1, <2>2, <3>1 DEF PendingNow, RecordInv, Booting
    <3>3. StoredNow = None /\ StoredNow' = None
      BY <2>1, <2>2 DEF StoredNow, RecordInv, Booting
    <3> QED
      BY <3>2, <3>3, Steps, WholesFacts
  <2>3. CASE task = "apply"
    <3>1. PICK c \in Cals : value = Whole(c)
      BY <2>3 DEF RecordInv, Storing, Wholes
    <3>2. phase' \in {"cells", "valid"}
      BY <1>3, <2>1, <2>3 DEF PutCell, Follows
    <3>3. PendingNow = Whole(c) /\ PendingNow' = PendingNow /\ Whole(c) \in Wholes
      BY <2>1, <3>1, <3>2 DEF PendingNow, Wholes
    <3>4. CASE header /\ valid
      <4>1. at \in Cells /\ cells'[at] = c
        BY <2>1, <3>1, WholeAt, Parts DEF Marks, Records
      <4>2. StoredNow' \in {Whole(c), Whole(Foreign)}
        BY <2>1, <3>4, <4>1, CellTears
      <4>3. StoredNow # None
        BY <3>4, WholeIsSome DEF StoredNow
      <4> QED
        BY <3>3, <4>2, <4>3, Steps
    <3>5. CASE ~header \/ ~valid
      BY <2>1, <3>3, <3>5, Steps DEF StoredNow
    <3> QED
      BY <3>4, <3>5
  <2> QED
    BY <2>2, <2>3 DEF Put
<1>4. CASE PutValid
  <2>1. phase = "valid" /\ phase' = "idle" /\ valid' /\ UNCHANGED <<header, cells, value>>
    BY <1>4 DEF PutValid, Follows
  <2>2. task = "apply"
    BY <2>1 DEF Put, RecordInv, Booting
  <2>3. header /\ cells = value /\ value \in Wholes
    BY <2>1, <2>2 DEF RecordInv, Storing
  <2>4. PendingNow = value /\ PendingNow' = None /\ StoredNow' = value
    BY <2>1, <2>3 DEF PendingNow, StoredNow, Wholes
  <2> QED
    BY <2>3, <2>4, Steps, WholesFacts
<1> QED
  BY <1>1, <1>2, <1>3, <1>4 DEF Put

LEMMA StorePowerLoss ==
  ASSUME TypeOK, RecordInv, PowerLoss
  PROVE  Store!Next
<1>1. PendingNow' = None /\ UNCHANGED <<header, valid>>
  BY DEF PowerLoss, Cut, PendingNow
<1>2. CASE UNCHANGED cells
  <2>1. StoredNow' = StoredNow
    BY <1>1, <1>2 DEF StoredNow
  <2> QED
    BY <1>1, <2>1, Steps
<1>3. CASE phase = "cells" /\ cells' = [cells EXCEPT ![at] = Foreign]
  <2>1. CASE ~header \/ ~valid
    BY <1>1, <2>1, Steps DEF StoredNow
  <2>2. CASE header /\ valid
    <3>1. at \in Cells /\ cells'[at] = Foreign
      BY <1>3, Parts DEF Marks, Records
    <3>2. StoredNow' = Whole(Foreign)
      BY <1>1, <2>2, <3>1, ForeignTears
    <3>3. task = "apply"
      <4>1. task \in {"off", "init", "apply", "free"}
        BY Parts DEF Marks
      <4> QED
        BY <1>3, <2>2, <4>1 DEF RecordInv, Settled, Booting
    <3>4. PendingNow \in Wholes
      BY <1>3, <3>3 DEF PendingNow, RecordInv, Storing
    <3>5. StoredNow # None
      BY <2>2, WholeIsSome DEF StoredNow
    <3> QED
      BY <1>1, <3>2, <3>4, <3>5, Steps
  <2> QED
    BY <2>1, <2>2
<1> QED
  BY <1>2, <1>3 DEF PowerLoss, Cut

LEMMA StoreStep == TypeOK /\ RecordInv /\ RecordInv' /\ [Next]_vars => [Store!Next]_Store!vars
<1> SUFFICES ASSUME TypeOK, RecordInv, RecordInv', [Next]_vars PROVE Store!Next \/ UNCHANGED Store!vars
  OBVIOUS
<1>1. CASE UNCHANGED storageVars
  BY <1>1, Steps DEF storageVars, StoredNow, PendingNow
<1>2. CASE PowerOn
  <2>1. StoredNow' = StoredNow /\ PendingNow = None
    BY <1>2 DEF PowerOn, Open, StoredNow, PendingNow, RecordInv, Settled
  <2>2. PendingNow' \in {None, Identity}
    BY <1>2 DEF PowerOn, Open, PendingNow, RecordInv, Booting
  <2> QED
    BY <2>1, <2>2, Steps
<1>3. CASE Put
  BY <1>3, StorePut
<1>4. CASE PowerLoss
  BY <1>4, StorePowerLoss
<1>5. CASE Deferred
  <2>1. PendingNow = None
    BY <1>5 DEF Deferred, PendingNow, RecordInv, Settled
  <2>2. CASE ApplyCalibration
    <3>1. StoredNow' = StoredNow /\ PendingNow' \in Wholes
      BY <2>2 DEF ApplyCalibration, Set, Follows, StoredNow, PendingNow, Wholes
    <3> QED
      BY <2>1, <3>1, Steps
  <2>3. CASE ClearCalibration
    <3>1. StoredNow' = None /\ PendingNow' = PendingNow
      BY <2>3 DEF ClearCalibration, Clear, StoredNow, PendingNow
    <3> QED
      BY <2>1, <3>1, Steps, WholesFacts
  <2> QED
    BY <1>1, <1>5, <2>2, <2>3 DEF Deferred, StartSampling, StopSampling, SaveFails
<1> QED
  BY <1>1, <1>2, <1>3, <1>4, <1>5
     DEF Next, Boot, Receive, SysStart, SysHalt, Applied, Sample, Send, Observe, Reconnect, Ask, Lose, vars

(* The firmware's EEPROM record implements CalibrationStore: a power loss  *)
(* tears it only while a calibration replaces another, or while an older   *)
(* layout is formatted.                                                    *)
THEOREM Implementation == Spec => ImplementsStore
<1>1. Init => Store!Init
  BY StoreInit
<1>2. (TypeOK /\ RecordInv) /\ (TypeOK /\ RecordInv)' /\ [Next]_vars => [Store!Next]_Store!vars
  BY StoreStep
<1> QED
  BY RecordHolds, <1>1, <1>2, PTL DEF Spec, ImplementsStore, Store!Spec
=============================================================================
