------------------------ MODULE MotorControl_proofs ------------------------
(***************************************************************************)
(* Proofs about MotorControl for any number of motors.                     *)
(***************************************************************************)
EXTENDS MotorControl, TLAPS

(* What a disabling command has done so far. *)
StopInv ==
  /\ todo # {} <=> pc \in {"disabling", "zeroed"}
  /\ sysState # "RUNNING" \/ (halting /\ todo # {}) =>
       \A m \in Slots \ todo : mode[m] = "DISABLED"
  /\ pc = "zeroed" =>
       \A m \in todo : (\A k \in todo : m <= k) => mode[m] = "DISABLED"

(* What the loop knows of the request it is computing. *)
ComputeInv ==
  /\ computeBusy <=> Computing
  /\ Computing =>
       /\ Active
       /\ computeSlot = slotSnapshot /\ computeRequestSeq = request
       /\ request # 0 /\ request <= requestedRound
       /\ slotSnapshot \in pendingMask
            \/ (~Enabled(slotSnapshot) /\ requestedSeq[slotSnapshot] = 0)
  /\ pc = "sampled" /\ requestedSeq[slotSnapshot] = request => sampleCurrent
  /\ pc = "staged" /\ requestedSeq[slotSnapshot] = request => slotSnapshot \in fresh

(* Request numbers never run ahead, and a slot is pending exactly when its *)
(* request is not answered.                                                *)
SeqInv ==
  /\ \A s \in Slots : requestedSeq[s] <= requestedRound /\ preparedSeq[s] <= requestedRound
  /\ \A s \in Slots : s \in pendingMask <=> requestedSeq[s] # 0 /\ ~Published(s)

Inv == /\ TypeOK /\ StopInv /\ ComputeInv /\ SeqInv
       /\ PublishedIsCurrent /\ DisabledIsOff /\ RequestsWithinRound

(* Slots are natural numbers, closed under NextSlot, and 0 is one. *)
LEMMA SlotFacts ==
  /\ 0 \in Slots /\ Slots \subseteq Nat
  /\ \A s \in Slots : NextSlot(s) \in Slots
  /\ NoRequests \in [Slots -> Nat]
  BY NAssumption DEF Slots, NextSlot, NoRequests

LEMMA InitInv == Init => Inv
<1> SUFFICES ASSUME Init PROVE Inv
  OBVIOUS
<1>1. TypeOK
  BY SlotFacts DEF Init, TypeOK, Loops
<1>2. StopInv /\ ComputeInv
  BY DEF Init, StopInv, ComputeInv, Computing
<1>3. SeqInv /\ PublishedIsCurrent
  BY SlotFacts DEF Init, SeqInv, PublishedIsCurrent, Published, NoRequests
<1>4. DisabledIsOff /\ RequestsWithinRound
  BY SlotFacts DEF Init, DisabledIsOff, RequestsWithinRound, NoRequests
<1> QED
  BY <1>1, <1>2, <1>3, <1>4 DEF Inv

(* Every step keeps the types. *)
LEMMA TypeStep == TypeOK /\ [Next]_vars => TypeOK'
<1> SUFFICES ASSUME TypeOK, [Next]_vars PROVE TypeOK'
  OBVIOUS
<1> USE DEF TypeOK, Loops
<1>1. CASE TickInactive
  BY <1>1, SlotFacts DEF TickInactive, ClearPendingState, outVars, localVars, stopVars
<1>2. CASE TickActive
  <2>1. isrSlot' \in Slots
    BY <1>2, SlotFacts, Zenon DEF TickActive
  <2>2. roundCount' \in Nat
    BY <1>2, SlotFacts DEF TickActive
  <2>3. /\ requestedRound' \in Nat /\ pendingMask' \subseteq Slots
        /\ requestedSeq' \in [Slots -> Nat] /\ preparedSeq' \in [Slots -> Nat]
    <3>1. CASE Enabled(isrSlot)
      BY <1>2, <3>1 DEF TickActive
    <3>2. CASE ~Enabled(isrSlot)
      BY <1>2, <3>2 DEF TickActive
    <3> QED
      BY <3>1, <3>2
  <2>4. pending' \in [Slots -> {"off", "on"}]
    BY <1>2 DEF TickActive
  <2>5. hw' \in [Slots -> {"off", "on"}]
    BY <1>2, <2>4 DEF TickActive
  <2>6. note' \subseteq {"reused", "missed", "late", "cross"}
    BY <1>2 DEF TickActive
  <2>7. fresh' \subseteq Slots /\ sampleCurrent' \in BOOLEAN
    BY <1>2 DEF TickActive
  <2> QED
    BY <1>2, <2>1, <2>2, <2>3, <2>4, <2>5, <2>6, <2>7 DEF TickActive, busyVars, stopVars
<1>3. CASE Start
  BY <1>3 DEF Start, outVars, coordVars, isrVars, handVars, busyVars, localVars, stopVars
<1>4. ASSUME NEW m \in Slots, Enable(m) PROVE TypeOK'
  BY <1>4 DEF Enable, ZeroOutputs, coordVars, isrVars, handVars, busyVars, localVars, stopVars
<1>5. ASSUME NEW m \in Slots, Home(m) PROVE TypeOK'
  BY <1>5 DEF Home, coordVars, isrVars, handVars, busyVars, localVars, stopVars
<1>6. ASSUME NEW m \in Slots, DisableOne(m) PROVE TypeOK'
  BY <1>6 DEF DisableOne, outVars, coordVars, isrVars, handVars, busyVars, localVars
<1>7. CASE Stop
  BY <1>7 DEF Stop, EnabledMotors, outVars, coordVars, isrVars, handVars, busyVars, localVars
<1>8. CASE Halt
  BY <1>8 DEF Halt, EnabledMotors, outVars, coordVars, isrVars, handVars, busyVars, localVars
<1>9. ASSUME NEW m \in Slots, ZeroMotor(m) PROVE TypeOK'
  BY <1>9 DEF ZeroMotor, ZeroOutputs, coordVars, isrVars, handVars, busyVars, localVars, stopVars
<1>10. ASSUME NEW m \in Slots, ApplyZero(m) PROVE TypeOK'
  BY <1>10 DEF ApplyZero, coordVars, isrVars, handVars, busyVars, localVars
<1>11. CASE ResetForNonRunning
  BY <1>11, SlotFacts DEF ResetForNonRunning, ClearPendingState, outVars, localVars, stopVars
<1>12. ASSUME NEW s \in Slots, BeginCompute(s) PROVE TypeOK'
  BY <1>12 DEF BeginCompute, outVars, isrVars, handVars, stopVars
<1>13. CASE CheckLate
  BY <1>13 DEF CheckLate, outVars, coordVars, isrVars, handVars, busyVars, localVars, stopVars
<1>14. CASE Sample
  BY <1>14 DEF Sample, outVars, coordVars, isrVars, handVars, busyVars, stopVars
<1>15. ASSUME NEW out \in {"off", "on"}, Stage(out) PROVE TypeOK'
  BY <1>15 DEF Stage, coordVars, isrVars, handVars, busyVars, localVars, stopVars
<1>16. CASE HomeReached
  BY <1>16 DEF HomeReached, ZeroOutputs, coordVars, isrVars, handVars, busyVars, localVars, stopVars
<1>17. CASE FinishCompute
  <2> USE <1>17 DEF FinishCompute, handVars
  <2>1. preparedSeq' \in [Slots -> Nat] /\ pendingMask' \subseteq Slots
    OBVIOUS
  <2>2. computeSlot' \in Slots /\ computeRequestSeq' \in Nat /\ computeBusy' \in BOOLEAN
    BY SlotFacts
  <2>3. note' \subseteq {"reused", "missed", "late", "cross"}
    OBVIOUS
  <2> QED
    BY <2>1, <2>2, <2>3 DEF outVars, isrVars, localVars, stopVars
<1>18. CASE ReadLow
  BY <1>18, LoadAssumption
     DEF ReadLow, outVars, coordVars, isrVars, handVars, busyVars, stopVars
<1>19. CASE UNCHANGED vars
  BY <1>19 DEF vars, outVars, coordVars, isrVars, handVars, busyVars, localVars, stopVars
<1> QED
  BY <1>1, <1>2, <1>3, <1>4, <1>5, <1>6, <1>7, <1>8, <1>9, <1>10, <1>11, <1>12, <1>13, <1>14,
     <1>15, <1>16, <1>17, <1>18, <1>19 DEF Next, Tick, Command, Disabling, Compute

-----------------------------------------------------------------------------
(* Only these steps write the request numbers. *)
LEMMA SeqFrame ==
  ASSUME [Next]_vars
  PROVE  \/ TickInactive \/ TickActive \/ ResetForNonRunning \/ FinishCompute
         \/ UNCHANGED <<isrVars, handVars>>
  BY DEF Next, Tick, Command, Disabling, Compute, vars, coordVars, Start, Enable, Home, DisableOne,
         Stop, Halt, ZeroMotor, ApplyZero, BeginCompute, ReadLow, CheckLate, Sample, Stage, HomeReached

(* Request numbers stay below requestedRound, and a slot is pending exactly *)
(* when its request is not answered.                                       *)
LEMMA SeqStep == Inv /\ [Next]_vars => SeqInv'
<1> SUFFICES ASSUME Inv, [Next]_vars PROVE SeqInv'
  OBVIOUS
<1>0. TypeOK /\ SeqInv /\ ComputeInv
  BY DEF Inv
<1>1. CASE TickInactive \/ ResetForNonRunning
  BY <1>0, <1>1, SlotFacts
     DEF TickInactive, ResetForNonRunning, ClearPendingState, NoRequests, SeqInv, Published, TypeOK
<1>2. CASE TickActive
  <2>1. CASE Enabled(isrSlot)
    BY <1>0, <1>2, <2>1 DEF TickActive, SeqInv, Published, TypeOK
  <2>2. CASE ~Enabled(isrSlot)
    BY <1>0, <1>2, <2>2 DEF TickActive, SeqInv, Published, TypeOK
  <2> QED
    BY <2>1, <2>2
<1>3. CASE FinishCompute
  <2>1. CASE Superseded
    BY <1>0, <1>3, <2>1 DEF FinishCompute, isrVars, handVars, SeqInv, Published
  <2>2. CASE ~Superseded
    <3>1. /\ computeSlot \in Slots /\ requestedSeq[computeSlot] = request
          /\ request # 0 /\ request <= requestedRound /\ computeRequestSeq = request
      BY <1>0, <1>3, <2>2 DEF FinishCompute, Superseded, ComputeInv, Computing, TypeOK
    <3>2. /\ preparedSeq' = [preparedSeq EXCEPT ![computeSlot] = request]
          /\ pendingMask' = pendingMask \ {computeSlot} /\ UNCHANGED isrVars
      BY <1>3, <2>2, <3>1 DEF FinishCompute
    <3> QED
      BY <1>0, <3>1, <3>2 DEF isrVars, SeqInv, Published, TypeOK
  <2> QED
    BY <2>1, <2>2
<1>4. CASE UNCHANGED <<isrVars, handVars>>
  BY <1>0, <1>4 DEF isrVars, handVars, SeqInv, Published
<1> QED
  BY <1>1, <1>2, <1>3, <1>4, SeqFrame

(* Requests stay distinct and within one round of the ISR's visits.        *)
LEMMA RoundStep == Inv /\ [Next]_vars => RequestsWithinRound'
<1> SUFFICES ASSUME Inv, [Next]_vars PROVE RequestsWithinRound'
  OBVIOUS
<1>0. TypeOK /\ SeqInv /\ RequestsWithinRound
  BY DEF Inv
<1>1. CASE TickInactive \/ ResetForNonRunning
  BY <1>1, SlotFacts
     DEF TickInactive, ResetForNonRunning, ClearPendingState, NoRequests, RequestsWithinRound
<1>2. CASE TickActive
  <2>1. /\ isrSlot \in Slots /\ isrSlot' = NextSlot(isrSlot)
        /\ requestedSeq \in [Slots -> Nat] /\ requestedRound \in Nat
    BY <1>0, <1>2 DEF TickActive, TypeOK
  <2>2. ASSUME NEW s \in Slots, s # isrSlot
        PROVE  Age(s)' = Age(s) + 1 /\ Age(s) \in Nat
    <3>1. CASE isrSlot = N - 1
      BY <2>1, <2>2, <3>1, NAssumption DEF Age, NextSlot, Slots
    <3>2. CASE isrSlot # N - 1
      BY <2>1, <2>2, <3>2, NAssumption DEF Age, NextSlot, Slots
    <3> QED
      BY <3>1, <3>2
  <2>3. ASSUME NEW s \in Slots, s = isrSlot
        PROVE  Age(s)' = 0
    BY <2>1, <2>3, NAssumption DEF Age, NextSlot, Slots
  <2>4. CASE Enabled(isrSlot)
    <3>1. /\ requestedRound' = requestedRound + 1
          /\ requestedSeq' = [requestedSeq EXCEPT ![isrSlot] = requestedRound + 1]
      BY <1>2, <2>4 DEF TickActive
    <3>2. ASSUME NEW s \in Slots, requestedSeq'[s] # 0
          PROVE  requestedRound' - requestedSeq'[s] \in 0 .. Age(s)'
      BY <1>0, <2>1, <2>2, <2>3, <3>1, <3>2 DEF RequestsWithinRound
    <3>3. ASSUME NEW s \in Slots, NEW t \in Slots,
                 requestedSeq'[s] # 0, requestedSeq'[s] = requestedSeq'[t]
          PROVE  s = t
      BY <1>0, <2>1, <3>1, <3>3 DEF RequestsWithinRound, SeqInv
    <3> QED
      BY <3>2, <3>3 DEF RequestsWithinRound
  <2>5. CASE ~Enabled(isrSlot)
    <3>1. requestedRound' = requestedRound /\ requestedSeq' = [requestedSeq EXCEPT ![isrSlot] = 0]
      BY <1>2, <2>5 DEF TickActive
    <3> QED
      BY <1>0, <2>1, <2>2, <3>1 DEF RequestsWithinRound, SeqInv
  <2> QED
    BY <2>4, <2>5
<1>3. CASE UNCHANGED isrVars
  BY <1>0, <1>3 DEF isrVars, RequestsWithinRound, Age
<1> QED
  BY <1>1, <1>2, <1>3, SeqFrame DEF FinishCompute

-----------------------------------------------------------------------------
(* The disabling of the motors, in index order, and the state it leaves.   *)
LEMMA StopStep == Inv /\ [Next]_vars => StopInv'
<1> SUFFICES ASSUME Inv, [Next]_vars PROVE StopInv'
  OBVIOUS
<1>0. TypeOK /\ StopInv /\ ComputeInv
  BY DEF Inv
<1>1. CASE /\ UNCHANGED <<sysState, mode, todo, halting>>
           /\ pc' = pc \/ {pc, pc'} \intersect {"disabling", "zeroed"} = {}
  BY <1>0, <1>1 DEF StopInv
<1>2. ASSUME sysState = "RUNNING", UNCHANGED <<sysState, todo, halting>>,
             {pc, pc'} \intersect {"disabling", "zeroed"} = {}
      PROVE  StopInv'
  BY <1>0, <1>2 DEF StopInv
<1>3. CASE Start
  BY <1>0, <1>3 DEF Start, StopInv, stopVars
<1>4. ASSUME NEW m \in Slots, DisableOne(m) PROVE StopInv'
  BY <1>0, <1>4 DEF DisableOne, StopInv, outVars
<1>5. CASE Stop \/ Halt
  <2>1. UNCHANGED mode /\ todo' = EnabledMotors
    BY <1>5 DEF Stop, Halt, outVars
  <2>2. pc' = IF todo' = {} THEN "free" ELSE "disabling"
    BY <1>5 DEF Stop, Halt
  <2>3. \A m \in Slots \ todo' : mode'[m] = "DISABLED"
    BY <2>1 DEF EnabledMotors, Enabled
  <2> QED
    BY <2>2, <2>3 DEF StopInv
<1>6. ASSUME NEW m \in Slots, ZeroMotor(m) PROVE StopInv'
  <2>1. /\ m \in todo /\ (\A k \in todo : m <= k) /\ pc' = "zeroed"
        /\ mode' = [mode EXCEPT ![m] = "DISABLED"] /\ UNCHANGED <<sysState, todo, halting>>
    BY <1>6 DEF ZeroMotor, stopVars
  <2>2. \A k \in todo : (\A l \in todo : k <= l) => k = m
    BY <1>0, <2>1, SlotFacts DEF TypeOK
  <2> QED
    BY <1>0, <2>1, <2>2 DEF StopInv, TypeOK
<1>7. ASSUME NEW m \in Slots, ApplyZero(m) PROVE StopInv'
  <2>1. mode[m] = "DISABLED" /\ mode' = mode /\ todo' = todo \ {m}
    BY <1>0, <1>7 DEF ApplyZero, StopInv
  <2>2. pc' = "free" \/ pc' = "disabling"
    BY <1>7 DEF ApplyZero
  <2>3. todo' # {} <=> pc' = "disabling"
    BY <1>7 DEF ApplyZero
  <2>4. sysState' = sysState \/ (halting /\ todo # {})
    BY <1>7 DEF ApplyZero
  <2> QED
    BY <1>0, <1>7, <2>1, <2>2, <2>3, <2>4 DEF ApplyZero, StopInv
<1> QED
  <2> USE DEF outVars, coordVars, busyVars, localVars, stopVars
  <2>1. CASE Tick \/ UNCHANGED vars
    BY <1>1, <2>1 DEF Tick, TickInactive, TickActive, vars
  <2>2. CASE Command \/ Disabling
    <3>1. ASSUME NEW m \in Slots, Enable(m) \/ Home(m) PROVE StopInv'
      BY <1>2, <3>1 DEF Enable, Home
    <3> QED
      BY <1>3, <1>4, <1>5, <1>6, <1>7, <2>2, <3>1 DEF Command, Disabling
  <2>3. CASE ResetForNonRunning
    BY <1>1, <2>3 DEF ResetForNonRunning
  <2>4. CASE Compute
    <3>1. CASE HomeReached
      <4>1. sysState = "RUNNING"
        BY <1>0, <3>1 DEF HomeReached, ComputeInv, Computing, Active
      <4> QED
        BY <1>2, <3>1, <4>1 DEF HomeReached
    <3>2. ASSUME NEW s \in Slots, BeginCompute(s) PROVE StopInv'
      BY <1>1, <3>2 DEF BeginCompute
    <3>3. CASE ReadLow \/ CheckLate \/ Sample \/ FinishCompute
      BY <1>1, <3>3 DEF ReadLow, CheckLate, Sample, FinishCompute
    <3>4. ASSUME NEW out \in {"off", "on"}, Stage(out) PROVE StopInv'
      BY <1>1, <3>4 DEF Stage
    <3> QED
      BY <2>4, <3>1, <3>2, <3>3, <3>4 DEF Compute
  <2> QED
    BY <2>1, <2>2, <2>3, <2>4 DEF Next

-----------------------------------------------------------------------------
(* What the loop knows of the request it is computing survives the ticks.  *)
LEMMA ComputeStep == Inv /\ [Next]_vars => ComputeInv'
<1> SUFFICES ASSUME Inv, [Next]_vars PROVE ComputeInv'
  OBVIOUS
<1>0. TypeOK /\ SeqInv /\ ComputeInv
  BY DEF Inv
<1>1. CASE ~Computing /\ ~Computing' /\ computeBusy' = FALSE
  BY <1>1 DEF ComputeInv, Computing
<1>2. CASE TickActive
  <2>0. /\ UNCHANGED <<sysState, mode, computeBusy, computeSlot, computeRequestSeq, pc, slotSnapshot,
                       request>>
        /\ fresh' = fresh \ {isrSlot}
        /\ sampleCurrent' = (sampleCurrent /\ slotSnapshot # isrSlot)
    BY <1>2 DEF TickActive, busyVars
  <2>1. CASE Computing
    <3>1. CASE Enabled(isrSlot)
      <4>1. /\ requestedRound' = requestedRound + 1
            /\ requestedSeq' = [requestedSeq EXCEPT ![isrSlot] = requestedRound + 1]
            /\ pendingMask' = pendingMask \union {isrSlot}
        BY <1>2, <3>1 DEF TickActive
      <4> QED
        BY <1>0, <2>0, <2>1, <4>1, SlotFacts DEF ComputeInv, Computing, Active, Enabled, TypeOK
    <3>2. CASE ~Enabled(isrSlot)
      <4>1. /\ requestedRound' = requestedRound
            /\ requestedSeq' = [requestedSeq EXCEPT ![isrSlot] = 0]
            /\ pendingMask' = pendingMask \ {isrSlot}
        BY <1>2, <3>2 DEF TickActive
      <4> QED
        BY <1>0, <2>0, <2>1, <3>2, <4>1, SlotFacts
           DEF ComputeInv, Computing, Active, Enabled, TypeOK
    <3> QED
      BY <3>1, <3>2
  <2>2. CASE ~Computing
    BY <1>0, <1>1, <2>0, <2>2 DEF ComputeInv, Computing
  <2> QED
    BY <2>1, <2>2
<1>3. ASSUME NEW s \in Slots, BeginCompute(s) PROVE ComputeInv'
  <2>1. /\ Active /\ Active' /\ computeBusy' = TRUE /\ pc' = "begun"
        /\ computeSlot' = s /\ slotSnapshot' = s /\ s \in pendingMask
        /\ computeRequestSeq' = requestedSeq[s] /\ request' = requestedSeq[s]
        /\ requestedSeq[s] # 0
        /\ UNCHANGED <<mode, requestedSeq, requestedRound, pendingMask>>
    BY <1>3 DEF BeginCompute, Oldest, Active, Enabled, outVars, isrVars, handVars
  <2> QED
    BY <1>0, <2>1 DEF ComputeInv, Computing, SeqInv, TypeOK
<1>4. CASE ReadLow \/ CheckLate \/ Sample
  BY <1>0, <1>4 DEF ReadLow, CheckLate, Sample, ComputeInv, Computing, Active, Enabled, outVars, coordVars,
                    isrVars, handVars, busyVars, localVars
<1>5. ASSUME NEW out \in {"off", "on"}, Stage(out) PROVE ComputeInv'
  BY <1>0, <1>5 DEF Stage, ComputeInv, Computing, Active, Enabled, coordVars, isrVars, handVars,
                    busyVars, localVars, TypeOK
<1>6. CASE HomeReached
  <2>1. /\ pc = "sampled" /\ pc' = "staged" /\ UNCHANGED sysState
        /\ mode[slotSnapshot] # "DISABLED" /\ mode' = [mode EXCEPT ![slotSnapshot] = "DRIVE"]
        /\ fresh' = fresh \union {slotSnapshot}
        /\ UNCHANGED <<requestedSeq, requestedRound, pendingMask, busyVars, slotSnapshot, request>>
    BY <1>6 DEF HomeReached, coordVars, isrVars, handVars, localVars
  <2> QED
    BY <1>0, <2>1 DEF ComputeInv, Computing, Active, Enabled, busyVars, TypeOK
<1>7. CASE FinishCompute
  BY <1>7 DEF FinishCompute, ComputeInv, Computing
<1> QED
  <2> USE DEF outVars, coordVars, busyVars, localVars, stopVars
  <2>1. CASE TickInactive \/ ResetForNonRunning
    BY <1>0, <1>1, <2>1 DEF TickInactive, ResetForNonRunning, ClearPendingState, ComputeInv, Computing
  <2>2. CASE Command \/ Disabling
    <3>1. pc \in {"free", "disabling", "zeroed"} /\ pc' \in {"free", "disabling", "zeroed"}
      BY <2>2 DEF Command, Disabling, Start, Stop, Halt, Enable, Home, DisableOne, ZeroMotor,
                  ApplyZero
    <3>2. UNCHANGED computeBusy
      BY <2>2 DEF Command, Disabling, Start, Stop, Halt, Enable, Home, DisableOne, ZeroMotor,
                  ApplyZero
    <3> QED
      BY <1>0, <1>1, <3>1, <3>2 DEF ComputeInv, Computing
  <2>3. CASE UNCHANGED vars
    BY <1>0, <2>3 DEF vars, ComputeInv, Computing, Active, Enabled, isrVars, handVars
  <2> QED
    BY <1>2, <1>3, <1>4, <1>5, <1>6, <1>7, <2>1, <2>2, <2>3 DEF Next, Tick, Compute

-----------------------------------------------------------------------------
(* A prepared output answers the newest sample.                            *)
LEMMA CurrentStep == Inv /\ [Next]_vars => PublishedIsCurrent'
<1> SUFFICES ASSUME Inv, [Next]_vars PROVE PublishedIsCurrent'
  OBVIOUS
<1>0. TypeOK /\ SeqInv /\ ComputeInv /\ PublishedIsCurrent
  BY DEF Inv
<1>1. CASE TickInactive \/ ResetForNonRunning
  BY <1>1 DEF TickInactive, ResetForNonRunning, ClearPendingState, NoRequests, PublishedIsCurrent,
              Published
<1>2. CASE TickActive
  <2>1. CASE Enabled(isrSlot)
    <3>1. /\ requestedSeq' = [requestedSeq EXCEPT ![isrSlot] = requestedRound + 1]
          /\ preparedSeq' = preparedSeq /\ fresh' = fresh \ {isrSlot}
      BY <1>2, <2>1 DEF TickActive
    <3> QED
      BY <1>0, <3>1 DEF PublishedIsCurrent, Published, SeqInv, TypeOK
  <2>2. CASE ~Enabled(isrSlot)
    <3>1. /\ requestedSeq' = [requestedSeq EXCEPT ![isrSlot] = 0]
          /\ preparedSeq' = [preparedSeq EXCEPT ![isrSlot] = 0] /\ fresh' = fresh \ {isrSlot}
      BY <1>2, <2>2 DEF TickActive
    <3> QED
      BY <1>0, <3>1 DEF PublishedIsCurrent, Published, TypeOK
  <2> QED
    BY <2>1, <2>2
<1>3. ASSUME NEW out \in {"off", "on"}, Stage(out) PROVE PublishedIsCurrent'
  <2>1. ~Published(slotSnapshot)
    BY <1>0, <1>3 DEF Stage, ComputeInv, Computing, SeqInv, Published, TypeOK
  <2>2. /\ UNCHANGED <<requestedSeq, preparedSeq>>
        /\ \A s \in Slots \ {slotSnapshot} : s \in fresh => s \in fresh'
    BY <1>3 DEF Stage, coordVars, isrVars, handVars
  <2> QED
    BY <1>0, <2>1, <2>2 DEF PublishedIsCurrent, Published
<1>4. CASE FinishCompute
  <2>1. CASE Superseded
    BY <1>0, <1>4, <2>1 DEF FinishCompute, isrVars, handVars, PublishedIsCurrent, Published
  <2>2. CASE ~Superseded
    <3>1. computeSlot \in fresh /\ computeSlot \in Slots
      BY <1>0, <1>4, <2>2 DEF FinishCompute, Superseded, ComputeInv, Computing, TypeOK
    <3>2. preparedSeq' = preparedSeq \/ preparedSeq' = [preparedSeq EXCEPT ![computeSlot] = request]
      BY <1>4 DEF FinishCompute, handVars
    <3>3. UNCHANGED <<requestedSeq, fresh>>
      BY <1>4 DEF FinishCompute, isrVars
    <3> QED
      BY <1>0, <3>1, <3>2, <3>3 DEF PublishedIsCurrent, Published, TypeOK
  <2> QED
    BY <2>1, <2>2
<1>5. CASE UNCHANGED <<requestedSeq, preparedSeq>> /\ fresh \subseteq fresh'
  BY <1>0, <1>5 DEF PublishedIsCurrent, Published
<1> QED
  <2> USE DEF outVars, coordVars, isrVars, handVars, busyVars, localVars, stopVars
  <2>1. CASE Command \/ Disabling \/ UNCHANGED vars
    BY <1>5, <2>1 DEF Command, Disabling, Start, Stop, Halt, Enable, Home, DisableOne, ZeroMotor,
                      ApplyZero, vars
  <2>2. CASE HomeReached \/ ReadLow \/ CheckLate \/ Sample
    BY <1>5, <2>2 DEF ReadLow, CheckLate, Sample, HomeReached
  <2>3. ASSUME NEW s \in Slots, BeginCompute(s) PROVE PublishedIsCurrent'
    BY <1>5, <2>3 DEF BeginCompute
  <2> QED
    BY <1>1, <1>2, <1>3, <1>4, <2>1, <2>2, <2>3 DEF Next, Tick, Compute

(* Nothing revives the output of a disabled motor.                         *)
LEMMA OffStep == Inv /\ [Next]_vars => DisabledIsOff'
<1> SUFFICES ASSUME Inv, [Next]_vars PROVE DisabledIsOff'
  OBVIOUS
<1>0. TypeOK /\ StopInv /\ DisabledIsOff
  BY DEF Inv
<1>1. CASE UNCHANGED outVars /\ (UNCHANGED <<pc, todo>> \/ pc # "zeroed")
  BY <1>0, <1>1 DEF DisabledIsOff, outVars
<1>2. CASE TickActive
  <2>1. UNCHANGED <<mode, staged, pc, todo>>
    BY <1>2 DEF TickActive, stopVars
  <2>2. pending' = pending \/ pending' = [pending EXCEPT ![isrSlot] = staged[isrSlot]]
    BY <1>2 DEF TickActive
  <2>3. hw' = [hw EXCEPT ![isrSlot] = pending'[isrSlot]]
    BY <1>2 DEF TickActive
  <2> QED
    BY <1>0, <2>1, <2>2, <2>3 DEF DisabledIsOff, TypeOK
<1>3. ASSUME NEW m \in Slots, Enable(m) PROVE DisabledIsOff'
  BY <1>0, <1>3 DEF Enable, ZeroOutputs, stopVars, DisabledIsOff, TypeOK
<1>4. ASSUME NEW m \in Slots, Home(m) PROVE DisabledIsOff'
  BY <1>0, <1>4 DEF Home, stopVars, DisabledIsOff, TypeOK
<1>5. ASSUME NEW m \in Slots, ZeroMotor(m) PROVE DisabledIsOff'
  BY <1>0, <1>5 DEF ZeroMotor, ZeroOutputs, stopVars, DisabledIsOff, TypeOK
<1>6. ASSUME NEW m \in Slots, ApplyZero(m) PROVE DisabledIsOff'
  <2>1. \A k \in todo : (\A l \in todo : k <= l) => k = m
    BY <1>0, <1>6, SlotFacts DEF ApplyZero, TypeOK
  <2> QED
    BY <1>0, <1>6, <2>1 DEF ApplyZero, DisabledIsOff, TypeOK
<1>7. ASSUME NEW out \in {"off", "on"}, Stage(out) PROVE DisabledIsOff'
  BY <1>0, <1>7 DEF Stage, Enabled, stopVars, DisabledIsOff, TypeOK
<1>8. CASE HomeReached
  BY <1>0, <1>8 DEF HomeReached, ZeroOutputs, stopVars, DisabledIsOff, TypeOK
<1> QED
  <2> USE DEF stopVars
  <2>1. CASE TickInactive \/ ResetForNonRunning \/ UNCHANGED vars
    BY <1>1, <2>1 DEF TickInactive, ResetForNonRunning, vars
  <2>2. CASE Start \/ Stop \/ Halt
    BY <1>1, <2>2 DEF Start, Stop, Halt
  <2>3. ASSUME NEW m \in Slots, DisableOne(m) \/ BeginCompute(m) PROVE DisabledIsOff'
    BY <1>1, <2>3 DEF DisableOne, BeginCompute
  <2>4. CASE ReadLow \/ CheckLate \/ Sample \/ FinishCompute
    BY <1>1, <2>4 DEF ReadLow, CheckLate, Sample, FinishCompute
  <2> QED
    BY <1>2, <1>3, <1>4, <1>5, <1>6, <1>7, <1>8, <2>1, <2>2, <2>3, <2>4
       DEF Next, Tick, Command, Disabling, Compute

-----------------------------------------------------------------------------
LEMMA InvHolds == Spec => []Inv
<1>1. Inv /\ [Next]_vars => Inv'
  BY TypeStep, SeqStep, RoundStep, StopStep, ComputeStep, CurrentStep, OffStep DEF Inv
<1> QED
  BY InitInv, <1>1, PTL DEF Spec

(* The variables keep their types, for any number of motors.               *)
THEOREM Types == Spec => []TypeOK
  BY InvHolds, PTL DEF Inv

(* A published output answers the newest encoder sample of its motor,      *)
(* whatever the number of motors and however long the system runs.         *)
THEOREM Freshness == Spec => []PublishedIsCurrent
  BY InvHolds, PTL DEF Inv

(* disable() is final: no interrupt brings a disabled motor's output back. *)
THEOREM DisabledStaysOff == Spec => []DisabledIsOff
  BY InvHolds, PTL DEF Inv

(* Leaving RUNNING turns every motor off before the loop goes on.          *)
THEOREM StoppedMeansOff == Spec => []StoppedIsOff
<1>1. Inv => StoppedIsOff
  BY DEF Inv, TypeOK, StopInv, DisabledIsOff, StoppedIsOff
<1> QED
  BY InvHolds, <1>1, PTL

(* Request numbers are distinct and a round old at most.                   *)
THEOREM OneRound == Spec => []RequestsWithinRound
  BY InvHolds, PTL DEF Inv

(* The busy flag and the pending mask never strand a slot.                 *)
THEOREM NotStuck == Spec => []PipelineNotStuck
<1>1. Inv => PipelineNotStuck
  BY DEF Inv, ComputeInv, SeqInv, PipelineNotStuck
<1> QED
  BY InvHolds, <1>1, PTL

(* Reused and dropped outputs are accounted for, in every run.             *)
THEOREM ReuseAccounted == Spec => ReuseIsMissed
<1> DEFINE Reuse ==
      /\ "reused" \in note' /\ Tick => "missed" \in note' \/ ~Enabled(isrSlot)
      /\ "cross" \in note' => slotSnapshot \in pendingMask' \/ ~Enabled(slotSnapshot)
<1>1. ASSUME Inv, [Next]_vars PROVE [Reuse]_vars
  <2>0. TypeOK /\ SeqInv /\ ComputeInv
    BY <1>1 DEF Inv
  <2>1. CASE TickActive
    <3>1. requestedSeq[isrSlot] # 0 /\ ~Published(isrSlot) => isrSlot \in pendingMask
      BY <2>0 DEF SeqInv, TypeOK
    <3>2. "reused" \in note' => requestedSeq[isrSlot] # 0 /\ ~Published(isrSlot)
      BY <2>1 DEF TickActive
    <3>3. Enabled(isrSlot) /\ MissedBy(isrSlot) => "missed" \in note'
      BY <2>1 DEF TickActive
    <3>4. "cross" \notin note'
      BY <2>1 DEF TickActive
    <3> QED
      BY <3>1, <3>2, <3>3, <3>4 DEF MissedBy
  <2>2. CASE FinishCompute
    <3>1. "reused" \notin note' /\ ("cross" \in note' => Superseded)
      BY <2>2 DEF FinishCompute
    <3>2. Superseded => pendingMask' = pendingMask
      BY <2>2 DEF FinishCompute, handVars
    <3> QED
      BY <2>0, <2>2, <3>1, <3>2 DEF FinishCompute, ComputeInv, Computing
  <2>3. CASE UNCHANGED vars
    BY <2>3
  <2>4. CASE "reused" \notin note' /\ "cross" \notin note'
    BY <2>4
  <2> QED
    BY <1>1, <2>1, <2>2, <2>3, <2>4
       DEF Next, Tick, Command, Disabling, Compute, TickInactive, ResetForNonRunning, Start, Stop,
           Halt, Enable, Home, DisableOne, ZeroMotor, ApplyZero, BeginCompute, ReadLow, CheckLate, Sample,
           Stage, HomeReached
<1> QED
  BY InvHolds, <1>1, PTL DEF Spec, ReuseIsMissed

(* A compute counted late is one whose answer will be dropped, or the      *)
(* count is the work of a torn read.                                       *)
THEOREM LateDropped == Spec => LateIsDropped
<1> DEFINE Dropped == "late" \in note' => \/ requestedSeq[slotSnapshot] # request
                                          \/ low > requestedRound % LoadSize
<1>1. ASSUME Inv, [Next]_vars PROVE [Dropped]_vars
  <2>1. CASE CheckLate
    <3>1. /\ request # 0 /\ slotSnapshot \in Slots /\ isrSlot \in Slots
          /\ request \in Nat /\ requestedRound \in Nat
      BY <1>1, <2>1 DEF Inv, CheckLate, ComputeInv, Computing, TypeOK
    <3>2. requestedSeq[slotSnapshot] = request => requestedRound - request \in 0 .. Age(slotSnapshot)
      BY <1>1, <3>1 DEF Inv, RequestsWithinRound
    <3>3. Age(slotSnapshot) \in 0 .. N - 1
      BY <3>1, NAssumption DEF Age, Slots
    <3>4. "late" \in note' => request + N <= (requestedRound - (requestedRound % LoadSize)) + low
      BY <2>1 DEF CheckLate, IsLate
    <3>5. requestedRound % LoadSize \in Nat /\ low \in Nat
      BY <1>1, <3>1, LoadAssumption DEF Inv, TypeOK
    <3>6. "late" \in note' /\ ~(low > requestedRound % LoadSize) => request + N <= requestedRound
      BY <3>1, <3>4, <3>5, NAssumption
    <3> QED
      BY <3>1, <3>2, <3>3, <3>6, NAssumption
  <2>2. CASE UNCHANGED vars
    BY <2>2
  <2>3. CASE "late" \notin note'
    BY <2>3
  <2> QED
    BY <1>1, <2>1, <2>2, <2>3
       DEF Next, Tick, Command, Disabling, Compute, TickInactive, TickActive, ResetForNonRunning,
           Start, Stop, Halt, Enable, Home, DisableOne, ZeroMotor, ApplyZero, BeginCompute, ReadLow, Sample,
           Stage, HomeReached, FinishCompute
<1> QED
  BY InvHolds, <1>1, PTL DEF Spec, LateIsDropped

-----------------------------------------------------------------------------
(* The coordinator implements the abstract hand-off.                       *)
worker == IF computeBusy THEN computeSlot ELSE Nobody
valid == computeBusy /\ requestedSeq[computeSlot] = computeRequestSeq

LEMMA HandoffInit == Init => Handoff!Init
  BY DEF Init, Handoff!Init, Want, NoRequests

(* A step that moves neither requests nor worker is a stutter.             *)
LEMMA HandoffStutter ==
  UNCHANGED <<requestedSeq, preparedSeq, busyVars>> => UNCHANGED Handoff!hvars
  BY DEF Handoff!hvars, Want, Published, busyVars

LEMMA HandoffStep == Inv /\ [Next]_vars => [Handoff!Next]_(Handoff!hvars)
<1> SUFFICES ASSUME Inv, [Next]_vars PROVE Handoff!Next \/ UNCHANGED Handoff!hvars
  OBVIOUS
<1>0. TypeOK /\ SeqInv /\ ComputeInv
  BY DEF Inv
<1>1. CASE TickInactive \/ ResetForNonRunning
  <2>1. ~computeBusy /\ ~computeBusy'
    BY <1>0, <1>1 DEF TickInactive, ResetForNonRunning, ClearPendingState, ComputeInv
  <2>2. Want' = [s \in Slots |-> "none"]
    BY <1>1 DEF TickInactive, ResetForNonRunning, ClearPendingState, NoRequests, Want
  <2>3. worker = Nobody /\ worker' = Nobody /\ ~valid /\ ~valid'
    BY <2>1 DEF worker, valid
  <2>4. Handoff!Clear
    BY <2>2, <2>3 DEF Handoff!Clear, worker, valid
  <2> QED
    BY <2>4 DEF Handoff!Next
<1>2. CASE TickActive
  <2>0. isrSlot \in Slots /\ UNCHANGED busyVars
    BY <1>0, <1>2 DEF TickActive, TypeOK
  <2>1. PICK w \in {"none", "wanted"} : Want' = [Want EXCEPT ![isrSlot] = w]
    <3>1. CASE Enabled(isrSlot)
      <4>1. /\ requestedSeq' = [requestedSeq EXCEPT ![isrSlot] = requestedRound + 1]
            /\ preparedSeq' = preparedSeq
        BY <1>2, <3>1 DEF TickActive
      <4>2. requestedRound + 1 # 0 /\ preparedSeq[isrSlot] # requestedRound + 1
        BY <1>0, <2>0 DEF SeqInv, TypeOK
      <4>3. Want' = [Want EXCEPT ![isrSlot] = "wanted"]
        BY <1>0, <2>0, <4>1, <4>2 DEF Want, Published, TypeOK
      <4> QED
        BY <4>3
    <3>2. CASE ~Enabled(isrSlot)
      <4>1. /\ requestedSeq' = [requestedSeq EXCEPT ![isrSlot] = 0]
            /\ preparedSeq' = [preparedSeq EXCEPT ![isrSlot] = 0]
        BY <1>2, <3>2 DEF TickActive
      <4>3. Want' = [Want EXCEPT ![isrSlot] = "none"]
        BY <1>0, <2>0, <4>1 DEF Want, Published, TypeOK
      <4> QED
        BY <4>3
    <3> QED
      BY <3>1, <3>2
  <2>2. worker' = worker
    BY <2>0 DEF worker, busyVars
  <2>3. \A s \in Slots \ {isrSlot} : requestedSeq'[s] = requestedSeq[s]
    BY <1>0, <1>2 DEF TickActive, TypeOK
  <2>4. computeBusy /\ computeSlot = isrSlot => requestedSeq'[isrSlot] # computeRequestSeq
    BY <1>0, <1>2, <2>0 DEF TickActive, ComputeInv, TypeOK
  <2>5. valid' <=> valid /\ worker # isrSlot
    BY <1>0, <2>0, <2>3, <2>4, NobodyAssumption DEF worker, valid, busyVars, TypeOK
  <2>6. Handoff!Visit(isrSlot)
    BY <2>1, <2>2, <2>5 DEF Handoff!Visit, worker, valid
  <2> QED
    BY <2>0, <2>6 DEF Handoff!Next
<1>3. ASSUME NEW s \in Slots, BeginCompute(s) PROVE Handoff!Next
  <2>1. /\ ~computeBusy /\ computeBusy' /\ computeSlot' = s
        /\ computeRequestSeq' = requestedSeq[s] /\ UNCHANGED <<requestedSeq, preparedSeq>>
    BY <1>3 DEF BeginCompute, isrVars, handVars
  <2>2. Want[s] = "wanted"
    BY <1>0, <1>3 DEF BeginCompute, Oldest, SeqInv, Want
  <2>3. worker = Nobody /\ worker' = s /\ valid' /\ Want' = Want
    BY <2>1 DEF worker, valid, Want, Published
  <2>4. Handoff!Take(s)
    BY <2>2, <2>3 DEF Handoff!Take, worker, valid
  <2> QED
    BY <2>4 DEF Handoff!Next
<1>4. CASE FinishCompute
  <2>1. /\ computeBusy /\ ~computeBusy' /\ computeSlot \in Slots /\ computeRequestSeq = request
        /\ request # 0 /\ UNCHANGED requestedSeq
    BY <1>0, <1>4 DEF FinishCompute, ComputeInv, Computing, TypeOK, isrVars
  <2>2. worker = computeSlot /\ worker # Nobody /\ worker' = Nobody /\ ~valid'
    BY <2>1, NobodyAssumption DEF worker, valid
  <2>3. CASE valid
    <3>1. preparedSeq' = [preparedSeq EXCEPT ![computeSlot] = request]
      BY <1>4, <2>1, <2>3 DEF FinishCompute, Superseded, valid
    <3>2. Want' = [Want EXCEPT ![computeSlot] = "ready"]
      BY <1>0, <2>1, <2>3, <3>1 DEF Want, Published, valid, TypeOK
    <3>3. Handoff!Deliver
      BY <2>2, <2>3, <3>2 DEF Handoff!Deliver, worker, valid
    <3> QED
      BY <3>3 DEF Handoff!Next
  <2>4. CASE ~valid
    <3>1. preparedSeq' = preparedSeq
      BY <1>4, <2>1, <2>4 DEF FinishCompute, Superseded, valid, handVars
    <3>2. Want' = Want
      BY <2>1, <3>1 DEF Want, Published
    <3>3. Handoff!Deliver
      BY <2>2, <2>4, <3>2 DEF Handoff!Deliver, worker, valid
    <3> QED
      BY <3>3 DEF Handoff!Next
  <2> QED
    BY <2>3, <2>4
<1>5. CASE UNCHANGED <<requestedSeq, preparedSeq, busyVars>>
  BY <1>5, HandoffStutter
<1> QED
  <2> USE DEF outVars, coordVars, isrVars, handVars
  <2>1. CASE Command \/ Disabling \/ UNCHANGED vars
    BY <1>5, <2>1 DEF Command, Disabling, Start, Stop, Halt, Enable, Home, DisableOne, ZeroMotor,
                      ApplyZero, vars
  <2>2. CASE HomeReached \/ ReadLow \/ CheckLate \/ Sample
    BY <1>5, <2>2 DEF ReadLow, CheckLate, Sample, HomeReached
  <2>3. ASSUME NEW out \in {"off", "on"}, Stage(out) PROVE UNCHANGED Handoff!hvars
    BY <1>5, <2>3, HandoffStutter DEF Stage
  <2> QED
    BY <1>1, <1>2, <1>3, <1>4, <2>1, <2>2, <2>3 DEF Next, Tick, Compute

(* Matching request numbers implements "my request was not replaced": for  *)
(* any number of motors every behaviour is one of the abstract hand-off.   *)
THEOREM Implementation == Spec => ImplementsHandoff
  BY InvHolds, HandoffInit, HandoffStep, PTL DEF Spec, ImplementsHandoff, Handoff!Spec
=============================================================================
