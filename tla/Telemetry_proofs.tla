------------------------- MODULE Telemetry_proofs -------------------------
(* Proofs about what the firmware sends.  The transmit queue, for any depth   *)
(* and any list of replies: what leaves and in which order, what fits in a    *)
(* frame, what is forgotten.  Then the frames themselves, for any messages    *)
(* and any checksum: what is coded is decoded, and the decoder of a line that *)
(* was disturbed is in step again within a bound.                             *)
EXTENDS Telemetry, FrameCodec, SequenceTheorems, WellFoundedInduction, TLAPS

Framing == {"replies", "change", "slot"}

\* The buffers form a ring; sendTelemetry() builds only while one is free.
Ring == tail = (head + count) % Depth

Space == pc \in {"build"} \cup Framing => count < Depth

Inv == TypeOK /\ Ring /\ Space

-----------------------------------------------------------------------------
(* The ring's arithmetic.                                                     *)
LEMMA DepthFacts == Depth \in Nat /\ Depth >= 1 /\ Chunks \in Nat /\ Chunks >= 1
  BY DepthAssumption

LEMMA ModRange ==
  ASSUME NEW x \in Int
  PROVE  x % Depth \in 0..(Depth - 1)
  BY DepthFacts, SMTT(30)

LEMMA ModBelow ==
  ASSUME NEW x \in 0..(Depth - 1)
  PROVE  x % Depth = x
  BY DepthFacts, SMTT(30)

LEMMA ModAbove ==
  ASSUME NEW x \in 0..(Depth - 1)
  PROVE  (x + Depth) % Depth = x
  BY DepthFacts, SMTT(30)

\* Where the k-th buffer after b is.
LEMMA Around ==
  ASSUME NEW b \in Buffers, NEW k \in 0..Depth
  PROVE  (b + k) % Depth = IF b + k < Depth THEN b + k ELSE b + k - Depth
<1>1. CASE b + k < Depth
  <2>1. b + k \in 0..(Depth - 1)
    BY <1>1, DepthFacts DEF Buffers
  <2> QED
    BY <1>1, <2>1, ModBelow
<1>2. CASE b + k >= Depth
  <2>1. b + k - Depth \in 0..(Depth - 1) /\ b + k = (b + k - Depth) + Depth
    BY <1>2, DepthFacts DEF Buffers
  <2>2. ((b + k - Depth) + Depth) % Depth = b + k - Depth
    BY <2>1, ModAbove
  <2> QED
    BY <1>2, <2>1, <2>2, DepthFacts DEF Buffers
<1> QED
  BY <1>1, <1>2, DepthFacts DEF Buffers

LEMMA FollowingFacts ==
  ASSUME NEW b \in Buffers
  PROVE  /\ Following(b) \in Buffers
         /\ Following(b) = IF b + 1 < Depth THEN b + 1 ELSE b + 1 - Depth
<1>1. 1 \in 0..Depth
  BY DepthFacts
<1> QED
  BY <1>1, Around, DepthFacts DEF Following, Buffers

\* The k-th buffer after the one that follows b is the (k+1)-th after b.
LEMMA FollowingShifts ==
  ASSUME NEW b \in Buffers, NEW k \in 0..(Depth - 1)
  PROVE  /\ (Following(b) + k) % Depth = (b + (k + 1)) % Depth
         /\ Following((b + k) % Depth) = (b + (k + 1)) % Depth
<1>1. k \in 0..Depth /\ k + 1 \in 0..Depth /\ Following(b) \in Buffers
  BY FollowingFacts, DepthFacts
<1>2. (b + (k + 1)) % Depth = IF b + (k + 1) < Depth THEN b + (k + 1) ELSE b + (k + 1) - Depth
  BY <1>1, Around
<1>3. (Following(b) + k) % Depth = IF Following(b) + k < Depth THEN Following(b) + k ELSE Following(b) + k - Depth
  BY <1>1, Around
<1>4. (b + k) % Depth = IF b + k < Depth THEN b + k ELSE b + k - Depth
  BY <1>1, Around
<1>5. (b + k) % Depth \in Buffers
  BY <1>4, DepthFacts DEF Buffers
<1>6. Following((b + k) % Depth) =
        IF ((b + k) % Depth) + 1 < Depth THEN ((b + k) % Depth) + 1 ELSE ((b + k) % Depth) + 1 - Depth
  BY <1>5, FollowingFacts
<1>7. Following(b) = IF b + 1 < Depth THEN b + 1 ELSE b + 1 - Depth
  BY FollowingFacts
<1>8. b \in Int /\ b >= 0 /\ b < Depth /\ k \in Int /\ k >= 0 /\ k < Depth /\ Depth \in Int
  BY DepthFacts DEF Buffers
<1>9. (Following(b) + k) % Depth = (b + (k + 1)) % Depth
  BY <1>2, <1>3, <1>7, <1>8
<1>10. Following((b + k) % Depth) = (b + (k + 1)) % Depth
  BY <1>2, <1>4, <1>6, <1>8
<1> QED
  BY <1>9, <1>10

\* Two buffers less than a round apart are not the same.
LEMMA Apart ==
  ASSUME NEW b \in Buffers, NEW k \in 0..Depth, NEW l \in 0..Depth, k < l, l - k < Depth
  PROVE  (b + k) % Depth # (b + l) % Depth
<1>1. (b + k) % Depth = IF b + k < Depth THEN b + k ELSE b + k - Depth
  BY Around
<1>2. (b + l) % Depth = IF b + l < Depth THEN b + l ELSE b + l - Depth
  BY Around
<1>3. b \in Int /\ k \in Int /\ l \in Int /\ Depth \in Int
  BY DepthFacts DEF Buffers
<1> QED
  BY <1>1, <1>2, <1>3

-----------------------------------------------------------------------------
(* Types.                                                                     *)
LEMMA FilledType ==
  ASSUME NEW P
  PROVE  Filled(P) \in Frames
<1>1. Filled(P) \subseteq Replies
  BY DEF Filled, Replies
<1> QED
  BY <1>1 DEF Frames

LEMMA FrameTypes ==
  /\ Empty \in Frames
  /\ \A c \in Changes : {c} \in Frames
  /\ \A s \in Slots : Superframe[s] \in Frames
<1>1. \A s \in Slots : Superframe[s] \subseteq Streams
  BY DEF Streams
<1>2. \A c \in Changes : {c} \subseteq Replies \cup Changes \cup Streams
  OBVIOUS
<1>3. Empty \in Frames
  BY DEF Empty, Frames
<1>4. \A c \in Changes : {c} \in Frames
  <2>1. Frames = SUBSET (Replies \cup Changes \cup Streams)
    BY DEF Frames
  <2> QED
    BY <1>2, <2>1, Zenon
<1>5. \A s \in Slots : Superframe[s] \in Frames
  BY <1>1, Zenon DEF Frames
<1> QED
  BY <1>3, <1>4, <1>5

LEMMA SlotFacts ==
  /\ 1 \in Slots
  /\ \A s \in Slots : (s % Len(Superframe)) + 1 \in Slots
<1>1. Slots = 1..Len(Superframe) /\ Len(Superframe) \in Nat /\ Len(Superframe) >= 1
  BY SlotsAssumption DEF Slots
<1>2. \A s \in Nat : s % Len(Superframe) \in 0..(Len(Superframe) - 1)
  BY <1>1, SMTT(30)
<1>3. ASSUME NEW s \in Slots PROVE (s % Len(Superframe)) + 1 \in Slots
  <2>1. s \in Nat /\ s % Len(Superframe) \in 0..(Len(Superframe) - 1)
    BY <1>1, <1>2
  <2> DEFINE r == s % Len(Superframe)
  <2>2. r \in 0..(Len(Superframe) - 1)
    BY <2>1
  <2> HIDE DEF r
  <2>3. r + 1 \in Slots
    BY <1>1, <2>2
  <2> QED
    BY <2>3 DEF r
<1> QED
  BY <1>1, <1>3

\* TypeOK in parts.
Counts ==
  /\ head \in Buffers /\ tail \in Buffers /\ count \in 0..Depth
  /\ offset \in 0..(Chunks - 1)

Flags == pc \in {"free", "full", "build"} \cup Framing /\ heartbeat \in BOOLEAN /\ booted \in BOOLEAN

Due == pending \subseteq Replies /\ changed \subseteq Changes /\ slot \in Slots

Kept == storage \in [Buffers -> Frames]

LEMMA Parts == TypeOK <=> Counts /\ Flags /\ Due /\ Kept
  BY DEF TypeOK, Counts, Flags, Due, Kept, Framing

LEMMA InitInv == Init => Inv
<1> SUFFICES ASSUME Init PROVE Inv
  OBVIOUS
<1>1. Counts /\ Ring
  BY DepthFacts, ModBelow DEF Init, Counts, Ring, Buffers
<1>2. Flags
  BY DEF Init, Flags
<1>3. Due
  BY SlotFacts DEF Init, Due
<1>4. Kept
  BY FrameTypes DEF Init, Kept
<1> QED
  BY <1>1, <1>2, <1>3, <1>4, Parts DEF Inv, Space, Init, Framing

-----------------------------------------------------------------------------
(* The steps.                                                                 *)
LEMMA FlagsStep ==
  ASSUME Flags, [Next]_vars
  PROVE  Flags'
<1> USE DEF Flags, Framing
<1>1. CASE Drain
  BY <1>1, Zenon DEF Drain, envVars
<1>2. CASE Gate \/ GiveUp \/ GateOpens
  BY <1>2, Zenon DEF Gate, GiveUp, GateOpens, envVars
<1>3. CASE BuildReplies \/ Silent
  BY <1>3, Zenon DEF BuildReplies, Silent, envVars
<1>4. CASE BuildChange \/ BuildSlot
  BY <1>4, Zenon DEF BuildChange, BuildSlot, envVars
<1>5. CASE SendFrame
  BY <1>5, Zenon DEF SendFrame, envVars
<1>6. CASE CancelMag \/ Heartbeat \/ Boot
  BY <1>6, Zenon DEF CancelMag, Heartbeat, Boot, envVars
<1>7. ASSUME NEW r \in Replies, Request(r)
      PROVE  Flags'
  BY <1>7, Zenon DEF Request, envVars
<1>8. ASSUME NEW c \in Changes, Change(c)
      PROVE  Flags'
  BY <1>8, Zenon DEF Change, envVars
<1>9. CASE UNCHANGED vars
  BY <1>9 DEF vars, envVars
<1> QED
  BY <1>1, <1>2, <1>3, <1>4, <1>5, <1>6, <1>7, <1>8, <1>9, Zenon DEF Next

LEMMA DueStep ==
  ASSUME Due, [Next]_vars
  PROVE  Due'
<1> USE DEF Due
<1>1. CASE Drain
  BY <1>1 DEF Drain
<1>2. CASE Gate \/ GiveUp \/ GateOpens
  BY <1>2 DEF Gate, GiveUp, GateOpens
<1>3. CASE BuildReplies
  BY <1>3 DEF BuildReplies
<1>4. CASE Silent
  BY <1>4, SlotFacts DEF Silent, Advance
<1>5. CASE BuildChange \/ BuildSlot
  BY <1>5 DEF BuildChange, BuildSlot, Remaining
<1>6. CASE SendFrame
  BY <1>6, SlotFacts DEF SendFrame, NextSlot
<1>7. CASE CancelMag \/ Heartbeat
  BY <1>7 DEF CancelMag, Heartbeat
<1>8. CASE Boot
  BY <1>8 DEF Boot
<1>9. ASSUME NEW r \in Replies, Request(r)
      PROVE  Due'
  BY <1>9 DEF Request
<1>10. ASSUME NEW c \in Changes, Change(c)
       PROVE  Due'
  BY <1>10 DEF Change
<1>11. CASE UNCHANGED vars
  BY <1>11 DEF vars
<1> QED
  BY <1>1, <1>2, <1>3, <1>4, <1>5, <1>6, <1>7, <1>8, <1>9, <1>10, <1>11, Zenon DEF Next

\* The kinds of steps as the queue sees them: a frame leaves, a frame is built,
\* a frame is queued, or nothing happens to it.
Still == UNCHANGED ringVars

Built == pc = "build" /\ UNCHANGED <<head, tail, count, offset>> /\ \E f \in Frames : Write(f)

Moved ==
    /\ pc \in {"free", "full"} /\ count > 0
    /\ pc' = pc /\ tail' = tail
    /\ \/ offset' = offset + 1 /\ offset + 1 < Chunks /\ UNCHANGED <<storage, head, count>>
       \/ /\ offset' = 0 /\ head' = Following(head) /\ count' = count - 1
          /\ storage' = [storage EXCEPT ![head] = Empty]

Put == /\ pc \in Framing /\ count < Depth
       /\ pc' = "free"
       /\ tail' = Following(tail) /\ count' = count + 1
       /\ UNCHANGED <<storage, head, offset>>

\* What a step that leaves the queue alone does to where sendTelemetry() is.
SpaceKept == pc' \in {"build"} \cup Framing => pc \in {"build"} \cup Framing \/ count < Depth

LEMMA Kinds ==
  ASSUME Due, Counts, [Next]_vars
  PROVE  \/ Still /\ SpaceKept
         \/ Built
         \/ Moved
         \/ Put
<1> USE DEF Framing
<1>1. CASE Drain
  BY <1>1 DEF Drain, Moved
<1>2. CASE Gate \/ GiveUp \/ GateOpens
  <2>1. ASSUME Gate PROVE Still /\ SpaceKept
    <3>1. Still /\ pc' = IF count >= Depth THEN "full" ELSE "build"
      BY <2>1 DEF Gate, Still
    <3> QED
      BY <3>1, DepthFacts DEF SpaceKept, Counts
  <2>2. ASSUME GiveUp PROVE Still /\ SpaceKept
    BY <2>2 DEF GiveUp, Still, SpaceKept
  <2>3. ASSUME GateOpens PROVE Still /\ SpaceKept
    BY <2>3 DEF GateOpens, Still, SpaceKept
  <2> QED
    BY <1>2, <2>1, <2>2, <2>3
<1>3. CASE BuildReplies
  BY <1>3, FilledType DEF BuildReplies, Built
<1>4. CASE Silent
  BY <1>4, FrameTypes DEF Silent, Built
<1>5. CASE BuildChange
  BY <1>5, FrameTypes DEF BuildChange, Built, Due
<1>6. CASE BuildSlot
  BY <1>6, FrameTypes DEF BuildSlot, Built, Due
<1>7. CASE SendFrame
  <2>1. pc \in Framing /\ pc' = "free" /\ UNCHANGED <<storage, head, offset>>
    BY <1>7 DEF SendFrame
  <2>2. CASE Queued
    BY <1>7, <2>1, <2>2 DEF SendFrame, Put, Queued
  <2>3. CASE ~Queued
    <3>1. tail' = tail /\ count' = count
      BY <1>7, <2>3, Zenon DEF SendFrame
    <3> QED
      BY <2>1, <3>1 DEF Still, SpaceKept, ringVars
  <2> QED
    BY <2>2, <2>3
<1>8. CASE CancelMag \/ Heartbeat \/ Boot
  BY <1>8 DEF CancelMag, Heartbeat, Boot, Still, SpaceKept
<1>9. ASSUME NEW r \in Replies, Request(r)
      PROVE  Still /\ SpaceKept
  BY <1>9 DEF Request, Still, SpaceKept
<1>10. ASSUME NEW c \in Changes, Change(c)
       PROVE  Still /\ SpaceKept
  BY <1>10 DEF Change, Still, SpaceKept
<1>11. CASE UNCHANGED vars
  BY <1>11 DEF vars, Still, SpaceKept
<1> QED
  BY <1>1, <1>2, <1>3, <1>4, <1>5, <1>6, <1>7, <1>8, <1>9, <1>10, <1>11, Zenon DEF Next

LEMMA RingStep ==
  ASSUME Counts, Kept, Ring, Space, Due, [Next]_vars
  PROVE  Counts' /\ Kept' /\ Ring' /\ Space'
<1>1. CASE Still /\ SpaceKept
  <2>1. UNCHANGED <<storage, head, tail, count, offset>>
    BY <1>1 DEF Still, ringVars
  <2>2. Space'
    BY <1>1, <2>1 DEF SpaceKept, Space
  <2> QED
    BY <2>1, <2>2 DEF Counts, Kept, Ring
<1>2. CASE Built
  <2>1. PICK f \in Frames : Write(f)
    BY <1>2 DEF Built
  <2>2. UNCHANGED <<head, tail, count, offset>> /\ count < Depth
    BY <1>2 DEF Built, Space
  <2>3. Kept'
    BY <2>1 DEF Write, Kept
  <2> QED
    BY <2>2, <2>3 DEF Counts, Ring, Space
<1>3. CASE Moved
  <2>1. CASE offset' = offset + 1 /\ offset + 1 < Chunks /\ UNCHANGED <<storage, head, count>>
    BY <1>3, <2>1, DepthFacts DEF Moved, Counts, Kept, Ring, Space, Framing
  <2>2. CASE /\ offset' = 0 /\ head' = Following(head) /\ count' = count - 1
             /\ storage' = [storage EXCEPT ![head] = Empty]
    <3>1. Kept'
      BY <2>2, FrameTypes DEF Kept
    <3>2. Counts'
      BY <1>3, <2>2, FollowingFacts, DepthFacts DEF Moved, Counts
    <3>3. count - 1 \in 0..(Depth - 1) /\ (count - 1) + 1 = count
      BY <1>3, DepthFacts DEF Moved, Counts
    <3>4. (Following(head) + (count - 1)) % Depth = (head + ((count - 1) + 1)) % Depth
      BY <3>3, FollowingShifts DEF Counts
    <3>5. Ring'
      BY <1>3, <2>2, <3>3, <3>4 DEF Ring, Moved
    <3>6. Space'
      BY <1>3 DEF Moved, Space, Framing
    <3> QED
      BY <3>1, <3>2, <3>5, <3>6
  <2> QED
    BY <1>3, <2>1, <2>2 DEF Moved
<1>4. CASE Put
  <2>1. Counts'
    BY <1>4, FollowingFacts, DepthFacts DEF Put, Counts
  <2>2. count \in 0..(Depth - 1)
    BY <1>4, DepthFacts DEF Put, Counts
  <2>3. Following((head + count) % Depth) = (head + (count + 1)) % Depth
    BY <2>2, FollowingShifts DEF Counts
  <2>4. Ring'
    BY <1>4, <2>3 DEF Put, Ring
  <2>5. Kept' /\ Space'
    BY <1>4 DEF Put, Kept, Space, Framing
  <2> QED
    BY <2>1, <2>4, <2>5
<1> QED
  BY <1>1, <1>2, <1>3, <1>4, Kinds, Zenon

LEMMA StepInv == Inv /\ [Next]_vars => Inv'
<1> SUFFICES ASSUME Inv, [Next]_vars PROVE Inv'
  OBVIOUS
<1>1. Counts /\ Flags /\ Due /\ Kept /\ Ring /\ Space
  BY Parts DEF Inv
<1>2. Counts' /\ Flags' /\ Due' /\ Kept' /\ Ring' /\ Space'
  BY <1>1, FlagsStep, DueStep, RingStep
<1>3. TypeOK'
  BY <1>2 DEF TypeOK, Counts, Flags, Due, Kept, Framing
<1> QED
  BY <1>2, <1>3 DEF Inv

\* Every variable of the sender keeps its type.
THEOREM Types == Spec => []TypeOK
<1>1. Inv => TypeOK
  BY DEF Inv
<1> QED
  BY InitInv, StepInv, <1>1, PTL DEF Spec

-----------------------------------------------------------------------------
(* The refinement.                                                            *)
Queue == [i \in 1..count |-> storage[(head + i - 1) % Depth]]

LEMMA QueueIsSeq ==
  ASSUME Counts, Kept
  PROVE  /\ Queue \in Seq(Frames) /\ Len(Queue) = count
         /\ \A i \in 1..count : Queue[i] = storage[(head + i - 1) % Depth]
<1>1. ASSUME NEW i \in 1..count PROVE storage[(head + i - 1) % Depth] \in Frames
  <2>1. (head + i - 1) % Depth \in Buffers
    BY ModRange DEF Counts, Buffers
  <2> QED
    BY <2>1 DEF Kept
<1>2. count \in Nat
  BY DepthFacts DEF Counts
<1> QED
  BY <1>1, <1>2 DEF Queue

\* A frame that is written goes to a buffer of no frame that is queued.
LEMMA BuiltKeepsQueue ==
  ASSUME Counts, Kept, Ring, Space, Built
  PROVE  Queue' = Queue
<1>1. PICK f \in Frames : storage' = [storage EXCEPT ![tail] = f]
  BY DEF Built, Write
<1>2. head' = head /\ count' = count /\ count < Depth
  BY DEF Built, Space
<1>3. ASSUME NEW i \in 1..count
      PROVE  storage'[(head + i - 1) % Depth] = storage[(head + i - 1) % Depth]
  <2>1. i - 1 \in 0..Depth /\ count \in 0..Depth /\ i - 1 < count /\ count - (i - 1) <= count
    BY <1>2, DepthFacts DEF Counts
  <2>2. i - 1 \in 0..Depth /\ i - 1 < count /\ count - (i - 1) < Depth /\ head + (i - 1) = head + i - 1
    BY <1>2, <2>1, DepthFacts DEF Counts, Buffers
  <2>3. (head + (i - 1)) % Depth # (head + count) % Depth
    BY <2>2, Apart DEF Counts
  <2>4. (head + i - 1) % Depth # tail
    BY <2>2, <2>3 DEF Ring
  <2>5. (head + i - 1) % Depth \in Buffers
    BY ModRange DEF Counts, Buffers
  <2> QED
    BY <1>1, <2>4, <2>5 DEF Kept
<1> QED
  BY <1>2, <1>3 DEF Queue

LEMMA InitFifo == Init => Fifo!Init
<1> SUFFICES ASSUME Init PROVE Queue = <<>>
  BY DEF Fifo!Init, Queue
<1>1. Counts /\ Kept
  BY InitInv, Parts DEF Inv
<1>2. Len(Queue) = 0 /\ Queue \in Seq(Frames)
  BY <1>1, QueueIsSeq DEF Init
<1> QED
  BY <1>2

\* A frame handed to the queue is its new last one.
LEMMA PutAppends ==
  ASSUME Inv, Put
  PROVE  /\ Queue' = Append(Queue, storage[tail])
         /\ Len(Queue) < Depth /\ storage[tail] \in Frames
<1>0. Counts /\ Flags /\ Due /\ Kept /\ Ring /\ Space
  BY Parts DEF Inv
<1>1. count \in Nat /\ count < Depth /\ count' = count + 1 /\ UNCHANGED <<storage, head>>
  BY <1>0, DepthFacts DEF Put, Counts
<1>2. tail \in Buffers /\ storage[tail] \in Frames
  BY <1>0 DEF Counts, Kept
<1>3. head + (count + 1) - 1 = head + count
  BY <1>0, <1>1 DEF Counts, Buffers
<1>4. Queue \in Seq(Frames) /\ Len(Queue) = count
  BY <1>0, QueueIsSeq
<1>5. Queue' = [i \in 1..(count + 1) |-> storage[(head + i - 1) % Depth]]
  BY <1>1 DEF Queue
<1>6. Append(Queue, storage[tail]) =
        [i \in 1..(count + 1) |-> IF i = count + 1 THEN storage[tail] ELSE Queue[i]]
  BY <1>2, <1>4
<1>7. ASSUME NEW i \in 1..(count + 1)
      PROVE  storage[(head + i - 1) % Depth] = IF i = count + 1 THEN storage[tail] ELSE Queue[i]
  <2>1. CASE i = count + 1
    BY <1>0, <1>3, <2>1 DEF Ring
  <2>2. CASE i # count + 1
    <3>1. i \in 1..count
      BY <1>1, <2>2
    <3> QED
      BY <1>0, <2>2, <3>1, QueueIsSeq
  <2> QED
    BY <2>1, <2>2
<1>8. Queue' = Append(Queue, storage[tail])
  BY <1>5, <1>6, <1>7, Zenon
<1> QED
  BY <1>1, <1>2, <1>4, <1>8

\* When the last part of a frame has left, the frame is off the queue.
LEMMA LeaveTakesHead ==
  ASSUME Inv, count > 0, head' = Following(head), count' = count - 1,
         storage' = [storage EXCEPT ![head] = Empty]
  PROVE  Queue # <<>> /\ Queue' = Tail(Queue)
<1>1. Counts /\ Kept
  BY Parts DEF Inv
<1>2. count \in 1..Depth /\ count > 0 /\ count \in Nat
  BY <1>1, DepthFacts DEF Counts
<1>3. ASSUME NEW i \in 1..(count - 1)
      PROVE  storage'[(Following(head) + i - 1) % Depth] = storage[(head + (i + 1) - 1) % Depth]
  <2>1. /\ i - 1 \in 0..(Depth - 1) /\ i \in 0..Depth /\ 0 \in 0..Depth /\ 0 < i /\ i - 0 < Depth
        /\ (i - 1) + 1 = i /\ head + 0 = head /\ head + (i + 1) - 1 = head + i
    BY <1>1, <1>2, DepthFacts DEF Counts, Buffers
  <2>2. (Following(head) + (i - 1)) % Depth = (head + ((i - 1) + 1)) % Depth
    BY <1>1, <2>1, FollowingShifts DEF Counts
  <2>3. Following(head) + i - 1 = Following(head) + (i - 1)
    BY <1>1, FollowingFacts DEF Counts, Buffers
  <2>4. (head + 0) % Depth # (head + i) % Depth
    BY <1>1, <2>1, Apart DEF Counts
  <2>5. (head + 0) % Depth = head
    BY <1>1, <2>1, ModBelow DEF Counts, Buffers
  <2>6. (head + i) % Depth \in Buffers
    BY <1>1, ModRange DEF Counts, Buffers
  <2>7. storage'[(head + i) % Depth] = storage[(head + i) % Depth]
    BY <1>1, <2>4, <2>5, <2>6 DEF Kept
  <2> QED
    BY <2>1, <2>2, <2>3, <2>7
<1>4. Queue # <<>> /\ Queue \in Seq(Frames) /\ Len(Queue) = count
  BY <1>1, <1>2, QueueIsSeq
<1>5. Queue' = [i \in 1..(count - 1) |-> storage[(head + (i + 1) - 1) % Depth]]
  BY <1>3 DEF Queue
<1>6. Tail(Queue) = [i \in 1..(count - 1) |-> Queue[i + 1]]
  <2>1. /\ Tail(Queue) \in Seq(Frames) /\ Len(Tail(Queue)) = count - 1
        /\ \A i \in 1..Len(Tail(Queue)) : Tail(Queue)[i] = Queue[i + 1]
    BY <1>4, HeadTailProperties
  <2>2. Tail(Queue) = [i \in 1..Len(Tail(Queue)) |-> Tail(Queue)[i]]
    BY <2>1, LenProperties, Zenon
  <2> QED
    BY <2>1, <2>2
<1>7. \A i \in 1..(count - 1) : Queue[i + 1] = storage[(head + (i + 1) - 1) % Depth]
  BY <1>1, <1>2, QueueIsSeq
<1>8. Queue' = Tail(Queue)
  BY <1>5, <1>6, <1>7, Zenon
<1> QED
  BY <1>4, <1>8

LEMMA StepFifo ==
  ASSUME Inv, [Next]_vars
  PROVE  Fifo!Next \/ Queue' = Queue
<1>1. Counts /\ Flags /\ Due /\ Kept /\ Ring /\ Space
  BY Parts DEF Inv
<1>2. Counts' /\ Kept'
  BY <1>1, RingStep
<1>3. CASE Still /\ SpaceKept
  BY <1>3 DEF Still, ringVars, Queue
<1>4. CASE Built
  BY <1>1, <1>4, BuiltKeepsQueue
<1>5. CASE Moved
  <2>1. CASE UNCHANGED <<storage, head, count>>
    BY <2>1 DEF Queue
  <2>2. CASE /\ offset' = 0 /\ head' = Following(head) /\ count' = count - 1
             /\ storage' = [storage EXCEPT ![head] = Empty]
    <3>1. Queue # <<>> /\ Queue' = Tail(Queue)
      BY <1>5, <2>2, LeaveTakesHead DEF Moved
    <3> QED
      BY <3>1 DEF Fifo!Next, Fifo!Leave, Queue
  <2> QED
    BY <1>5, <2>1, <2>2 DEF Moved
<1>6. CASE Put
  <2>1. /\ Queue' = Append(Queue, storage[tail])
        /\ Len(Queue) < Depth /\ storage[tail] \in Frames
    BY <1>6, PutAppends
  <2>2. \E f \in Frames : Len(Queue) < Depth /\ Queue' = Append(Queue, f)
    BY <2>1
  <2> QED
    BY <2>2 DEF Fifo!Next, Fifo!Put, Queue
<1> QED
  BY <1>1, <1>3, <1>4, <1>5, <1>6, Kinds, Zenon

\* The ring of buffers, in which frames are built in place, is a FIFO queue of
\* frames for every depth.
THEOREM Implementation == Spec => ImplementsFifo
<1>1. Inv /\ [Next]_vars => [Fifo!Next]_Queue
  BY StepFifo
<1>2. Spec => []Inv
  BY InitInv, StepInv, PTL DEF Spec
<1>3. Init => Fifo!Init
  BY InitFifo
<1>4. Spec => Fifo!Spec
  BY <1>1, <1>2, <1>3, PTL DEF Spec, Fifo!Spec, Queue
<1> QED
  BY <1>4 DEF ImplementsFifo

(* How long a frame is queued.                                                *)

\* The parts that leave until the i-th frame in the queue has left.
PartsLeft(i) == i * Chunks - offset

LeavesInTime ==
  \A i \in 1..count :
    /\ PartsLeft(i) \in 1..(Depth * Chunks)
    /\ ~Drain => i <= count' /\ Queue'[i] = Queue[i] /\ PartsLeft(i)' = PartsLeft(i)
    /\ Drain /\ PartsLeft(i) > 1 =>
         \E j \in 1..count' : Queue'[j] = Queue[i] /\ PartsLeft(j)' = PartsLeft(i) - 1
    /\ PartsLeft(i) = 1 => Leaving = Queue[i]

LEMMA PartsFacts ==
  ASSUME Counts, NEW i \in 1..count
  PROVE  /\ i \in Nat /\ i >= 1 /\ offset \in Nat /\ offset <= Chunks - 1
         /\ i * Chunks \in Nat /\ i * Chunks >= Chunks /\ i * Chunks <= Depth * Chunks
         /\ (i - 1) * Chunks = i * Chunks - Chunks
         /\ i > 1 => i * Chunks >= 2 * Chunks
<1> DEFINE c == Chunks
           d == Depth
<1>1. /\ i \in Nat /\ i >= 1 /\ offset \in Nat /\ offset <= Chunks - 1 /\ i <= d
      /\ c \in Nat /\ c >= 1 /\ d \in Nat
  BY DepthFacts DEF Counts
<1> HIDE DEF c, d
<1>2. i * c \in Nat /\ (i - 1) * c = i * c - c /\ (i - 1) * c >= 0 /\ (d - i) * c >= 0
      /\ (d - i) * c = d * c - i * c
  BY <1>1, SMTT(30)
<1>3. i > 1 => (i - 2) * c >= 0 /\ (i - 2) * c = i * c - 2 * c
  BY <1>1, SMTT(30)
<1>4. d * c \in Nat
  BY <1>1, SMTT(30)
<1>5. /\ i * c \in Nat /\ i * c >= c /\ i * c <= d * c
      /\ (i - 1) * c = i * c - c /\ (i > 1 => i * c >= 2 * c)
  BY <1>1, <1>2, <1>3, <1>4
<1> QED
  BY <1>1, <1>5 DEF c, d

\* Only a part that leaves changes the offset, or takes a frame away.
LEMMA OthersKeepOffset ==
  ASSUME [Next]_vars, ~Drain, Counts
  PROVE  offset' = offset /\ count' # count - 1
<1>0. count \in Nat /\ offset \in Nat
  BY DepthFacts DEF Counts
<1>1. CASE Gate \/ GiveUp \/ GateOpens \/ CancelMag \/ Heartbeat \/ Boot
  BY <1>0, <1>1 DEF Gate, GiveUp, GateOpens, CancelMag, Heartbeat, Boot, ringVars
<1>2. CASE BuildReplies \/ Silent \/ BuildChange \/ BuildSlot
  BY <1>0, <1>2 DEF BuildReplies, Silent, BuildChange, BuildSlot
<1>3. CASE SendFrame
  <2>1. offset' = offset /\ (count' = count \/ count' = count + 1)
    BY <1>3, Zenon DEF SendFrame
  <2> QED
    BY <1>0, <2>1
<1>4. CASE (\E r \in Replies : Request(r)) \/ \E c \in Changes : Change(c)
  BY <1>0, <1>4 DEF Request, Change, ringVars
<1>5. CASE UNCHANGED vars
  BY <1>0, <1>5 DEF vars, ringVars
<1> QED
  BY <1>1, <1>2, <1>3, <1>4, <1>5 DEF Next

\* Whatever sendTelemetry() does, a frame that is queued keeps its turn: as many
\* parts leave before it has left as its place says, at most those of a full
\* ring.
THEOREM FramesLeave == Spec => [][LeavesInTime]_vars
<1>1. ASSUME Inv, [Next]_vars PROVE LeavesInTime
  <2>0. Counts /\ Flags /\ Due /\ Kept /\ Ring /\ Space /\ Counts' /\ Kept'
    BY <1>1, Parts, RingStep DEF Inv
  <2> SUFFICES ASSUME NEW i \in 1..count
               PROVE  /\ PartsLeft(i) \in 1..(Depth * Chunks)
                      /\ ~Drain => i <= count' /\ Queue'[i] = Queue[i] /\ PartsLeft(i)' = PartsLeft(i)
                      /\ Drain /\ PartsLeft(i) > 1 =>
                           \E j \in 1..count' : Queue'[j] = Queue[i] /\ PartsLeft(j)' = PartsLeft(i) - 1
                      /\ PartsLeft(i) = 1 => Leaving = Queue[i]
    BY DEF LeavesInTime
  <2> DEFINE c == Chunks
             ic == i * Chunks
             dc == Depth * Chunks
  <2>1. /\ i \in Nat /\ i >= 1 /\ offset \in Nat /\ offset <= c - 1 /\ i <= count
        /\ count \in Nat /\ c \in Nat /\ c >= 1
        /\ ic \in Nat /\ ic >= c /\ ic <= dc /\ (i > 1 => ic >= 2 * c)
        /\ PartsLeft(i) = ic - offset /\ PartsLeft(i)' = ic - offset'
        /\ PartsLeft(i - 1)' = ic - c - offset'
    BY <2>0, PartsFacts, DepthFacts DEF PartsLeft, Counts
  <2>2. PartsLeft(i) = ic - offset /\ dc \in Int
    BY <2>0, DepthFacts DEF PartsLeft
  <2>3. Queue[i] = storage[(head + i - 1) % Depth] /\ Queue \in Seq(Frames) /\ Len(Queue) = count
    BY <2>0, QueueIsSeq
  <2> HIDE DEF c, ic, dc
  <2>4. PartsLeft(i) \in 1..dc
    BY <2>1, <2>2
  <2>5. PartsLeft(i) = 1 => Leaving = Queue[i]
    <3> SUFFICES ASSUME PartsLeft(i) = 1 PROVE Leaving = Queue[i]
      OBVIOUS
    <3>1. i = 1 /\ offset = c - 1 /\ count > 0
      BY <2>1, <2>2
    <3>2. (head + 1 - 1) % Depth = head
      <4>1. head + 1 - 1 = head /\ head \in 0..(Depth - 1)
        BY <2>0 DEF Counts, Buffers
      <4> QED
        BY <4>1, ModBelow
    <3> QED
      BY <2>3, <3>1, <3>2 DEF Leaving, c
  <2>6. ASSUME ~Drain
        PROVE  i <= count' /\ Queue'[i] = Queue[i] /\ PartsLeft(i)' = PartsLeft(i)
    <3>1. offset' = offset /\ count' # count - 1
      BY <1>1, <2>0, <2>6, OthersKeepOffset
    <3>2. PartsLeft(i)' = PartsLeft(i)
      BY <2>1, <3>1
    <3>3. CASE Still
      BY <2>1, <3>2, <3>3 DEF Still, ringVars, Queue
    <3>4. CASE Built
      <4>1. count' = count
        BY <3>4 DEF Built
      <4> QED
        BY <2>0, <2>1, <3>2, <3>4, <4>1, BuiltKeepsQueue
    <3>5. CASE Put
      <4>1. Queue' = Append(Queue, storage[tail]) /\ count' = count + 1
        BY <1>1, <3>5, PutAppends DEF Put
      <4>2. Queue'[i] = Queue[i]
        BY <2>1, <2>3, <4>1
      <4> QED
        BY <2>1, <3>2, <4>1, <4>2
    <3>6. ~Moved
      BY <2>1, <3>1 DEF Moved
    <3> QED
      BY <1>1, <2>0, <3>3, <3>4, <3>5, <3>6, Kinds
  <2>7. ASSUME Drain, PartsLeft(i) > 1
        PROVE  \E j \in 1..count' : Queue'[j] = Queue[i] /\ PartsLeft(j)' = PartsLeft(i) - 1
    <3>1. CASE offset + 1 < c
      <4>1. offset' = offset + 1 /\ UNCHANGED <<storage, head, count>>
        BY <2>7, <3>1 DEF Drain, c
      <4>2. Queue' = Queue /\ count' = count
        BY <4>1 DEF Queue
      <4>3. PartsLeft(i)' = PartsLeft(i) - 1
        BY <2>1, <4>1
      <4> QED
        BY <4>2, <4>3
    <3>2. CASE ~(offset + 1 < c)
      <4>1. /\ offset' = 0 /\ head' = Following(head) /\ count' = count - 1 /\ count > 0
            /\ storage' = [storage EXCEPT ![head] = Empty]
        BY <2>7, <3>2 DEF Drain, c
      <4>2. Queue # <<>> /\ Queue' = Tail(Queue)
        BY <1>1, <4>1, LeaveTakesHead
      <4>3. offset = c - 1 /\ i # 1
        <5>1. offset = c - 1
          BY <2>1, <3>2
        <5>2. i = 1 => ic = c
          BY <2>1 DEF ic, c
        <5> QED
          BY <2>1, <2>7, <5>1, <5>2
      <4>4. i - 1 \in 1..count' /\ PartsLeft(i - 1)' = PartsLeft(i) - 1
        BY <2>1, <4>1, <4>3
      <4>5. Queue'[i - 1] = Queue[i]
        <5>1. i - 1 \in 1..(Len(Queue) - 1) /\ (i - 1) + 1 = i
          BY <2>1, <2>3, <4>3
        <5> QED
          BY <2>3, <4>2, <5>1, HeadTailProperties
      <4> QED
        BY <4>4, <4>5
    <3> QED
      BY <3>1, <3>2
  <2> QED
    BY <2>4, <2>5, <2>6, <2>7 DEF dc
<1>2. Spec => []Inv
  BY InitInv, StepInv, PTL DEF Spec
<1>3. Inv /\ [Next]_vars => [LeavesInTime]_vars
  BY <1>1
<1> QED
  BY <1>2, <1>3, PTL DEF Spec
-----------------------------------------------------------------------------
(* Induction and recursion, for what the sender's functions compute.          *)

\* Induction over the naturals, about the members of a set: the library's theorem
\* about minimal elements of a well-founded relation, applied to Nat.
LEMMA SetInduction ==
  ASSUME NEW S, 0 \in S, \A n \in Nat : n \in S => n + 1 \in S
  PROVE  Nat \subseteq S
<1> DEFINE R == OpToRel(<, Nat)
           T == Nat \ S
<1>1. \A x, y \in Nat : x < y => <<x, y>> \in R
  BY Zenon DEF OpToRel
<1>2. IsWellFoundedOn(R, Nat)
  BY NatLessThanWellFounded, Zenon
<1> SUFFICES ASSUME T # {} PROVE FALSE
  OBVIOUS
<1> HIDE DEF R
<1>3. PICK x \in T : \A y \in T : <<y, x>> \notin R
  <2>1. T \subseteq Nat
    OBVIOUS
  <2> HIDE DEF T
  <2> QED
    BY <1>2, <2>1, WFMin
<1>4. x \in Nat /\ x # 0 /\ x - 1 \in Nat /\ x - 1 < x
  OBVIOUS
<1>5. x - 1 \in S
  BY <1>1, <1>3, <1>4
<1> QED
  BY <1>4, <1>5

\* f has the value c at 0, and each other value follows from the one before.
Chain(f, n, V, c, step) ==
  f \in [0..n -> V] /\ f[0] = c /\ \A i \in 1..n : f[i] = step[<<f[i - 1], i>>]

LEMMA Recursion ==
  ASSUME NEW N \in Nat, NEW V, NEW c \in V, NEW step \in [V \X (1..N) -> V]
  PROVE  \E f : Chain(f, N, V, c, step)
<1> DEFINE Upto(n) == \E f \in [0..n -> V] : f[0] = c /\ \A i \in 1..n : f[i] = step[<<f[i - 1], i>>]
           Done == {n \in Nat : n <= N => Upto(n)}
<1>1. 0 \in Done
  <2>1. [i \in 0..0 |-> c] \in [0..0 -> V] /\ [i \in 0..0 |-> c][0] = c /\ \A i \in 1..0 : FALSE
    OBVIOUS
  <2>2. Upto(0)
    BY <2>1
  <2> QED
    BY <2>2
<1>2. ASSUME NEW n \in Nat, n \in Done
      PROVE  n + 1 \in Done
  <2> SUFFICES ASSUME n + 1 <= N PROVE Upto(n + 1)
    OBVIOUS
  <2>1. PICK f \in [0..n -> V] : f[0] = c /\ \A i \in 1..n : f[i] = step[<<f[i - 1], i>>]
    BY <1>2
  <2>2. f[n] \in V /\ n + 1 \in 1..N
    OBVIOUS
  <2>3. step[<<f[n], n + 1>>] \in V
    BY <2>2
  <2> DEFINE g == [i \in 0..(n + 1) |-> IF i = n + 1 THEN step[<<f[n], n + 1>>] ELSE f[i]]
  <2>4. g \in [0..(n + 1) -> V]
    BY <2>3
  <2>5. \A i \in 0..n : g[i] = f[i]
    OBVIOUS
  <2>6. g[n + 1] = step[<<f[n], n + 1>>]
    OBVIOUS
  <2> HIDE DEF g
  <2>7. g[0] = c
    BY <2>1, <2>5
  <2>8. ASSUME NEW i \in 1..(n + 1)
        PROVE  g[i] = step[<<g[i - 1], i>>]
    <3>1. CASE i = n + 1
      BY <2>5, <2>6, <3>1
    <3>2. CASE i # n + 1
      BY <2>1, <2>5, <3>2
    <3> QED
      BY <3>1, <3>2
  <2> QED
    BY <2>4, <2>7, <2>8
<1> HIDE DEF Done
<1>3. N \in Done
  BY <1>1, <1>2, SetInduction
<1> QED
  BY <1>3 DEF Done, Chain

-----------------------------------------------------------------------------
(* Replies and the room for them.                                             *)
N == Len(ReplyOrder)

Size(P, n) == IF ReplyOrder[n] \in P THEN ReplySize[ReplyOrder[n]] ELSE 0

LEMMA ReplyFacts ==
  /\ N \in Nat /\ DOMAIN ReplyOrder = 1..N
  /\ \A n \in 1..N : ReplyOrder[n] \in Replies /\ ReplySize[ReplyOrder[n]] \in 1..Room
  /\ \A P : \A n \in 1..N : Size(P, n) \in Nat
<1>1. N \in Nat /\ DOMAIN ReplyOrder = 1..N
  BY RoomAssumption DEF N
<1>2. \A n \in 1..N : ReplyOrder[n] \in Replies
  BY <1>1 DEF Replies
<1>3. Room \in Nat /\ \A n \in 1..N : ReplySize[ReplyOrder[n]] \in 1..Room
  BY <1>2, RoomAssumption
<1> QED
  BY <1>1, <1>2, <1>3 DEF Size

\* upTo in Total(): what is asked for, added up reply by reply.
LEMMA TotalSums ==
  ASSUME NEW P
  PROVE  \E sum \in [0..N -> Nat] : /\ sum[0] = 0 /\ Total(P) = sum[N]
                                    /\ \A n \in 1..N : sum[n] = sum[n - 1] + Size(P, n)
<1> DEFINE step == [p \in Nat \X (1..N) |-> p[1] + Size(P, p[2])]
           upTo[n \in 0..Len(ReplyOrder)] ==
             IF n = 0 THEN 0 ELSE upTo[n - 1] + (IF ReplyOrder[n] \in P THEN ReplySize[ReplyOrder[n]] ELSE 0)
<1>1. step \in [Nat \X (1..N) -> Nat]
  BY ReplyFacts
<1>2. \A v \in Nat : \A n \in 1..N : step[<<v, n>>] = v + Size(P, n)
  OBVIOUS
<1> HIDE DEF step
<1>3. \E f : Chain(f, N, Nat, 0, step)
  <2>1. N \in Nat /\ 0 \in Nat
    BY ReplyFacts
  <2> QED
    BY <1>1, <2>1, Recursion
<1>4. PICK sum \in [0..N -> Nat] : sum[0] = 0 /\ \A i \in 1..N : sum[i] = step[<<sum[i - 1], i>>]
  BY <1>3 DEF Chain
<1>5. ASSUME NEW n \in 1..N
      PROVE  sum[n] = sum[n - 1] + Size(P, n)
  <2>1. n - 1 \in 0..N
    BY ReplyFacts
  <2>2. sum[n - 1] \in Nat
    BY <2>1
  <2> QED
    BY <1>2, <1>4, <2>2
<1>6. sum = [n \in 0..Len(ReplyOrder) |->
               IF n = 0 THEN 0 ELSE sum[n - 1] + (IF ReplyOrder[n] \in P THEN ReplySize[ReplyOrder[n]] ELSE 0)]
  BY <1>4, <1>5, ReplyFacts DEF N, Size
<1>7. upTo = [n \in 0..Len(ReplyOrder) |->
                IF n = 0 THEN 0 ELSE upTo[n - 1] + (IF ReplyOrder[n] \in P THEN ReplySize[ReplyOrder[n]] ELSE 0)]
  BY <1>6, Zenon
<1>8. Total(P) = upTo[N]
  BY DEF Total, N
<1> HIDE DEF upTo
<1>9. upTo[0] = 0 /\ \A n \in 1..N : upTo[n] = upTo[n - 1] + Size(P, n)
  BY <1>7, ReplyFacts DEF N, Size
<1>10. upTo \in [0..N -> Nat]
  <2> DEFINE S == {n \in Nat : n <= N => upTo[n] \in Nat}
  <2>1. 0 \in S
    BY <1>9
  <2>2. ASSUME NEW n \in Nat, n \in S
        PROVE  n + 1 \in S
    <3> SUFFICES ASSUME n + 1 <= N PROVE upTo[n + 1] \in Nat
      OBVIOUS
    <3>1. upTo[n] \in Nat /\ n + 1 \in 1..N /\ (n + 1) - 1 = n
      BY <2>2, ReplyFacts
    <3> QED
      BY <1>9, <3>1, ReplyFacts
  <2> HIDE DEF S
  <2>3. Nat \subseteq S
    BY <2>1, <2>2, SetInduction
  <2>4. \A n \in 0..N : upTo[n] \in Nat
    BY <2>3, ReplyFacts DEF S
  <2> QED
    BY <1>7, <2>4 DEF N
<1> QED
  BY <1>8, <1>9, <1>10

\* left in Filled(): the room that is left after each reply, never overdrawn.
Taken(P, n, left) == IF Fits(P, n, left) THEN ReplySize[ReplyOrder[n]] ELSE 0

LEMMA TakenFits ==
  ASSUME NEW P, NEW n \in 1..N, NEW v \in Nat
  PROVE  v - Taken(P, n, v) \in Nat
<1>1. ReplySize[ReplyOrder[n]] \in Nat
  BY ReplyFacts
<1> QED
  BY <1>1 DEF Taken, Fits

LEMMA FilledSums ==
  ASSUME NEW P
  PROVE  \E left \in [0..N -> Nat] :
            /\ left[0] = Room
            /\ \A n \in 1..N : left[n] = left[n - 1] - Taken(P, n, left[n - 1])
            /\ Filled(P) = {ReplyOrder[n] : n \in {k \in 1..N : Fits(P, k, left[k - 1])}}
<1> DEFINE step == [p \in Nat \X (1..N) |-> p[1] - Taken(P, p[2], p[1])]
           left[n \in 0..Len(ReplyOrder)] ==
             IF n = 0 THEN Room
             ELSE left[n - 1] - IF Fits(P, n, left[n - 1]) THEN ReplySize[ReplyOrder[n]] ELSE 0
<1>1. step \in [Nat \X (1..N) -> Nat]
  BY TakenFits
<1>2. \A v \in Nat : \A n \in 1..N : step[<<v, n>>] = v - Taken(P, n, v)
  OBVIOUS
<1> HIDE DEF step
<1>3. \E f : Chain(f, N, Nat, Room, step)
  <2>1. N \in Nat /\ Room \in Nat
    BY ReplyFacts, RoomAssumption
  <2> QED
    BY <1>1, <2>1, Recursion
<1>4. PICK f \in [0..N -> Nat] : f[0] = Room /\ \A i \in 1..N : f[i] = step[<<f[i - 1], i>>]
  BY <1>3 DEF Chain
<1>5. ASSUME NEW n \in 1..N
      PROVE  f[n] = f[n - 1] - Taken(P, n, f[n - 1])
  <2>1. n - 1 \in 0..N
    BY ReplyFacts
  <2>2. f[n - 1] \in Nat
    BY <2>1
  <2> QED
    BY <1>2, <1>4, <2>2
<1>6. f = [n \in 0..Len(ReplyOrder) |->
             IF n = 0 THEN Room
             ELSE f[n - 1] - IF Fits(P, n, f[n - 1]) THEN ReplySize[ReplyOrder[n]] ELSE 0]
  BY <1>4, <1>5, ReplyFacts DEF N, Taken
<1>7. left = [n \in 0..Len(ReplyOrder) |->
                IF n = 0 THEN Room
                ELSE left[n - 1] - IF Fits(P, n, left[n - 1]) THEN ReplySize[ReplyOrder[n]] ELSE 0]
  BY <1>6, Zenon
<1>8. Filled(P) = {ReplyOrder[n] : n \in {k \in DOMAIN ReplyOrder : Fits(P, k, left[k - 1])}}
  BY Zenon DEF Filled
<1> HIDE DEF left
<1>9. left[0] = Room /\ \A n \in 1..N : left[n] = left[n - 1] - Taken(P, n, left[n - 1])
  <2>1. N \in Nat /\ N = Len(ReplyOrder)
    BY ReplyFacts DEF N
  <2>2. 0 \in 0..Len(ReplyOrder) /\ \A n \in 1..N : n \in 0..Len(ReplyOrder) /\ n # 0
    BY <2>1
  <2>3. left[0] = Room
    BY <1>7, <2>2
  <2>4. \A n \in 0..Len(ReplyOrder) : n # 0 => left[n] = left[n - 1] - Taken(P, n, left[n - 1])
    BY <1>7, Zenon DEF Taken
  <2> QED
    BY <2>2, <2>3, <2>4, Zenon
<1>10. left \in [0..N -> Nat]
  <2> DEFINE S == {n \in Nat : n <= N => left[n] \in Nat}
  <2>1. 0 \in S
    BY <1>9, RoomAssumption
  <2>2. ASSUME NEW n \in Nat, n \in S
        PROVE  n + 1 \in S
    <3> SUFFICES ASSUME n + 1 <= N PROVE left[n + 1] \in Nat
      OBVIOUS
    <3>1. left[n] \in Nat /\ n + 1 \in 1..N /\ (n + 1) - 1 = n
      BY <2>2, ReplyFacts
    <3>2. left[n + 1] = left[n] - Taken(P, n + 1, left[n])
      BY <1>9, <3>1
    <3> QED
      BY <3>1, <3>2, TakenFits
  <2> HIDE DEF S
  <2>3. Nat \subseteq S
    BY <2>1, <2>2, SetInduction
  <2>4. \A n \in 0..N : left[n] \in Nat
    BY <2>3, ReplyFacts DEF S
  <2> QED
    BY <1>7, <2>4 DEF N
<1> QED
  BY <1>8, <1>9, <1>10, ReplyFacts

\* While what is due fits in a frame, the frame says all of it.
THEOREM AllFit ==
  ASSUME NEW P \in SUBSET Replies, Total(P) <= Room
  PROVE  Filled(P) = P
<1>1. PICK sum \in [0..N -> Nat] : /\ sum[0] = 0 /\ Total(P) = sum[N]
                                   /\ \A n \in 1..N : sum[n] = sum[n - 1] + Size(P, n)
  BY TotalSums
<1>2. PICK left \in [0..N -> Nat] :
            /\ left[0] = Room
            /\ \A n \in 1..N : left[n] = left[n - 1] - Taken(P, n, left[n - 1])
            /\ Filled(P) = {ReplyOrder[n] : n \in {k \in 1..N : Fits(P, k, left[k - 1])}}
  BY FilledSums
<1>3. Room \in Nat /\ N \in Nat
  BY RoomAssumption, ReplyFacts
<1>4. \A n \in 0..N : sum[N - n] <= Room
  <2> DEFINE S == {n \in Nat : n <= N => sum[N - n] <= Room}
  <2>1. 0 \in S
    BY <1>1, <1>3
  <2>2. ASSUME NEW n \in Nat, n \in S
        PROVE  n + 1 \in S
    <3> SUFFICES ASSUME n + 1 <= N PROVE sum[N - (n + 1)] <= Room
      OBVIOUS
    <3>1. N - n \in 1..N /\ N - (n + 1) = (N - n) - 1 /\ N - (n + 1) \in 0..N /\ N - n \in 0..N
      BY <1>3
    <3>2. sum[N - n] = sum[N - (n + 1)] + Size(P, N - n) /\ Size(P, N - n) \in Nat
      BY <1>1, <3>1, ReplyFacts
    <3>3. sum[N - n] <= Room /\ sum[N - n] \in Nat /\ sum[N - (n + 1)] \in Nat
      BY <1>3, <2>2, <3>1
    <3> QED
      BY <1>3, <3>2, <3>3
  <2> HIDE DEF S
  <2>3. Nat \subseteq S
    BY <2>1, <2>2, SetInduction
  <2> QED
    BY <1>3, <2>3 DEF S
<1>5. \A n \in 0..N : sum[n] <= Room
  <2> SUFFICES ASSUME NEW n \in 0..N PROVE sum[n] <= Room
    OBVIOUS
  <2>1. N - n \in 0..N /\ N - (N - n) = n
    BY <1>3
  <2> QED
    BY <1>4, <2>1
<1>6. ASSUME NEW n \in 1..N, left[n - 1] = Room - sum[n - 1]
      PROVE  (ReplyOrder[n] \in P => Fits(P, n, left[n - 1])) /\ left[n] = Room - sum[n]
  <2>1. sum[n] <= Room /\ sum[n - 1] \in Nat /\ sum[n] = sum[n - 1] + Size(P, n) /\ ReplySize[ReplyOrder[n]] \in Nat
    <3>1. n - 1 \in 0..N /\ n \in 0..N
      BY <1>3
    <3>2. sum[n - 1] \in Nat /\ sum[n] <= Room
      BY <1>5, <3>1
    <3>3. ReplySize[ReplyOrder[n]] \in Nat
      BY ReplyFacts
    <3>4. sum[n] = sum[n - 1] + Size(P, n)
      BY <1>1
    <3> QED
      BY <3>2, <3>3, <3>4
  <2>2. left[n] = left[n - 1] - Taken(P, n, left[n - 1])
    BY <1>2
  <2>3. CASE ReplyOrder[n] \in P
    <3>1. Size(P, n) = ReplySize[ReplyOrder[n]]
      BY <2>3 DEF Size
    <3>2. ReplySize[ReplyOrder[n]] <= left[n - 1]
      <4> DEFINE before == sum[n - 1]
                 size == ReplySize[ReplyOrder[n]]
      <4>1. before \in Nat /\ size \in Nat /\ before + size <= Room /\ left[n - 1] = Room - before
        BY <1>6, <2>1, <3>1
      <4> HIDE DEF before, size
      <4>2. size <= Room - before
        BY <1>3, <4>1
      <4> QED
        BY <4>1, <4>2 DEF before, size
    <3>3. Fits(P, n, left[n - 1])
      BY <2>3, <3>2 DEF Fits
    <3>4. Taken(P, n, left[n - 1]) = Size(P, n)
      BY <3>1, <3>3 DEF Taken
    <3>5. left[n] = (Room - sum[n - 1]) - Size(P, n) /\ Size(P, n) \in Nat
      BY <1>6, <2>1, <2>2, <3>1, <3>4
    <3>6. \A r, a, b \in Nat : (r - a) - b = r - (a + b)
      OBVIOUS
    <3>7. sum[n - 1] \in Nat /\ sum[n] = sum[n - 1] + Size(P, n)
      BY <2>1
    <3>8. left[n] = Room - sum[n]
      BY <1>3, <3>5, <3>6, <3>7
    <3> QED
      BY <3>3, <3>8
  <2>4. CASE ReplyOrder[n] \notin P
    <3>1. Taken(P, n, left[n - 1]) = 0 /\ Size(P, n) = 0
      BY <2>4 DEF Taken, Fits, Size
    <3>2. left[n] = (Room - sum[n - 1]) - 0 /\ sum[n] = sum[n - 1] + 0
      BY <1>6, <2>1, <2>2, <3>1
    <3>3. left[n] = Room - sum[n]
      BY <1>3, <2>1, <3>2
    <3> QED
      BY <2>4, <3>3
  <2> QED
    BY <2>3, <2>4
<1>7. \A n \in 0..N : left[n] = Room - sum[n]
  <2> DEFINE S == {n \in Nat : n <= N => left[n] = Room - sum[n]}
  <2>1. 0 \in S
    BY <1>1, <1>2, <1>3
  <2>2. ASSUME NEW n \in Nat, n \in S
        PROVE  n + 1 \in S
    <3> SUFFICES ASSUME n + 1 <= N PROVE left[n + 1] = Room - sum[n + 1]
      OBVIOUS
    <3>1. n + 1 \in 1..N /\ (n + 1) - 1 = n /\ left[n] = Room - sum[n]
      BY <1>3, <2>2
    <3> QED
      BY <1>6, <3>1
  <2> HIDE DEF S
  <2>3. Nat \subseteq S
    BY <2>1, <2>2, SetInduction
  <2> QED
    BY <1>3, <2>3 DEF S
<1>8. \A n \in 1..N : ReplyOrder[n] \in P => Fits(P, n, left[n - 1])
  <2> SUFFICES ASSUME NEW n \in 1..N, ReplyOrder[n] \in P PROVE Fits(P, n, left[n - 1])
    OBVIOUS
  <2>1. n - 1 \in 0..N
    BY <1>3
  <2> QED
    BY <1>6, <1>7, <2>1
<1>9. \A r \in P : \E n \in 1..N : r = ReplyOrder[n]
  BY ReplyFacts DEF Replies
<1> QED
  BY <1>2, <1>8, <1>9 DEF Fits

\* What is put in a frame fits there, if no reply is asked for in two places.
THEOREM FrameFits ==
  ASSUME NEW P, \A m, n \in 1..N : ReplyOrder[m] = ReplyOrder[n] => m = n
  PROVE  Total(Filled(P)) <= Room
<1> DEFINE F == Filled(P)
<1>1. PICK sum \in [0..N -> Nat] : /\ sum[0] = 0 /\ Total(F) = sum[N]
                                   /\ \A n \in 1..N : sum[n] = sum[n - 1] + Size(F, n)
  BY TotalSums
<1>2. PICK left \in [0..N -> Nat] :
            /\ left[0] = Room
            /\ \A n \in 1..N : left[n] = left[n - 1] - Taken(P, n, left[n - 1])
            /\ F = {ReplyOrder[n] : n \in {k \in 1..N : Fits(P, k, left[k - 1])}}
  BY FilledSums
<1> HIDE DEF F
<1>3. Room \in Nat /\ N \in Nat
  BY RoomAssumption, ReplyFacts
<1>4. ASSUME NEW n \in 1..N
      PROVE  Taken(P, n, left[n - 1]) = Size(F, n)
  <2>1. ReplyOrder[n] \in F <=> Fits(P, n, left[n - 1])
    BY <1>2
  <2> QED
    BY <2>1 DEF Taken, Size
<1>5. \A n \in 0..N : sum[n] = Room - left[n]
  <2> DEFINE S == {n \in Nat : n <= N => sum[n] = Room - left[n]}
  <2>1. 0 \in S
    BY <1>1, <1>2, <1>3
  <2>2. ASSUME NEW n \in Nat, n \in S
        PROVE  n + 1 \in S
    <3> SUFFICES ASSUME n + 1 <= N PROVE sum[n + 1] = Room - left[n + 1]
      OBVIOUS
    <3>1. n + 1 \in 1..N /\ (n + 1) - 1 = n /\ n \in 0..N /\ sum[n] = Room - left[n]
      BY <1>3, <2>2
    <3>2. sum[n + 1] = sum[n] + Size(F, n + 1) /\ left[n + 1] = left[n] - Size(F, n + 1)
      BY <1>1, <1>2, <1>4, <3>1
    <3>3. Size(F, n + 1) \in Nat /\ sum[n] \in Nat /\ left[n] \in Nat
      BY <3>1, ReplyFacts
    <3> QED
      BY <1>3, <3>1, <3>2, <3>3
  <2> HIDE DEF S
  <2>3. Nat \subseteq S
    BY <2>1, <2>2, SetInduction
  <2> QED
    BY <1>3, <2>3 DEF S
<1>6. sum[N] = Room - left[N] /\ left[N] \in Nat
  BY <1>3, <1>5
<1> QED
  BY <1>1, <1>3, <1>6 DEF F

-----------------------------------------------------------------------------
(* What is asked for or has changed is not forgotten.                         *)

\* A flag is cleared only when what it stands for is in the frame being built,
\* unless more replies were due than fit in a frame or the report of a
\* calibration is cancelled; the frame, built by nobody else, enters the queue in
\* the next step: the gate has kept a buffer free for it.
Recorded ==
  /\ \A r \in pending \ pending' : r \in storage'[tail] \/ Total(pending) > Room
  /\ \A c \in changed \ changed' : c \in storage'[tail] \/ c = "mag"
  /\ pc \notin Framing /\ (pending \ pending' # {} \/ changed \ (changed' \union {"mag"}) # {})
       => pc' \in Framing /\ tail' = tail
  /\ pc \in Framing /\ storage[tail] # Empty
       => Queue' = Append(Queue, storage[tail]) /\ pending' = pending /\ changed' = changed

NothingForgotten == [][Recorded]_vars

LEMMA StepRecords ==
  ASSUME Inv, Next
  PROVE  Recorded
<1> USE DEF Framing
<1>1. tail \in Buffers /\ storage \in [Buffers -> Frames] /\ pending \subseteq Replies /\ count \in 0..Depth
  BY DEF Inv, TypeOK
<1>2. \A f : Write(f) => storage'[tail] = f
  BY <1>1 DEF Write
<1>3. CASE BuildReplies
  <2>1. storage'[tail] = Filled(pending) /\ pc = "build" /\ pc' = "replies" /\ tail' = tail /\ changed' = changed
    BY <1>2, <1>3 DEF BuildReplies
  <2>2. Total(pending) \in Nat
    <3>1. PICK sum \in [0..N -> Nat] : Total(pending) = sum[N]
      BY TotalSums
    <3> QED
      BY <3>1, ReplyFacts
  <2>3. Total(pending) > Room \/ Filled(pending) = pending
    BY <1>1, <2>2, AllFit, RoomAssumption
  <2> QED
    BY <2>1, <2>3 DEF Recorded
<1>4. CASE BuildChange
  <2>1. PICK c \in changed : Write({c}) /\ changed' = Remaining(c)
    BY <1>4 DEF BuildChange
  <2>2. storage'[tail] = {c} /\ changed' = changed \ {c}
    BY <1>2, <2>1 DEF Remaining
  <2>3. pc = "build" /\ pc' = "change" /\ tail' = tail /\ pending' = pending
    BY <1>4 DEF BuildChange
  <2> QED
    BY <2>2, <2>3 DEF Recorded
<1>5. CASE SendFrame
  <2>1. pc \in Framing /\ pending' = pending /\ changed' = changed /\ count < Depth
    BY <1>5 DEF SendFrame, Inv, Space
  <2>2. ASSUME storage[tail] # Empty
        PROVE  Queue' = Append(Queue, storage[tail])
    <3>1. Put
      BY <1>5, <2>1, <2>2 DEF SendFrame, Queued, Put
    <3> QED
      BY <3>1, PutAppends
  <2> QED
    BY <2>1, <2>2 DEF Recorded
<1>6. ASSUME pc \notin Framing, pending \subseteq pending', changed \subseteq changed' \union {"mag"}
      PROVE  Recorded
  BY <1>6 DEF Recorded
<1>7. CASE Drain \/ Gate \/ GiveUp \/ GateOpens \/ Silent \/ BuildSlot
  BY <1>6, <1>7 DEF Drain, Gate, GiveUp, GateOpens, Silent, BuildSlot
<1>8. CASE CancelMag \/ Heartbeat \/ Boot
  BY <1>6, <1>8 DEF CancelMag, Heartbeat, Boot
<1>9. ASSUME NEW r \in Replies, Request(r)
      PROVE  Recorded
  BY <1>6, <1>9 DEF Request
<1>10. ASSUME NEW c \in Changes, Change(c)
       PROVE  Recorded
  BY <1>6, <1>10 DEF Change
<1> QED
  BY <1>3, <1>4, <1>5, <1>7, <1>8, <1>9, <1>10, Zenon DEF Next

THEOREM Reported == Spec => NothingForgotten
<1>1. Inv /\ [Next]_vars => [Recorded]_vars
  BY StepRecords
<1>2. Spec => []Inv
  BY InitInv, StepInv, PTL DEF Spec
<1> QED
  BY <1>1, <1>2, PTL DEF Spec, NothingForgotten

-----------------------------------------------------------------------------
(* The coding of a message.                                                   *)

LEMMA ByteFacts ==
  /\ Byte \subseteq Nat /\ Noise \subseteq Byte
  /\ 0 \in Byte /\ 1 \in Byte /\ 85 \in Byte /\ 90 \in Byte /\ 165 \in Byte /\ 170 \in Byte
  /\ \A n \in Byte : (n + 1) % FrameNums \in Byte
<1>1. /\ Byte \subseteq Nat
      /\ 0 \in Byte /\ 1 \in Byte /\ 85 \in Byte /\ 90 \in Byte /\ 165 \in Byte /\ 170 \in Byte
  BY DEF Byte
<1>2. Noise \subseteq Byte
  BY LineAssumption
<1>3. ASSUME NEW n \in Byte
      PROVE  (n + 1) % FrameNums \in Byte
  <2>1. FrameNums \in Nat /\ 1 <= FrameNums /\ FrameNums <= 256
    BY LineAssumption
  <2>2. n + 1 \in Nat
    BY <1>1
  <2> DEFINE k == n + 1
             r == k % FrameNums
  <2>3. r \in Nat /\ r < FrameNums
    <3>1. k \in Nat
      BY <2>2
    <3> HIDE DEF k
    <3> QED
      BY <2>1, <3>1, SMTT(30)
  <2> HIDE DEF r
  <2>4. r \in Byte
    BY <2>1, <2>3 DEF Byte
  <2> QED
    BY <2>4 DEF r
<1> QED
  BY <1>1, <1>2, <1>3

LEMMA MessageFacts ==
  ASSUME NEW m \in Messages
  PROVE  /\ m \in Seq(Tlvs) /\ Len(m) \in Byte /\ Len(m) \in Nat /\ FrameSize(m) <= BufferSize
         /\ \A i \in 1..Len(m) : /\ m[i] \in Tlvs /\ m[i].type \in Byte /\ m[i].data \in Seq(Byte)
                                 /\ Len(m[i].data) \in Byte /\ Len(m[i].data) \in Nat
<1>1. m \in Seq(Tlvs) /\ Len(m) \in Byte /\ Len(m) \in Nat /\ FrameSize(m) <= BufferSize
  BY MessagesFit, ByteFacts
<1>2. DOMAIN m = 1..Len(m)
  BY <1>1
<1>3. ASSUME NEW i \in 1..Len(m)
      PROVE  m[i] \in Tlvs /\ Len(m[i].data) \in Byte
  BY <1>1, <1>2, MessagesFit
<1>4. ASSUME NEW i \in 1..Len(m)
      PROVE  m[i].type \in Byte /\ m[i].data \in Seq(Byte) /\ Len(m[i].data) \in Nat
  BY <1>3, ByteFacts DEF Tlvs
<1> QED
  BY <1>1, <1>3, <1>4

\* What a TLV adds to what was coded before it.
Longer(s, t) == s \o <<t.type, Len(t.data)>> \o t.data

LEMMA Joined ==
  ASSUME NEW a \in Seq(Byte), NEW b \in Seq(Byte)
  PROVE  /\ a \o b \in Seq(Byte) /\ Len(a \o b) = Len(a) + Len(b)
         /\ \A j \in 1..Len(a) : (a \o b)[j] = a[j]
         /\ \A j \in 1..Len(b) : (a \o b)[Len(a) + j] = b[j]
<1>1. Len(a) \in Nat /\ Len(b) \in Nat
  OBVIOUS
<1>2. /\ a \o b \in Seq(Byte) /\ Len(a \o b) = Len(a) + Len(b)
      /\ \A i \in 1..(Len(a) + Len(b)) : (a \o b)[i] = IF i <= Len(a) THEN a[i] ELSE b[i - Len(a)]
  BY ConcatProperties
<1> DEFINE c == a \o b
<1> HIDE DEF c
<1>3. \A j \in 1..Len(a) : c[j] = a[j]
  BY <1>1, <1>2 DEF c
<1>4. ASSUME NEW j \in 1..Len(b)
      PROVE  c[Len(a) + j] = b[j]
  <2>1. Len(a) + j \in 1..(Len(a) + Len(b)) /\ ~(Len(a) + j <= Len(a)) /\ (Len(a) + j) - Len(a) = j
    BY <1>1
  <2> QED
    BY <1>2, <2>1 DEF c
<1> QED
  BY <1>2, <1>3, <1>4 DEF c

LEMMA LongerFacts ==
  ASSUME NEW s \in Seq(Byte), NEW t \in Tlvs, Len(t.data) \in Byte
  PROVE  /\ Longer(s, t) \in Seq(Byte) /\ Len(Longer(s, t)) = Len(s) + 2 + Len(t.data)
         /\ \A j \in 1..Len(s) : Longer(s, t)[j] = s[j]
         /\ Longer(s, t)[Len(s) + 1] = t.type /\ Longer(s, t)[Len(s) + 2] = Len(t.data)
         /\ \A j \in 1..Len(t.data) : Longer(s, t)[Len(s) + 2 + j] = t.data[j]
<1> DEFINE h == <<t.type, Len(t.data)>>
           d == t.data
           sh == s \o h
<1>1. h \in Seq(Byte) /\ Len(h) = 2 /\ h[1] = t.type /\ h[2] = Len(t.data) /\ d \in Seq(Byte)
  BY DEF Tlvs
<1>2. Len(s) \in Nat /\ Len(d) \in Nat
  BY <1>1
<1> HIDE DEF h
<1>3. /\ sh \in Seq(Byte) /\ Len(sh) = Len(s) + 2
      /\ \A j \in 1..Len(s) : sh[j] = s[j]
      /\ \A j \in 1..Len(h) : sh[Len(s) + j] = h[j]
  <2>1. h \in Seq(Byte) /\ Len(h) = 2
    BY <1>1
  <2>2. /\ s \o h \in Seq(Byte) /\ Len(s \o h) = Len(s) + Len(h)
        /\ \A j \in 1..Len(s) : (s \o h)[j] = s[j]
        /\ \A j \in 1..Len(h) : (s \o h)[Len(s) + j] = h[j]
    BY <2>1, Joined
  <2> HIDE DEF d
  <2> QED
    BY <2>1, <2>2, Zenon DEF sh
<1> HIDE DEF sh
<1> DEFINE L == sh \o d
<1>4. /\ L \in Seq(Byte) /\ Len(L) = Len(sh) + Len(d)
      /\ \A j \in 1..Len(sh) : L[j] = sh[j]
      /\ \A j \in 1..Len(d) : L[Len(sh) + j] = d[j]
  <2> HIDE DEF d
  <2> QED
    BY <1>1, <1>3, Joined
<1>5. Longer(s, t) = L
  BY DEF Longer, sh, h
<1> HIDE DEF L, d
<1>6. \A j \in 1..Len(s) : L[j] = s[j]
  BY <1>2, <1>3, <1>4
<1>7. L[Len(s) + 1] = h[1] /\ L[Len(s) + 2] = h[2]
  <2>1. 1 \in 1..Len(h) /\ 2 \in 1..Len(h) /\ Len(s) + 1 \in 1..Len(sh) /\ Len(s) + 2 \in 1..Len(sh)
    BY <1>1, <1>2, <1>3
  <2> QED
    BY <1>3, <1>4, <2>1
<1> QED
  BY <1>1, <1>3, <1>4, <1>5, <1>6, <1>7 DEF d

\* upTo in Payload().
LEMMA PayloadSteps ==
  ASSUME NEW m \in Messages
  PROVE  \E up \in [0..Len(m) -> Seq(Byte)] : /\ up[0] = <<>> /\ Payload(m) = up[Len(m)]
                                              /\ \A i \in 1..Len(m) : up[i] = Longer(up[i - 1], m[i])
<1> DEFINE step == [p \in Seq(Byte) \X (1..Len(m)) |-> Longer(p[1], m[p[2]])]
           upTo[i \in 0..Len(m)] ==
             IF i = 0 THEN <<>> ELSE upTo[i - 1] \o <<m[i].type, Len(m[i].data)>> \o m[i].data
<1>0. Len(m) \in Nat
  BY MessageFacts
<1>1. step \in [Seq(Byte) \X (1..Len(m)) -> Seq(Byte)]
  BY MessageFacts, LongerFacts
<1>2. \A s \in Seq(Byte) : \A i \in 1..Len(m) : step[<<s, i>>] = Longer(s, m[i])
  OBVIOUS
<1> HIDE DEF step
<1>3. \E f : Chain(f, Len(m), Seq(Byte), <<>>, step)
  <2>1. <<>> \in Seq(Byte)
    OBVIOUS
  <2> QED
    BY <1>0, <1>1, <2>1, Recursion
<1>4. PICK f \in [0..Len(m) -> Seq(Byte)] : f[0] = <<>> /\ \A i \in 1..Len(m) : f[i] = step[<<f[i - 1], i>>]
  BY <1>3 DEF Chain
<1>5. ASSUME NEW i \in 1..Len(m)
      PROVE  f[i] = Longer(f[i - 1], m[i])
  <2>1. i - 1 \in 0..Len(m)
    BY <1>0
  <2>2. f[i - 1] \in Seq(Byte)
    BY <2>1
  <2> QED
    BY <1>2, <1>4, <2>2
<1>6. f = [i \in 0..Len(m) |->
             IF i = 0 THEN <<>> ELSE f[i - 1] \o <<m[i].type, Len(m[i].data)>> \o m[i].data]
  <2>1. \A i \in 0..Len(m) : f[i] = IF i = 0 THEN <<>> ELSE Longer(f[i - 1], m[i])
    <3>1. \A i \in 0..Len(m) : i = 0 \/ i \in 1..Len(m)
      BY <1>0
    <3> QED
      BY <1>4, <1>5, <3>1
  <2> QED
    BY <2>1 DEF Longer
<1>7. upTo = [i \in 0..Len(m) |->
                IF i = 0 THEN <<>> ELSE upTo[i - 1] \o <<m[i].type, Len(m[i].data)>> \o m[i].data]
  BY <1>6, Zenon
<1>8. Payload(m) = upTo[Len(m)]
  BY DEF Payload
<1> HIDE DEF upTo
<1>9. upTo[0] = <<>> /\ \A i \in 1..Len(m) : upTo[i] = Longer(upTo[i - 1], m[i])
  <2>1. \A i \in 1..Len(m) : i \in 0..Len(m) /\ i # 0
    BY <1>0
  <2>2. 0 \in 0..Len(m)
    BY <1>0
  <2>3. \A i \in 0..Len(m) : i # 0 => upTo[i] = Longer(upTo[i - 1], m[i])
    BY <1>7, Zenon DEF Longer
  <2>4. upTo[0] = <<>>
    BY <1>7, <2>2, Zenon
  <2> QED
    BY <2>1, <2>3, <2>4, Zenon
<1>10. upTo \in [0..Len(m) -> Seq(Byte)]
  <2> DEFINE S == {i \in Nat : i <= Len(m) => upTo[i] \in Seq(Byte)}
  <2>1. 0 \in S
    <3>1. <<>> \in Seq(Byte)
      OBVIOUS
    <3> QED
      BY <1>9, <3>1
  <2>2. ASSUME NEW i \in Nat, i \in S
        PROVE  i + 1 \in S
    <3> SUFFICES ASSUME i + 1 <= Len(m) PROVE upTo[i + 1] \in Seq(Byte)
      OBVIOUS
    <3>1. upTo[i] \in Seq(Byte) /\ i + 1 \in 1..Len(m) /\ (i + 1) - 1 = i
      BY <1>0, <2>2
    <3>2. upTo[i + 1] = Longer(upTo[i], m[i + 1])
      BY <1>9, <3>1
    <3>3. m[i + 1] \in Tlvs /\ Len(m[i + 1].data) \in Byte
      BY <3>1, MessageFacts
    <3> QED
      BY <3>1, <3>2, <3>3, LongerFacts
  <2> HIDE DEF S
  <2>3. Nat \subseteq S
    BY <2>1, <2>2, SetInduction
  <2>4. \A i \in 0..Len(m) : upTo[i] \in Seq(Byte)
    BY <1>0, <2>3 DEF S
  <2> QED
    BY <1>7, <2>4
<1> QED
  BY <1>8, <1>9, <1>10

\* Where each TLV is in the payload: at[i] bytes come before the (i+1)-th.
LEMMA PayloadShape ==
  ASSUME NEW m \in Messages
  PROVE  /\ Payload(m) \in Seq(Byte)
         /\ \E at \in [0..Len(m) -> Nat] :
               /\ at[0] = 0 /\ at[Len(m)] = Len(Payload(m))
               /\ \A i \in 1..Len(m) :
                     /\ at[i] = at[i - 1] + 2 + Len(m[i].data) /\ at[i] <= Len(Payload(m))
                     /\ Payload(m)[at[i - 1] + 1] = m[i].type
                     /\ Payload(m)[at[i - 1] + 2] = Len(m[i].data)
                     /\ \A j \in 1..Len(m[i].data) : Payload(m)[at[i - 1] + 2 + j] = m[i].data[j]
<1>0. Len(m) \in Nat
  BY MessageFacts
<1>1. PICK up \in [0..Len(m) -> Seq(Byte)] : /\ up[0] = <<>> /\ Payload(m) = up[Len(m)]
                                             /\ \A i \in 1..Len(m) : up[i] = Longer(up[i - 1], m[i])
  BY PayloadSteps
<1> DEFINE at == [i \in 0..Len(m) |-> Len(up[i])]
           P == Payload(m)
<1>2. \A i \in 0..Len(m) : up[i] \in Seq(Byte) /\ at[i] = Len(up[i]) /\ at[i] \in Nat
  OBVIOUS
<1>3. P \in Seq(Byte) /\ at \in [0..Len(m) -> Nat] /\ at[0] = 0 /\ at[Len(m)] = Len(P)
  BY <1>0, <1>1
<1> HIDE DEF at, P
<1>4. ASSUME NEW i \in 1..Len(m)
      PROVE  /\ i - 1 \in 0..Len(m) /\ i \in 0..Len(m) /\ at[i - 1] \in Nat /\ at[i] \in Nat /\ Len(m[i].data) \in Nat
             /\ at[i] = at[i - 1] + 2 + Len(m[i].data)
             /\ \A j \in 1..at[i - 1] : up[i][j] = up[i - 1][j]
             /\ up[i][at[i - 1] + 1] = m[i].type /\ up[i][at[i - 1] + 2] = Len(m[i].data)
             /\ \A j \in 1..Len(m[i].data) : up[i][at[i - 1] + 2 + j] = m[i].data[j]
  <2>1. i - 1 \in 0..Len(m) /\ i \in 0..Len(m)
    BY <1>0
  <2>2. up[i - 1] \in Seq(Byte) /\ at[i - 1] = Len(up[i - 1]) /\ at[i] = Len(up[i]) /\ at[i - 1] \in Nat /\ at[i] \in Nat
    BY <1>2, <2>1
  <2>3. m[i] \in Tlvs /\ Len(m[i].data) \in Byte
    BY MessageFacts
  <2>4. up[i] = Longer(up[i - 1], m[i])
    BY <1>1
  <2>5. Len(m[i].data) \in Nat
    BY MessageFacts
  <2> DEFINE u == up[i - 1]
             v == up[i]
  <2>6. /\ Len(v) = Len(u) + 2 + Len(m[i].data)
        /\ \A j \in 1..Len(u) : v[j] = u[j]
        /\ v[Len(u) + 1] = m[i].type /\ v[Len(u) + 2] = Len(m[i].data)
        /\ \A j \in 1..Len(m[i].data) : v[Len(u) + 2 + j] = m[i].data[j]
    <3> DEFINE t == m[i]
    <3>1. u \in Seq(Byte) /\ t \in Tlvs /\ Len(t.data) \in Byte /\ v = Longer(u, t)
      BY <2>2, <2>3, <2>4
    <3> HIDE DEF u, v, t
    <3>2. /\ Len(v) = Len(u) + 2 + Len(t.data)
          /\ \A j \in 1..Len(u) : v[j] = u[j]
          /\ v[Len(u) + 1] = t.type /\ v[Len(u) + 2] = Len(t.data)
          /\ \A j \in 1..Len(t.data) : v[Len(u) + 2 + j] = t.data[j]
      BY <3>1, LongerFacts
    <3> QED
      BY <3>2, Zenon DEF t
  <2>7. at[i - 1] = Len(u) /\ at[i] = Len(v)
    BY <2>2
  <2> HIDE DEF u, v
  <2>8. /\ at[i] = at[i - 1] + 2 + Len(m[i].data)
        /\ \A j \in 1..at[i - 1] : v[j] = u[j]
        /\ v[at[i - 1] + 1] = m[i].type /\ v[at[i - 1] + 2] = Len(m[i].data)
        /\ \A j \in 1..Len(m[i].data) : v[at[i - 1] + 2 + j] = m[i].data[j]
    BY <2>6, <2>7
  <2> QED
    BY <2>1, <2>2, <2>5, <2>8, Zenon DEF u, v
<1> DEFINE Prefix(i) == at[i] <= Len(P) /\ \A j \in 1..at[i] : P[j] = up[i][j]
<1>5. \A k \in 0..Len(m) : Prefix(Len(m) - k)
  <2> DEFINE S == {k \in Nat : k <= Len(m) => Prefix(Len(m) - k)}
  <2>1. 0 \in S
    <3>1. Len(m) - 0 = Len(m) /\ P = up[Len(m)] /\ at[Len(m)] = Len(P) /\ Len(P) \in Nat
      BY <1>0, <1>1, <1>3 DEF P
    <3> QED
      BY <3>1
  <2>2. ASSUME NEW k \in Nat, k \in S
        PROVE  k + 1 \in S
    <3> SUFFICES ASSUME k + 1 <= Len(m) PROVE Prefix(Len(m) - (k + 1))
      OBVIOUS
    <3> DEFINE i == Len(m) - k
    <3>1. i \in 1..Len(m) /\ Len(m) - (k + 1) = i - 1
      BY <1>0
    <3>2. Prefix(i)
      BY <1>0, <2>2
    <3> HIDE DEF i
    <3>3. /\ at[i - 1] \in Nat /\ at[i] \in Nat /\ Len(m[i].data) \in Nat
          /\ at[i] = at[i - 1] + 2 + Len(m[i].data)
          /\ \A j \in 1..at[i - 1] : up[i][j] = up[i - 1][j]
      BY <1>4, <3>1, Zenon
    <3>4. Len(P) \in Nat
      BY <1>3
    <3>5. at[i - 1] <= at[i] /\ at[i] <= Len(P)
      <4> DEFINE x == at[i - 1]
                 y == at[i]
                 l == Len(m[i].data)
      <4>1. x \in Nat /\ l \in Nat /\ y = x + 2 + l
        BY <3>3
      <4> HIDE DEF x, y, l
      <4>2. x <= y
        BY <4>1
      <4> QED
        BY <3>2, <4>2 DEF x, y
    <3>6. ASSUME NEW j \in 1..at[i - 1]
          PROVE  P[j] = up[i - 1][j]
      <4>1. j \in 1..at[i]
        BY <3>3, <3>5
      <4>2. P[j] = up[i][j]
        BY <3>2, <4>1
      <4> QED
        BY <3>3, <4>2
    <3>7. at[i - 1] <= Len(P)
      BY <3>3, <3>4, <3>5
    <3>8. Prefix(i - 1)
      BY <3>6, <3>7
    <3> QED
      BY <3>1, <3>8
  <2> HIDE DEF S
  <2>3. Nat \subseteq S
    BY <2>1, <2>2, SetInduction
  <2> HIDE DEF Prefix
  <2> QED
    BY <1>0, <2>3 DEF S
<1>6. ASSUME NEW i \in 1..Len(m)
      PROVE  /\ at[i] = at[i - 1] + 2 + Len(m[i].data) /\ at[i] <= Len(P)
             /\ P[at[i - 1] + 1] = m[i].type
             /\ P[at[i - 1] + 2] = Len(m[i].data)
             /\ \A j \in 1..Len(m[i].data) : P[at[i - 1] + 2 + j] = m[i].data[j]
  <2>1. Len(m) - i \in 0..Len(m) /\ Len(m) - (Len(m) - i) = i
    BY <1>0
  <2>2. Prefix(i)
    BY <1>5, <2>1
  <2>3. /\ at[i - 1] + 1 \in 1..at[i] /\ at[i - 1] + 2 \in 1..at[i]
        /\ \A j \in 1..Len(m[i].data) : at[i - 1] + 2 + j \in 1..at[i]
    <3> DEFINE a == at[i - 1]
               b == at[i]
               l == Len(m[i].data)
    <3>1. a \in Nat /\ l \in Nat /\ b = a + 2 + l
      BY <1>4, Zenon
    <3> HIDE DEF a, b, l
    <3>2. a + 1 \in 1..b /\ a + 2 \in 1..b /\ \A j \in 1..l : a + 2 + j \in 1..b
      BY <3>1
    <3> QED
      BY <3>2 DEF a, b, l
  <2>4. \A j \in 1..at[i] : P[j] = up[i][j]
    BY <2>2
  <2>5. /\ up[i][at[i - 1] + 1] = m[i].type /\ up[i][at[i - 1] + 2] = Len(m[i].data)
        /\ \A j \in 1..Len(m[i].data) : up[i][at[i - 1] + 2 + j] = m[i].data[j]
        /\ at[i] = at[i - 1] + 2 + Len(m[i].data)
    BY <1>4, Zenon
  <2> HIDE DEF Prefix
  <2>6. at[i] <= Len(P)
    BY <2>2 DEF Prefix
  <2> QED
    BY <2>3, <2>4, <2>5, <2>6, Zenon
<1> QED
  BY <1>3, <1>6 DEF P

LEMMA WordFacts == Word \subseteq Nat /\ \A x \in Word : \A y \in Nat : y <= x => y \in Word
BY SMT DEF Word

LEMMA Le16Facts ==
  ASSUME NEW x \in Word
  PROVE  /\ Le16(x) \in Seq(Byte) /\ Len(Le16(x)) = 2
         /\ Le16(x)[1] + 256 * Le16(x)[2] = x
<1> DEFINE lo == x % 256
           hi == x \div 256
<1>1. lo \in Nat /\ lo < 256 /\ hi \in Nat /\ hi < 256 /\ lo + 256 * hi = x
  <2>1. x \in Nat /\ x < 65536
    BY SMT DEF Word
  <2> QED
    BY <2>1, SMTT(30)
<1> HIDE DEF lo, hi
<1>2. lo \in Byte /\ hi \in Byte
  BY <1>1 DEF Byte
<1>3. Le16(x) = <<lo, hi>>
  BY DEF Le16, lo, hi
<1> QED
  BY <1>1, <1>2, <1>3

LEMMA RestShape ==
  ASSUME NEW m \in Messages, NEW n \in Byte
  PROVE  /\ Rest(m, n) \in Seq(Byte) /\ Len(Rest(m, n)) = 4 + Len(Payload(m))
         /\ Rest(m, n)[1] = 1 /\ Rest(m, n)[2] = n /\ Rest(m, n)[3] = Len(m) /\ Rest(m, n)[4] = 1
         /\ \A j \in 1..Len(Payload(m)) : Rest(m, n)[4 + j] = Payload(m)[j]
<1> DEFINE h == <<1, n, Len(m), 1>>
           P == Payload(m)
<1>1. h \in Seq(Byte) /\ Len(h) = 4 /\ h[1] = 1 /\ h[2] = n /\ h[3] = Len(m) /\ h[4] = 1
  BY MessageFacts, ByteFacts
<1>2. P \in Seq(Byte)
  BY PayloadShape
<1>3. Rest(m, n) = h \o P
  BY DEF Rest
<1> HIDE DEF h, P
<1>4. /\ h \o P \in Seq(Byte) /\ Len(h \o P) = Len(h) + Len(P)
      /\ \A j \in 1..Len(h) : (h \o P)[j] = h[j]
      /\ \A j \in 1..Len(P) : (h \o P)[Len(h) + j] = P[j]
  BY <1>1, <1>2, Joined
<1> QED
  BY <1>1, <1>3, <1>4 DEF P

LEMMA EncodedShape ==
  ASSUME NEW m \in Messages, NEW n \in Byte
  PROVE  /\ Encoded(m, n) \in Seq(Byte) /\ Len(Encoded(m, n)) = FrameSize(m)
         /\ FrameSize(m) = 12 + Len(Payload(m)) /\ FrameSize(m) \in 12..BufferSize
         /\ \A j \in 1..4 : Encoded(m, n)[j] = FRAME_HEADER_MAGIC_NUM[j]
         /\ Encoded(m, n)[5] + 256 * Encoded(m, n)[6] = FrameSize(m)
         /\ Encoded(m, n)[7] + 256 * Encoded(m, n)[8] = CRC16(Rest(m, n))
         /\ \A j \in 1..(4 + Len(Payload(m))) : Encoded(m, n)[8 + j] = Rest(m, n)[j]
<1> DEFINE M == FRAME_HEADER_MAGIC_NUM
           A == Le16(FrameSize(m))
           C == Le16(CRC16(Rest(m, n)))
           R == Rest(m, n)
           E == Encoded(m, n)
<1>1. M \in Seq(Byte) /\ Len(M) = 4
  BY ByteFacts DEF FRAME_HEADER_MAGIC_NUM
<1>2. R \in Seq(Byte) /\ Len(R) = 4 + Len(Payload(m)) /\ Len(Payload(m)) \in Nat
  BY RestShape, PayloadShape
<1>3. FrameSize(m) = 12 + Len(Payload(m)) /\ FrameSize(m) \in 12..BufferSize /\ FrameSize(m) \in Word
  <2>1. FrameSize(m) = 12 + Len(Payload(m))
    BY DEF FrameSize, HeaderSize
  <2>2. FrameSize(m) <= BufferSize /\ BufferSize \in Word
    BY MessageFacts, LineAssumption
  <2> DEFINE f == FrameSize(m)
             p == Len(Payload(m))
  <2>3. f = 12 + p /\ p \in Nat /\ f <= BufferSize /\ BufferSize \in Word
    BY <1>2, <2>1, <2>2
  <2> HIDE DEF f, p
  <2>4. f \in 12..BufferSize /\ f \in Word
    BY <2>3, WordFacts
  <2> QED
    BY <2>1, <2>4, Zenon DEF f
<1>4. A \in Seq(Byte) /\ Len(A) = 2 /\ A[1] + 256 * A[2] = FrameSize(m)
  <2> DEFINE x == FrameSize(m)
  <2>1. x \in Word
    BY <1>3
  <2> HIDE DEF x
  <2>2. Le16(x) \in Seq(Byte) /\ Len(Le16(x)) = 2 /\ Le16(x)[1] + 256 * Le16(x)[2] = x
    BY <2>1, Le16Facts
  <2> QED
    BY <2>2 DEF x
<1>5. C \in Seq(Byte) /\ Len(C) = 2 /\ C[1] + 256 * C[2] = CRC16(R)
  <2> DEFINE x == CRC16(R)
  <2>1. x \in Word
    BY ChecksumIsWord
  <2> HIDE DEF x
  <2>2. Le16(x) \in Seq(Byte) /\ Len(Le16(x)) = 2 /\ Le16(x)[1] + 256 * Le16(x)[2] = x
    BY <2>1, Le16Facts
  <2> QED
    BY <2>2 DEF x
<1>6. E = ((M \o A) \o C) \o R
  BY DEF Encoded
<1> HIDE DEF A, C, R, E
<1> DEFINE MA == M \o A
           MAC == MA \o C
<1>7. /\ MA \in Seq(Byte) /\ Len(MA) = 6 /\ \A j \in 1..4 : MA[j] = M[j]
      /\ MA[5] = A[1] /\ MA[6] = A[2]
  <2> HIDE DEF M
  <2>0. M \in Seq(Byte) /\ A \in Seq(Byte)
    BY <1>1, <1>4
  <2>1. /\ M \o A \in Seq(Byte) /\ Len(M \o A) = Len(M) + Len(A) /\ \A j \in 1..Len(M) : (M \o A)[j] = M[j]
        /\ \A j \in 1..Len(A) : (M \o A)[Len(M) + j] = A[j]
    BY <2>0, Joined
  <2> QED
    BY <1>1, <1>4, <2>1
<1> HIDE DEF MA
<1>8. /\ MAC \in Seq(Byte) /\ Len(MAC) = 8 /\ \A j \in 1..6 : MAC[j] = MA[j]
      /\ MAC[7] = C[1] /\ MAC[8] = C[2]
  <2>0. MA \in Seq(Byte) /\ C \in Seq(Byte)
    BY <1>5, <1>7
  <2>1. /\ MA \o C \in Seq(Byte) /\ Len(MA \o C) = Len(MA) + Len(C) /\ \A j \in 1..Len(MA) : (MA \o C)[j] = MA[j]
        /\ \A j \in 1..Len(C) : (MA \o C)[Len(MA) + j] = C[j]
    BY <2>0, Joined
  <2> QED
    BY <1>5, <1>7, <2>1
<1> HIDE DEF MAC
<1>9. /\ E \in Seq(Byte) /\ Len(E) = 8 + Len(R) /\ \A j \in 1..8 : E[j] = MAC[j]
      /\ \A j \in 1..Len(R) : E[8 + j] = R[j]
  <2>0. MAC \in Seq(Byte) /\ R \in Seq(Byte)
    BY <1>2, <1>8
  <2>1. /\ MAC \o R \in Seq(Byte) /\ Len(MAC \o R) = Len(MAC) + Len(R) /\ \A j \in 1..Len(MAC) : (MAC \o R)[j] = MAC[j]
        /\ \A j \in 1..Len(R) : (MAC \o R)[Len(MAC) + j] = R[j]
    BY <2>0, Joined
  <2> QED
    BY <1>6, <1>8, <2>1 DEF MAC, MA
<1>10. /\ \A j \in 1..4 : E[j] = M[j]
       /\ E[5] = A[1] /\ E[6] = A[2] /\ E[7] = C[1] /\ E[8] = C[2]
  BY <1>7, <1>8, <1>9
<1>11. Len(E) = FrameSize(m)
  BY <1>2, <1>3, <1>9
<1>12. E[5] + 256 * E[6] = FrameSize(m) /\ E[7] + 256 * E[8] = CRC16(R)
  BY <1>4, <1>5, <1>10
<1>13. \A j \in 1..(4 + Len(Payload(m))) : E[8 + j] = R[j]
  BY <1>2, <1>9
<1> QED
  BY <1>3, <1>9, <1>10, <1>11, <1>12, <1>13, Zenon DEF E, R

\* Where parseFrame() finds the TLVs of a frame that was not disturbed.
LEMMA EndsShape ==
  ASSUME NEW m \in Messages, NEW n \in Byte, NEW at \in [0..Len(m) -> Nat],
         at[0] = 0, at[Len(m)] = Len(Payload(m)),
         \A i \in 1..Len(m) :
            at[i] = at[i - 1] + 2 + Len(m[i].data) /\ at[i] <= Len(Payload(m))
            /\ Payload(m)[at[i - 1] + 2] = Len(m[i].data)
  PROVE  \A i \in 0..Len(m) : Ends(Encoded(m, n))[i] = 12 + at[i]
<1> DEFINE E == Encoded(m, n)
           K == Len(m)
           end[i \in 0..E[11]] == IF i = 0 THEN HeaderSize ELSE NextTlv(E, end[i - 1])
           g == [i \in 0..K |-> 12 + at[i]]
<1>0. K \in Nat /\ E[11] = K /\ Len(E) = 12 + Len(Payload(m)) /\ Len(Payload(m)) \in Nat
  <2>1. K \in Nat /\ Len(Payload(m)) \in Nat
    BY MessageFacts, PayloadShape
  <2>2. Len(E) = 12 + Len(Payload(m))
    BY EncodedShape
  <2>3. Rest(m, n)[3] = K
    BY RestShape
  <2>4. \A j \in 1..(4 + Len(Payload(m))) : E[8 + j] = Rest(m, n)[j]
    BY EncodedShape
  <2> HIDE DEF E, K
  <2>5. E[8 + 3] = Rest(m, n)[3]
    BY <2>1, <2>4
  <2> QED
    BY <2>1, <2>2, <2>3, <2>5
<1>1. Ends(E) = end
  BY DEF Ends
<1>2. ASSUME NEW i \in 1..K
      PROVE  NextTlv(E, g[i - 1]) = g[i]
  <2> DEFINE a == at[i - 1]
             l == Len(m[i].data)
             P == Payload(m)
  <2>1. a \in Nat /\ l \in Nat /\ at[i] = a + 2 + l /\ a + 2 + l <= Len(P) /\ P[a + 2] = l
    <3>1. i - 1 \in 0..K
      BY <1>0
    <3>2. l \in Nat
      <4>1. m \in Messages
        OBVIOUS
      <4> QED
        BY <4>1, MessageFacts
    <3>3. at[i] = a + 2 + l /\ at[i] <= Len(P) /\ P[a + 2] = l
      OBVIOUS
    <3> QED
      BY <3>1, <3>2, <3>3
  <2>2. g[i - 1] = 12 + a /\ g[i] = 12 + (a + 2 + l)
    BY <1>0, <2>1
  <2>3. Rest(m, n)[4 + (a + 2)] = P[a + 2]
    <3>1. \A j \in 1..Len(P) : Rest(m, n)[4 + j] = P[j]
      BY RestShape
    <3> HIDE DEF a, l, P
    <3> QED
      BY <1>0, <2>1, <3>1 DEF P
  <2>4. E[8 + (4 + (a + 2))] = Rest(m, n)[4 + (a + 2)]
    <3>1. \A j \in 1..(4 + Len(P)) : E[8 + j] = Rest(m, n)[j]
      BY EncodedShape
    <3>2. Len(P) \in Nat
      BY <1>0
    <3> HIDE DEF a, l, P, E
    <3>3. 4 + (a + 2) \in 1..(4 + Len(P))
      BY <2>1, <3>2
    <3> QED
      BY <3>1, <3>3
  <2> HIDE DEF a, l, P, E, g, K
  <2>5. E[(12 + a) + 2] = l
    <3>1. 8 + (4 + (a + 2)) = (12 + a) + 2
      BY <2>1
    <3> QED
      BY <2>1, <2>3, <2>4, <3>1
  <2>6. Len(E) = 12 + Len(P) /\ Len(P) \in Nat
    BY <1>0 DEF P
  <2>7. NextTlv(E, 12 + a) = (12 + a) + 2 + E[(12 + a) + 2]
    BY <2>1, <2>6 DEF NextTlv
  <2> QED
    BY <2>1, <2>2, <2>5, <2>7
<1>3. g = [i \in 0..E[11] |-> IF i = 0 THEN HeaderSize ELSE NextTlv(E, g[i - 1])]
  <2>1. g[0] = HeaderSize
    BY <1>0 DEF HeaderSize
  <2>2. \A i \in 0..K : i = 0 \/ i \in 1..K
    BY <1>0
  <2>3. g = [i \in 0..K |-> g[i]]
    OBVIOUS
  <2> HIDE DEF g, E, K
  <2>4. \A i \in 0..K : g[i] = IF i = 0 THEN HeaderSize ELSE NextTlv(E, g[i - 1])
    BY <1>2, <2>1, <2>2
  <2> QED
    BY <1>0, <2>3, <2>4
<1> HIDE DEF g
<1>4. end = [i \in 0..E[11] |-> IF i = 0 THEN HeaderSize ELSE NextTlv(E, end[i - 1])]
  BY <1>3, Zenon
<1> HIDE DEF end, E
<1>5. end[0] = HeaderSize /\ \A i \in 1..K : end[i] = NextTlv(E, end[i - 1])
  <2>1. 0 \in 0..E[11] /\ \A i \in 1..K : i \in 0..E[11] /\ i # 0
    BY <1>0
  <2> QED
    BY <1>4, <2>1, Zenon
<1> DEFINE S == {i \in Nat : i <= K => end[i] = g[i]}
<1>6. 0 \in S
  <2>1. g[0] = 12
    BY <1>0 DEF g
  <2> QED
    BY <1>5, <2>1 DEF HeaderSize
<1>7. ASSUME NEW i \in Nat, i \in S
      PROVE  i + 1 \in S
  <2> SUFFICES ASSUME i + 1 <= K PROVE end[i + 1] = g[i + 1]
    OBVIOUS
  <2>1. end[i] = g[i] /\ i + 1 \in 1..K /\ (i + 1) - 1 = i
    BY <1>0, <1>7
  <2>2. NextTlv(E, g[i]) = g[i + 1] /\ end[i + 1] = NextTlv(E, end[i])
    BY <1>2, <1>5, <2>1
  <2> QED
    BY <2>1, <2>2
<1> HIDE DEF S
<1>8. Nat \subseteq S
  BY <1>6, <1>7, SetInduction
<1>9. \A i \in 0..K : end[i] = g[i]
  BY <1>0, <1>8 DEF S
<1> QED
  BY <1>1, <1>9 DEF E, g

\* A part of a sequence that holds the elements of d is d.
LEMMA Slice ==
  ASSUME NEW S, NEW s \in Seq(S), NEW d \in Seq(S), NEW k \in Nat, k + Len(d) <= Len(s),
         \A j \in 1..Len(d) : s[k + j] = d[j]
  PROVE  SubSeq(s, k + 1, k + Len(d)) = d
<1> DEFINE b == SubSeq(s, k + 1, k + Len(d))
           a == k + 1
           z == k + Len(d)
<1>1. Len(d) \in Nat /\ Len(s) \in Nat
  OBVIOUS
<1>2. a \in Int /\ z \in Int /\ \A i \in a..z : s[i] \in S
  <2>1. \A i \in a..z : i \in 1..Len(s)
    BY <1>1
  <2>2. \A i \in 1..Len(s) : s[i] \in S
    OBVIOUS
  <2> QED
    BY <1>1, <2>1, <2>2
<1>3. b = SubSeq(s, a, z)
  OBVIOUS
<1>4. z - a + 1 = Len(d) /\ (a <= z <=> Len(d) > 0) /\ \A i \in 1..Len(d) : a + i - 1 = k + i
  BY <1>1
<1> HIDE DEF b, a, z
<1>5. /\ b \in Seq(S) /\ Len(b) = IF a <= z THEN z - a + 1 ELSE 0
      /\ \A i \in 1..(z - a + 1) : b[i] = s[a + i - 1]
  BY <1>2, <1>3, SubSeqProperties
<1>6. Len(b) = Len(d) /\ \A i \in 1..Len(b) : b[i] = d[i]
  <2>1. Len(b) = Len(d)
    BY <1>1, <1>4, <1>5
  <2>2. ASSUME NEW i \in 1..Len(d)
        PROVE  b[i] = d[i]
    <3>1. b[i] = s[a + i - 1] /\ a + i - 1 = k + i
      BY <1>4, <1>5
    <3> QED
      BY <3>1
  <2> QED
    BY <2>1, <2>2
<1> QED
  BY <1>5, <1>6, SeqEqual DEF b

\* A frame that reaches the decoder as it was sent is accepted, whichever decoder it is, and it
\* is parsed into the message that was coded: this needs nothing of the checksum but that it
\* is a word (wrapupBuffer(), parseFrame(); tlvcodec/src/encoder.py, decoder.py).
THEOREM RoundTrip ==
  ASSUME NEW m \in Messages, NEW n \in Byte
  PROVE  Accepted(Encoded(m, n)) /\ Parsed(Encoded(m, n)) = m
<1> DEFINE E == Encoded(m, n)
           R == Rest(m, n)
           P == Payload(m)
           K == Len(m)
<1>1. PICK at \in [0..Len(m) -> Nat] :
         /\ at[0] = 0 /\ at[Len(m)] = Len(Payload(m))
         /\ \A i \in 1..Len(m) :
               /\ at[i] = at[i - 1] + 2 + Len(m[i].data) /\ at[i] <= Len(Payload(m))
               /\ Payload(m)[at[i - 1] + 1] = m[i].type
               /\ Payload(m)[at[i - 1] + 2] = Len(m[i].data)
               /\ \A j \in 1..Len(m[i].data) : Payload(m)[at[i - 1] + 2 + j] = m[i].data[j]
  BY PayloadShape
<1>2. \A i \in 0..K : Ends(E)[i] = 12 + at[i]
  BY <1>1, EndsShape
<1>3. K \in Nat /\ Len(P) \in Nat /\ P \in Seq(Byte) /\ R \in Seq(Byte) /\ E \in Seq(Byte)
  <2>1. K \in Nat
    BY MessageFacts
  <2>2. P \in Seq(Byte) /\ R \in Seq(Byte) /\ E \in Seq(Byte)
    BY PayloadShape, RestShape, EncodedShape
  <2> HIDE DEF E, R, P, K
  <2> QED
    BY <2>1, <2>2
<1>4. Len(E) = 12 + Len(P) /\ Len(R) = 4 + Len(P)
  BY EncodedShape, RestShape
<1>5. \A j \in 1..Len(R) : E[8 + j] = R[j]
  <2>1. \A j \in 1..(4 + Len(P)) : E[8 + j] = R[j]
    BY EncodedShape
  <2> QED
    BY <1>4, <2>1
<1>6. \A j \in 1..Len(P) : E[12 + j] = P[j]
  <2>1. \A j \in 1..Len(P) : R[4 + j] = P[j]
    BY RestShape
  <2> HIDE DEF E, R, P
  <2>2. ASSUME NEW j \in 1..Len(P)
        PROVE  E[12 + j] = P[j]
    <3>1. 4 + j \in 1..Len(R) /\ 8 + (4 + j) = 12 + j
      BY <1>3, <1>4
    <3> QED
      BY <1>5, <2>1, <3>1
  <2> QED
    BY <2>2
<1>7. E[11] = K /\ E[12] = 1 /\ E[7] + 256 * E[8] = CRC16(R)
  <2>1. R[3] = K /\ R[4] = 1 /\ E[7] + 256 * E[8] = CRC16(R)
    BY RestShape, EncodedShape
  <2> HIDE DEF E, R, P, K
  <2>2. E[8 + 3] = R[3] /\ E[8 + 4] = R[4]
    <3>1. 3 \in 1..Len(R) /\ 4 \in 1..Len(R)
      BY <1>3, <1>4
    <3> QED
      BY <1>5, <3>1
  <2> QED
    BY <2>1, <2>2
<1>8. Accepted(E)
  <2>1. 2 * K <= Len(P)
    <3> DEFINE S == {i \in Nat : i <= K => 2 * i <= at[i]}
    <3>1. 0 \in S
      BY <1>1, <1>3
    <3>2. ASSUME NEW i \in Nat, i \in S
          PROVE  i + 1 \in S
      <4> SUFFICES ASSUME i + 1 <= K PROVE 2 * (i + 1) <= at[i + 1]
        OBVIOUS
      <4>1. i + 1 \in 1..K /\ (i + 1) - 1 = i /\ i \in 0..K /\ 2 * i <= at[i]
        BY <1>3, <3>2
      <4>2. at[i + 1] = at[i] + 2 + Len(m[i + 1].data)
        BY <1>1, <4>1
      <4>3. Len(m[i + 1].data) \in Nat
        BY <4>1, MessageFacts
      <4>4. at[i] \in Nat
        BY <4>1
      <4> DEFINE l == Len(m[i + 1].data)
                 a == at[i]
                 b == at[i + 1]
      <4>5. l \in Nat /\ a \in Nat /\ b = a + 2 + l /\ 2 * i <= a
        BY <4>1, <4>2, <4>3, <4>4
      <4> HIDE DEF l, a, b
      <4>6. 2 * (i + 1) <= b
        BY <4>5
      <4> QED
        BY <4>6 DEF b
    <3> HIDE DEF S
    <3>3. Nat \subseteq S
      BY <3>1, <3>2, SetInduction
    <3>4. 2 * K <= at[K]
      <4>1. K \in S /\ K <= K
        BY <1>3, <3>3
      <4> QED
        BY <4>1 DEF S
    <3>5. at[K] = Len(P)
      BY <1>1, Zenon
    <3> HIDE DEF K, P
    <3> QED
      BY <3>4, <3>5
  <2> HIDE DEF E, R, P, K
  <2>2. Len(E) >= HeaderSize /\ E[12] % 2 = 1
    BY <1>3, <1>4, <1>7 DEF HeaderSize
  <2>3. E[11] <= (Len(E) - HeaderSize) \div 2
    <3>1. Len(E) - HeaderSize = Len(P)
      BY <1>3, <1>4 DEF HeaderSize
    <3>2. K <= Len(P) \div 2
      BY <1>3, <2>1, SMTT(30)
    <3> QED
      BY <1>7, <3>1, <3>2
  <2>4. Checked(E)
    <3>1. /\ 8 \in Nat /\ 8 + Len(R) <= Len(E) /\ 8 + Len(R) = Len(E) /\ 8 + 1 = 9
      BY <1>3, <1>4
    <3>2. SubSeq(E, 8 + 1, 8 + Len(R)) = R
      BY <1>3, <1>5, <3>1, Slice
    <3>3. SubSeq(E, 9, Len(E)) = R
      BY <3>1, <3>2
    <3> QED
      BY <1>7, <3>3 DEF Checked
  <2>5. Ends(E)[E[11]] = Len(E)
    BY <1>1, <1>2, <1>3, <1>4, <1>7 DEF K, P
  <2> QED
    BY <2>2, <2>3, <2>4, <2>5 DEF Accepted
<1>9. ASSUME NEW i \in 1..K
      PROVE  [type |-> E[Ends(E)[i - 1] + 1], data |-> SubSeq(E, Ends(E)[i - 1] + 3, Ends(E)[i])] = m[i]
  <2> DEFINE a == at[i - 1]
             d == m[i].data
  <2>1. i - 1 \in 0..K /\ i \in 0..K
    BY <1>3
  <2>2. a \in Nat /\ at[i] = a + 2 + Len(d) /\ a + 2 + Len(d) <= Len(P)
    BY <1>1, <2>1
  <2>3. m[i] \in Tlvs /\ d \in Seq(Byte) /\ Len(d) \in Nat
    BY MessageFacts
  <2>4. P[a + 1] = m[i].type /\ \A j \in 1..Len(d) : P[a + 2 + j] = d[j]
    BY <1>1
  <2>5. Ends(E)[i - 1] = 12 + a /\ Ends(E)[i] = 12 + (a + 2 + Len(d))
    BY <1>2, <2>1, <2>2
  <2> HIDE DEF E, P, K, a, d
  <2>6. E[(12 + a) + 1] = m[i].type
    <3>1. a + 1 \in 1..Len(P) /\ 12 + (a + 1) = (12 + a) + 1
      BY <1>3, <2>2, <2>3
    <3> QED
      BY <1>6, <2>4, <3>1
  <2>7. SubSeq(E, (12 + a) + 3, 12 + (a + 2 + Len(d))) = d
    <3> DEFINE k == 14 + a
    <3>1. /\ k \in Nat /\ k + Len(d) <= Len(E) /\ k + 1 = (12 + a) + 3
          /\ k + Len(d) = 12 + (a + 2 + Len(d))
      BY <1>3, <1>4, <2>2, <2>3
    <3>2. ASSUME NEW j \in 1..Len(d)
          PROVE  E[k + j] = d[j]
      <4>1. a + 2 + j \in 1..Len(P) /\ 12 + (a + 2 + j) = k + j
        BY <1>3, <2>2, <2>3
      <4>2. E[12 + (a + 2 + j)] = P[a + 2 + j]
        BY <1>6, <4>1
      <4> QED
        BY <2>4, <4>1, <4>2
    <3> HIDE DEF k
    <3>3. SubSeq(E, k + 1, k + Len(d)) = d
      BY <1>3, <2>3, <3>1, <3>2, Slice
    <3> QED
      BY <3>1, <3>3
  <2>8. m[i] = [type |-> m[i].type, data |-> d]
    BY <2>3 DEF Tlvs, d
  <2> QED
    BY <2>5, <2>6, <2>7, <2>8
<1>10. Parsed(E) = m
  <2>1. m = [i \in 1..K |-> m[i]]
    BY MessageFacts
  <2>2. Parsed(E) = [i \in 1..K |->
          [type |-> E[Ends(E)[i - 1] + 1], data |-> SubSeq(E, Ends(E)[i - 1] + 3, Ends(E)[i])]]
    BY <1>7, Zenon DEF Parsed
  <2> QED
    BY <1>9, <2>1, <2>2, Zenon
<1> QED
  BY <1>8, <1>10

-----------------------------------------------------------------------------
(* The decoder does not stay out of step.                                     *)

FramesOf(m) == {Encoded(m, n) : n \in Byte}

\* What is on the line: the rest of the frame of current, whose first byte may be altered.
OnLine ==
  /\ line \in Seq(Byte)
  /\ \/ line = <<>> /\ current = None
     \/ /\ line # <<>> /\ current \in Messages
        /\ \E e \in FramesOf(current) :
              /\ Len(line) <= Len(e)
              /\ \A j \in 2..Len(line) : line[j] = e[Len(e) - Len(line) + j]

\* What the decoder's buffer holds in each of its states.
States == {"Init", "MagicNum", "TotalPacketLen", "WaitFullFrame"}

Sound(d) ==
  /\ d \in [state : States, buf : Seq(Byte), total : Nat]
  /\ \/ d.state = "Init" /\ d.buf = <<>>
     \/ /\ d.state = "MagicNum" /\ Len(d.buf) \in 1..3
        /\ \A j \in 1..Len(d.buf) : d.buf[j] = FRAME_HEADER_MAGIC_NUM[j]
     \/ /\ d.state = "TotalPacketLen"
        /\ Len(d.buf) = 4 \/ (Len(d.buf) = 5 /\ d.total = d.buf[5])
     \/ /\ d.state = "WaitFullFrame" /\ 6 <= Len(d.buf) /\ Len(d.buf) < d.total
        /\ d.total <= BufferSize /\ d.total = d.buf[5] + 256 * d.buf[6]

\* The decoder holds what came before on the line; the line holds a whole frame.
InStep == current \in Messages /\ dec.buf \o line \in FramesOf(current)
Fresh == current \in Messages /\ line \in FramesOf(current)

\* Bytes that the decoder may still take for the rest of a frame.
Left == (IF dec.state = "WaitFullFrame" THEN dec.total ELSE BufferSize) - Len(dec.buf)

\* How many bytes may still come before a message is delivered.
Budget ==
  \/ InStep /\ slack + Len(line) <= Bound + 1
  \/ ~Busy /\ Fresh /\ slack + Len(line) <= Bound + 1
  \/ ~Busy /\ slack + Len(line) + MaxFrame <= Bound + 1
  \/ Busy /\ slack + Left + 2 * MaxFrame <= Bound + 2

CodecInv == slack \in Nat /\ num \in Byte /\ OnLine /\ Sound(dec) /\ (misled \/ Budget)

LEMMA MagicFacts ==
  /\ FRAME_HEADER_MAGIC_NUM[1] = 170 /\ FRAME_HEADER_MAGIC_NUM[2] = 85
  /\ FRAME_HEADER_MAGIC_NUM[3] = 90 /\ FRAME_HEADER_MAGIC_NUM[4] = 165
  /\ Len(FRAME_HEADER_MAGIC_NUM) = 4
BY DEF FRAME_HEADER_MAGIC_NUM

LEMMA FrameBounds ==
  /\ MaxFrame \in Nat /\ MaxFrame <= BufferSize /\ BufferSize \in Nat /\ 12 <= MaxFrame
  /\ \A m \in Messages : FrameSize(m) \in Nat /\ 12 <= FrameSize(m) /\ FrameSize(m) <= MaxFrame
<1>1. BufferSize \in Nat
  BY LineAssumption, WordFacts
<1>2. \A m \in Messages : FrameSize(m) \in Nat /\ 12 <= FrameSize(m) /\ FrameSize(m) <= BufferSize
  <2> TAKE m \in Messages
  <2>1. FrameSize(m) \in 12..BufferSize
    BY EncodedShape, ByteFacts
  <2> DEFINE f == FrameSize(m)
  <2> HIDE DEF f
  <2>2. f \in 12..BufferSize
    BY <2>1 DEF f
  <2>3. f \in Nat /\ 12 <= f /\ f <= BufferSize
    BY <1>1, <2>2
  <2> QED
    BY <2>3 DEF f
<1> DEFINE Sizes == {FrameSize(m) : m \in Messages}
           D == {n \in Nat : \E m \in Messages : n = BufferSize - FrameSize(m)}
           R == OpToRel(<, Nat)
<1>3. D # {} /\ D \subseteq Nat
  <2>1. PICK m \in Messages : TRUE
    BY MessagesFit
  <2>2. BufferSize - FrameSize(m) \in Nat
    BY <1>1, <1>2
  <2> QED
    BY <2>2
<1>4. \A x, y \in Nat : x < y => <<x, y>> \in R
  BY Zenon DEF OpToRel
<1>5. IsWellFoundedOn(R, Nat)
  BY NatLessThanWellFounded, Zenon
<1> HIDE DEF R
<1>6. PICK d \in D : \A y \in D : <<y, d>> \notin R
  <2> HIDE DEF D
  <2> QED
    BY <1>3, <1>5, WFMin
<1>7. PICK w \in Messages : d = BufferSize - FrameSize(w)
  OBVIOUS
<1>8. \A m \in Messages : FrameSize(m) <= FrameSize(w)
  <2> TAKE m \in Messages
  <2> DEFINE f == FrameSize(m)
             g == FrameSize(w)
  <2>1. f \in Nat /\ f <= BufferSize /\ g \in Nat /\ g <= BufferSize /\ d = BufferSize - g
    BY <1>2, <1>7
  <2>2. BufferSize - f \in D
    BY <1>1, <2>1
  <2> HIDE DEF f, g, D
  <2>3. ~(BufferSize - f < d)
    BY <1>1, <1>3, <1>4, <1>6, <2>1, <2>2
  <2>4. f <= g
    BY <1>1, <2>1, <2>3
  <2> QED
    BY <2>4 DEF f, g
<1>9. MaxFrame \in Sizes /\ \A m \in Messages : FrameSize(m) <= MaxFrame
  <2>1. FrameSize(w) \in Sizes
    OBVIOUS
  <2> QED
    BY <1>8, <2>1, Zenon DEF MaxFrame
<1>10. PICK v \in Messages : MaxFrame = FrameSize(v)
  BY <1>9
<1> QED
  BY <1>1, <1>2, <1>9, <1>10

LEMMA FrameFacts ==
  ASSUME NEW m \in Messages, NEW e \in FramesOf(m)
  PROVE  /\ e \in Seq(Byte) /\ Len(e) = FrameSize(m) /\ 12 <= Len(e) /\ Len(e) <= MaxFrame
         /\ \A j \in 1..4 : e[j] = FRAME_HEADER_MAGIC_NUM[j]
         /\ e[5] + 256 * e[6] = Len(e) /\ Accepted(e) /\ Parsed(e) = m
<1>1. PICK n \in Byte : e = Encoded(m, n)
  BY DEF FramesOf
<1>2. /\ e \in Seq(Byte) /\ Len(e) = FrameSize(m)
      /\ \A j \in 1..4 : e[j] = FRAME_HEADER_MAGIC_NUM[j] /\ e[5] + 256 * e[6] = FrameSize(m)
  <2>1. /\ Encoded(m, n) \in Seq(Byte) /\ Len(Encoded(m, n)) = FrameSize(m)
        /\ \A j \in 1..4 : Encoded(m, n)[j] = FRAME_HEADER_MAGIC_NUM[j]
        /\ Encoded(m, n)[5] + 256 * Encoded(m, n)[6] = FrameSize(m)
    BY EncodedShape
  <2> QED
    BY <1>1, <2>1, Zenon
<1>3. Accepted(e) /\ Parsed(e) = m
  BY <1>1, RoundTrip
<1>4. 12 <= FrameSize(m) /\ FrameSize(m) <= MaxFrame
  BY FrameBounds
<1> QED
  BY <1>2, <1>3, <1>4

\* What the decoder has and what is on the line, when a byte goes from one to the other.
LEMMA Moves ==
  ASSUME NEW b \in Seq(Byte), NEW l \in Seq(Byte), l # <<>>
  PROVE  Append(b, Head(l)) \o Tail(l) = b \o l
<1>1. Head(l) \in Byte /\ Tail(l) \in Seq(Byte)
  BY HeadTailProperties
<1>2. Append(b, Head(l)) = b \o <<Head(l)>>
  BY <1>1, AppendIsConcat
<1>3. <<Head(l)>> \in Seq(Byte)
  BY <1>1
<1>4. (b \o <<Head(l)>>) \o Tail(l) = b \o (<<Head(l)>> \o Tail(l))
  BY <1>1, <1>3, ConcatAssociative
<1>5. <<Head(l)>> \o Tail(l) = l
  <2> DEFINE h == <<Head(l)>>
             t == Tail(l)
  <2>1. h \in Seq(Byte) /\ Len(h) = 1 /\ h[1] = l[1]
    BY <1>1
  <2>2. t \in Seq(Byte) /\ Len(t) = Len(l) - 1 /\ \A i \in 1..Len(t) : t[i] = l[i + 1]
    BY HeadTailProperties
  <2>3. Len(l) \in Nat /\ Len(t) \in Nat
    BY <2>2
  <2> HIDE DEF h, t
  <2>4. /\ h \o t \in Seq(Byte) /\ Len(h \o t) = Len(h) + Len(t)
        /\ \A j \in 1..Len(h) : (h \o t)[j] = h[j]
        /\ \A j \in 1..Len(t) : (h \o t)[Len(h) + j] = t[j]
    BY <2>1, <2>2, Joined
  <2> DEFINE c == h \o t
  <2> HIDE DEF c
  <2>5. /\ c \in Seq(Byte) /\ Len(c) = Len(l) /\ c[1] = l[1]
        /\ \A j \in 1..Len(t) : c[1 + j] = t[j]
    <3>1. 1 \in 1..Len(h)
      BY <2>1
    <3> QED
      BY <2>1, <2>2, <2>3, <2>4, <3>1 DEF c
  <2>6. ASSUME NEW i \in 1..Len(c)
        PROVE  c[i] = l[i]
    <3>1. CASE i = 1
      BY <2>5, <3>1
    <3>2. CASE i # 1
      <4>1. i - 1 \in 1..Len(t) /\ 1 + (i - 1) = i /\ (i - 1) + 1 = i
        BY <2>2, <2>3, <2>5, <3>2
      <4> QED
        BY <2>2, <2>5, <4>1
    <3> QED
      BY <3>1, <3>2
  <2>7. c = l
    BY <2>5, <2>6, SeqEqual
  <2> QED
    BY <2>7 DEF c, h, t
<1> QED
  BY <1>2, <1>4, <1>5

LEMMA TailFacts ==
  ASSUME NEW l \in Seq(Byte), l # <<>>
  PROVE  /\ Head(l) \in Byte /\ Head(l) = l[1] /\ Tail(l) \in Seq(Byte) /\ Len(l) \in Nat /\ Len(l) >= 1
         /\ Len(Tail(l)) = Len(l) - 1 /\ \A i \in 1..Len(Tail(l)) : Tail(l)[i] = l[i + 1]
         /\ (Tail(l) = <<>> <=> Len(l) = 1)
<1>1. Head(l) \in Byte /\ Tail(l) \in Seq(Byte) /\ Len(Tail(l)) = Len(l) - 1
      /\ \A i \in 1..Len(Tail(l)) : Tail(l)[i] = l[i + 1]
  BY HeadTailProperties
<1>2. Len(l) \in Nat /\ Len(l) # 0 /\ Head(l) = l[1]
  BY EmptySeq
<1>3. Tail(l) = <<>> <=> Len(Tail(l)) = 0
  BY <1>1, EmptySeq
<1> QED
  BY <1>1, <1>2, <1>3

LEMMA LineFacts ==
  ASSUME OnLine
  PROVE  /\ line \in Seq(Byte) /\ Len(line) \in Nat /\ Len(line) <= MaxFrame
         /\ line = <<>> <=> current \notin Messages
         /\ line = <<>> <=> Len(line) = 0
<1>1. line \in Seq(Byte) /\ Len(line) \in Nat
  BY DEF OnLine
<1>2. line = <<>> <=> current \notin Messages
  BY MessagesFit DEF OnLine
<1>3. line = <<>> <=> Len(line) = 0
  BY <1>1, EmptySeq
<1>4. Len(line) <= MaxFrame
  <2>1. CASE line = <<>>
    BY <1>3, <2>1, FrameBounds
  <2>2. CASE line # <<>>
    <3>1. PICK e \in FramesOf(current) : Len(line) <= Len(e)
      BY <2>2 DEF OnLine
    <3>2. e \in Seq(Byte) /\ Len(e) <= MaxFrame
      BY <1>2, <2>2, FrameFacts
    <3>3. Len(e) \in Nat
      BY <3>2
    <3> QED
      BY <1>1, <3>1, <3>2, <3>3, FrameBounds
  <2> QED
    BY <2>1, <2>2
<1> QED
  BY <1>1, <1>2, <1>3, <1>4

\* A byte leaves the line.
LEMMA TakeLine ==
  ASSUME OnLine, Leaves
  PROVE  OnLine' /\ Len(line)' = Len(line) - 1
<1>1. /\ line \in Seq(Byte) /\ line # <<>> /\ current \in Messages
      /\ line' = Tail(line) /\ current' = IF Len(line) = 1 THEN None ELSE current
  BY DEF OnLine, Leaves
<1>2. PICK e \in FramesOf(current) :
         Len(line) <= Len(e) /\ \A j \in 2..Len(line) : line[j] = e[Len(e) - Len(line) + j]
  BY <1>1 DEF OnLine
<1>3. Len(e) \in Nat
  BY <1>1, FrameFacts
<1>4. /\ line' \in Seq(Byte) /\ Len(line) \in Nat /\ Len(line) >= 1
      /\ Len(line') = Len(line) - 1 /\ \A i \in 1..Len(line') : line'[i] = line[i + 1]
      /\ (line' = <<>> <=> Len(line) = 1)
  BY <1>1, TailFacts
<1>5. CASE Len(line) = 1
  BY <1>1, <1>4, <1>5 DEF OnLine
<1>6. CASE Len(line) # 1
  <2>1. current' = current /\ line' # <<>>
    BY <1>1, <1>4, <1>6
  <2>2. Len(line') <= Len(e)
    BY <1>2, <1>3, <1>4
  <2>3. ASSUME NEW j \in 2..Len(line')
        PROVE  line'[j] = e[Len(e) - Len(line') + j]
    <3>1. j + 1 \in 2..Len(line) /\ j \in 1..Len(line') /\ Len(e) - Len(line) + (j + 1) = Len(e) - Len(line') + j
      BY <1>3, <1>4
    <3> QED
      BY <1>2, <1>4, <3>1
  <2> QED
    BY <1>1, <1>4, <2>1, <2>2, <2>3 DEF OnLine
<1> QED
  BY <1>4, <1>5, <1>6

LEMMA LineSteps ==
  ASSUME OnLine, num \in Byte, CodecNext
  PROVE  OnLine' /\ num' \in Byte
<1>1. ASSUME NEW m \in Messages, Send(m)
      PROVE  OnLine' /\ num' \in Byte
  <2> DEFINE e == Encoded(m, num)
  <2>1. e \in FramesOf(m)
    BY DEF FramesOf
  <2>2. e \in Seq(Byte) /\ Len(e) \in Nat /\ 12 <= Len(e)
    BY <2>1, FrameFacts
  <2> HIDE DEF e
  <2>3. e # <<>>
    BY <2>2, EmptySeq
  <2>4. Len(e) <= Len(e) /\ \A j \in 2..Len(e) : e[j] = e[Len(e) - Len(e) + j]
    BY <2>2
  <2>5. line' = e /\ current' = m
    BY <1>1 DEF Send, e
  <2>6. OnLine'
    BY <2>1, <2>2, <2>3, <2>4, <2>5 DEF OnLine
  <2>7. num' \in Byte
    BY <1>1, ByteFacts DEF Send
  <2> QED
    BY <2>6, <2>7
<1>2. ASSUME Leaves, UNCHANGED num
      PROVE  OnLine' /\ num' \in Byte
  BY <1>2, TakeLine
<1>3. ASSUME Alter
      PROVE  OnLine' /\ num' \in Byte
  <2>1. PICK byte \in Noise : line' = <<byte>> \o Tail(line)
    BY <1>3 DEF Alter
  <2>2. line # <<>> /\ num' = num /\ current' = current /\ line \in Seq(Byte) /\ current \in Messages
    BY <1>3 DEF Alter, Disturbed, OnLine
  <2>3. PICK e \in FramesOf(current) :
           Len(line) <= Len(e) /\ \A j \in 2..Len(line) : line[j] = e[Len(e) - Len(line) + j]
    BY <2>2 DEF OnLine
  <2> DEFINE h == <<byte>>
             t == Tail(line)
  <2>4. /\ t \in Seq(Byte) /\ Len(line) \in Nat /\ Len(t) = Len(line) - 1
        /\ \A i \in 1..Len(t) : t[i] = line[i + 1]
    BY <2>2, TailFacts
  <2>5. h \in Seq(Byte) /\ Len(h) = 1
    BY ByteFacts
  <2>6. line' = h \o t
    BY <2>1
  <2> HIDE DEF h, t
  <2>7. /\ h \o t \in Seq(Byte) /\ Len(h \o t) = Len(h) + Len(t)
        /\ \A j \in 1..Len(t) : (h \o t)[Len(h) + j] = t[j]
    BY <2>4, <2>5, Joined
  <2>8. line' \in Seq(Byte) /\ Len(line') = Len(line) /\ \A j \in 1..Len(t) : line'[1 + j] = t[j]
    BY <2>4, <2>5, <2>6, <2>7
  <2>9. line' # <<>>
    BY <2>2, <2>8, EmptySeq
  <2>10. ASSUME NEW j \in 2..Len(line')
         PROVE  line'[j] = e[Len(e) - Len(line') + j]
    <3>1. j \in 2..Len(line) /\ j - 1 \in 1..Len(t) /\ 1 + (j - 1) = j /\ (j - 1) + 1 = j
      BY <2>4, <2>8
    <3>2. line'[j] = line[j]
      BY <2>4, <2>8, <3>1
    <3> QED
      BY <2>3, <2>8, <3>1, <3>2
  <2>11. OnLine'
    BY <2>2, <2>3, <2>8, <2>9, <2>10 DEF OnLine
  <2> QED
    BY <2>2, <2>11
<1>4. Hunt \/ MatchMagic \/ ReadLength \/ WaitFullFrame \/ Lose => Leaves /\ UNCHANGED num
  BY DEF Hunt, MatchMagic, ReadLength, WaitFullFrame, Lose, Take, Disturbed
<1> QED
  BY <1>1, <1>2, <1>3, <1>4 DEF CodecNext

LEMMA RestartedFacts ==
  ASSUME NEW byte \in Byte
  PROVE  /\ Sound(Restarted(byte)) /\ Sound(Cleared)
         /\ Restarted(byte).state \in {"Init", "MagicNum"}
         /\ byte = 170 => Restarted(byte).buf = Append(<<>>, byte)
<1>1. Cleared \in [state : States, buf : Seq(Byte), total : Nat] /\ Cleared.state = "Init" /\ Cleared.buf = <<>>
  BY DEF Cleared, States
<1>2. Sound(Cleared)
  BY <1>1 DEF Sound
<1>3. CASE byte = 170
  <2> DEFINE r == [state |-> "MagicNum", buf |-> <<byte>>, total |-> 0]
  <2>1. Restarted(byte) = r
    BY <1>3, MagicFacts DEF Restarted, Cleared
  <2>2. r \in [state : States, buf : Seq(Byte), total : Nat]
    BY DEF States
  <2>3. r.state = "MagicNum" /\ r.buf = <<byte>> /\ Len(r.buf) = 1 /\ r.buf[1] = byte
    OBVIOUS
  <2> HIDE DEF r
  <2>4. Sound(r)
    BY <1>3, <2>2, <2>3, MagicFacts DEF Sound
  <2>5. Append(<<>>, byte) = <<byte>>
    OBVIOUS
  <2> QED
    BY <1>2, <2>1, <2>3, <2>4, <2>5
<1>4. CASE byte # 170
  <2>1. Restarted(byte) = Cleared
    BY <1>4, MagicFacts DEF Restarted, Reset
  <2> QED
    BY <1>1, <1>2, <1>4, <2>1
<1> QED
  BY <1>3, <1>4

LEMMA SoundSteps ==
  ASSUME OnLine, Sound(dec), CodecNext
  PROVE  Sound(dec')
<1> DEFINE byte == Head(line)
           buf == Append(dec.buf, byte)
           k == Len(dec.buf)
<1>1. /\ dec.buf \in Seq(Byte) /\ dec.total \in Nat /\ dec.state \in States
      /\ dec = [state |-> dec.state, buf |-> dec.buf, total |-> dec.total]
  BY DEF Sound
<1>2. ASSUME line # <<>>
      PROVE  /\ byte \in Byte /\ buf \in Seq(Byte) /\ k \in Nat /\ Len(buf) = k + 1
             /\ \A j \in 1..k : buf[j] = dec.buf[j]
             /\ buf[k + 1] = byte
  <2>1. byte \in Byte
    BY <1>2, LineFacts, TailFacts
  <2> HIDE DEF byte
  <2> QED
    BY <1>1, <2>1, AppendProperties
<1>3. CASE Hunt
  <2>1. line # <<>> /\ dec' = Restarted(byte)
    BY <1>3 DEF Hunt
  <2> QED
    BY <1>2, <2>1, RestartedFacts
<1>4. CASE MatchMagic
  <2>1. /\ line # <<>> /\ dec.state = "MagicNum"
        /\ \/ /\ byte = FRAME_HEADER_MAGIC_NUM[Len(buf)]
              /\ dec' = [dec EXCEPT !.buf = buf, !.state = IF Len(buf) = 4 THEN "TotalPacketLen" ELSE "MagicNum"]
           \/ dec' = Restarted(byte)
    BY <1>4, MagicFacts DEF MatchMagic
  <2>2. k \in 1..3 /\ \A j \in 1..k : dec.buf[j] = FRAME_HEADER_MAGIC_NUM[j]
    BY <2>1 DEF Sound
  <2>3. CASE dec' = Restarted(byte)
    BY <1>2, <2>1, <2>3, RestartedFacts
  <2>4. CASE /\ byte = FRAME_HEADER_MAGIC_NUM[Len(buf)]
             /\ dec' = [dec EXCEPT !.buf = buf, !.state = IF Len(buf) = 4 THEN "TotalPacketLen" ELSE "MagicNum"]
    <3> DEFINE st == IF Len(buf) = 4 THEN "TotalPacketLen" ELSE "MagicNum"
    <3>1. dec' = [state |-> st, buf |-> buf, total |-> dec.total]
      BY <1>1, <2>4, Zenon
    <3> HIDE DEF byte, buf, st
    <3>2. dec'.state = st /\ dec'.buf = buf /\ dec'.total = dec.total
      BY <3>1
    <3>3. dec' \in [state : States, buf : Seq(Byte), total : Nat]
      BY <1>1, <1>2, <2>1, <3>1 DEF st, States
    <3>4. \A j \in 1..Len(buf) : buf[j] = FRAME_HEADER_MAGIC_NUM[j]
      <4> HIDE DEF k
      <4> QED
        BY <1>2, <2>1, <2>2, <2>4
    <3>5. CASE Len(buf) = 4
      <4>1. dec'.state = "TotalPacketLen" /\ Len(dec'.buf) = 4
        BY <3>2, <3>5 DEF st
      <4> QED
        BY <3>3, <4>1 DEF Sound
    <3>6. CASE Len(buf) # 4
      <4>1. dec'.state = "MagicNum" /\ Len(dec'.buf) \in 1..3
        <5> HIDE DEF k
        <5> QED
          BY <1>2, <2>1, <2>2, <3>2, <3>6 DEF st
      <4>2. \A j \in 1..Len(dec'.buf) : dec'.buf[j] = FRAME_HEADER_MAGIC_NUM[j]
        BY <3>2, <3>4
      <4> QED
        BY <3>3, <4>1, <4>2 DEF Sound
    <3> QED
      BY <3>5, <3>6
  <2> QED
    BY <2>1, <2>3, <2>4
<1>5. CASE ReadLength
  <2>1. line # <<>> /\ dec.state = "TotalPacketLen"
    BY <1>5 DEF ReadLength
  <2>2. k = 4 \/ (k = 5 /\ dec.total = dec.buf[5])
    BY <2>1 DEF Sound
  <2>3. CASE k = 4
    <3>1. Len(buf) = 5 /\ buf[5] = byte
      BY <1>2, <2>1, <2>3
    <3>2. dec' = [dec EXCEPT !.buf = buf, !.total = byte]
      BY <1>5, <3>1 DEF ReadLength
    <3>3. dec' = [state |-> "TotalPacketLen", buf |-> buf, total |-> byte]
      BY <1>1, <2>1, <3>2, Zenon
    <3> HIDE DEF byte, buf, k
    <3>4. dec'.state = "TotalPacketLen" /\ dec'.buf = buf /\ dec'.total = byte
      BY <3>3
    <3>5. dec' \in [state : States, buf : Seq(Byte), total : Nat]
      BY <1>2, <2>1, <3>3, ByteFacts DEF States
    <3> QED
      BY <3>1, <3>4, <3>5 DEF Sound
  <2>4. CASE k = 5 /\ dec.total = dec.buf[5]
    <3> DEFINE total == dec.total + 256 * byte
    <3>1. Len(buf) = 6 /\ buf[6] = byte /\ buf[5] = dec.total
      BY <1>2, <2>1, <2>4
    <3>2. dec' = IF LengthOk(total) THEN [state |-> "WaitFullFrame", buf |-> buf, total |-> total] ELSE Reset
      BY <1>5, <3>1 DEF ReadLength
    <3>3. CASE ~LengthOk(total)
      BY <1>2, <2>1, <3>2, <3>3, RestartedFacts DEF Reset
    <3>4. CASE LengthOk(total)
      <4>1. byte \in Nat /\ total \in Nat
        BY <1>1, <1>2, <2>1, ByteFacts
      <4>2. total <= BufferSize /\ 12 <= total
        BY <3>4, <4>1 DEF LengthOk, HeaderSize
      <4>3. total = buf[5] + 256 * buf[6]
        BY <3>1
      <4>4. dec' = [state |-> "WaitFullFrame", buf |-> buf, total |-> total]
        BY <3>2, <3>4
      <4> HIDE DEF byte, buf, k, total
      <4>5. dec'.state = "WaitFullFrame" /\ dec'.buf = buf /\ dec'.total = total
        BY <4>4
      <4>6. dec' \in [state : States, buf : Seq(Byte), total : Nat]
        BY <1>2, <2>1, <4>1, <4>4 DEF States
      <4>7. 6 <= Len(dec'.buf) /\ Len(dec'.buf) < dec'.total
        <5>1. Len(dec'.buf) = 6
          BY <3>1, <4>5
        <5> QED
          BY <4>1, <4>2, <4>5, <5>1
      <4>8. dec'.total = dec'.buf[5] + 256 * dec'.buf[6] /\ dec'.total <= BufferSize
        BY <4>2, <4>3, <4>5
      <4> QED
        BY <4>5, <4>6, <4>7, <4>8 DEF Sound
    <3> QED
      BY <3>3, <3>4
  <2> QED
    BY <2>2, <2>3, <2>4
<1>6. CASE WaitFullFrame
  <2>1. line # <<>> /\ dec.state = "WaitFullFrame"
    BY <1>6 DEF WaitFullFrame
  <2>2. /\ 6 <= k /\ k < dec.total /\ dec.total <= BufferSize /\ dec.total = dec.buf[5] + 256 * dec.buf[6]
    BY <2>1 DEF Sound
  <2>3. \/ dec' = Cleared
        \/ dec' = [dec EXCEPT !.buf = buf] /\ ~(k < BufferSize /\ Len(buf) >= dec.total)
    BY <1>6 DEF WaitFullFrame, Reset
  <2>4. CASE dec' = Cleared
    BY <1>2, <2>1, <2>4, RestartedFacts
  <2>5. CASE dec' = [dec EXCEPT !.buf = buf] /\ ~(k < BufferSize /\ Len(buf) >= dec.total)
    <3>1. dec' = [state |-> "WaitFullFrame", buf |-> buf, total |-> dec.total]
      BY <1>1, <2>1, <2>5, Zenon
    <3> HIDE DEF byte, buf, k
    <3>2. dec'.state = "WaitFullFrame" /\ dec'.buf = buf /\ dec'.total = dec.total
      BY <3>1
    <3>3. dec' \in [state : States, buf : Seq(Byte), total : Nat]
      BY <1>1, <1>2, <2>1, <3>1 DEF States
    <3>4. 6 <= Len(buf) /\ Len(buf) < dec.total
      BY <1>1, <1>2, <2>1, <2>2, <2>5, FrameBounds
    <3>5. dec.total = buf[5] + 256 * buf[6]
      <4>1. 5 \in 1..k /\ 6 \in 1..k
        BY <1>2, <2>1, <2>2
      <4> QED
        BY <1>2, <2>1, <2>2, <4>1
    <3> QED
      BY <2>2, <3>2, <3>3, <3>4, <3>5 DEF Sound
  <2> QED
    BY <2>3, <2>4, <2>5
<1>7. (\E m \in Messages : Send(m)) \/ Lose \/ Alter => UNCHANGED dec
  BY DEF Send, Lose, Alter, Disturbed
<1> QED
  BY <1>3, <1>4, <1>5, <1>6, <1>7 DEF CodecNext

LEMMA BoundFacts ==
  /\ Bound \in Nat /\ Bound = (BufferSize - 6) + 2 * MaxFrame
  /\ MaxFrame \in Nat /\ BufferSize \in Nat /\ 12 <= MaxFrame /\ MaxFrame <= BufferSize
BY FrameBounds DEF Bound

LEMMA LeftFacts ==
  ASSUME Sound(dec), Busy
  PROVE  Left \in Nat /\ 1 <= Left /\ Left <= BufferSize - 4
<1>1. Len(dec.buf) \in Nat /\ dec.total \in Nat
  BY DEF Sound
<1>2. CASE dec.state = "TotalPacketLen"
  <2>1. Len(dec.buf) = 4 \/ Len(dec.buf) = 5
    BY <1>2 DEF Sound
  <2>2. Left = BufferSize - Len(dec.buf)
    BY <1>2 DEF Left
  <2>3. BufferSize \in Nat /\ 12 <= BufferSize
    BY BoundFacts
  <2>4. Left = BufferSize - 4 \/ Left = BufferSize - 5
    BY <2>1, <2>2
  <2> QED
    BY <2>3, <2>4
<1>3. CASE dec.state = "WaitFullFrame"
  <2>1. 6 <= Len(dec.buf) /\ Len(dec.buf) < dec.total /\ dec.total <= BufferSize
    BY <1>3 DEF Sound
  <2>2. Left = dec.total - Len(dec.buf)
    BY <1>3 DEF Left
  <2> QED
    BY <1>1, <2>1, <2>2, BoundFacts
<1> QED
  BY <1>2, <1>3 DEF Busy

\* The invariant gives the bound.
LEMMA Slow ==
  ASSUME CodecInv
  PROVE  misled \/ slack <= Bound
<1>1. slack \in Nat /\ Len(line) \in Nat /\ (current \in Messages => Len(line) >= 1)
  BY LineFacts DEF CodecInv
<1>2. Busy => Left \in Nat /\ 1 <= Left
  BY LeftFacts DEF CodecInv
<1>3. misled \/ Budget
  BY DEF CodecInv
<1> DEFINE n == Len(line)
<1> HIDE DEF n
<1>4. InStep \/ Fresh => n >= 1
  BY <1>1 DEF n, InStep, Fresh
<1>5. n \in Nat
  BY <1>1 DEF n
<1>6. CASE (InStep \/ Fresh) /\ slack + n <= Bound + 1
  BY <1>1, <1>4, <1>5, <1>6, BoundFacts
<1>7. CASE slack + n + MaxFrame <= Bound + 1
  BY <1>1, <1>5, <1>7, BoundFacts
<1>8. CASE Busy /\ slack + Left + 2 * MaxFrame <= Bound + 2
  BY <1>1, <1>2, <1>8, BoundFacts
<1> QED
  BY <1>3, <1>6, <1>7, <1>8 DEF Budget, n

LEMMA InStepFacts ==
  ASSUME OnLine, Sound(dec), InStep
  PROVE  /\ current \in Messages /\ line # <<>>
         /\ \E e \in FramesOf(current) :
              /\ dec.buf \o line = e /\ Len(dec.buf) + Len(line) = Len(e)
              /\ Head(line) = e[Len(dec.buf) + 1] /\ \A j \in 1..Len(dec.buf) : dec.buf[j] = e[j]
<1>1. current \in Messages /\ line # <<>> /\ line \in Seq(Byte) /\ dec.buf \in Seq(Byte)
  BY LineFacts DEF InStep, Sound
<1>2. PICK e \in FramesOf(current) : dec.buf \o line = e
  BY DEF InStep
<1>3. /\ Len(dec.buf \o line) = Len(dec.buf) + Len(line)
      /\ \A j \in 1..Len(dec.buf) : (dec.buf \o line)[j] = dec.buf[j]
      /\ \A j \in 1..Len(line) : (dec.buf \o line)[Len(dec.buf) + j] = line[j]
  BY <1>1, Joined
<1>4. Head(line) = line[1] /\ 1 \in 1..Len(line)
  BY <1>1, TailFacts
<1> QED
  BY <1>1, <1>2, <1>3, <1>4

LEMMA InStepMoves ==
  ASSUME OnLine, Sound(dec), InStep, Leaves, dec'.buf = Append(dec.buf, Head(line)), Len(line) # 1
  PROVE  InStep'
<1>1. current \in Messages /\ line # <<>> /\ line \in Seq(Byte) /\ dec.buf \in Seq(Byte)
  BY LineFacts DEF InStep, Sound
<1>2. line' = Tail(line) /\ current' = current
  BY DEF Leaves
<1>3. dec'.buf \o line' = dec.buf \o line
  BY <1>1, <1>2, Moves
<1> QED
  BY <1>2, <1>3 DEF InStep

\* The first byte of a frame that is taken for one.
LEMMA FrameBegins ==
  ASSUME OnLine, Leaves, Fresh, dec' = Restarted(Head(line))
  PROVE  InStep' /\ current' = current
<1>1. /\ line \in Seq(Byte) /\ line # <<>> /\ current \in Messages /\ Head(line) \in Byte
      /\ Head(line) = line[1]
  BY LineFacts, TailFacts DEF Leaves
<1>2. line \in FramesOf(current) /\ 12 <= Len(line) /\ line[1] = 170
  <2>1. line \in FramesOf(current) /\ 1 \in 1..4
    BY DEF Fresh
  <2> QED
    BY <1>1, <2>1, FrameFacts, MagicFacts
<1>3. dec'.buf = Append(<<>>, Head(line))
  BY <1>1, <1>2, RestartedFacts
<1>4. line' = Tail(line) /\ current' = current
  <2>1. Len(line) # 1
    <3>1. Len(line) \in Nat /\ 12 <= Len(line)
      BY <1>1, <1>2
    <3> DEFINE n == Len(line)
    <3> HIDE DEF n
    <3>2. n \in Nat /\ 12 <= n
      BY <3>1 DEF n
    <3>3. n # 1
      BY <3>2
    <3> QED
      BY <3>3 DEF n
  <2> QED
    BY <2>1 DEF Leaves
<1>5. dec'.buf \o line' = line
  <2>1. <<>> \in Seq(Byte)
    OBVIOUS
  <2>2. Append(<<>>, Head(line)) \o Tail(line) = <<>> \o line
    BY <1>1, <2>1, Moves
  <2>3. <<>> \o line = line
    BY <1>1, ConcatEmptySeq
  <2> QED
    BY <1>3, <1>4, <2>2, <2>3
<1> QED
  BY <1>1, <1>2, <1>4, <1>5 DEF InStep

\* decodePacket() takes a frame to its end and delivers it, if it looks for a frame when this
\* begins, and no byte of it is disturbed: whatever is left in the buffer, and whatever the
\* message holds.
LEMMA StaysInStep ==
  ASSUME OnLine, Sound(dec), InStep \/ (~Busy /\ Fresh), Hunt \/ MatchMagic \/ ReadLength \/ WaitFullFrame
  PROVE  /\ Leaves
         /\ \/ InStep' /\ current' = current /\ got' = got
            \/ current' = None /\ got' = current /\ dec' = Cleared /\ slack' = 0 /\ misled' = FALSE
<1> DEFINE byte == Head(line)
           buf == Append(dec.buf, byte)
           k == Len(dec.buf)
           n == Len(line)
           total == dec.total + 256 * byte
<1>1. Leaves /\ line # <<>>
  BY DEF Hunt, MatchMagic, ReadLength, WaitFullFrame, Take, Leaves
<1>2. /\ line \in Seq(Byte) /\ current \in Messages /\ byte \in Byte /\ byte = line[1]
      /\ line' = Tail(line) /\ n \in Nat /\ 1 <= n
  BY <1>1, LineFacts, TailFacts DEF Leaves
<1>3. /\ dec.buf \in Seq(Byte) /\ k \in Nat /\ dec.total \in Nat
      /\ dec = [state |-> dec.state, buf |-> dec.buf, total |-> dec.total]
  BY DEF Sound
<1>4. /\ buf \in Seq(Byte) /\ Len(buf) = k + 1
  <2> HIDE DEF byte
  <2> QED
    BY <1>2, <1>3, AppendProperties
<1>5. dec.state = "MagicNum" => k + 1 = 2 \/ k + 1 = 3 \/ k + 1 = 4
  <2> SUFFICES ASSUME dec.state = "MagicNum" PROVE k + 1 = 2 \/ k + 1 = 3 \/ k + 1 = 4
    OBVIOUS
  <2>1. k \in 1..3
    BY DEF Sound
  <2> HIDE DEF k
  <2> QED
    BY <2>1
<1>6. CASE ~Busy /\ Fresh
  <2>1. Hunt \/ MatchMagic
    BY <1>6 DEF ReadLength, WaitFullFrame, Busy
  <2>2. dec' = Restarted(byte)
    <3>1. CASE Hunt
      BY <3>1 DEF Hunt
    <3>2. CASE MatchMagic
      <4>1. byte = 170
        <5>1. line \in FramesOf(current) /\ 1 \in 1..4
          BY <1>6 DEF Fresh
        <5> QED
          BY <1>2, <5>1, FrameFacts, MagicFacts
      <4>2. byte # FRAME_HEADER_MAGIC_NUM[Len(buf)]
        <5>1. k + 1 = 2 \/ k + 1 = 3 \/ k + 1 = 4
          BY <1>5, <3>2 DEF MatchMagic
        <5> HIDE DEF k, buf, byte
        <5> QED
          BY <1>4, <4>1, <5>1, MagicFacts
      <4> QED
        BY <3>2, <4>2 DEF MatchMagic
    <3> QED
      BY <2>1, <3>1, <3>2
  <2>3. got' = got
    BY <2>1, <2>2 DEF Hunt, MatchMagic
  <2> QED
    BY <1>1, <1>6, <2>2, <2>3, FrameBegins
<1>7. CASE InStep
  <2>1. PICK e \in FramesOf(current) :
           /\ dec.buf \o line = e /\ k + n = Len(e) /\ byte = e[k + 1] /\ \A j \in 1..k : dec.buf[j] = e[j]
    BY <1>7, InStepFacts
  <2>2. /\ 12 <= Len(e) /\ Len(e) <= MaxFrame /\ e[5] + 256 * e[6] = Len(e) /\ Len(e) \in Nat
        /\ \A j \in 1..4 : e[j] = FRAME_HEADER_MAGIC_NUM[j]
    BY <1>2, FrameFacts
  <2>3. ASSUME k <= 5
        PROVE  n # 1
    <3>1. k \in Nat /\ n \in Nat /\ 12 <= k + n
      BY <1>2, <1>3, <2>1, <2>2
    <3> HIDE DEF k, n
    <3> QED
      BY <2>3, <3>1
  <2>4. ASSUME dec'.buf = buf, n # 1
        PROVE  InStep' /\ current' = current
    BY <1>1, <1>7, <2>4, InStepMoves DEF Leaves
  <2>5. CASE Hunt
    <3>1. dec.buf = <<>> /\ dec' = Restarted(byte)
      BY <2>5 DEF Hunt, Sound
    <3>2. <<>> \o line = line
      BY <1>2, ConcatEmptySeq
    <3>3. Fresh
      BY <1>7, <3>1, <3>2 DEF InStep, Fresh
    <3>4. got' = got
      BY <2>5 DEF Hunt
    <3> QED
      BY <1>1, <3>1, <3>3, <3>4, FrameBegins
  <2>6. CASE MatchMagic
    <3>1. k + 1 = 2 \/ k + 1 = 3 \/ k + 1 = 4
      BY <1>5, <2>6 DEF MatchMagic
    <3>2. byte = FRAME_HEADER_MAGIC_NUM[Len(buf)]
      <4>1. k + 1 \in 1..4 /\ Len(buf) = k + 1
        BY <1>4, <3>1
      <4> QED
        BY <2>1, <2>2, <4>1
    <3>3. dec'.buf = buf
      <4> DEFINE st == IF Len(buf) = Len(FRAME_HEADER_MAGIC_NUM) THEN "TotalPacketLen" ELSE "MagicNum"
      <4>1. dec' = [dec EXCEPT !.buf = buf, !.state = st]
        BY <2>6, <3>2 DEF MatchMagic
      <4>2. dec' = [state |-> st, buf |-> buf, total |-> dec.total]
        BY <1>3, <4>1, Zenon
      <4> HIDE DEF st, buf
      <4> QED
        BY <4>2
    <3>4. k <= 5 /\ got' = got
      BY <1>3, <2>6, <3>1 DEF MatchMagic
    <3> QED
      BY <1>1, <2>3, <2>4, <3>3, <3>4
  <2>7. CASE ReadLength
    <3>1. k = 4 \/ (k = 5 /\ dec.total = dec.buf[5])
      BY <2>7 DEF ReadLength, Sound
    <3>4. got' = got
      BY <2>7 DEF ReadLength
    <3>2. CASE k = 4
      <4>1. Len(buf) = 5
        BY <1>4, <3>2
      <4>2. dec' = [dec EXCEPT !.buf = buf, !.total = byte]
        BY <2>7, <4>1 DEF ReadLength
      <4>3. dec' = [state |-> dec.state, buf |-> buf, total |-> byte]
        BY <1>3, <4>2, Zenon
      <4>4. dec'.buf = buf
        <5> HIDE DEF buf, byte
        <5> QED
          BY <4>3
      <4> QED
        BY <1>1, <2>3, <2>4, <3>2, <3>4, <4>4
    <3>3. CASE k = 5 /\ dec.total = dec.buf[5]
      <4>1. dec.total = e[5] /\ byte = e[6]
        <5>1. 5 \in 1..k
          BY <3>3
        <5> QED
          BY <2>1, <3>3, <5>1
      <4>2. total = Len(e)
        BY <2>2, <4>1
      <4>3. LengthOk(total)
        <5> HIDE DEF total
        <5> QED
          BY <2>2, <4>2, BoundFacts DEF LengthOk, HeaderSize
      <4>4. Len(buf) = 6
        BY <1>4, <3>3
      <4>5. dec' = [state |-> "WaitFullFrame", buf |-> buf, total |-> total]
        BY <2>7, <4>3, <4>4 DEF ReadLength
      <4>6. dec'.buf = buf
        <5> HIDE DEF buf, byte, total
        <5> QED
          BY <4>5
      <4> QED
        BY <1>1, <2>3, <2>4, <3>3, <3>4, <4>6
    <3> QED
      BY <3>1, <3>2, <3>3
  <2>8. CASE WaitFullFrame
    <3> DEFINE size == dec.total
    <3>1. 6 <= k /\ k < size /\ size <= BufferSize /\ size = dec.buf[5] + 256 * dec.buf[6]
      BY <2>8 DEF WaitFullFrame, Sound
    <3>2. Len(e) = size
      <4>1. 5 \in 1..k /\ 6 \in 1..k
        BY <1>3, <3>1
      <4> QED
        BY <2>1, <2>2, <3>1, <4>1
    <3>3. k < BufferSize /\ ~(k >= BufferSize) /\ (k + 1 >= size <=> n = 1)
      <4>1. /\ k \in Nat /\ n \in Nat /\ size \in Nat /\ 1 <= n /\ k + n = size
            /\ k < size /\ size <= BufferSize /\ BufferSize \in Nat
        BY <1>2, <1>3, <2>1, <3>1, <3>2, BoundFacts
      <4> HIDE DEF k, n, size
      <4> QED
        BY <4>1
    <3>4. /\ dec' = IF n = 1 THEN Cleared ELSE [dec EXCEPT !.buf = buf]
          /\ n = 1 /\ Accepted(buf) => got' = Parsed(buf) /\ slack' = 0 /\ misled' = FALSE
          /\ n # 1 => got' = got
      BY <1>4, <2>8, <3>3 DEF WaitFullFrame, Reset
    <3>5. CASE n # 1
      <4>1. dec' = [state |-> dec.state, buf |-> buf, total |-> dec.total]
        BY <1>3, <3>4, <3>5, Zenon
      <4>2. dec'.buf = buf
        <5> HIDE DEF buf
        <5> QED
          BY <4>1
      <4> QED
        BY <1>1, <2>4, <3>4, <3>5, <4>2
    <3>6. CASE n = 1
      <4>1. Tail(line) = <<>>
        BY <1>1, <1>2, <3>6, TailFacts
      <4>2. buf \o <<>> = e
        BY <1>1, <1>2, <1>3, <2>1, <4>1, Moves
      <4>3. buf = e
        <5> HIDE DEF buf
        <5> QED
          BY <1>4, <4>2, ConcatEmptySeq
      <4>4. Accepted(buf) /\ Parsed(buf) = current
        BY <1>2, <4>3, FrameFacts
      <4>5. current' = None
        BY <1>1, <3>6 DEF Leaves
      <4> QED
        BY <1>1, <3>4, <3>6, <4>4, <4>5
    <3> QED
      BY <3>5, <3>6
  <2> QED
    BY <2>5, <2>6, <2>7, <2>8
<1> QED
  BY <1>6, <1>7

\* One step for each way in which bytes, or a message, come and go.
LEMMA SendBudget ==
  ASSUME CodecInv, NEW m \in Messages, Send(m), Budget
  PROVE  Budget'
<1>1. /\ current = None /\ line' = Encoded(m, num) /\ current' = m /\ slack' = slack /\ dec' = dec
      /\ num \in Byte /\ OnLine /\ Sound(dec) /\ slack \in Nat
  BY DEF Send, CodecInv
<1>2. line = <<>> /\ current \notin Messages
  BY <1>1, LineFacts, MessagesFit
<1>3. Len(line) = 0
  BY <1>1, <1>2, LineFacts
<1>4. ~InStep /\ ~Fresh
  BY <1>2 DEF InStep, Fresh
<1>5. CASE Busy /\ slack + Left + 2 * MaxFrame <= Bound + 2
  BY <1>1, <1>5 DEF Budget, Busy, Left, Bound
<1>6. CASE ~Busy /\ slack + Len(line) + MaxFrame <= Bound + 1
  <2>1. line' \in FramesOf(m)
    BY <1>1 DEF FramesOf
  <2>2. Len(line') \in Nat /\ Len(line') <= MaxFrame
    BY <2>1, FrameFacts
  <2>3. slack' + Len(line)' <= Bound + 1
    BY <1>1, <1>3, <1>6, <2>2, BoundFacts
  <2>4. Fresh' /\ ~Busy'
    BY <1>1, <1>6, <2>1 DEF Fresh, Busy
  <2> QED
    BY <2>3, <2>4 DEF Budget, Bound
<1> QED
  BY <1>4, <1>5, <1>6 DEF Budget

LEMMA DisturbedBudget ==
  ASSUME CodecInv, OnLine', Disturbed
  PROVE  Budget'
<1>1. slack' = 0 /\ dec' = dec /\ Sound(dec)
  BY DEF Disturbed, CodecInv
<1>2. CASE Busy
  <2>1. Left \in Nat /\ Left <= BufferSize - 4
    BY <1>1, <1>2, LeftFacts
  <2>2. 0 + Left + 2 * MaxFrame <= Bound + 2
    BY <2>1, BoundFacts
  <2>3. Busy' /\ Left' = Left
    BY <1>1, <1>2 DEF Busy, Left
  <2>4. slack' + Left' + 2 * MaxFrame <= Bound + 2
    BY <1>1, <2>2, <2>3
  <2> QED
    BY <2>3, <2>4 DEF Budget, Bound
<1>3. CASE ~Busy
  <2>1. Len(line') \in Nat /\ Len(line') <= MaxFrame
    <3>1. CASE line' = <<>>
      BY <3>1, BoundFacts
    <3>2. CASE line' # <<>>
      <4>1. PICK e \in FramesOf(current') : Len(line') <= Len(e)
        BY <3>2 DEF OnLine
      <4>2. line' \in Seq(Byte) /\ e \in Seq(Byte) /\ Len(e) <= MaxFrame
        BY <3>2, FrameFacts DEF OnLine
      <4>3. Len(line') \in Nat /\ Len(e) \in Nat
        BY <4>2
      <4> QED
        BY <4>1, <4>2, <4>3, BoundFacts
    <3> QED
      BY <3>1, <3>2
  <2>2. slack' + Len(line)' + MaxFrame <= Bound + 1
    BY <1>1, <2>1, BoundFacts
  <2>3. ~Busy'
    BY <1>1, <1>3 DEF Busy
  <2> QED
    BY <2>2, <2>3 DEF Budget, Bound
<1> QED
  BY <1>2, <1>3

\* A decoder that was busy looks for a frame again.
LEMMA ResetBudget ==
  ASSUME OnLine, Leaves, slack \in Nat, dec' = Cleared,
         slack' = 0 \/ (slack' = slack + 1 /\ slack + 2 * MaxFrame <= Bound + 1)
  PROVE  Budget'
<1> DEFINE n == Len(line)
<1>1. n \in Nat /\ n <= MaxFrame /\ Len(line)' = n - 1
  BY TakeLine, LineFacts
<1>2. ~Busy'
  BY DEF Busy, Cleared
<1> HIDE DEF n
<1>3. slack' + Len(line)' + MaxFrame <= Bound + 1
  <2>1. CASE slack' = 0
    BY <1>1, <2>1, BoundFacts
  <2>2. CASE slack' = slack + 1 /\ slack + 2 * MaxFrame <= Bound + 1
    BY <1>1, <2>2, BoundFacts
  <2> QED
    BY <2>1, <2>2
<1> QED
  BY <1>2, <1>3 DEF Budget, Bound

\* A byte of a frame that the decoder is taking, or will take from its start.
LEMMA InStepBudget ==
  ASSUME CodecInv, InStep \/ (~Busy /\ Fresh), slack + Len(line) <= Bound + 1,
         Hunt \/ MatchMagic \/ ReadLength \/ WaitFullFrame, slack' = slack + 1 \/ slack' = 0
  PROVE  Budget'
<1> DEFINE n == Len(line)
<1>1. OnLine /\ Sound(dec) /\ slack \in Nat
  BY DEF CodecInv
<1>2. Leaves
  BY <1>1, StaysInStep
<1>3. n \in Nat /\ Len(line)' = n - 1 /\ n <= MaxFrame
  BY <1>1, <1>2, TakeLine, LineFacts
<1>4. CASE InStep'
  <2>1. slack' + Len(line)' <= Bound + 1
    <3>1. slack + n <= Bound + 1
      OBVIOUS
    <3> HIDE DEF n
    <3> QED
      BY <1>1, <1>3, <3>1, BoundFacts
  <2> QED
    BY <1>4, <2>1 DEF Budget, Bound
<1>5. CASE ~InStep'
  <2>1. dec' = Cleared /\ slack' = 0
    BY <1>1, <1>5, StaysInStep
  <2> QED
    BY <1>1, <1>2, <2>1, ResetBudget
<1> QED
  BY <1>4, <1>5

\* A decoder that looks for a frame, and is not at the start of one.
LEMMA HuntBudget ==
  ASSUME CodecInv, Hunt \/ MatchMagic, slack + Len(line) + MaxFrame <= Bound + 1, slack' = slack + 1
  PROVE  misled' \/ Budget'
<1> DEFINE byte == Head(line)
           buf == Append(dec.buf, byte)
           k == Len(dec.buf)
           n == Len(line)
<1>1. Leaves /\ line # <<>> /\ slack \in Nat /\ OnLine /\ Sound(dec)
  BY DEF CodecInv, Hunt, MatchMagic, Take
<1>2. /\ line \in Seq(Byte) /\ current \in Messages /\ byte \in Byte
      /\ line' = Tail(line) /\ n \in Nat /\ 1 <= n /\ n <= MaxFrame
  BY <1>1, LineFacts, TailFacts DEF Leaves
<1>3. Len(line)' = n - 1
  BY <1>1, TakeLine
<1>4. slack' + Len(line)' + MaxFrame <= Bound + 1
  <2>1. slack + n + MaxFrame <= Bound + 1
    OBVIOUS
  <2> HIDE DEF n
  <2> QED
    BY <1>1, <1>2, <1>3, <2>1, BoundFacts
<1>7. slack' + Len(line)' <= Bound + 1
  <2> HIDE DEF n
  <2>1. n - 1 \in Nat /\ slack' \in Nat
    BY <1>1, <1>2
  <2> QED
    BY <1>3, <1>4, <2>1, BoundFacts
<1>5. CASE dec' = Restarted(byte)
  <2>1. ~Busy'
    BY <1>2, <1>5, RestartedFacts DEF Busy
  <2> QED
    BY <1>4, <2>1 DEF Budget, Bound
<1>6. CASE MatchMagic /\ byte = FRAME_HEADER_MAGIC_NUM[Len(buf)]
  <2>1. /\ dec.buf \in Seq(Byte) /\ k \in 1..3
        /\ \A j \in 1..k : dec.buf[j] = FRAME_HEADER_MAGIC_NUM[j]
        /\ dec = [state |-> dec.state, buf |-> dec.buf, total |-> dec.total]
    BY <1>1, <1>6 DEF Sound, MatchMagic
  <2>2. /\ buf \in Seq(Byte) /\ Len(buf) = k + 1 /\ \A j \in 1..k : buf[j] = dec.buf[j]
        /\ buf[k + 1] = byte
    <3> HIDE DEF byte
    <3> QED
      BY <1>2, <2>1, AppendProperties
  <2> DEFINE st == IF k + 1 = 4 THEN "TotalPacketLen" ELSE "MagicNum"
  <2>3. /\ dec' = [dec EXCEPT !.buf = buf, !.state = st]
        /\ misled' = (misled \/ (k + 1 = 4 /\ n # FrameSize(current) - 3))
    BY <1>6, <2>2, MagicFacts DEF MatchMagic
  <2>4. dec'.buf = buf /\ dec'.state = st
    <3>1. dec' = [state |-> st, buf |-> buf, total |-> dec.total]
      BY <2>1, <2>3, Zenon
    <3> HIDE DEF st, buf
    <3> QED
      BY <3>1
  <2>5. CASE k + 1 # 4
    <3>1. ~Busy'
      BY <2>4, <2>5 DEF Busy
    <3> QED
      BY <1>4, <3>1 DEF Budget, Bound
  <2>6. CASE k + 1 = 4 /\ ~misled'
    <3>1. n = FrameSize(current) - 3
      BY <2>3, <2>6
    <3>2. PICK e \in FramesOf(current) :
             n <= Len(e) /\ \A j \in 2..n : line[j] = e[Len(e) - n + j]
      BY <1>1 DEF OnLine
    <3>3. /\ e \in Seq(Byte) /\ Len(e) = FrameSize(current) /\ 12 <= Len(e) /\ Len(e) \in Nat
          /\ \A j \in 1..4 : e[j] = FRAME_HEADER_MAGIC_NUM[j]
      BY <1>2, FrameFacts
    <3>4. /\ line' \in Seq(Byte) /\ Len(line') = n - 1
          /\ \A i \in 1..(n - 1) : line'[i] = line[i + 1]
      BY <1>1, <1>2, TailFacts
    <3> DEFINE c == buf \o line'
    <3>5. /\ c \in Seq(Byte) /\ Len(c) = Len(buf) + Len(line')
          /\ \A j \in 1..Len(buf) : c[j] = buf[j]
          /\ \A j \in 1..Len(line') : c[Len(buf) + j] = line'[j]
      <4> HIDE DEF buf
      <4> QED
        BY <2>2, <3>4, Joined
    <3> HIDE DEF c, buf, n, byte, k
    <3>6. Len(buf) = 4 /\ n = Len(e) - 3 /\ Len(c) = Len(e)
      <4>1. Len(buf) = 4 /\ n = Len(e) - 3 /\ Len(line') = n - 1 /\ Len(c) = Len(buf) + Len(line')
        BY <2>2, <2>6, <3>1, <3>3, <3>4, <3>5
      <4> QED
        BY <1>2, <3>3, <4>1
    <3>7. ASSUME NEW j \in 1..Len(c)
          PROVE  c[j] = e[j]
      <4>1. CASE j <= 4
        <5>1. j \in 1..4
          BY <4>1, <3>3, <3>6
        <5>2. buf[j] = FRAME_HEADER_MAGIC_NUM[j]
          <6>1. CASE j = 4
            BY <2>2, <1>6, <2>6, <6>1
          <6>2. CASE j # 4
            <7>1. j \in 1..k
              BY <2>1, <2>6, <5>1, <6>2
            <7> QED
              BY <2>1, <2>2, <7>1
          <6> QED
            BY <6>1, <6>2
        <5> QED
          BY <3>3, <3>5, <3>6, <5>1, <5>2
      <4>2. CASE j > 4
        <5>1. /\ j - 4 \in 1..(n - 1) /\ (j - 4) + 1 \in 2..n /\ 4 + (j - 4) = j
              /\ Len(e) - n + ((j - 4) + 1) = j
          BY <1>2, <3>3, <3>6, <4>2
        <5>2. c[4 + (j - 4)] = line'[j - 4]
          BY <3>4, <3>5, <3>6, <5>1
        <5>4. c[j] = line'[j - 4] /\ line'[j - 4] = line[(j - 4) + 1]
          BY <3>4, <5>1, <5>2
        <5>3. line[(j - 4) + 1] = e[j]
          BY <3>2, <5>1
        <5> QED
          BY <5>3, <5>4
      <4> QED
        BY <3>3, <3>6, <4>1, <4>2
    <3>8. c = e
      BY <3>3, <3>5, <3>6, <3>7, SeqEqual
    <3>9. current' = current
      BY <1>1, <1>2, <3>3, <3>6 DEF Leaves, n
    <3>10. InStep'
      BY <1>2, <2>4, <3>8, <3>9 DEF InStep, c
    <3> QED
      BY <1>7, <3>10 DEF Budget, Bound
  <2> QED
    BY <2>5, <2>6
<1> QED
  BY <1>5, <1>6 DEF Hunt, MatchMagic

LEMMA LengthBudget ==
  ASSUME CodecInv, ReadLength, slack + Left + 2 * MaxFrame <= Bound + 2, slack' = slack + 1
  PROVE  Budget'
<1> DEFINE byte == Head(line)
           buf == Append(dec.buf, byte)
           k == Len(dec.buf)
           n == Len(line)
           total == dec.total + 256 * byte
<1>1. /\ dec.state = "TotalPacketLen" /\ Busy /\ Leaves /\ line # <<>>
      /\ slack \in Nat /\ OnLine /\ Sound(dec)
  BY DEF CodecInv, ReadLength, Busy, Take
<1>2. /\ current \in Messages /\ byte \in Byte /\ n \in Nat /\ Len(line)' = n - 1
  BY <1>1, LineFacts, TailFacts, TakeLine DEF Leaves
<1>3. /\ dec.buf \in Seq(Byte) /\ (k = 4 \/ (k = 5 /\ dec.total = dec.buf[5]))
      /\ dec = [state |-> dec.state, buf |-> dec.buf, total |-> dec.total]
  BY <1>1 DEF Sound
<1>4. /\ buf \in Seq(Byte) /\ Len(buf) = k + 1
  <2> HIDE DEF byte
  <2> QED
    BY <1>2, <1>3, AppendProperties
<1>5. \/ k = 4 /\ dec' = [state |-> "TotalPacketLen", buf |-> buf, total |-> byte]
      \/ k = 5 /\ LengthOk(total) /\ dec' = [state |-> "WaitFullFrame", buf |-> buf, total |-> total]
      \/ k = 5 /\ ~LengthOk(total) /\ dec' = Cleared
  <2>1. CASE k = 4
    <3>1. Len(buf) = 5
      BY <1>4, <2>1
    <3>2. dec' = [dec EXCEPT !.buf = buf, !.total = byte]
      BY <3>1 DEF ReadLength
    <3>3. dec' = [state |-> "TotalPacketLen", buf |-> buf, total |-> byte]
      BY <1>1, <1>3, <3>2, Zenon
    <3> QED
      BY <2>1, <3>3
  <2>2. CASE k = 5
    <3>1. Len(buf) = 6
      BY <1>4, <2>2
    <3>2. dec' = IF LengthOk(total) THEN [state |-> "WaitFullFrame", buf |-> buf, total |-> total] ELSE Cleared
      BY <3>1 DEF ReadLength, Reset
    <3> QED
      BY <2>2, <3>2
  <2> QED
    BY <1>3, <2>1, <2>2
<1>6. Left = BufferSize - k
  BY <1>1 DEF Left
<1>7. CASE k = 5 /\ dec' = Cleared
  <2>1. slack + 2 * MaxFrame <= Bound + 1
    BY <1>1, <1>6, <1>7, BoundFacts
  <2> QED
    BY <1>1, <1>7, <2>1, ResetBudget
<1>8. CASE k = 4 /\ dec' = [state |-> "TotalPacketLen", buf |-> buf, total |-> byte]
  <2> HIDE DEF buf, byte
  <2>1. dec'.state = "TotalPacketLen" /\ dec'.buf = buf
    BY <1>8
  <2>2. Left' = BufferSize - 5 /\ Busy'
    <3>1. Len(dec'.buf) = 5
      BY <1>4, <1>8, <2>1
    <3> QED
      BY <2>1, <3>1 DEF Left, Busy
  <2>3. slack' + Left' + 2 * MaxFrame <= Bound + 2
    BY <1>1, <1>6, <1>8, <2>2, BoundFacts
  <2> QED
    BY <2>2, <2>3 DEF Budget, Bound
<1>9. CASE k = 5 /\ LengthOk(total) /\ dec' = [state |-> "WaitFullFrame", buf |-> buf, total |-> total]
  <2>1. total \in Nat /\ total <= BufferSize
    <3>1. byte \in Nat /\ dec.total \in Nat
      BY <1>1, <1>2, ByteFacts DEF Sound
    <3> QED
      BY <1>9, <3>1 DEF LengthOk
  <2> HIDE DEF buf, byte, total
  <2>2. dec'.state = "WaitFullFrame" /\ dec'.buf = buf /\ dec'.total = total
    BY <1>9
  <2>3. Left' = total - 6 /\ Busy'
    <3>1. Len(dec'.buf) = 6
      BY <1>4, <1>9, <2>2
    <3> QED
      BY <2>2, <3>1 DEF Left, Busy
  <2>4. slack' + Left' + 2 * MaxFrame <= Bound + 2
    BY <1>1, <1>6, <1>9, <2>1, <2>3, BoundFacts
  <2> QED
    BY <2>3, <2>4 DEF Budget, Bound
<1> QED
  BY <1>5, <1>7, <1>8, <1>9

LEMMA FrameBudget ==
  ASSUME CodecInv, WaitFullFrame, misled \/ (slack + Left + 2 * MaxFrame <= Bound + 2 /\ slack <= Bound)
  PROVE  misled' \/ Budget'
<1> DEFINE byte == Head(line)
           buf == Append(dec.buf, byte)
           k == Len(dec.buf)
           n == Len(line)
           total == dec.total
<1>1. /\ dec.state = "WaitFullFrame" /\ Busy /\ Leaves /\ line # <<>>
      /\ slack \in Nat /\ OnLine /\ Sound(dec)
  BY DEF CodecInv, WaitFullFrame, Busy, Take
<1>2. /\ line \in Seq(Byte) /\ current \in Messages /\ byte \in Byte /\ n \in Nat /\ Len(line)' = n - 1
      /\ line' = Tail(line)
  BY <1>1, LineFacts, TailFacts, TakeLine DEF Leaves
<1>3. /\ dec.buf \in Seq(Byte) /\ 6 <= k /\ k < total /\ total <= BufferSize
      /\ total = dec.buf[5] + 256 * dec.buf[6] /\ k \in Nat /\ total \in Nat
      /\ dec = [state |-> dec.state, buf |-> dec.buf, total |-> dec.total]
  BY <1>1 DEF Sound
<1>4. /\ buf \in Seq(Byte) /\ Len(buf) = k + 1
  <2> HIDE DEF byte
  <2> QED
    BY <1>2, <1>3, AppendProperties
<1>5. /\ k < BufferSize /\ ~(k >= BufferSize) /\ (k + 1 >= total <=> k + 1 = total)
  <2>1. k \in Nat /\ total \in Nat /\ BufferSize \in Nat /\ k < total /\ total <= BufferSize
    BY <1>3, BoundFacts
  <2> HIDE DEF k, total
  <2> QED
    BY <2>1
<1>6. /\ dec' = IF k + 1 = total THEN Cleared ELSE [dec EXCEPT !.buf = buf]
      /\ IF k + 1 = total /\ Accepted(buf) THEN slack' = 0 /\ misled' = FALSE ELSE Counted /\ UNCHANGED misled
  BY <1>4, <1>5 DEF WaitFullFrame, Reset
<1>7. CASE k + 1 = total /\ Accepted(buf)
  <2>1. slack' = 0 /\ dec' = Cleared
    BY <1>6, <1>7
  <2> QED
    BY <1>1, <2>1, ResetBudget
<1>8. CASE ~(k + 1 = total /\ Accepted(buf))
  <2> SUFFICES ASSUME ~misled' PROVE Budget'
    OBVIOUS
  <2>1. slack + Left + 2 * MaxFrame <= Bound + 2 /\ slack' = slack + 1
    BY <1>1, <1>6, <1>8, BoundFacts DEF Counted
  <2>2. Left = total - k
    BY <1>1 DEF Left
  <2>3. CASE k + 1 # total
    <3>1. dec' = [state |-> "WaitFullFrame", buf |-> buf, total |-> total]
      BY <1>1, <1>3, <1>6, <2>3, Zenon
    <3> HIDE DEF buf
    <3>2. dec'.state = "WaitFullFrame" /\ dec'.buf = buf /\ dec'.total = total
      BY <3>1
    <3> HIDE DEF total
    <3>3. Left' = total - (k + 1) /\ Busy'
      BY <1>4, <3>2 DEF Left, Busy
    <3>4. slack' + Left' + 2 * MaxFrame <= Bound + 2
      <4> HIDE DEF k
      <4>1. Left' = Left - 1 /\ Left \in Int
        BY <1>3, <2>2, <3>3
      <4>2. slack \in Nat /\ slack' = slack + 1
        BY <1>1, <2>1
      <4> QED
        BY <2>1, <4>1, <4>2, BoundFacts
    <3> QED
      BY <3>3, <3>4 DEF Budget, Bound
  <2>4. CASE k + 1 = total
    <3>1. slack + 2 * MaxFrame <= Bound + 1
      <4> HIDE DEF k, total
      <4>1. Left = 1
        BY <1>3, <2>2, <2>4
      <4> QED
        BY <1>1, <2>1, <4>1, BoundFacts
    <3>2. dec' = Cleared
      BY <1>6, <2>4
    <3> QED
      BY <1>1, <2>1, <3>1, <3>2, ResetBudget
  <2> QED
    BY <2>3, <2>4
<1> QED
  BY <1>7, <1>8

\* The invariant is inductive.
LEMMA InitCodec == CodecInit => CodecInv
<1> SUFFICES ASSUME CodecInit PROVE CodecInv
  OBVIOUS
<1>1. /\ line = <<>> /\ current = None /\ slack = 0 /\ dec = Cleared /\ num \in {0, 1}
  BY DEF CodecInit
<1>2. num \in Byte /\ line \in Seq(Byte)
  BY <1>1, ByteFacts
<1>3. Sound(dec)
  BY <1>1, ByteFacts, RestartedFacts
<1>4. ~Busy
  BY <1>1 DEF Busy, Cleared
<1>5. slack + Len(line) + MaxFrame <= Bound + 1
  <2>1. Len(line) = 0
    BY <1>1
  <2> QED
    BY <1>1, <2>1, BoundFacts
<1> QED
  BY <1>1, <1>2, <1>3, <1>4, <1>5 DEF CodecInv, OnLine, Budget

LEMMA StepCodec == CodecInv /\ [CodecNext]_codecVars => CodecInv'
<1> SUFFICES ASSUME CodecInv, [CodecNext]_codecVars PROVE CodecInv'
  OBVIOUS
<1>1. CASE UNCHANGED codecVars
  <2>1. /\ line' = line /\ current' = current /\ dec' = dec /\ slack' = slack /\ num' = num
        /\ misled' = misled
    BY <1>1 DEF codecVars
  <2> QED
    BY <2>1 DEF CodecInv, OnLine, Budget, InStep, Fresh, Busy, Left, Bound
<1>2. CASE CodecNext
  <2>1. /\ OnLine' /\ num' \in Byte /\ Sound(dec')
    BY <1>2, LineSteps, SoundSteps DEF CodecInv
  <2>2. misled \/ (Budget /\ slack <= Bound)
    BY Slow DEF CodecInv
  <2>3. slack \in Nat /\ Bound \in Nat
    BY BoundFacts DEF CodecInv
  <2>4. slack' \in Nat
    <3>1. slack' = slack \/ slack' = 0 \/ slack' = slack + 1
      BY <1>2 DEF CodecNext, Send, Hunt, MatchMagic, ReadLength, WaitFullFrame, Lose, Alter, Disturbed, Counted
    <3> QED
      BY <2>3, <3>1
  <2>5. Counted /\ slack <= Bound => slack' = slack + 1
    BY <2>3 DEF Counted
  <2>6. misled' \/ Budget'
    <3>1. ASSUME NEW m \in Messages, Send(m)
          PROVE  misled' \/ Budget'
      <4>1. misled' = misled
        BY <3>1 DEF Send
      <4> QED
        BY <2>2, <3>1, <4>1, SendBudget
    <3>2. CASE misled /\ (Hunt \/ MatchMagic \/ ReadLength)
      BY <3>2 DEF Hunt, MatchMagic, ReadLength
    <3>3. CASE /\ (InStep \/ (~Busy /\ Fresh)) /\ slack + Len(line) <= Bound + 1 /\ slack <= Bound
               /\ Hunt \/ MatchMagic \/ ReadLength \/ WaitFullFrame
      <4>1. slack' = slack + 1 \/ slack' = 0
        BY <2>5, <3>3 DEF Hunt, MatchMagic, ReadLength, WaitFullFrame
      <4> QED
        BY <3>3, <4>1, InStepBudget
    <3>4. CASE Budget /\ slack <= Bound /\ (Hunt \/ MatchMagic \/ ReadLength)
      <4>1. slack' = slack + 1
        BY <2>5, <3>4 DEF Hunt, MatchMagic, ReadLength
      <4>2. CASE ~Busy /\ slack + Len(line) + MaxFrame <= Bound + 1
        <5>1. Hunt \/ MatchMagic
          BY <3>4, <4>2 DEF ReadLength, Busy
        <5> QED
          BY <4>1, <4>2, <5>1, HuntBudget
      <4>3. CASE Busy /\ slack + Left + 2 * MaxFrame <= Bound + 2
        <5>1. ReadLength
          BY <3>4, <4>3 DEF Hunt, MatchMagic, Busy
        <5> QED
          BY <2>1, <4>1, <4>3, <5>1, LengthBudget
      <4> QED
        BY <3>3, <3>4, <4>2, <4>3 DEF Budget
    <3>5. CASE WaitFullFrame
      <4>1. Busy
        BY <3>5 DEF WaitFullFrame, Busy
      <4> QED
        BY <2>1, <2>2, <3>3, <3>5, <4>1, FrameBudget DEF Budget
    <3>6. CASE Lose \/ Alter
      BY <2>1, <3>6, DisturbedBudget DEF Lose, Alter
    <3> QED
      BY <1>2, <2>2, <3>1, <3>2, <3>4, <3>5, <3>6 DEF CodecNext
  <2> QED
    BY <2>1, <2>4, <2>6 DEF CodecInv
<1> QED
  BY <1>1, <1>2

\* Within a buffer and two frames of the last disturbance a message is delivered, unless the
\* decoder took a part of a message for the start of a frame (decodePacket()).
THEOREM Resynchronises == CodecSpec => []ResyncBound
<1>1. CodecInv => ResyncBound
  BY Slow DEF ResyncBound
<1> QED
  BY <1>1, InitCodec, StepCodec, PTL DEF CodecSpec

-----------------------------------------------------------------------------
(* What is not disturbed arrives.                                             *)

\* While a message is on the line, undisturbed, the decoder is in step with it and has
\* delivered nothing since it was sent.
Clean == (current \in Messages /\ ~upset) => got = None /\ (InStep \/ (~Busy /\ Fresh))

CleanInv == num \in Byte /\ OnLine /\ Sound(dec) /\ Clean

\* A message is delivered with its last byte, and only then, unless it is disturbed or the
\* decoder was busy when it was sent.
DeliveredAtLast ==
  (current # None /\ ~upset') => IF current' = None THEN got = None /\ got' = current ELSE got' = got
Arrives == [][DeliveredAtLast]_codecVars

LEMMA CleanStep == CleanInv /\ [CodecNext]_codecVars => CleanInv' /\ DeliveredAtLast
<1> SUFFICES ASSUME CleanInv, [CodecNext]_codecVars PROVE CleanInv' /\ DeliveredAtLast
  OBVIOUS
<1>1. CASE UNCHANGED codecVars
  <2>1. /\ line' = line /\ current' = current /\ dec' = dec /\ num' = num /\ upset' = upset /\ got' = got
    BY <1>1 DEF codecVars
  <2>2. CleanInv'
    BY <2>1 DEF CleanInv, OnLine, Clean, InStep, Fresh, Busy
  <2>3. current # None => current' # None
    BY <2>1
  <2> QED
    BY <2>1, <2>2, <2>3 DEF DeliveredAtLast
<1>2. CASE CodecNext
  <2>1. OnLine /\ Sound(dec) /\ num \in Byte
    BY DEF CleanInv
  <2>2. OnLine' /\ num' \in Byte /\ Sound(dec')
    BY <1>2, <2>1, LineSteps, SoundSteps
  <2>3. current # None => current \in Messages
    BY <2>1 DEF OnLine
  <2>4. Clean' /\ DeliveredAtLast
    <3>1. ASSUME NEW m \in Messages, Send(m)
          PROVE  Clean' /\ DeliveredAtLast
      <4>1. /\ current = None /\ line' = Encoded(m, num) /\ current' = m /\ got' = None
            /\ upset' = Busy /\ dec' = dec
        BY <3>1 DEF Send
      <4>2. line' \in FramesOf(m)
        BY <2>1, <4>1 DEF FramesOf
      <4>3. ~upset' => ~Busy' /\ Fresh'
        BY <4>1, <4>2 DEF Fresh, Busy
      <4> QED
        BY <4>1, <4>3 DEF Clean, DeliveredAtLast
    <3>2. CASE Lose \/ Alter
      <4>1. upset' = TRUE
        BY <3>2 DEF Lose, Alter, Disturbed
      <4> QED
        BY <4>1 DEF Clean, DeliveredAtLast
    <3>3. CASE Hunt \/ MatchMagic \/ ReadLength \/ WaitFullFrame
      <4>1. upset' = upset /\ current \in Messages
        <5>1. upset' = upset /\ line # <<>>
          BY <3>3 DEF Hunt, MatchMagic, ReadLength, WaitFullFrame, Take
        <5> QED
          BY <2>1, <5>1, LineFacts
      <4>2. CASE upset
        BY <4>1, <4>2 DEF Clean, DeliveredAtLast
      <4>3. CASE ~upset
        <5>1. got = None /\ (InStep \/ (~Busy /\ Fresh))
          BY <4>1, <4>3 DEF CleanInv, Clean
        <5>2. \/ InStep' /\ current' = current /\ got' = got
              \/ current' = None /\ got' = current
          BY <2>1, <3>3, <5>1, StaysInStep
        <5> QED
          BY <4>1, <5>1, <5>2, MessagesFit DEF Clean, DeliveredAtLast
      <4> QED
        BY <4>2, <4>3
    <3> QED
      BY <1>2, <3>1, <3>2, <3>3 DEF CodecNext
  <2> QED
    BY <2>1, <2>2, <2>4 DEF CleanInv
<1> QED
  BY <1>1, <1>2

\* Every message that is not disturbed, and is sent to a decoder that looks for a frame, is
\* delivered as it was sent, once, with its last byte: for any messages, whatever they hold,
\* whatever the decoder has left of earlier frames, and whatever the checksum is.
THEOREM UndisturbedArrives == CodecSpec => Arrives
<1>1. CodecInit => CleanInv
  <2> SUFFICES ASSUME CodecInit PROVE CleanInv
    OBVIOUS
  <2>1. CodecInv
    BY InitCodec
  <2>2. current \notin Messages
    BY MessagesFit DEF CodecInit
  <2> QED
    BY <2>1, <2>2 DEF CodecInv, CleanInv, Clean
<1>2. CleanInv /\ [CodecNext]_codecVars => CleanInv' /\ [DeliveredAtLast]_codecVars
  BY CleanStep
<1> QED
  BY <1>1, <1>2, PTL DEF CodecSpec, Arrives
=============================================================================
