----------------------------- MODULE Telemetry -----------------------------
(***************************************************************************)
(* What the firmware sends: MessageCenter.cpp's sendTelemetry(), the frame *)
(* it builds in place in the transmit queue, and the polled transmitter.   *)
(*                                                                         *)
(* The UART task runs sendTelemetry() at 100 Hz; it is cut where drainTx() *)
(* moves bytes to the UART and where the frame is handed to the queue.     *)
(* Requests, state changes and heartbeats come between two runs of it.     *)
(***************************************************************************)
EXTENDS Integers, Sequences, FiniteSets

CONSTANTS
  Depth,     (* TX_QUEUE_DEPTH                                              *)
  Chunks,    (* parts in which a frame leaves                               *)
  Room,      (* TX_BUFFER_SIZE less the frame header                        *)
  ReplyOrder, (* the replies, in the order in which they are appended        *)
  ReplySize, (* bytes of each reply with its TLV header                     *)
  Changes,   (* the changes considered, of those in Urgency                 *)
  Superframe (* for each telemetry slot, the streams it sends               *)

Replies == {ReplyOrder[n] : n \in DOMAIN ReplyOrder}
Slots == DOMAIN Superframe

ASSUME DepthAssumption == Depth \in Nat \ {0} /\ Chunks \in Nat \ {0}
ASSUME RoomAssumption == Room \in Nat /\ ReplySize \in [Replies -> 1..Room] /\ ReplyOrder \in Seq(Replies)
ASSUME SlotsAssumption == Superframe \in Seq(SUBSET {"kinematics", "io", "dc", "step", "imu", "power", "servo", "sys", "ioOut"})
                          /\ Superframe # <<>>

(* The order in which sendTelemetry() looks at the changes *)
Urgency == <<"io", "dc", "servo", "ioOut", "mag">>

ASSUME ChangesAssumption == \A c \in Changes : \E i \in DOMAIN Urgency : Urgency[i] = c

VARIABLES
  pc,        (* "free", or where sendTelemetry() is                         *)
  storage,   (* txStorage_: what each buffer says                           *)
  head, tail, count, (* txHead_, txTail_, txQueuedFrames_                   *)
  offset,    (* parts of the frame at head that have left                   *)
  pending,   (* replies whose pendingSys..Rsp_ flag or mask bit is set      *)
  changed,   (* changes whose pending flag is set                           *)
  slot,      (* telemetrySlot_, from 1                                      *)
  heartbeat, (* heartbeatValid_                                             *)
  booted     (* the state is not SYS_STATE_INIT                             *)

ringVars == <<storage, head, tail, count, offset>>
envVars == <<heartbeat, booted>>
vars == <<pc, ringVars, pending, changed, slot, envVars>>

Empty == {}
Streams == UNION {Superframe[s] : s \in Slots}
Frames == SUBSET (Replies \union Changes \union Streams)
Buffers == 0..(Depth - 1)

(* Position of a change in the order *)
Rank(c) == CHOOSE i \in DOMAIN Urgency : Urgency[i] = c

-----------------------------------------------------------------------------
(* Faulty variants *)
Mut_Gate == pc = "free" /\ pc' = "build" /\ UNCHANGED <<ringVars, pending, changed, slot, envVars>>
Mut_Filled(P) == {ReplyOrder[n] : n \in {m \in DOMAIN ReplyOrder :
                    ReplyOrder[m] \in P /\ \A k \in 1..(m - 1) : ReplyOrder[k] \notin P}}
Mut_NextSlot(queued) == IF queued THEN (slot % Len(Superframe)) + 1 ELSE slot
Mut_Remaining(c) == {}

(* What is appended when the replies of P are due: each that still fits.   *)
(* The streams of a slot and the changes always fit.                       *)
Fits(P, n, left) == ReplyOrder[n] \in P /\ ReplySize[ReplyOrder[n]] <= left

Filled(P) ==
  LET left[n \in 0..Len(ReplyOrder)] ==   \* bytes free after the first n replies
        IF n = 0 THEN Room
        ELSE left[n - 1] - IF Fits(P, n, left[n - 1]) THEN ReplySize[ReplyOrder[n]] ELSE 0
  IN {ReplyOrder[n] : n \in {k \in DOMAIN ReplyOrder : Fits(P, k, left[k - 1])}}

-----------------------------------------------------------------------------
Init ==
  /\ pc = "free"
  /\ storage = [b \in Buffers |-> Empty]
  /\ head = 0 /\ tail = 0 /\ count = 0 /\ offset = 0
  /\ pending = {} /\ changed = {} /\ slot = 1
  /\ heartbeat = FALSE /\ booted = FALSE

Following(b) == (b + 1) % Depth

(* A part of the frame at the head leaves: the body of drainTx()'s loop,   *)
(* called by the scheduler's fast lane and by sendTelemetry(), which goes  *)
(* on until the UART has been busy for too long.  What left is dead.       *)
Drain ==
  /\ pc \in {"free", "full"} /\ count > 0
  /\ IF offset + 1 < Chunks
     THEN offset' = offset + 1 /\ UNCHANGED <<storage, head, count>>
     ELSE /\ offset' = 0 /\ head' = Following(head) /\ count' = count - 1
          /\ storage' = [storage EXCEPT ![head] = Empty]
  /\ UNCHANGED <<pc, tail, pending, changed, slot, envVars>>

(* sendTelemetry() starts; while the queue is full nothing may be built *)
Gate ==
  /\ pc = "free"
  /\ pc' = IF count >= Depth THEN "full" ELSE "build"
  /\ UNCHANGED <<ringVars, pending, changed, slot, envVars>>

(* drainTx() did not help: the run is given up *)
GiveUp ==
  /\ pc = "full" /\ count >= Depth
  /\ pc' = "free"
  /\ UNCHANGED <<ringVars, pending, changed, slot, envVars>>

GateOpens ==
  /\ pc = "full" /\ count < Depth
  /\ pc' = "build"
  /\ UNCHANGED <<ringVars, pending, changed, slot, envVars>>

(* beginFrame() and what is appended are written to the buffer at the tail *)
Write(frame) == storage' = [storage EXCEPT ![tail] = frame]

(* The replies that are due, or are lost for lack of room *)
BuildReplies ==
  /\ pc = "build" /\ pending # {}
  /\ Write(Filled(pending))
  /\ pending' = {}
  /\ pc' = "replies"
  /\ UNCHANGED <<head, tail, count, offset, changed, slot, envVars>>

Advance == slot' = (slot % Len(Superframe)) + 1

(* Without a heartbeat nothing else is sent *)
Silent ==
  /\ pc = "build" /\ pending = {} /\ ~heartbeat
  /\ Write(Empty) /\ Advance
  /\ pc' = "free"
  /\ UNCHANGED <<head, tail, count, offset, pending, changed, envVars>>

(* A change is reported in SYS_STATE_INIT only if it is of a calibration *)
Visible(c) == c = "mag" \/ booted

(* The flag of the change that is reported is cleared *)
Remaining(c) == changed \ {c}

(* The most urgent change gets a frame of its own *)
BuildChange ==
  /\ pc = "build" /\ pending = {} /\ heartbeat
  /\ \E c \in changed :
       /\ Visible(c)
       /\ \A d \in changed : Visible(d) => Rank(c) <= Rank(d)
       /\ Write({c})
       /\ changed' = Remaining(c)
  /\ pc' = "change"
  /\ UNCHANGED <<head, tail, count, offset, pending, slot, envVars>>

(* The slot's streams; sendIOInputState() publishes the inputs *)
BuildSlot ==
  /\ pc = "build" /\ pending = {} /\ heartbeat
  /\ \A c \in changed : ~Visible(c)
  /\ Write(IF booted THEN Superframe[slot] ELSE Empty)
  /\ pc' = "slot"
  /\ UNCHANGED <<head, tail, count, offset, pending, changed, slot, envVars>>

(* sendFrame(): an empty frame is not sent, nor one that finds the queue full*)
Queued == count < Depth /\ storage[tail] # Empty

NextSlot(queued) ==
  IF queued \/ storage[tail] = Empty THEN (slot % Len(Superframe)) + 1 ELSE slot

SendFrame ==
  /\ pc \in {"replies", "change", "slot"}
  /\ IF Queued THEN tail' = Following(tail) /\ count' = count + 1 ELSE UNCHANGED <<tail, count>>
  /\ slot' = IF pc = "slot" THEN NextSlot(Queued) ELSE slot
  /\ pc' = "free"
  /\ UNCHANGED <<storage, head, offset, pending, changed, envVars>>

-----------------------------------------------------------------------------
(* The handlers of the requests set the reply's flag *)
Request(r) ==
  /\ pc = "free"
  /\ pending' = pending \union {r}
  /\ UNCHANGED <<pc, ringVars, changed, slot, envVars>>

(* What a handler or a task did is to be reported *)
Change(c) ==
  /\ pc = "free"
  /\ changed' = changed \union {c}
  /\ UNCHANGED <<pc, ringVars, pending, slot, envVars>>

(* cancelDeferredActions() *)
CancelMag ==
  /\ pc = "free"
  /\ changed' = changed \ {"mag"}
  /\ UNCHANGED <<pc, ringVars, pending, slot, envVars>>

Heartbeat ==
  /\ pc = "free"
  /\ heartbeat' = ~heartbeat
  /\ UNCHANGED <<pc, ringVars, pending, changed, slot, booted>>

(* setup() ends: IDLE, and scheduleSysInfoBroadcast() asks for the system's *)
(* information and configuration                                           *)
Boot ==
  /\ pc = "free" /\ ~booted
  /\ booted' = TRUE
  /\ pending' = pending \union (Replies \intersect {"info", "config"})
  /\ UNCHANGED <<pc, ringVars, changed, slot, heartbeat>>

Sending == Gate \/ GiveUp \/ GateOpens \/ BuildReplies \/ Silent \/ BuildChange \/ BuildSlot \/ SendFrame

Next ==
  \/ Drain \/ Gate \/ GiveUp \/ GateOpens
  \/ BuildReplies \/ Silent \/ BuildChange \/ BuildSlot \/ SendFrame
  \/ CancelMag \/ Heartbeat \/ Boot
  \/ \E r \in Replies : Request(r)
  \/ \E c \in Changes : Change(c)

(* The UART task is periodic.  The UART sends what it is given, and the    *)
(* scheduler's fast lane gives it more between any two tasks.              *)
Fairness == WF_vars(Sending) /\ SF_vars(Drain)

Spec == Init /\ [][Next]_vars /\ Fairness

-----------------------------------------------------------------------------
(* Properties.                                                             *)

(* Every variable keeps its type. *)
TypeOK ==
  /\ pc \in {"free", "full", "build", "replies", "change", "slot"}
  /\ storage \in [Buffers -> Frames]
  /\ head \in Buffers /\ tail \in Buffers /\ count \in 0..Depth
  /\ offset \in 0..(Chunks - 1)
  /\ pending \subseteq Replies /\ changed \subseteq Changes
  /\ slot \in Slots /\ heartbeat \in BOOLEAN /\ booted \in BOOLEAN

(* What the frame says of which the last part is about to leave *)
Leaving == IF count > 0 /\ offset = Chunks - 1 THEN storage[head] ELSE Empty

(* Frames leave as they were queued and in that order, although each is    *)
(* built in place, in the buffer that comes after those queued.            *)
Fifo == INSTANCE TxFifo WITH
  Capacity <- Depth,
  queue <- [i \in 1..count |-> storage[(head + i - 1) % Depth]]
ImplementsFifo == Fifo!Spec

(* Every reply that was asked for leaves, unless at some time more was     *)
(* asked for than fits in a frame: the flag of a reply is cleared before   *)
(* it is known to be in a frame.                                           *)
Total(P) ==
  LET upTo[n \in 0..Len(ReplyOrder)] ==
        IF n = 0 THEN 0 ELSE upTo[n - 1] + (IF ReplyOrder[n] \in P THEN ReplySize[ReplyOrder[n]] ELSE 0)
  IN upTo[Len(ReplyOrder)]
Answered == \A r \in Replies : (r \in pending) ~> (r \in Leaving \/ Total(pending) > Room)

(* A change is reported if runs of sendTelemetry() keep finding nothing    *)
(* more urgent to send, unless the heartbeat is lost, or the report of a   *)
(* calibration is cancelled: no change is forgotten for another.           *)
Turn(c) == pc = "build" /\ pending = {} /\ Visible(c) /\ \A d \in changed : Visible(d) => Rank(c) <= Rank(d)
ChangesReported ==
  \A c \in Changes :
    []<>Turn(c) => ((c \in changed) ~> (c \in Leaving \/ ~heartbeat \/ (c = "mag" /\ c \notin changed)))

(* The superframe goes on if runs keep finding nothing more urgent, in any *)
(* state of the system and without a heartbeat too.                        *)
SuperframeGoesOn ==
  []<>(pc = "build" /\ pending = {} /\ \A c \in changed : ~Visible(c)) => \A s \in Slots : []<>(slot = s)
=============================================================================
