----------------------------- MODULE FrameCodec -----------------------------
(***************************************************************************)
(* The framing of the serial line: the encoders and byte-wise decoders of  *)
(* tlvcodec.c (firmware) and tlvcodec/src/*.py (bridge), with a line that  *)
(* loses and alters bytes.                                                 *)
(*                                                                         *)
(* A message is a sequence of TLVs [type, data]; bytes are numbers.  Each  *)
(* frame is one message.  What a decoder reports of the frames it rejects  *)
(* is counted and logged, and left out.                                    *)
(***************************************************************************)
EXTENDS Integers, Sequences

CONSTANTS
  CRC16(_),   (* the checksum of a sequence of bytes                        *)
  Messages,   (* what may be sent                                           *)
  None,       (* no message                                                 *)
  Noise,      (* what a byte may be altered to                              *)
  BufferSize, (* bytes of a decoder's buffer                                *)
  FrameNums,  (* bound: frameNum counts modulo this instead of 256          *)
  Damages     (* bound: bytes disturbed                                     *)

VARIABLES
  to,      (* the receiver: "firmware" (C) or "bridge" (Python)             *)
  num,     (* frameNum of the sender                                        *)
  line,    (* bytes on the line                                             *)
  damages, (* bytes disturbed                                               *)
  dec,     (* the decoder: decodeState, what is in its buffer, the length   *)
           (* it expects; its offsets follow from these                     *)
  current, upset, got, late, (* history: see LossyLink                      *)
  slack,   (* history: bytes received since a delivery or a disturbance     *)
  misled   (* history: and it took a part of a message for a frame since    *)

codecVars == <<to, num, line, damages, dec, current, upset, got, late, slack, misled>>

FRAME_HEADER_MAGIC_NUM == <<170, 85, 90, 165>>
HeaderSize == 12  \* sizeof(struct FrameHeader)

-----------------------------------------------------------------------------
Le16(n) == <<n % 256, n \div 256>>

(* addTlvPacket() for each TLV *)
Payload(m) ==
  LET upTo[i \in 0..Len(m)] ==
        IF i = 0 THEN <<>> ELSE upTo[i - 1] \o <<m[i].type, Len(m[i].data)>> \o m[i].data
  IN upTo[Len(m)]

FrameSize(m) == HeaderSize + Len(Payload(m))

(* wrapupBuffer(): device, number, TLVs and flags, and what goes before them *)
Rest(m, n) == <<1, n, Len(m), 1>> \o Payload(m)

Encoded(m, n) ==
  FRAME_HEADER_MAGIC_NUM \o Le16(FrameSize(m)) \o Le16(CRC16(Rest(m, n))) \o Rest(m, n)

MaxFrame == CHOOSE n \in {FrameSize(m) : m \in Messages} : \A m \in Messages : FrameSize(m) <= n

Byte == 0..255
Word == {n \in Nat : n < 65536}
Tlvs == [type : Byte, data : Seq(Byte)]

(* Types, lengths and numbers of TLVs are bytes, and a frame fits in the   *)
(* buffer of the decoder.                                                  *)
ASSUME MessagesFit ==
  /\ Messages # {} /\ None \notin Messages
  /\ \A m \in Messages : /\ m \in Seq(Tlvs) /\ Len(m) \in Byte
                         /\ \A i \in DOMAIN m : Len(m[i].data) \in Byte
                         /\ FrameSize(m) <= BufferSize
ASSUME LineAssumption ==
  BufferSize \in Word /\ Noise \subseteq Byte /\ FrameNums \in 1..256 /\ Damages \in Nat
ASSUME ChecksumIsWord == \A m \in Messages : \A n \in Byte : CRC16(Rest(m, n)) \in Word

-----------------------------------------------------------------------------
(* Faulty variants *)
Cleared == [state |-> "Init", buf |-> <<>>, total |-> 0]
Mut_Reset == [Cleared EXCEPT !.state = dec.state]
Mut_Checked(buf) == TRUE

(* resetDecodeDescriptor() *)
Reset == Cleared

(* A byte that does not continue the magic number may begin another one *)
Restarted(byte) ==
  IF byte = FRAME_HEADER_MAGIC_NUM[1] THEN [Cleared EXCEPT !.state = "MagicNum", !.buf = <<byte>>] ELSE Reset

(* parseFrame(): where each TLV begins, and the end of the last one *)
NextTlv(buf, at) == IF at + 2 > Len(buf) THEN Len(buf) + 1 ELSE at + 2 + buf[at + 2]

Ends(buf) ==
  LET end[i \in 0..buf[11]] == IF i = 0 THEN HeaderSize ELSE NextTlv(buf, end[i - 1])
  IN end

Checked(buf) == CRC16(SubSeq(buf, 9, Len(buf))) = buf[7] + 256 * buf[8]

(* A frame is accepted if it has a checksum, which is right, and its TLVs  *)
(* fill it.  The C decoder first looks whether so many can be there.       *)
Accepted(buf) ==
  /\ Len(buf) >= HeaderSize
  /\ to = "firmware" => buf[11] <= (Len(buf) - HeaderSize) \div 2
  /\ buf[12] % 2 = 1
  /\ Checked(buf)
  /\ Ends(buf)[buf[11]] = Len(buf)

Parsed(buf) ==
  [i \in 1..buf[11] |-> [type |-> buf[Ends(buf)[i - 1] + 1], data |-> SubSeq(buf, Ends(buf)[i - 1] + 3, Ends(buf)[i])]]

-----------------------------------------------------------------------------
CodecInit ==
  /\ to \in {"firmware", "bridge"}
  /\ num = IF to = "bridge" THEN 0 ELSE 1
  /\ line = <<>> /\ damages = 0
  /\ dec = Cleared
  /\ current = None /\ upset = FALSE /\ got = None /\ late = None
  /\ slack = 0 /\ misled = FALSE

(* The receiver does not look for the start of a frame *)
Busy == dec.state \in {"TotalPacketLen", "WaitFullFrame"}

(* The sender encodes a message and hands it to the UART.  The frame before*)
(* it has left.                                                            *)
Send(m) ==
  /\ current = None
  /\ line' = Encoded(m, num) /\ num' = (num + 1) % FrameNums
  /\ current' = m /\ got' = None /\ upset' = Busy
  /\ UNCHANGED <<to, damages, dec, late, slack, misled>>

(* What is counted at each byte *)
Bound == (BufferSize - 6) + 2 * MaxFrame
Counted == slack' = IF slack > Bound THEN slack ELSE slack + 1

(* The next byte leaves the line; with the last one the message was sent *)
Leaves ==
  /\ line # <<>>
  /\ current' = IF Len(line) = 1 THEN None ELSE current
  /\ late' = IF Len(line) = 1 THEN (IF got' = current THEN None ELSE current)
             ELSE IF got' \in {got, current} THEN late ELSE None
  /\ line' = Tail(line)

Take == Leaves /\ UNCHANGED <<to, num, damages, upset>>

(* decodePacket(), for each of decodeState's values *)
Hunt ==
  /\ dec.state = "Init" /\ line # <<>>
  /\ dec' = Restarted(Head(line))
  /\ Counted /\ UNCHANGED <<got, misled>>
  /\ Take

MatchMagic ==
  /\ dec.state = "MagicNum" /\ line # <<>>
  /\ LET byte == Head(line)
         buf == Append(dec.buf, byte)
         whole == Len(buf) = Len(FRAME_HEADER_MAGIC_NUM)
     IN IF byte = FRAME_HEADER_MAGIC_NUM[Len(buf)]
        THEN /\ dec' = [dec EXCEPT !.buf = buf, !.state = IF whole THEN "TotalPacketLen" ELSE "MagicNum"]
             /\ misled' = (misled \/ (whole /\ Len(line) # FrameSize(current) - 3))
        ELSE dec' = Restarted(byte) /\ UNCHANGED misled
  /\ Counted /\ UNCHANGED got
  /\ Take

LengthOk(total) == total <= BufferSize /\ total >= HeaderSize

ReadLength ==
  /\ dec.state = "TotalPacketLen" /\ line # <<>>
  /\ LET buf == Append(dec.buf, Head(line))
         total == IF Len(buf) = 5 THEN Head(line) ELSE dec.total + 256 * Head(line)
     IN dec' = IF Len(buf) = 5 THEN [dec EXCEPT !.buf = buf, !.total = total]
               ELSE IF LengthOk(total) THEN [state |-> "WaitFullFrame", buf |-> buf, total |-> total]
               ELSE Reset
  /\ Counted /\ UNCHANGED <<got, misled>>
  /\ Take

(* With the last byte of a frame it is parsed, and handed on if accepted *)
WaitFullFrame ==
  /\ dec.state = "WaitFullFrame" /\ line # <<>>
  /\ LET buf == Append(dec.buf, Head(line))
         whole == Len(dec.buf) < BufferSize /\ Len(buf) >= dec.total
     IN /\ dec' = IF whole \/ Len(dec.buf) >= BufferSize THEN Reset ELSE [dec EXCEPT !.buf = buf]
        /\ IF whole /\ Accepted(buf)
           THEN got' = Parsed(buf) /\ slack' = 0 /\ misled' = FALSE
           ELSE Counted /\ UNCHANGED <<got, misled>>
  /\ Take

(* The line: a byte is lost, or altered *)
Disturbed ==
  /\ line # <<>> /\ damages < Damages
  /\ damages' = damages + 1
  /\ upset' = TRUE /\ slack' = 0 /\ misled' = FALSE
  /\ UNCHANGED <<to, num, dec, got>>

Lose == Disturbed /\ Leaves

Alter ==
  /\ Disturbed
  /\ \E byte \in Noise : line' = <<byte>> \o Tail(line)
  /\ UNCHANGED <<current, late>>

CodecNext ==
  \/ \E m \in Messages : Send(m)
  \/ Hunt \/ MatchMagic \/ ReadLength \/ WaitFullFrame
  \/ Lose \/ Alter

CodecSpec == CodecInit /\ [][CodecNext]_codecVars

-----------------------------------------------------------------------------
(* Properties.                                                             *)

(* Only frames that are damaged, or overlap what is left of one, are lost, *)
(* and these are lost whole; every other message is delivered as it was    *)
(* sent, by both decoders, whatever they had taken for a magic number.     *)
Link == INSTANCE LossyLink
ImplementsLink == Link!Spec

(* The decoder does not stay out of step: within a buffer and two frames of*)
(* the last disturbance it delivers a message, unless it takes a part of a *)
(* message, which may hold the magic number, for the start of a frame.     *)
ResyncBound == slack <= Bound \/ misled
=============================================================================
