------------------------------- MODULE Crc16 -------------------------------
(***************************************************************************)
(* The checksum of a frame: CRC16() of tlvcodec.c and crc16_ccitt() of     *)
(* tlvcodec/src/utils.py.  FrameCodec takes it as a parameter.             *)
(***************************************************************************)
EXTENDS Integers, Sequences, Bitwise

(* The table holds what the eight shifts of a byte do to the rest *)
Shifted(crc) == IF crc >= 32768 THEN ((crc * 2) % 65536) ^^ 4129 ELSE crc * 2

CrcTable ==
  [byte \in 0..255 |->
     LET crc[bit \in 0..8] == IF bit = 0 THEN byte * 256 ELSE Shifted(crc[bit - 1]) IN crc[8]]

WithByte(crc, byte) == ((crc % 256) * 256) ^^ CrcTable[(crc \div 256) ^^ byte]

crc16_ccitt(bytes) ==
  LET crc[i \in 0..Len(bytes)] == IF i = 0 THEN 65535 ELSE WithByte(crc[i - 1], bytes[i])
  IN crc[Len(bytes)]
=============================================================================
