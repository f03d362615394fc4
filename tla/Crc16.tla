--------------------------------- MODULE Crc16 ---------------------------------
(***************************************************************************)
(* The checksum of frames (src/telemetry/crc.py) and its use by            *)
(* build_packet and parse_packet (src/telemetry/packet.py): it covers all  *)
(* of a frame but the sync word, and goes out after it, high byte first.   *)
(* Data is a sequence of bytes.                                            *)
(***************************************************************************)
EXTENDS Integers, Sequences, SequencesExt, FiniteSetsExt, Bitwise

Byte == 0 .. 255

Poly == 4129          \* 0x1021
InitialValue == 65535 \* 0xFFFF

\* One step of the inner loop of _build_table.
Shifted(crc) ==
  IF crc >= 32768 THEN ((2 * crc) % 65536) ^^ Poly ELSE 2 * crc

Lookup ==
  [byte \in Byte |-> FoldLeft(LAMBDA crc, i : Shifted(crc), 256 * byte, [i \in 1 .. 8 |-> i])]

Crc(data) ==
  FoldLeft(LAMBDA crc, byte : (256 * (crc % 256)) ^^ Lookup[(crc \div 256) ^^ byte],
           InitialValue, data)

\* body + crc16_bytes(body)
Framed(data) == data \o <<Crc(data) \div 256, Crc(data) % 256>>

\* crc_rx == crc_calc
PassesCheck(frame) ==
  LET body == SubSeq(frame, 1, Len(frame) - 2) IN Framed(body) = frame

-------------------------------------------------------------------------------
(* Reference definition, and damage *)

\* Bit i of the data, the first byte's high bit being bit 0.
Bit(data, i) == (data[(i \div 8) + 1] \div 2^(7 - (i % 8))) % 2

\* Polynomial division, one bit of the data at a time.
Remainder(data) ==
  LET Divide(crc, i) ==
        IF (crc >= 32768) = (Bit(data, i) = 1) THEN (2 * crc) % 65536
        ELSE ((2 * crc) % 65536) ^^ Poly
  IN  FoldLeft(Divide, InitialValue, [i \in 1 .. 8 * Len(data) |-> i - 1])

\* The frame with some of its bits flipped.
Flipped(frame, bits) ==
  [k \in DOMAIN frame |->
     frame[k] ^^ MapThenSumSet(LAMBDA i : 2^(7 - (i % 8)), {i \in bits : i \div 8 = k - 1})]
===============================================================================
