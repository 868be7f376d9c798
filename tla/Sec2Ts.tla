-------------------------------- MODULE Sec2Ts --------------------------------
(***************************************************************************)
(* tools/sec2ts: cuts the sections of its standard input into the payload  *)
(* of transport stream packets of one PID.  A packet in which a section    *)
(* starts has the payload unit start indicator (pusi) set and its payload  *)
(* begins with a pointer field, the number of bytes before that start.     *)
(*                                                                         *)
(* A byte is named by the section it belongs to and its place there, or is *)
(* Stuff (0xff).  The packet size is a parameter: every case of the code   *)
(* is a matter of how many bytes remain modulo that size.                  *)
(***************************************************************************)
EXTENDS Naturals, Sequences

CONSTANTS
  Payload,   \* TS_PACKET_SIZE - 4: payload bytes of a packet without pointer field
  MaxSize    \* SECTION_MAX_SIZE

\* A packet has room for a pointer field and more.
ASSUME Sec2TsAssumption ==
  /\ Payload \in Nat /\ Payload > 1
  /\ MaxSize \in Nat

Stuff == [sec |-> 0, off |-> 0]

VARIABLES
  stuffing, \* option -s: sections start on packet boundaries
  sizes,    \* the sizes of the sections on standard input
  cur,      \* the number of the section being packed, 0 before the first one
  size,     \* section_size: its size, with the stuffing added to it
  at,       \* section_bytes: how much of it is in packets
  needPad,  \* ts_needtopad
  padded,   \* ts_padded_did_not_output_next_header: the header of pkt is not written
  pkt,      \* the packet being written: header fields and payload bytes so far
  ts,       \* the packets written and not yet read by the next tool of the pipe
  done      \* ~not_finished

senderVars == <<stuffing, sizes, cur, size, at, needPad, padded, pkt, ts, done>>

\* get_section: is section i there and not too big?  NULL is what main takes for the
\* end of the input, in either case.
Available(i) == i \in DOMAIN sizes /\ sizes[i] <= MaxSize

\* get_section with -s: stuffing that makes the section fill its packets, the first of
\* which has one octet of overhead.
StuffedSizeNoOverhead(i) ==  \* mutated: the pointer field is forgotten
  LET residue == sizes[i] % Payload
  IN  IF stuffing /\ residue # 0 THEN sizes[i] + Payload - residue ELSE sizes[i]
StuffedSize(i) ==
  LET residue == sizes[i] % Payload
  IN  IF stuffing /\ residue < Payload - 1 THEN sizes[i] + (Payload - 1 - residue)
      ELSE sizes[i]

\* The byte at offset k of section i, or what follows the section in its buffer.
Byte(i, k) == IF k < sizes[i] THEN [sec |-> i, off |-> k] ELSE Stuff

\* A header with or without payload_unit_start_indicator and pointer field.
StartHeader(cc, pointer) == [cc |-> cc, pusi |-> TRUE, pointer |-> pointer, bytes |-> <<>>]
PlainHeader(cc)          == [cc |-> cc, pusi |-> FALSE, pointer |-> 0, bytes |-> <<>>]

\* TS_PACKET_SIZE - ts_bytes: the room left in a packet.
Room(p) == Payload - (IF p.pusi THEN 1 ELSE 0) - Len(p.bytes)

NextCc == (pkt.cc + 1) % 16

\* The header written after a packet was filled, rest bytes of the section remaining:
\* a start if the section ends in that packet and another one follows.
HeaderAfterFull(rest) ==
  IF rest < Payload - 1 /\ Available(cur + 1)
  THEN StartHeader(NextCc, rest)
  ELSE PlainHeader(NextCc)

\* A section that would end one byte before the end of the next packet, which has no
\* room for a pointer field there, gets one byte of stuffing.
OneByteMoreNever(rest) == 0  \* mutated
OneByteMore(rest) == IF rest = Payload - 1 THEN 1 ELSE 0

-----------------------------------------------------------------------------
SenderInit ==
  /\ cur = 0 /\ size = 0 /\ at = 0
  /\ needPad = FALSE /\ padded = FALSE
  /\ pkt = StartHeader(0, 0)
  /\ ts = <<>>
  /\ done = FALSE

\* The next section, if any, is taken; it will be padded if it ends inside the packet.
TakeSection ==
  /\ ~done /\ at = size /\ ~needPad
  /\ Available(cur + 1)
  /\ cur' = cur + 1
  /\ size' = StuffedSize(cur + 1)
  /\ at' = 0
  /\ needPad' = (Room(pkt) > StuffedSize(cur + 1))
  /\ padded' = FALSE
  /\ UNCHANGED <<stuffing, sizes, pkt, ts, done>>

\* Bytes of the section go to the packet; a packet that is full is output and the header
\* of the next one is written.
PackBytes ==
  /\ at < size
  /\ LET n    == IF Room(pkt) < size - at THEN Room(pkt) ELSE size - at
         rest == size - at - n
         full == [pkt EXCEPT !.bytes = @ \o [j \in 1..n |-> Byte(cur, at + j - 1)]]
     IN  /\ at' = at + n
         /\ IF Room(full) = 0
            THEN /\ ts' = Append(ts, full)
                 /\ pkt' = HeaderAfterFull(rest)
                 /\ size' = size + OneByteMore(rest)
            ELSE pkt' = full /\ UNCHANGED <<ts, size>>
  /\ UNCHANGED <<stuffing, sizes, cur, needPad, padded, done>>

\* The packet being written, stuffed to its end.
PaddedPacket == [pkt EXCEPT !.bytes = @ \o [j \in 1..Room(pkt) |-> Stuff]]

\* The section ended inside its packet: pad it, prepare the header of the next one.
Pad ==
  /\ at = size /\ needPad
  /\ needPad' = FALSE
  /\ ts' = Append(ts, PaddedPacket)
  /\ pkt' = IF Available(cur + 1) THEN StartHeader(NextCc, 0) ELSE PlainHeader(NextCc)
  /\ padded' = TRUE
  /\ UNCHANGED <<stuffing, sizes, cur, size, at, done>>

\* No more sections: the last packet is padded if its header was written.
FinishNoFlush ==  \* mutated: what is in the last packet is not output
  /\ ~done /\ at = size /\ ~needPad
  /\ ~Available(cur + 1)
  /\ done' = TRUE
  /\ UNCHANGED <<stuffing, sizes, cur, size, at, needPad, padded, pkt, ts>>
Finish ==
  /\ ~done /\ at = size /\ ~needPad
  /\ ~Available(cur + 1)
  /\ done' = TRUE
  /\ ts' = IF padded THEN ts ELSE Append(ts, PaddedPacket)
  /\ UNCHANGED <<stuffing, sizes, cur, size, at, needPad, padded, pkt>>

SenderNext == TakeSection \/ PackBytes \/ Pad \/ Finish

=============================================================================
