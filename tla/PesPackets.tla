------------------------------ MODULE PesPackets ------------------------------
(***************************************************************************)
(* How PES packets are put in transport stream packets by pesvideo2ts,     *)
(* pesaudio2ts and pesdata2ts, and taken out of them by ts2pes.            *)
(*                                                                         *)
(* Continuity counters are left out: they count every packet of the PID.   *)
(***************************************************************************)
EXTENDS Integers, Sequences, SequencesExt

CONSTANT Room  \* the payload of a packet: TS_PACKET_SIZE - TS_HEADER_SIZE

\* A header fits, and a byte more.
ASSUME RoomAssumption == Room \in Nat /\ Room > 3

\* pusi is the payload_unit_start_indicator, adapt the adaptation_field_control.
TsPacket(pusi, adapt, data) == [pusi |-> pusi, adapt |-> adapt, data |-> data]

\* send_current_packet: a packet that is full, one with padding, or two when there is no
\* room for the two bytes of an adaptation field.
PacketsOneByte(pusi, data) ==  \* mutated: the second packet has a byte of padding instead
  <<TsPacket(pusi, IF Len(data) = Room THEN 1 ELSE 3,
             IF Len(data) = Room - 1 THEN Front(data) ELSE data)>>
Packets(pusi, data) ==
  IF Len(data) = Room THEN <<TsPacket(pusi, 1, data)>>
  ELSE IF Len(data) = Room - 1
  THEN <<TsPacket(pusi, 3, Front(data)), TsPacket(FALSE, 3, <<Last(data)>>)>>
  ELSE <<TsPacket(pusi, 3, data)>>

-----------------------------------------------------------------------------
(* pesdata2ts.                                                               *)

\* A token is read: a header begins a packet, and a packet that is full is sent.
DataStep(v, t) ==
  LET begins == t.kind = "pes"
      flushed == IF begins /\ v.data # <<>> THEN v.out \o Packets(v.pusi, v.data) ELSE v.out
      data == IF begins THEN <<t>> ELSE Append(v.data, t)
      pusi == begins \/ v.pusi
  IN  IF Len(data) = Room
      THEN [out |-> flushed \o Packets(pusi, data), data |-> <<>>, pusi |-> FALSE]
      ELSE [out |-> flushed, data |-> data, pusi |-> pusi]

DataTs(pes) ==
  LET v[i \in 0..Len(pes)] == IF i = 0 THEN [out |-> <<>>, data |-> <<>>, pusi |-> TRUE]
                              ELSE DataStep(v[i - 1], pes[i])
      w == v[Len(pes)]
  IN  IF w.data = <<>> THEN w.out ELSE w.out \o Packets(w.pusi, w.data)

-----------------------------------------------------------------------------
(* ts2pes: what follows the headers of the packets of the PID.               *)

PesIn(packets) == FlattenSeq([k \in DOMAIN packets |->
                                IF packets[k].adapt \in {1, 3} THEN packets[k].data ELSE <<>>])

-----------------------------------------------------------------------------
(* Properties.                                                              *)

\* A packet says that it starts a PES packet when one starts in it, at its beginning.
StartsAreMarked(packets) ==
  \A k \in DOMAIN packets :
    /\ packets[k].data # <<>> => (packets[k].pusi <=> packets[k].data[1].kind = "pes")
    /\ \A j \in 2..Len(packets[k].data) : packets[k].data[j].kind # "pes"

\* Everything that pesdata2ts is given is found by ts2pes.
KeepsData(pes) == PesIn(DataTs(pes)) = pes /\ StartsAreMarked(DataTs(pes))

=============================================================================
