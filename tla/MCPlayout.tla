------------------------------ MODULE MCPlayout ------------------------------
(* Streams of packets of two bytes for Playout.                            *)
EXTENDS Playout

PacketOf(n) == [k \in 1..2 |-> [of |-> n, at |-> k]]
MCFile == PacketOf(1) \o PacketOf(2) \o PacketOf(3)
MCBackup == <<PacketOf(9)>>
MCUnset == [of |-> 0, at |-> 0]

=============================================================================
