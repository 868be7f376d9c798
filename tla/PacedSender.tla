----------------------------- MODULE PacedSender -----------------------------
(***************************************************************************)
(* tools/tsudpsend, tstcpsend and tstimedwrite: their loop, which reads    *)
(* and sends when more bits should have been sent by the clock of the host *)
(* than were.                                                              *)
(***************************************************************************)
EXTENDS Integers, Sequences

CONSTANTS
  Size,     \* packet_size: the bytes that are read and sent at a time
  Bitrate,  \* bytes sent in a unit of the clock
  Word      \* the products of the times, and real_time, are below it: 2^64

SenderAssumption == Size \in Nat \ {0} /\ Bitrate \in Nat \ {0} /\ Word \in Nat \ {0}

VARIABLES
  clock,      \* the clock of the host
  start,      \* time_start
  from,       \* what can be read: a sequence of bytes
  fromEnded,  \* nothing more will come
  packetTime, \* packet_time
  completed,
  sent        \* history: all the bytes sent

senderVars == <<clock, start, from, fromEnded, packetTime, completed, sent>>

SenderInit ==
  /\ start = clock
  /\ packetTime = 0 /\ completed = FALSE
  /\ sent = <<>>

\* usecDiff is -1 when the clock is before the start, and becomes the greatest number.
RealTime == IF clock < start THEN Word - 1 ELSE clock - start

\* "theorical bits against sent bits"
DueAtOnce == (RealTime * Bitrate) % Word >= packetTime % Word  \* mutated: a packet goes out at its time
Due == (RealTime * Bitrate) % Word > packetTime % Word

\* How much a read returns: what there is, up to Size.
Readable == IF Len(from) < Size THEN Len(from) ELSE Size
Chunk == SubSeq(from, 1, Readable)

\* What any read is counted for: a whole packet.
Counted == Size

\* sendto, send or write of the chunk, which waits when there is no room, is put beside this
\* where the network is known.
SendChunk ==
  /\ ~completed /\ Due /\ from # <<>>
  /\ from' = SubSeq(from, Readable + 1, Len(from))
  /\ packetTime' = packetTime + Counted
  /\ sent' = sent \o Chunk
  /\ UNCHANGED <<start, completed>>

\* "ts sent done"
SendEnd ==
  /\ ~completed /\ Due /\ from = <<>> /\ fromEnded
  /\ completed' = TRUE
  /\ UNCHANGED <<start, from, packetTime, sent>>

-----------------------------------------------------------------------------
(* Properties.                                                              *)

\* However the clock is set, no more than a packet is sent before its time by the latest
\* time that the clock has shown since the start.
PacedBy(latest) == sent = <<>> \/ Len(sent) < latest * Bitrate + Size

=============================================================================
