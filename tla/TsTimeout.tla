------------------------------ MODULE TsTimeout ------------------------------
(***************************************************************************)
(* tools/tstimeout: passes its input on, in whole packets, and puts the    *)
(* packets of a backup file in their place when none comes for a time.     *)
(***************************************************************************)
EXTENDS Naturals, Sequences

CONSTANTS
  PacketBytes,  \* TS_PACKET_SIZE
  BackupFile,   \* the packets of the backup file
  Unset         \* a byte of the packet before anything was read into it

VARIABLES
  live,      \* what can be read from the input: a sequence of bytes
  liveEnded, \* nothing more will come from it
  packet,    \* ts_packet
  index,     \* how much of it was read from the input
  stable,    \* something came since the last timeout
  backupAt,  \* how many packets of the backup file were read
  aired,     \* the pipe that is written to
  cut,       \* history: a timeout came in the middle of the packet that is being read
  stray      \* history: a packet mixed of two was written although none had

timeoutVars == <<live, liveEnded, packet, index, stable, backupAt, aired, cut, stray>>

TimeoutInit ==
  /\ packet = [k \in 1..PacketBytes |-> Unset] /\ index = 0
  /\ stable = TRUE
  /\ backupAt = 0
  /\ cut = FALSE /\ stray = FALSE

\* A packet all of whose bytes are of one packet of a source.
IsWhole(p) == \A k \in 1..PacketBytes : p[k].of = p[1].of /\ p[k].at = k

\* Where in ts_packet the bytes that are read are put.
ReadPlaceStart == 0  \* mutated: always at its start
ReadPlace == index

\* select says that there is something: as much as is missing is read after what is there,
\* and the packet is written when it is full.
ReadInput ==
  /\ live # <<>>
  /\ LET n == IF Len(live) < PacketBytes - index THEN Len(live) ELSE PacketBytes - index
         p == [k \in 1..PacketBytes |->
                 IF k \in (ReadPlace + 1)..(ReadPlace + n) THEN live[k - ReadPlace]
                 ELSE packet[k]]
     IN  /\ packet' = p
         /\ live' = SubSeq(live, n + 1, Len(live))
         /\ IF index + n = PacketBytes
            THEN /\ index' = 0 /\ cut' = FALSE
                 /\ aired' = aired \o p
                 /\ stray' = (stray \/ (~IsWhole(p) /\ ~cut))
            ELSE index' = index + n /\ UNCHANGED <<aired, cut, stray>>
  /\ stable' = TRUE
  /\ UNCHANGED <<liveEnded, backupAt>>

\* What is written in a timeout when the packet is then p: all of it, read now or before.
FillingWhileRead(p) == IF backupAt < Len(BackupFile) THEN p ELSE <<>>  \* mutated: only if read
Filling(p) == p

\* Nothing came in time, or, once unstable, at once: a packet of the backup is read over
\* ts_packet, whatever is there, and written; at the end of the backup file it is what was
\* there that is written.  (When the input has ended select says for ever that there is
\* something, and read returns 0: nothing is written any more.)
Timeout ==
  /\ live = <<>> /\ ~liveEnded
  /\ stable' = FALSE
  /\ packet' = IF backupAt < Len(BackupFile) THEN BackupFile[backupAt + 1] ELSE packet
  /\ backupAt' = IF backupAt < Len(BackupFile) THEN backupAt + 1 ELSE backupAt
  /\ aired' = aired \o Filling(packet')
  /\ cut' = (cut \/ index > 0)
  /\ UNCHANGED <<live, liveEnded, index, stray>>

TimeoutNext == ReadInput \/ Timeout

-----------------------------------------------------------------------------
(* Properties.                                                              *)

\* However the input is cut in pieces, each packet of it is put together again: a packet is
\* mixed of two only when a timeout came while it was being read, and the next one is
\* right again.
OnlyTimeoutsMixPackets == ~stray

=============================================================================
