------------------------------- MODULE CbrMuxer -------------------------------
(***************************************************************************)
(* tools/tscbrmuxer: multiplexes looped files into one stream, each at the *)
(* bitrate given for it.  The next packet is one of the input that has had *)
(* the least of its share, and its continuity counter is restamped.        *)
(***************************************************************************)
EXTENDS Continuity

CONSTANTS
  N,           \* the number of inputs, in the order of the command line
  Bps,         \* bps of each input
  FileChoices, \* the tuples of files that the inputs may be
  MaxPackets   \* bound: number of packets of one input

Inputs == 1..N

\* main refuses a negative bitrate and enqueues no input with bitrate 0.
ASSUME CbrMuxerAssumption ==
  /\ N \in Nat \ {0}
  /\ Bps \in [Inputs -> Nat \ {0}]
  /\ MaxPackets \in Nat

\* The files are made of packets and none is empty.
ASSUME FilesAssumption ==
  \A fs \in FileChoices : /\ fs \in [Inputs -> Seq(Packet)]
                          /\ \A i \in Inputs : Len(fs[i]) # 0

VARIABLES
  files,    \* the file of each input: a sequence of packets
  at,       \* how many packets of it were read since it was opened
  packets,  \* output_packets of each input
  tables,   \* pid_cc_table and previous_cc_table
  written,  \* history: the last packet written for each input
  latest    \* the decoder of the output: the last packet with payload of each PID

vars == <<files, at, packets, tables, written, latest>>

Init ==
  /\ files \in FileChoices
  /\ at = [i \in Inputs |-> 0]
  /\ packets = [i \in Inputs |-> 0]
  /\ tables = NewTables
  /\ written = [i \in Inputs |-> None]
  /\ latest = [p \in Pids |-> None]

\* choose_fd: has input i been output for less time than input j?  (The time a packet
\* takes is the inverse of the bitrate; the comparison of the quotients is exact.)
LessOutputPackets(i, j) == packets[i] < packets[j]  \* mutated: bitrates are forgotten
LessOutput(i, j) == packets[i] * Bps[j] < packets[j] * Bps[i]

\* choose_fd takes the first input with the least output.
IsChosen(i) ==
  \A j \in Inputs : IF j < i THEN LessOutput(i, j) ELSE ~LessOutput(j, i)

\* The packet p of input i is restamped and written, the tables being t.
Write(i, p, t) ==
  LET q == [p EXCEPT !.cc = StampedCc(t, p)]
  IN  /\ tables' = Stamp(t, p)
      /\ written' = [written EXCEPT ![i] = q]
      /\ latest' = IF HasPayload(q) THEN [latest EXCEPT ![q.pid] = q] ELSE latest

\* The next packet of the file.
ReadPacket(i) ==
  /\ at[i] < Len(files[i])
  /\ at' = [at EXCEPT ![i] = @ + 1]
  /\ Write(i, files[i][at[i] + 1], tables)

\* The tables once the file is opened again and its first packet p is read: only the PID
\* of that packet begins anew.
TablesForReopenedKept(t, p) == t  \* mutated: previous_cc_table is not reset
TablesForReopened(t, p) == [t EXCEPT !.previousCc[p.pid] = NoCc]

\* The end of the file.
ReopenAndRead(i) ==
  /\ at[i] = Len(files[i])
  /\ at' = [at EXCEPT ![i] = 1]
  /\ Write(i, files[i][1], TablesForReopened(tables, files[i][1]))

Output(i) ==
  /\ packets[i] < MaxPackets
  /\ IsChosen(i)
  /\ packets' = [packets EXCEPT ![i] = @ + 1]
  /\ ReadPacket(i) \/ ReopenAndRead(i)
  /\ UNCHANGED files

Next == \E i \in Inputs : Output(i)

Spec == Init /\ [][Next]_vars

-----------------------------------------------------------------------------
(* Properties.                                                              *)

\* Type invariant.
TypeOK ==
  /\ files \in [Inputs -> Seq(Packet)]
  /\ at \in [Inputs -> Nat] /\ \A i \in Inputs : at[i] <= Len(files[i])
  /\ packets \in [Inputs -> Nat]
  /\ tables \in Tables
  /\ written \in [Inputs -> {None} \cup Packet]
  /\ latest \in [Pids -> {None} \cup Packet]

\* Every input has the share of the output that its bitrate gives it: no input is ever
\* more than one packet ahead of any other, in proportion to their bitrates.
InProportion ==
  \A i, j \in Inputs : packets[i] > 0 => (packets[i] - 1) * Bps[j] <= packets[j] * Bps[i]

\* The PIDs of the packets of input i.
PidsOf(i) == {files[i][k].pid : k \in DOMAIN files[i]}

\* For each input with a PID of its own that is all it has, the muxer is the loop of one
\* file: the packets of the others leave no trace in its counters.
OwnTables(i) ==
  LET own(f) == [p \in Pids |-> IF p \in PidsOf(i) THEN f[p] ELSE NoCc]
  IN  [pidCc |-> own(tables.pidCc), previousCc |-> own(tables.previousCc)]
Loop(i) == INSTANCE TsLoop WITH
             files <- <<files[i]>>, open <- 1, at <- at[i], tables <- OwnTables(i),
             written <- written[i]
ImplementsLoops ==
  /\ \A i \in Inputs : Loop(i)!LoopInit
  /\ [][\A i \in Inputs : [Loop(i)!LoopNext]_(Loop(i)!loopVars)]_vars

\* What the muxer takes for a double packet is one ("double packet accepted only once",
\* tscbrmuxer.c:182): a decoder, which drops it, loses nothing.
DecoderLosesNothing ==
  [][\A p \in Pids : latest'[p] # latest[p] /\ latest[p] # None
                      => Follows(latest[p], latest'[p])]_vars

=============================================================================
