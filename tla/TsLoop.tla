-------------------------------- MODULE TsLoop --------------------------------
(***************************************************************************)
(* tools/tsloop: writes its files one after the other, for ever, and makes *)
(* the continuity counters run on from one file to the next.               *)
(***************************************************************************)
EXTENDS Continuity

VARIABLES
  files,   \* the files on the command line: sequences of packets
  open,    \* open_file: the file being read
  at,      \* how many of its packets were read
  tables,  \* pid_cc_table and previous_cc_table
  written  \* history: the last packet written

loopVars == <<files, open, at, tables, written>>

LoopInit ==
  /\ open = 1 /\ at = 0
  /\ tables = NewTables
  /\ written = None

\* Packet p is restamped and written, the tables being t.
Write(p, t) ==
  /\ tables' = Stamp(t, p)
  /\ written' = [p EXCEPT !.cc = StampedCc(t, p)]

\* The next packet of the open file.
ReadPacket ==
  /\ at < Len(files[open])
  /\ at' = at + 1
  /\ Write(files[open][at + 1], tables)
  /\ UNCHANGED <<files, open>>

\* The tables with which a file is begun: a packet of the next file is no double packet
\* of one of the last.
TablesForNextFileKept(t) == t  \* mutated: previous_cc_table is not reset
TablesForNextFileNew(t) == NewTables  \* mutated: pid_cc_table is reset too
TablesForNextFile(t) == [t EXCEPT !.previousCc = [p \in Pids |-> NoCc]]

\* The end of the file: the next one is opened, and its first packet read.
ReopenAndRead ==
  /\ at = Len(files[open])
  /\ open' = (open % Len(files)) + 1
  /\ at' = 1
  /\ Write(files[open'][1], TablesForNextFile(tables))
  /\ UNCHANGED files

LoopNext == ReadPacket \/ ReopenAndRead

LoopSpec == LoopInit /\ [][LoopNext]_loopVars

=============================================================================
