------------------------------- MODULE Switches -------------------------------
(***************************************************************************)
(* tools/tsdoubleoutput, tsinputswitch and tsoutputswitch: packets that    *)
(* are copied to two outputs, taken from one of two inputs, and written to *)
(* one of two outputs.                                                     *)
(***************************************************************************)
EXTENDS Naturals, Sequences

CONSTANT PacketBytes  \* TS_PACKET_SIZE

\* A read of a packet from pipe p into buffer b: it returns what there is, and what was in
\* the rest of the buffer is written again.
Got(p) == IF Len(p) < PacketBytes THEN Len(p) ELSE PacketBytes
ReadInto(b, p) == SubSeq(p, 1, Got(p)) \o SubSeq(b, Got(p) + 1, PacketBytes)
After(p) == SubSeq(p, Got(p) + 1, Len(p))

\* A read returns when there is something, or nothing more will come.
CanRead(p, ended) == p # <<>> \/ ended

-----------------------------------------------------------------------------
(* tsdoubleoutput: d is its packet and whether its loop goes on.             *)

DoubleInit(unset) == [packet |-> unset, byte_read |-> TRUE]

\* One round: at the end of the input the last packet is written once more.
DoubleRead(d, p) == [packet |-> ReadInto(d.packet, p), byte_read |-> Got(p) > 0]

-----------------------------------------------------------------------------
(* tsinputswitch: s is its state, inputs its two pipes and ended whether       *)
(* nothing more will come through each.                                       *)

\* The default on the command line is read, and forgotten.
InputInit(unset) ==
  [pc |-> "recv", choice |-> 0, packet |-> unset, byte_read |-> 1]

\* The input that is read and thrown away with a choice, and the one that is written;
\* 0 for none.
Discarded(choice) == CASE choice = 0 -> 2 [] choice = 1 -> 1 [] OTHER -> 0
Wanted(choice) == CASE choice \in {0, 2} -> 1 [] choice \in {1, 3} -> 2 [] OTHER -> 0

\* The beginning of a round; a new choice may have been received.
Received(s, choice) == [s EXCEPT !.choice = choice, !.pc = "discard"]

\* A read from pipe p, after which comes pc.  byte_read is that of the last read.
HasRead(s, p, pc) ==
  [s EXCEPT !.packet = ReadInto(@, p), !.byte_read = Got(p), !.pc = pc]

\* With another choice nothing is read, and the last packet is written again and again.
Skips(s, pc) == [s EXCEPT !.pc = pc]

\* The end of a round.
RoundEnds(s) == [s EXCEPT !.pc = IF s.byte_read > 0 THEN "recv" ELSE "done"]

-----------------------------------------------------------------------------
(* tsoutputswitch: o is its state.                                            *)

OutputInit(unset) ==
  [pc |-> "recv", choice |-> 0, new_choice |-> 0, packet |-> unset]

NewChoice(o, choice) == [o EXCEPT !.new_choice = choice, !.pc = "read"]

\* The packet is read; when the choice has changed both outputs are closed and opened again,
\* one after the other, before it is written.
ReadPacket(o, p) ==
  [o EXCEPT !.packet = ReadInto(@, p),
            !.pc = IF Got(p) = 0 THEN "done"
                   ELSE IF o.new_choice # o.choice THEN "close1" ELSE "write"]
Reopening(o, pc) == [o EXCEPT !.pc = pc]
Reopened(o) == [o EXCEPT !.choice = o.new_choice, !.pc = "write"]

\* The outputs that a packet goes to.
OutputsOf(choice) ==
  CASE choice = 0 -> {1} [] choice = 1 -> {2} [] choice = 2 -> {1, 2} [] OTHER -> {}

\* The end of a round, and of the program.
Written(o) == [o EXCEPT !.pc = "recv"]
Killed(o) == [o EXCEPT !.pc = "killed"]

=============================================================================
