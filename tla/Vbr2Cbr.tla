------------------------------- MODULE Vbr2Cbr -------------------------------
(***************************************************************************)
(* tools/tsvbr2cbr: makes a stream of constant bitrate of one whose        *)
(* bitrate varies.  Packets are kept until the next PCR, which tells how   *)
(* long they take, and are written with null packets between them.         *)
(* Positions are in packets.                                               *)
(***************************************************************************)
EXTENDS Integers, Sequences

CONSTANTS
  obits,          \* output_bit/s, in packets per second
  ClockFrequency, \* SYSTEM_CLOCK_FREQUENCY: PCR ticks per second
  HalfClock,      \* the PCR whose base is 2^31: the PCR wraps at four of it
  BufferPackets,  \* OUTPUT_BUFFER_IN_PACKETS
  Null, Unset, NoPcr

Vbr2CbrAssumption ==
  /\ obits \in Nat \ {0}
  /\ ClockFrequency \in Nat \ {0}
  /\ HalfClock \in Nat \ {0}
  /\ BufferPackets \in Nat \ {0}

VARIABLES
  input,      \* what is left of the input
  packet,     \* ts_packet
  count,      \* ts_packet_count
  lastPcr,    \* pid_pcr_table and pid_pcr_index_table of the PID with the PCR: 0 is
  lastIndex,  \* taken for none
  ibits,      \* the bitrate guessed from the last two PCRs
  buffer,     \* output_packet_buffer up to current_output_packet
  flushed,    \* how many packets of it flush_buffer has written
  fcounter, ucounter,
  eof,        \* read has returned 0
  pc,         \* "read", "flush", "fill", "done" (the end of the input) or "exit" (2)
  output,     \* the pipe that is written to
  written,    \* history: the number of packets written, ts_packet_output
  firstPcr    \* history: the first PCR read

vbrVars == <<input, packet, count, lastPcr, lastIndex, ibits, buffer, flushed, fcounter,
             ucounter, eof, pc, output, written, firstPcr>>

VbrInit ==
  /\ packet = Unset /\ count = 0
  /\ lastPcr = 0 /\ lastIndex = 0 /\ firstPcr = NoPcr
  /\ ibits = obits
  /\ buffer = <<>> /\ flushed = 0
  /\ fcounter = 0 /\ ucounter = 0
  /\ eof = FALSE /\ pc = "read"
  /\ written = 0

\* The PCR that is made of the bytes of a packet.  The first byte is shifted as a 32-bit int:
\* the highest bit of the base is lost, and the next one is the sign, which is extended to
\* the highest bit.
ReadPcr(p) ==
  (p % HalfClock) + (IF (p \div HalfClock) % 2 = 1 THEN 3 * HalfClock ELSE 0)

\* The bitrate between two PCRs.  The difference is unsigned: when the PCR goes back it is
\* so large that the quotient is truncated to 0.  When it is 0 the quotient is infinite,
\* and converting it is undefined: it gives 0 or a rate that is too large.
GuessesFromNext(pcr, index) ==  \* mutated: the packet of the PCR is not counted
  IF pcr > lastPcr THEN {((index - lastIndex - 1) * ClockFrequency) \div (pcr - lastPcr)}
  ELSE {0}
Guesses(pcr, index) ==
  CASE pcr > lastPcr -> {((index - lastIndex) * ClockFrequency) \div (pcr - lastPcr)}
    [] pcr < lastPcr -> {0}
    [] OTHER -> {0, obits + 1}

\* At the end of the input the last packet is taken once more.
ReadPacket ==
  /\ pc = "read"
  /\ packet' = IF input = <<>> THEN packet ELSE Head(input)
  /\ input' = IF input = <<>> THEN input ELSE Tail(input)
  /\ eof' = (input = <<>>)
  /\ IF packet'.pcr = NoPcr
     THEN pc' = "fill" /\ UNCHANGED <<lastPcr, lastIndex, ibits, firstPcr>>
     ELSE /\ lastIndex' = count
          /\ lastPcr' = ReadPcr(packet'.pcr)
          /\ IF lastPcr = 0
             THEN pc' = "fill" /\ firstPcr' = lastPcr' /\ UNCHANGED ibits
             ELSE /\ ibits' \in Guesses(lastPcr', count)
                  /\ pc' = IF ibits' > obits THEN "exit" ELSE "flush"
                  /\ UNCHANGED firstPcr
  /\ flushed' = 0
  /\ UNCHANGED <<count, buffer, fcounter, ucounter, output, written>>

\* There is time for a null packet after the packet written last.
TimeForNull == flushed > 0 /\ ucounter + ibits <= fcounter

FlushNull ==
  /\ pc = "flush" /\ TimeForNull
  /\ output' = Append(output, Null) /\ written' = written + 1
  /\ ucounter' = ucounter + ibits
  /\ UNCHANGED <<input, packet, count, lastPcr, lastIndex, ibits, buffer, flushed, fcounter,
                 eof, pc, firstPcr>>

FlushPacket ==
  /\ pc = "flush" /\ ~TimeForNull /\ flushed < Len(buffer)
  /\ output' = Append(output, buffer[flushed + 1]) /\ written' = written + 1
  /\ flushed' = flushed + 1
  /\ fcounter' = fcounter + obits
  /\ ucounter' = ucounter + ibits
  /\ UNCHANGED <<input, packet, count, lastPcr, lastIndex, ibits, buffer, eof, pc,
                 firstPcr>>

\* The time that is left over is kept for the next flush.
CarriedDropped(f, u) == 0  \* mutated: it is lost
Carried(f, u) == f - u

FlushEnd ==
  /\ pc = "flush" /\ ~TimeForNull /\ flushed = Len(buffer)
  /\ buffer' = <<>>
  /\ fcounter' = Carried(fcounter, ucounter) /\ ucounter' = 0
  /\ flushed' = 0
  /\ pc' = "fill"
  /\ UNCHANGED <<input, packet, count, lastPcr, lastIndex, ibits, eof, output, written,
                 firstPcr>>

\* fill_buffer: the tool exits when the buffer is full.  The loop ends after the read that
\* returned nothing.
Fill ==
  /\ pc = "fill"
  /\ buffer' = Append(buffer, packet)
  /\ count' = count + 1
  /\ pc' = IF Len(buffer') >= BufferPackets THEN "exit" ELSE IF eof THEN "done" ELSE "read"
  /\ UNCHANGED <<input, packet, lastPcr, lastIndex, ibits, flushed, fcounter, ucounter,
                 eof, output, written, firstPcr>>

VbrNext == ReadPacket \/ FlushNull \/ FlushPacket \/ FlushEnd \/ Fill

VbrDone == pc \in {"done", "exit"}

-----------------------------------------------------------------------------
(* Properties.                                                              *)

\* Where the next packet comes in the output is where its PCR says, to one packet, after
\* every flush (the input is taken to begin with a PCR).
InStep ==
  LET ideal == (lastPcr - firstPcr) * obits
  IN  (written - 1) * ClockFrequency <= ideal /\ ideal <= (written + 1) * ClockFrequency

=============================================================================
