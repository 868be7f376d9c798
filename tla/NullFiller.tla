------------------------------ MODULE NullFiller ------------------------------
(***************************************************************************)
(* tools/tsnullfiller: adds null packets to a stream of ibits bit/s so     *)
(* that it becomes one of obits bit/s.  Counters are in packets: every one *)
(* of the code is a multiple of the bits of a packet.                      *)
(***************************************************************************)
EXTENDS Integers, Sequences

CONSTANTS
  ibits, obits,   \* input_bit/s and output_bit/s
  FillPackets,    \* packet_buffer: the packets of the input buffer
  Word,           \* 2^64: products and counters are taken modulo this
  Null,           \* null_ts_packet
  Unset           \* a packet of a buffer that was not written yet

\* main refuses rates that are not positive and an output that is not faster.
FillerAssumption ==
  /\ ibits \in Nat \ {0} /\ obits \in Nat /\ obits > ibits
  /\ FillPackets \in Nat \ {0}
  /\ Word \in Nat \ {0}

VARIABLES
  input,     \* what is left of the input
  ibuffer,   \* input_packet_buffer
  next,      \* the packet of it that is copied next
  icounter, ocounter,
  obuffer,   \* output_packet_buffer up to current_output_packet
  eof,       \* read has returned 0
  output     \* the pipe that is written to

fillerVars == <<input, ibuffer, next, icounter, ocounter, obuffer, eof, output>>

\* The room of output_packet_buffer ("be sure to have space for null packets").
OutputPacketsRounded == (FillPackets * obits) \div ibits  \* mutated: without the one more
OutputPackets == (FillPackets * obits) \div ibits + 1

FillerInit ==
  /\ ibuffer = [k \in 1..FillPackets |-> Unset]
  /\ next = FillPackets + 1
  /\ icounter = 0 /\ ocounter = 0
  /\ obuffer = <<>>
  /\ eof = FALSE

\* The buffer after at most n packets of the input f were read into it: what a short
\* read leaves is not looked at.
Refilled(buffer, f, n) ==
  IF Len(f) >= n THEN SubSeq(f, 1, n) ELSE f \o SubSeq(buffer, Len(f) + 1, n)
Rest(f, n) == IF Len(f) >= n THEN SubSeq(f, n + 1, Len(f)) ELSE <<>>

FillerRead ==
  /\ next > FillPackets /\ obuffer = <<>> /\ ~eof
  /\ eof' = (input = <<>>)
  /\ ibuffer' = Refilled(ibuffer, input, FillPackets)
  /\ input' = Rest(input, FillPackets)
  /\ next' = 1
  /\ UNCHANGED <<icounter, ocounter, obuffer, output>>

\* There is time for a null packet.
NullDue == ((ocounter + 1) * ibits) % Word <= (icounter * obits) % Word

CopyPacket ==
  /\ next <= FillPackets /\ ~NullDue
  /\ obuffer' = Append(obuffer, ibuffer[next])
  /\ next' = next + 1
  /\ icounter' = (icounter + 1) % Word
  /\ ocounter' = (ocounter + 1) % Word
  /\ UNCHANGED <<input, ibuffer, eof, output>>

\* A null packet; both counters begin anew when ocounter wraps.
AddNull ==
  /\ NullDue
  /\ obuffer' = Append(obuffer, Null)
  /\ IF ocounter + 1 < Word
     THEN ocounter' = ocounter + 1 /\ UNCHANGED icounter
     ELSE ocounter' = (ocounter - icounter) + 1 /\ icounter' = 0
  /\ UNCHANGED <<input, ibuffer, next, eof, output>>

FillerWrite ==
  /\ next > FillPackets /\ ~NullDue /\ obuffer # <<>>
  /\ output' = output \o obuffer
  /\ obuffer' = <<>>
  /\ UNCHANGED <<input, ibuffer, next, icounter, ocounter, eof>>

FillerNext == FillerRead \/ CopyPacket \/ AddNull \/ FillerWrite

\* read has returned 0 and what was in the buffer was written once more.
FillerDone == eof /\ next > FillPackets /\ obuffer = <<>>

FillerSpec == FillerInit /\ [][FillerNext]_fillerVars

-----------------------------------------------------------------------------
(* Properties.                                                              *)

\* The packets generated from one input buffer fit the output buffer, whatever part of a
\* null packet is carried over from the buffers before (tsnullfiller.c:92).
NullsFitBuffer == Len(obuffer) <= OutputPackets

\* The output is never more than one packet behind its rate, nor ahead of it, whenever a
\* packet and the null packets after it are out: rounding does not add up.
RateIsKept ==
  ~NullDue => /\ ocounter * ibits <= icounter * obits
              /\ icounter * obits < (ocounter + 1) * ibits

=============================================================================
