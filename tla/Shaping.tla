------------------------------- MODULE Shaping -------------------------------
(***************************************************************************)
(* A stream on its way to the modulator:                                   *)
(*                                                                         *)
(*   tsnullfiller | tsnullshaper | tspcrstamp | tspcrmeasure               *)
(*                                                                         *)
(* with tsvbr2cbr, or a source of nothing but null packets, in the place   *)
(* of tsnullfiller.  A tool waits until what it wrote has been read: none  *)
(* of them looks at how much there is in a pipe, so that with more room    *)
(* the same packets pass.                                                  *)
(***************************************************************************)
EXTENDS NullShaper

CONSTANTS
  ibits, obits, FillPackets, Word,   \* tsnullfiller
  vbrBits, ClockFrequency, HalfClock, VbrBufferPackets,  \* tsvbr2cbr
  PacketSize, PcrOffset, TicksPerByte, trbits, PcrMod, MaxCount, FirstPcr, NoPcr,
  Inputs,      \* the input of each first tool: a set of sequences of packets
  MaxShaped    \* bound: the packets that leave the shaper, when its input ends

VARIABLES
  tool,    \* the first tool
  input,   \* what is left of its input
  ibuffer, inext, icounter, ocounter, obuffer, eof,          \* tsnullfiller
  vpacket, vcount, lastPcr, lastIndex, vbits, vbuffer, flushed,
  fcounter, ucounter, veof, pc, vwritten, firstPcr, steady,  \* tsvbr2cbr
  count, rounding, stamped, moved, measured,                 \* tspcrstamp, tspcrmeasure
  shaped,  \* bound: the packets stamped so far
  served   \* a null packet was replaced since the clock went on

filler == <<ibuffer, inext, icounter, ocounter, obuffer, eof>>
vbr == <<vpacket, vcount, lastPcr, lastIndex, vbits, vbuffer, flushed, fcounter, ucounter,
         veof, pc, vwritten, firstPcr>>
stamp == <<count, rounding, stamped, moved, measured>>
shaper == <<queues, disk, host, cc, buffer, next>>

\* The pipes: source, into the shaper, and output, out of it.
vars == <<tool, input, filler, vbr, steady, shaper, source, output, stamp, shaped, served>>

Filler == INSTANCE NullFiller WITH next <- inext, output <- source
Vbr == INSTANCE Vbr2Cbr WITH obits <- vbrBits, BufferPackets <- VbrBufferPackets,
         packet <- vpacket, count <- vcount, ibits <- vbits, buffer <- vbuffer, eof <- veof,
         output <- source, written <- vwritten
Stamper == INSTANCE PcrStamp

ASSUME ShapingAssumption ==
  Filler!FillerAssumption /\ Vbr!Vbr2CbrAssumption /\ Stamper!PcrStampAssumption

\* tsvbr2cbr reads the PCRs of the input as they are: in the first of the four parts of the
\* clock, which lasts 6 hours and 37 minutes.
IsReadable(f) == \A k \in DOMAIN f : f[k].pcr # NoPcr => f[k].pcr < HalfClock

\* The input has a readable PCR that gets later and later, at one unit of bitrate at least,
\* but none in its last packet.
IsSound(f) ==
  LET at == {k \in DOMAIN f : f[k].pcr # NoPcr}
  IN  /\ f # <<>> /\ Last(f).pcr = NoPcr
      /\ IsReadable(f)
      /\ \A j, k \in at : j < k => /\ f[j].pcr < f[k].pcr
                                 /\ f[k].pcr - f[j].pcr <= (k - j) * ClockFrequency

\* The bitrate between its PCRs, which are readable, is always the same.
IsSteady(f) ==
  LET at == {k \in DOMAIN f : f[k].pcr # NoPcr}
      after(k) == Min({j \in at : j > k})
  IN  /\ IsReadable(f)
      /\ \E rate \in 1..vbrBits : \A k \in at \ {Max(at)} :
           (after(k) - k) * ClockFrequency = rate * (f[after(k)].pcr - f[k].pcr)

Init ==
  /\ tool \in DOMAIN Inputs /\ input \in Inputs[tool]
  /\ steady = (tool = "tsvbr2cbr" /\ IsSteady(input))
  /\ Filler!FillerInit /\ Vbr!VbrInit /\ ShaperInit /\ Stamper!StampInit
  /\ source = <<>> /\ output = <<>>
  /\ shaped = 0 /\ served = TRUE

Fill ==
  /\ tool = "tsnullfiller" /\ source = <<>> /\ Filler!FillerNext
  /\ UNCHANGED <<tool, vbr, steady, shaper, output, stamp, shaped, served>>
ToCbr ==
  /\ tool = "tsvbr2cbr" /\ source = <<>> /\ Vbr!VbrNext
  /\ UNCHANGED <<tool, filler, steady, shaper, output, stamp, shaped, served>>
SendNull ==
  /\ tool = "nulls" /\ source = <<>> /\ source' = <<Null>>
  /\ UNCHANGED <<tool, input, filler, vbr, steady, shaper, output, stamp, shaped, served>>

InputEnded == CASE tool = "tsnullfiller" -> Filler!FillerDone
                [] tool = "tsvbr2cbr" -> Vbr!VbrDone
                [] OTHER -> FALSE

\* The shaper.  Its input never ends for it: it is stopped when it has written enough.
Shape ==
  /\ shaped < MaxShaped
  /\ output = <<>> /\ ShaperNext(InputEnded)
  /\ served' = (served \/ ReplaceNull)
  /\ UNCHANGED <<tool, input, filler, vbr, steady, stamp, shaped>>

\* tspcrstamp and tspcrmeasure.  The endless null packets are not stamped.
Restamp ==
  /\ output # <<>> /\ output' = Tail(output)
  /\ IF tool = "nulls" THEN UNCHANGED <<stamp, shaped>>
     ELSE Stamper!StampPacket(Head(output)) /\ shaped' = shaped + 1
  /\ UNCHANGED <<tool, input, filler, vbr, steady, shaper, source, served>>

\* In the stream of null packets one of them comes in every unit of time.  The other
\* streams only see the clock go on.
Host ==
  /\ IF tool = "nulls" THEN HostNext ELSE Tick
  /\ tool = "nulls" /\ clock' > clock => served
  /\ served' = (clock' <= clock /\ served)
  /\ UNCHANGED <<tool, input, filler, vbr, steady, stamp, shaped>>

Next == Fill \/ ToCbr \/ SendNull \/ Shape \/ Restamp \/ Host

\* Every tool goes on when it can; a file that is away comes back.
Fairness ==
  /\ WF_vars(Fill) /\ WF_vars(ToCbr) /\ WF_vars(SendNull) /\ WF_vars(Shape)
  /\ WF_vars(Restamp)
  /\ \A e \in Fds : WF_vars(ComeBack(Entries[e].name) /\ Host)

Spec == Init /\ [][Next]_vars /\ Fairness

-----------------------------------------------------------------------------
(* Properties.                                                              *)

\* tsnullfiller: the packets that one input buffer gives always fit the output buffer.
NullsFitBuffer == Filler!NullsFitBuffer

\* tsvbr2cbr: at a steady bitrate the output is in step with the PCRs at each of them, as
\* long as they can be read.
OutputKeepsStep == steady /\ pc = "fill" /\ vwritten > 0 => Vbr!InStep

\* tsvbr2cbr reads its input to the end, or exits with a message, when the PCR can be read
\* and goes on, and the last packet, which is taken twice, has none.
EndsOnSoundPcrs ==
  (tool = "tsvbr2cbr" /\ IsSound(input)) => <>Vbr!VbrDone

\* tsvbr2cbr reads its input to the end, or exits with a message.
Ends == tool = "tsvbr2cbr" => <>Vbr!VbrDone

\* tspcrstamp, over the shaped stream: from one PCR to the next the clock goes on by the
\* time of the packets between them, to a tick of rounding, or to PcrOffset bytes more where
\* the count begins anew; it never stops, jumps or goes back, over the wrap too.  And
\* tspcrmeasure reports the same ticks, but where the PCR wraps.
PcrFollowsPosition ==
  [][stamped' # stamped /\ stamped # NoPcr /\ moved * 2 < MaxCount
       => LET ticks == Stamper!Ticks(stamped, stamped')
              bytes == (moved + 1) * PacketSize * TicksPerByte
          IN  /\ (ticks + 1) * trbits > bytes
              /\ (ticks - 2) * trbits < bytes + PcrOffset * TicksPerByte
              /\ stamped' > stamped /\ stamped > 0
                   => measured'.report = [ticks |-> ticks, packets |-> moved + 1]]_vars

\* No timed file waits longer than there are timed files, while a null packet comes in
\* every unit of time and the files do not ask for more than that.
NoTimedFileFallsBehind ==
  tool = "nulls" => \A e \in Timed : clock - start - time[e] <= Cardinality(Timed)

\* Each mandatory entry reads its own file again at last, whatever file was away when it
\* was to be opened again.
ReadsItsOwnFileAgain ==
  tool = "nulls" => \A e \in Fds \ Timed : Entries[e].mandatory =>
     []<>(handles[e] # Closed /\ handles[e].name = Entries[e].name)

=============================================================================
