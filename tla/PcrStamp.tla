------------------------------- MODULE PcrStamp -------------------------------
(***************************************************************************)
(* tools/tspcrstamp: gives every PCR the value that its position in the    *)
(* stream has at a constant bitrate.  tools/tspcrmeasure: reports the      *)
(* bitrate that two PCRs in a row stand for.                               *)
(***************************************************************************)
EXTENDS Integers

CONSTANTS
  PacketSize,   \* TS_PACKET_SIZE
  PcrOffset,    \* 10: the last byte of the PCR in its packet
  TicksPerByte, \* 8 * SYSTEM_CLOCK_FREQUENCY, divided by ...
  trbits,       \* ... the transport rate
  PcrMod,       \* 2576980377600: the PCR is written modulo this
  MaxCount,     \* 454263790: the packets of which the ticks fit a word
  FirstPcr,     \* 2576980370000
  NoPcr

PcrStampAssumption ==
  /\ PacketSize \in Nat \ {0} /\ PcrOffset \in Nat /\ PcrOffset < PacketSize
  /\ TicksPerByte \in Nat \ {0} /\ trbits \in Nat \ {0}
  /\ PcrMod \in Nat \ {0} /\ MaxCount \in Nat \ {0} /\ FirstPcr \in Nat

VARIABLES
  count,     \* ts_packet_count
  rounding,  \* pcr_index_rounding
  stamped,   \* the last PCR written, NoPcr before the first
  moved,     \* history: the packets since the last PCR
  measured   \* tspcrmeasure: pid_pcr_table and pid_pcr_index_table (as the packets since),
             \* and the last report

stampVars == <<count, rounding, stamped, moved, measured>>

NoReport == [ticks |-> NoPcr, packets |-> 0]

StampInit ==
  /\ count = 0 /\ rounding = FirstPcr
  /\ stamped = NoPcr /\ moved = 0
  /\ measured = [pcr |-> 0, since |-> 0, report |-> NoReport]

TicksAt(packets) == ((packets * PacketSize + PcrOffset) * TicksPerByte) \div trbits

NewPcr == TicksAt(count) + rounding

\* Where the count begins anew after a PCR: the base has to be the PCR just written.
BaseAfterNone(pcr) == [count |-> IF pcr >= PcrMod \/ count * 2 >= MaxCount THEN 0 ELSE count,
                       rounding |-> IF pcr >= PcrMod THEN pcr - PcrMod ELSE rounding]  \* mutated
BaseAfter(pcr) ==
  IF pcr >= PcrMod THEN [count |-> 0, rounding |-> pcr - PcrMod]
  ELSE IF count * 2 >= MaxCount THEN [count |-> 0, rounding |-> pcr]
  ELSE [count |-> count, rounding |-> rounding]

\* tspcrmeasure reads a packet with the PCR pcr: a PCR of 0 in its table is none, and the
\* difference is unsigned (NoPcr stands for the huge one of a PCR that wrapped).
Report(pcr) ==
  IF measured.pcr = 0 THEN measured.report
  ELSE [ticks |-> IF pcr >= measured.pcr THEN pcr - measured.pcr ELSE NoPcr,
        packets |-> measured.since + 1]
Measure(pcr) == measured' = [pcr |-> pcr, since |-> 0, report |-> Report(pcr)]

\* A packet with a PCR, and one without.
StampPcr ==
  LET base == BaseAfter(NewPcr)
  IN  /\ stamped' = NewPcr % PcrMod
      /\ count' = base.count + 1
      /\ rounding' = base.rounding
      /\ moved' = 0
      /\ Measure(NewPcr % PcrMod)

NoStamp ==
  /\ count' = count + 1
  /\ moved' = moved + 1
  /\ measured' = [measured EXCEPT !.since = @ + 1]
  /\ UNCHANGED <<rounding, stamped>>

StampPacket(p) == IF p.pcr # NoPcr THEN StampPcr ELSE NoStamp

\* Ticks from one PCR to the next, over the wrap.
Ticks(from, to) == (to - from) % PcrMod

=============================================================================
