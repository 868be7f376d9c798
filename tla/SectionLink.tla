----------------------------- MODULE SectionLink -----------------------------
(***************************************************************************)
(* sec2ts and ts2sec, one writing the transport stream the other reads,    *)
(* through a file or a pipe, or through a network that loses packets.      *)
(***************************************************************************)
EXTENDS Sec2Ts, Ts2Sec

CONSTANTS
  SizeChoices,  \* the sizes the sections may have
  MaxSections,  \* bound: number of sections
  MaxLost       \* bound: number of packets lost

\* get_section: the section_length, and the three bytes up to it.
ASSUME SectionLinkAssumption == SizeChoices \subseteq Nat \ 0..2

VARIABLES
  lost,  \* number of packets lost so far
  last   \* history: the last packet written

vars == <<senderVars, receiverVars, lost, last>>

Init ==
  /\ stuffing \in BOOLEAN
  /\ sizes \in UNION {[1..n -> SizeChoices] : n \in 1..MaxSections}
  /\ SenderInit /\ ReceiverInit
  /\ lost = 0
  /\ last = <<>>

\* A step of sec2ts.
Write ==
  /\ SenderNext
  /\ last' = IF Len(ts') > Len(ts) THEN << ts'[Len(ts')] >> ELSE last
  /\ UNCHANGED <<receiverVars, lost>>

\* A step of ts2sec, which reads a packet when it is done with the last one.
Read ==
  /\ \/ ts # <<>> /\ ReadPacket(Head(ts)) /\ ts' = Tail(ts)
     \/ (HeaderByte \/ PayloadBytes(sizes)) /\ UNCHANGED ts
  /\ UNCHANGED <<stuffing, sizes, cur, size, at, needPad, padded, pkt, done, lost, last>>

\* A packet is lost on the way.
Lose ==
  /\ ts # <<>> /\ lost < MaxLost
  /\ ts' = Tail(ts)
  /\ lost' = lost + 1
  /\ UNCHANGED <<stuffing, sizes, cur, size, at, needPad, padded, pkt, done, receiverVars, last>>

Next == Write \/ Read \/ Lose

\* Both tools keep running.
Spec == Init /\ [][Next]_vars /\ WF_vars(Write) /\ WF_vars(Read)

-----------------------------------------------------------------------------
(* Properties.                                                              *)

\* The sections that ts2sec is to find: those that sec2ts did not take for the end.
SentSections ==
  LET n == CHOOSE i \in 0..Len(sizes) :
             /\ \A j \in 1..i : Available(j)
             /\ ~Available(i + 1)
  IN  [i \in 1..n |-> [k \in 1..sizes[i] |-> [sec |-> i, off |-> k - 1]]]

\* What ts2sec puts out is what sec2ts was given, whole, once each and in order, for
\* every way the sections fall on packet boundaries, as long as no packet is lost.
Pipe == INSTANCE SectionPipe WITH
          sent <- SentSections, delivered <- out, reliable <- (lost = 0)
ImplementsPipe == Pipe!PipeSpec

\* In the end everything has come out: nothing stays in a packet that is not flushed,
\* nor in a buffer.
AllDelivered == <>[](lost # 0 \/ (done /\ out = SentSections))

\* The pointer field is right (a decoder that joins in the middle of the stream relies
\* on it): a packet has pusi exactly when a section starts in it, and pointer is the
\* place of the first start.  (Without a section there is one packet of stuffing, whose
\* header was written before the input was read.)
StartsAt(p) == {k \in DOMAIN p.bytes : p.bytes[k].sec # 0 /\ p.bytes[k].off = 0}
PointerFieldIsRight ==
  SentSections # <<>> => \A k \in DOMAIN last :
    LET p == last[k]
    IN  IF p.pusi THEN /\ p.pointer + 1 \in StartsAt(p)
                       /\ \A j \in StartsAt(p) : p.pointer + 1 <= j
        ELSE StartsAt(p) = {}

\* With -s, a section starts at the beginning of a packet (usage of sec2ts: "-s tells
\* sec2ts to start sections on TS packet boundaries").
SectionsStartOnBoundaries ==
  stuffing => \A k \in DOMAIN last : \A j \in StartsAt(last[k]) : j = 1

=============================================================================
