----------------------------- MODULE PlayoutProofs -----------------------------
(***************************************************************************)
(* Proofs about the paced senders, tstimeout, and the two paths.           *)
(*                                                                         *)
(* The senders (tsudpsend, tstcpsend), wherever they stand: for any        *)
(* bitrate, any sizes of datagrams and packets, any stream and any setting *)
(* of the clock to a time after the start, as long as the products of the  *)
(* counters do not wrap (for 21 days, at 10 Mbit/s).                       *)
(*                                                                         *)
(* tstimeout: for any stream of whole packets that starts on a boundary of *)
(* them, read in pieces of any sizes, and any backup file.                 *)
(*                                                                         *)
(* The two paths, through tsudpsend and tstcpsend, of one stream to        *)
(* tsinputswitch: for any stream of whole packets, datagrams of whole      *)
(* packets, and pieces of any sizes over the connection.                   *)
(***************************************************************************)
EXTENDS Playout, Integers, SequenceTheorems, TLAPS

\* The products that Due compares do not wrap: the one of what was sent is below 2^64.
NoWrap == udpTime < Word /\ tcpTime < Word

\* The types, for bytes of a set B.
Types(B) ==
  /\ clock \in Nat /\ latest \in Nat /\ early \in BOOLEAN
  /\ file \in Seq(B) /\ d.packet \in Seq(B) /\ Len(d.packet) = PacketBytes
  /\ toUdp \in Seq(B) /\ toTcp \in Seq(B)
  /\ udpStart = 1 /\ udpTime \in Nat /\ udpSent \in Seq(B)
  /\ tcpStart = 1 /\ tcpTime \in Nat /\ tcpSent \in Seq(B)

\* Unless it was set to before the start, the clock shows at most the latest time.
ClockIsKnown == early \/ (clock >= 1 /\ clock - 1 <= latest)

\* No more was sent than counted, and the last chunk was due when it was sent.
WasDue(sentBytes, packetTime, size) ==
  /\ Len(sentBytes) <= packetTime
  /\ early \/ packetTime = 0 \/ packetTime < latest * Bitrate + size

PInv(B) ==
  /\ Types(B) /\ ClockIsKnown
  /\ WasDue(udpSent, udpTime, UdpSize) /\ WasDue(tcpSent, tcpTime, TcpSize)

-----------------------------------------------------------------------------
(* Reads of what there is, and times.                                       *)

\* A read returns the beginning of a pipe, and leaves the rest of it.
LEMMA ReadParts ==
  ASSUME NEW B, NEW p \in Seq(B), NEW size \in Nat, NEW n,
         n = IF Len(p) < size THEN Len(p) ELSE size
  PROVE  /\ n \in Nat /\ n <= size
         /\ SubSeq(p, 1, n) \in Seq(B) /\ Len(SubSeq(p, 1, n)) = n
         /\ SubSeq(p, n + 1, Len(p)) \in Seq(B)
OBVIOUS

\* A packet that is read into a buffer fills it, with what was there.
LEMMA ReadFills ==
  ASSUME NEW B, NEW b \in Seq(B), NEW p \in Seq(B), PacketBytes \in Nat, Len(b) = PacketBytes
  PROVE  /\ ReadInto(b, p) \in Seq(B) /\ Len(ReadInto(b, p)) = PacketBytes
         /\ After(p) \in Seq(B)
<1>1. /\ Got(p) \in Nat /\ Got(p) <= PacketBytes
      /\ SubSeq(p, 1, Got(p)) \in Seq(B) /\ Len(SubSeq(p, 1, Got(p))) = Got(p)
      /\ SubSeq(p, Got(p) + 1, Len(p)) \in Seq(B)
  BY ReadParts DEF Got
<1>2. /\ SubSeq(b, Got(p) + 1, PacketBytes) \in Seq(B)
      /\ Len(SubSeq(b, Got(p) + 1, PacketBytes)) = PacketBytes - Got(p)
  BY <1>1
<1> QED
  BY <1>1, <1>2 DEF ReadInto, After

\* What is due by the counters modulo 2^64 is due.
LEMMA DueIsDue ==
  ASSUME NEW now \in Nat, NEW last \in Nat, now <= last, NEW rate \in Nat, NEW w \in Nat \ {0},
         NEW t \in Nat, t < w, (now * rate) % w > t % w
  PROVE  t < last * rate
<1>1. now * rate \in Nat /\ last * rate \in Nat /\ now * rate <= last * rate
  OBVIOUS
<1>2. ASSUME NEW x \in Nat PROVE x % w <= x
  OBVIOUS
<1>3. (now * rate) % w <= now * rate /\ (now * rate) % w \in Nat
  BY <1>1, <1>2
<1>4. t % w = t
  OBVIOUS
<1> QED
  BY <1>1, <1>3, <1>4

\* A time that was due stays so while the clock goes on.
LEMMA ProductGrows ==
  ASSUME NEW a \in Nat, NEW b \in Nat, a <= b, NEW c \in Nat
  PROVE  a * c <= b * c /\ a * c \in Nat /\ b * c \in Nat
OBVIOUS

LEMMA LaterIsDue ==
  ASSUME latest \in Nat, latest' \in Nat, latest <= latest', early => early',
         NEW size \in Nat, NEW t \in Nat, NEW q, WasDue(q, t, size)
  PROVE  Len(q) <= t /\ (early' \/ t = 0 \/ t < latest' * Bitrate + size)
<1>1. latest * Bitrate <= latest' * Bitrate /\ latest * Bitrate \in Nat /\ latest' * Bitrate \in Nat
  BY ProductGrows, PlayoutAssumption DEF UdpSender!SenderAssumption
<1> QED
  BY <1>1 DEF WasDue

-----------------------------------------------------------------------------
(* The invariant.                                                           *)

LEMMA InitHolds ==
  ASSUME NEW B, File \in Seq(B), Unset \in B, Init
  PROVE  PInv(B)
<1>1. NoPacket \in Seq(B) /\ Len(NoPacket) = PacketBytes
  BY PlayoutAssumption DEF NoPacket
<1>2. Types(B)
  <2>1. clock \in Nat /\ latest \in Nat /\ early \in BOOLEAN
    BY DEF Init
  <2>2. file \in Seq(B) /\ d.packet \in Seq(B) /\ Len(d.packet) = PacketBytes
    BY <1>1 DEF Init, DoubleInit
  <2>3. /\ toUdp \in Seq(B) /\ udpStart = 1 /\ udpTime \in Nat /\ udpSent \in Seq(B)
        /\ toTcp \in Seq(B) /\ tcpStart = 1 /\ tcpTime \in Nat /\ tcpSent \in Seq(B)
    BY DEF Init, UdpSender!SenderInit, TcpSender!SenderInit
  <2> QED
    BY <2>1, <2>2, <2>3 DEF Types
<1>3. ClockIsKnown
  BY DEF Init, ClockIsKnown
<1>4. WasDue(udpSent, udpTime, UdpSize) /\ WasDue(tcpSent, tcpTime, TcpSize)
  BY DEF Init, WasDue, UdpSender!SenderInit, TcpSender!SenderInit
<1> QED
  BY <1>2, <1>3, <1>4 DEF PInv

\* A chunk is sent by tsudpsend.
LEMMA UdpSendKeepsInv ==
  ASSUME NEW B, PInv(B), NoWrap, UdpSend
  PROVE  PInv(B)'
<1> USE PlayoutAssumption DEF UdpSender!SenderAssumption
<1> DEFINE n == UdpSender!Readable
<1>1. /\ toUdp' = SubSeq(toUdp, n + 1, Len(toUdp))
      /\ udpTime' = udpTime + UdpSize
      /\ udpSent' = udpSent \o SubSeq(toUdp, 1, n)
      /\ UNCHANGED <<udpStart, time, double, toTcp, tcp>>
  BY DEF UdpSend, UdpSender!SendChunk, UdpSender!Counted, UdpSender!Chunk
<1>2. /\ n \in Nat /\ n <= UdpSize
      /\ SubSeq(toUdp, 1, n) \in Seq(B) /\ Len(SubSeq(toUdp, 1, n)) = n
      /\ SubSeq(toUdp, n + 1, Len(toUdp)) \in Seq(B)
  <2>1. toUdp \in Seq(B) /\ UdpSize \in Nat
    BY DEF PInv, Types
  <2>2. n = IF Len(toUdp) < UdpSize THEN Len(toUdp) ELSE UdpSize
    BY DEF UdpSender!Readable
  <2> QED
    BY <2>1, <2>2, ReadParts, Zenon
<1> HIDE DEF n
<1>3. Types(B)' /\ Len(udpSent') <= udpTime'
  BY <1>1, <1>2 DEF PInv, Types, WasDue, time, double, tcp
<1>4. early \/ udpTime' < latest * Bitrate + UdpSize
  <2>1. CASE early
    BY <2>1
  <2>2. CASE ~early
    <3>1. clock - 1 \in Nat /\ clock - 1 <= latest /\ latest \in Nat /\ udpTime \in Nat
      BY <2>2 DEF PInv, Types, ClockIsKnown
    <3>2. ((clock - 1) * Bitrate) % Word > udpTime % Word
      BY <2>2, <3>1 DEF UdpSend, UdpSender!SendChunk, UdpSender!Due, UdpSender!RealTime,
                        PInv, Types
    <3>3. udpTime < latest * Bitrate
      BY <3>1, <3>2, DueIsDue DEF NoWrap
    <3> QED
      BY <1>1, <3>1, <3>3
  <2> QED
    BY <2>1, <2>2 DEF PInv, Types
<1>5. ClockIsKnown' /\ WasDue(tcpSent, tcpTime, TcpSize)'
  BY <1>1 DEF PInv, ClockIsKnown, WasDue, time, tcp
<1>6. WasDue(udpSent, udpTime, UdpSize)'
  BY <1>1, <1>3, <1>4 DEF WasDue, time
<1> QED
  BY <1>3, <1>5, <1>6 DEF PInv

\* A chunk is sent by tstcpsend.
LEMMA TcpSendKeepsInv ==
  ASSUME NEW B, PInv(B), NoWrap, TcpSend
  PROVE  PInv(B)'
<1> USE PlayoutAssumption DEF TcpSender!SenderAssumption
<1> DEFINE n == TcpSender!Readable
<1>1. /\ toTcp' = SubSeq(toTcp, n + 1, Len(toTcp))
      /\ tcpTime' = tcpTime + TcpSize
      /\ tcpSent' = tcpSent \o SubSeq(toTcp, 1, n)
      /\ UNCHANGED <<tcpStart, time, double, toUdp, udp>>
  BY DEF TcpSend, TcpSender!SendChunk, TcpSender!Counted, TcpSender!Chunk
<1>2. /\ n \in Nat /\ n <= TcpSize
      /\ SubSeq(toTcp, 1, n) \in Seq(B) /\ Len(SubSeq(toTcp, 1, n)) = n
      /\ SubSeq(toTcp, n + 1, Len(toTcp)) \in Seq(B)
  <2>1. toTcp \in Seq(B) /\ TcpSize \in Nat
    BY DEF PInv, Types
  <2>2. n = IF Len(toTcp) < TcpSize THEN Len(toTcp) ELSE TcpSize
    BY DEF TcpSender!Readable
  <2> QED
    BY <2>1, <2>2, ReadParts, Zenon
<1> HIDE DEF n
<1>3. Types(B)' /\ Len(tcpSent') <= tcpTime'
  BY <1>1, <1>2 DEF PInv, Types, WasDue, time, double, udp
<1>4. early \/ tcpTime' < latest * Bitrate + TcpSize
  <2>1. CASE early
    BY <2>1
  <2>2. CASE ~early
    <3>1. clock - 1 \in Nat /\ clock - 1 <= latest /\ latest \in Nat /\ tcpTime \in Nat
      BY <2>2 DEF PInv, Types, ClockIsKnown
    <3>2. ((clock - 1) * Bitrate) % Word > tcpTime % Word
      BY <2>2, <3>1 DEF TcpSend, TcpSender!SendChunk, TcpSender!Due, TcpSender!RealTime,
                        PInv, Types
    <3>3. tcpTime < latest * Bitrate
      BY <3>1, <3>2, DueIsDue DEF NoWrap, UdpSender!SenderAssumption
    <3> QED
      BY <1>1, <3>1, <3>3
  <2> QED
    BY <2>1, <2>2 DEF PInv, Types
<1>5. ClockIsKnown' /\ WasDue(udpSent, udpTime, UdpSize)'
  BY <1>1 DEF PInv, ClockIsKnown, WasDue, time, udp
<1>6. WasDue(tcpSent, tcpTime, TcpSize)'
  BY <1>1, <1>3, <1>4 DEF WasDue, time
<1> QED
  BY <1>3, <1>5, <1>6 DEF PInv

\* What any other step may do: the clock goes on or is set, and packets move.
LEMMA OtherKeepsInv ==
  ASSUME NEW B, PInv(B), Types(B)', latest <= latest', early => early', ClockIsKnown',
         UNCHANGED <<udpTime, udpSent, tcpTime, tcpSent>>
  PROVE  PInv(B)'
<1>1. UdpSize \in Nat /\ TcpSize \in Nat
  BY PlayoutAssumption DEF UdpSender!SenderAssumption, TcpSender!SenderAssumption
<1>2. latest \in Nat /\ latest' \in Nat /\ udpTime \in Nat /\ tcpTime \in Nat
  BY DEF PInv, Types
<1>3. /\ Len(udpSent) <= udpTime
      /\ early' \/ udpTime = 0 \/ udpTime < latest' * Bitrate + UdpSize
      /\ Len(tcpSent) <= tcpTime
      /\ early' \/ tcpTime = 0 \/ tcpTime < latest' * Bitrate + TcpSize
  BY <1>1, <1>2, LaterIsDue DEF PInv
<1>4. WasDue(udpSent, udpTime, UdpSize)' /\ WasDue(tcpSent, tcpTime, TcpSize)'
  BY <1>3 DEF WasDue
<1> QED
  BY <1>4 DEF PInv

LEMMA DoubleKeepsInv ==
  ASSUME NEW B, PInv(B), Double
  PROVE  PInv(B)'
<1>1. d'.packet = ReadInto(d.packet, file) /\ file' = After(file)
  BY DEF Double, DoubleRead
<1>2. d'.packet \in Seq(B) /\ Len(d'.packet) = PacketBytes /\ file' \in Seq(B)
  BY <1>1, ReadFills, PlayoutAssumption DEF PInv, Types
<1>3. Types(B)'
  BY <1>2 DEF PInv, Types, Double, time, udp, tcp
<1>4. /\ latest <= latest' /\ (early => early') /\ ClockIsKnown'
      /\ UNCHANGED <<udpTime, udpSent, tcpTime, tcpSent>>
  BY DEF Double, time, udp, tcp, PInv, Types, ClockIsKnown
<1> QED
  BY <1>3, <1>4, OtherKeepsInv

\* A clock that is set back is below what bounded it.
LEMMA BelowIsBelow ==
  ASSUME NEW a \in Nat, NEW b \in Nat, NEW c \in Nat, a < b, b - 1 <= c
  PROVE  a - 1 <= c
OBVIOUS

\* The clock, which is set to any earlier time.
LEMMA TimeKeepsInv ==
  ASSUME NEW B, PInv(B), Tick \/ SetBack, UNCHANGED otherThanTime
  PROVE  PInv(B)'
<1>1. /\ clock' \in Nat /\ latest' \in Nat /\ early' \in BOOLEAN
      /\ latest <= latest' /\ (early => early') /\ ClockIsKnown'
  <2>1. CASE Tick
    <3>1. clock' = clock + 1 /\ early' = early
          /\ latest' = IF clock - 1 < latest THEN latest ELSE clock
      BY <2>1 DEF PInv, Types, Tick
    <3>2. clock \in Nat /\ latest \in Nat /\ early \in BOOLEAN
      BY DEF PInv, Types
    <3>3. clock' \in Nat /\ latest' \in Nat /\ latest <= latest' /\ clock' >= 1
      BY <3>1, <3>2
    <3>4. clock' - 1 <= latest'
      BY <3>1, <3>2
    <3> QED
      BY <3>1, <3>2, <3>3, <3>4 DEF ClockIsKnown
  <2>2. CASE SetBack
    <3>1. clock' \in 0..(clock - 1) /\ latest' = latest
      BY <2>2 DEF SetBack
    <3>2. early' = (early \/ clock' < 1)
      BY <2>2 DEF SetBack, PInv, Types
    <3>3. clock \in Nat /\ latest \in Nat /\ early \in BOOLEAN
      BY DEF PInv, Types
    <3>4. clock' \in Nat /\ clock' < clock
      BY <3>1, <3>3
    <3>5. early' \in BOOLEAN /\ (early => early')
      BY <3>2
    <3>6. ASSUME ~early' PROVE clock' >= 1 /\ clock' - 1 <= latest'
      <4>1. ~early
        BY <3>2, <3>6
      <4>2. ~(clock' < 1)
        BY <3>2, <3>6
      <4>3. clock - 1 <= latest
        BY <4>1 DEF PInv, ClockIsKnown
      <4>4. clock' >= 1
        BY <3>4, <4>2
      <4>5. clock' - 1 <= latest
        BY <3>3, <3>4, <4>3, BelowIsBelow
      <4> QED
        BY <3>1, <4>4, <4>5
    <3>7. ClockIsKnown'
      BY <3>6 DEF ClockIsKnown
    <3>8. latest' \in Nat /\ latest <= latest'
      BY <3>1, <3>3
    <3> QED
      BY <3>4, <3>5, <3>7, <3>8
  <2> QED
    BY <2>1, <2>2
<1>2. UNCHANGED <<double, toUdp, toTcp, udp, tcp>>
  BY DEF otherThanTime
<1>3. Types(B)' /\ UNCHANGED <<udpTime, udpSent, tcpTime, tcpSent>>
  BY <1>1, <1>2 DEF PInv, Types, double, udp, tcp
<1> QED
  BY <1>1, <1>3, OtherKeepsInv

\* Everything else leaves the senders and the clock alone; the live source reads the file.
LEMMA RestKeepsInv ==
  ASSUME NEW B, PInv(B), file' \in Seq(B),
         UNCHANGED <<time, d, toUdp, toTcp, udpStart, udpTime, udpSent,
                     tcpStart, tcpTime, tcpSent>>
  PROVE  PInv(B)'
<1>1. Types(B)'
  BY DEF PInv, Types, time
<1>2. latest <= latest' /\ (early => early') /\ ClockIsKnown'
  BY DEF PInv, Types, ClockIsKnown, time
<1> QED
  BY <1>1, <1>2, OtherKeepsInv

LEMMA PathsKeepInv ==
  ASSUME NEW B, PInv(B), NoWrap, Paths
  PROVE  PInv(B)'
<1> DEFINE Quiet == UNCHANGED <<time, double, toUdp, toTcp, udpStart, udpTime, udpSent,
                                tcpStart, tcpTime, tcpSent>>
<1>1. ASSUME Quiet PROVE PInv(B)'
  <2>1. file' \in Seq(B) /\ d' = d
    BY <1>1 DEF double, PInv, Types
  <2> QED
    BY <1>1, <2>1, RestKeepsInv
<1>2. CASE Double
  BY <1>2, DoubleKeepsInv
<1>3. CASE UdpSend
  BY <1>3, UdpSendKeepsInv
<1>4. CASE TcpSend
  BY <1>4, TcpSendKeepsInv
<1>5. CASE UdpEnd
  BY <1>1, <1>5 DEF UdpEnd, UdpSender!SendEnd, tcp
<1>6. CASE TcpEnd
  BY <1>1, <1>6 DEF TcpEnd, TcpSender!SendEnd, udp
<1>7. CASE UdpReceive \/ TcpReceive
  BY <1>1, <1>7 DEF UdpReceive, TcpReceive, udp, tcp
<1>8. CASE InputReceive \/ InputRead \/ InputWrite
  BY <1>1, <1>8 DEF InputReceive, InputRead, InputWrite, otherPaths, udp, tcp
<1>9. CASE Lose
  BY <1>1, <1>9 DEF Lose, udp, tcp
<1>10. CASE (Tick \/ SetBack) /\ UNCHANGED otherThanTime
  BY <1>10, TimeKeepsInv
<1> QED
  BY <1>2, <1>3, <1>4, <1>5, <1>6, <1>7, <1>8, <1>9, <1>10 DEF Paths

\* Every step keeps the invariant.
THEOREM Inductive ==
  ASSUME NEW B, File \in Seq(B), Unset \in B
  PROVE  /\ Init => PInv(B)
         /\ PInv(B) /\ NoWrap /\ [Next]_vars => PInv(B)'
<1>1. Init => PInv(B)
  BY InitHolds
<1>2. ASSUME PInv(B), NoWrap, [Next]_vars PROVE PInv(B)'
  <2>1. CASE PathsStep
    BY <1>2, <2>1, PathsKeepInv DEF PathsStep
  <2>2. ASSUME UNCHANGED <<time, toUdp, toTcp, udp, tcp, d>>, file' \in Seq(B)
        PROVE  PInv(B)'
    BY <1>2, <2>2, RestKeepsInv DEF udp, tcp
  <2>3. file \in Seq(B)
    BY <1>2 DEF PInv, Types
  <2>4. CASE LiveStep
    <3>1. d' = d /\ file' \in Seq(B)
      <4>1. CASE LiveWrite
        BY <2>3, <4>1 DEF LiveWrite
      <4>2. CASE LiveEnd
        BY <2>3, <4>2 DEF LiveEnd, double
      <4> QED
        BY <2>4, <4>1, <4>2 DEF LiveStep
    <3> QED
      BY <2>2, <2>4, <3>1 DEF LiveStep, otherThanDouble
  <2>5. CASE TimerStep
    BY <2>2, <2>3, <2>5 DEF TimerStep, TimeoutStep, otherThanDouble, double
  <2>6. CASE OutputStep
    BY <2>2, <2>3, <2>6 DEF OutputStep, paths, double
  <2>7. CASE \E i \in {1, 2} : ReaderStep(i)
    BY <2>2, <2>3, <2>7 DEF ReaderStep, paths, double
  <2>8. CASE UNCHANGED vars
    BY <2>2, <2>3, <2>8 DEF vars, paths, double
  <2> QED
    BY <1>2, <2>1, <2>4, <2>5, <2>6, <2>7, <2>8 DEF Next
<1> QED
  BY <1>1, <1>2

\* What was due when it was sent is within a packet of the bitrate.
LEMMA InvImpliesPace ==
  ASSUME NEW B, PInv(B)
  PROVE  NeverTooFast
<1>1. ASSUME NEW q \in Seq(B), NEW t \in Nat, NEW size \in Nat, Len(q) <= t,
             t = 0 \/ t < latest * Bitrate + size
      PROVE  q = <<>> \/ Len(q) < latest * Bitrate + size
  <2>1. latest * Bitrate \in Nat /\ Len(q) \in Nat
    BY PlayoutAssumption DEF UdpSender!SenderAssumption, PInv, Types
  <2>2. CASE t = 0
    BY <1>1, <2>1, <2>2
  <2>3. CASE t < latest * Bitrate + size
    BY <1>1, <2>1, <2>3
  <2> QED
    BY <1>1, <2>2, <2>3
<1>2. UdpSize \in Nat /\ TcpSize \in Nat
  BY PlayoutAssumption DEF UdpSender!SenderAssumption, TcpSender!SenderAssumption
<1>3. CASE ~early
  BY <1>1, <1>2, <1>3
     DEF PInv, Types, WasDue, NeverTooFast, UdpSender!PacedBy, TcpSender!PacedBy
<1>4. CASE early
  BY <1>4 DEF NeverTooFast
<1> QED
  BY <1>3, <1>4 DEF PInv, Types

\* tsudpsend and tstcpsend never send more than a packet ahead of their bitrate, by the
\* latest time that the clock has shown (tsudpsend.c:130), whatever the bitrate, the sizes
\* and the stream, through every setting of the clock to a time after the start, until the
\* product of what was sent wraps.
THEOREM Paced ==
  ASSUME NEW B, File \in Seq(B), Unset \in B
  PROVE  Spec /\ []NoWrap => []NeverTooFast
<1>1. Init => PInv(B)
  BY Inductive
<1>2. PInv(B) /\ NoWrap /\ [Next]_vars => PInv(B)'
  BY Inductive
<1>3. PInv(B) => NeverTooFast
  BY InvImpliesPace
<1> QED
  BY <1>1, <1>2, <1>3, PTL DEF Spec

-----------------------------------------------------------------------------
(* tstimeout.                                                               *)

\* The stream is one of packets: their bytes know their packet and their place in it.
IsStream(f) ==
  \A q \in Nat : \A j \in 1..PacketBytes :
    q * PacketBytes + j \in DOMAIN f =>
      /\ f[q * PacketBytes + j].at = j
      /\ f[q * PacketBytes + j].of = f[q * PacketBytes + 1].of

\* What was read of the packet at this place of the stream, and what follows it.
Follows(B, at) ==
  /\ live \in Seq(B) /\ file \in Seq(B) /\ index \in Nat /\ index < PacketBytes
  /\ at + index + Len(live) + Len(file) = Len(File)
  /\ \A k \in 1..Len(live) : live[k] = File[at + index + k]
  /\ \A k \in 1..Len(file) : file[k] = File[at + index + Len(live) + k]
  /\ ~cut => \A k \in 1..index : packet[k] = File[at + k]

\* The packet that is being read is always one of the stream, from its beginning: only the
\* backup may have taken the place of what was read of it, and then cut says so.
TInv(B) ==
  /\ stray = FALSE
  /\ setup = "timeout" => \E q \in Nat : Follows(B, q * PacketBytes)

LEMMA TimeoutInitHolds ==
  ASSUME NEW B, File \in Seq(B), Init
  PROVE  TInv(B)
<1>1. /\ live = <<>> /\ file = File /\ index = 0 /\ stray = FALSE
  BY DEF Init, Timer!TimeoutInit
<1>2. PacketBytes \in Nat \ {0} /\ 0 * PacketBytes = 0
  BY PlayoutAssumption
<1>3. Follows(B, 0)
  BY <1>1, <1>2 DEF Follows
<1> QED
  BY <1>1, <1>2, <1>3 DEF TInv

\* The source writes the next byte.
LEMMA LiveKeepsPlace ==
  ASSUME NEW B, NEW at \in Nat, Follows(B, at), LiveWrite \/ LiveEnd
  PROVE  Follows(B, at)'
<1>1. CASE LiveEnd
  BY <1>1 DEF LiveEnd, double, Follows
<1>2. CASE LiveWrite
  <2> DEFINE x == Head(file)
             n == Len(live)
  <2>1. /\ file # <<>> /\ live' = Append(live, x) /\ file' = Tail(file)
        /\ UNCHANGED <<index, packet, cut>>
    BY <1>2 DEF LiveWrite
  <2>2. /\ live \in Seq(B) /\ file \in Seq(B) /\ index \in Nat /\ index < PacketBytes
        /\ at + index + n + Len(file) = Len(File)
        /\ \A k \in 1..n : live[k] = File[at + index + k]
        /\ \A k \in 1..Len(file) : file[k] = File[at + index + n + k]
        /\ ~cut => \A k \in 1..index : packet[k] = File[at + k]
    BY DEF Follows
  <2>3. n \in Nat /\ Len(file) \in Nat /\ Len(file) > 0 /\ x = file[1] /\ x \in B
    BY <2>1, <2>2
  <2>4. /\ file' \in Seq(B) /\ Len(file') = Len(file) - 1
        /\ \A k \in 1..Len(file') : file'[k] = file[k + 1]
    BY <2>1, <2>2
  <2>5. /\ live' \in Seq(B) /\ Len(live') = n + 1 /\ live'[n + 1] = x
        /\ \A k \in 1..n : live'[k] = live[k]
    BY <2>1, <2>2, <2>3
  <2> HIDE DEF x, n
  <2>6. x = File[at + index + (n + 1)]
    <3>1. x = File[at + index + n + 1]
      BY <2>2, <2>3
    <3>2. at + index + n + 1 = at + index + (n + 1)
      BY <2>2, <2>3
    <3> QED
      BY <3>1, <3>2
  <2>7. ASSUME NEW k \in 1..(n + 1) PROVE live'[k] = File[at + index + k]
    <3>1. CASE k \in 1..n
      BY <2>2, <2>5, <3>1
    <3>2. CASE k = n + 1
      BY <2>5, <2>6, <3>2
    <3> QED
      BY <2>3, <3>1, <3>2
  <2>8. ASSUME NEW k \in 1..Len(file') PROVE file'[k] = File[at + index + (n + 1) + k]
    <3>1. k + 1 \in 1..Len(file) /\ file'[k] = file[k + 1] /\ k \in Nat
      BY <2>3, <2>4
    <3>2. at + index + n + (k + 1) = at + index + (n + 1) + k
      BY <2>2, <2>3, <3>1
    <3> QED
      BY <2>2, <3>1, <3>2
  <2>9. at + index + (n + 1) + Len(file') = Len(File)
    BY <2>2, <2>3, <2>4
  <2> QED
    BY <2>1, <2>2, <2>4, <2>5, <2>7, <2>8, <2>9 DEF Follows
<1> QED
  BY <1>1, <1>2

\* A timeout puts a packet of the backup over what was read.
LEMMA TimeoutKeepsPlace ==
  ASSUME NEW B, NEW at \in Nat, Follows(B, at), Timer!Timeout, UNCHANGED double
  PROVE  Follows(B, at)' /\ stray' = stray
<1>1. /\ live' = live /\ file' = file /\ index' = index /\ stray' = stray
      /\ cut' = (cut \/ index > 0)
  BY DEF Timer!Timeout, double
<1>2. index \in Nat
  BY DEF Follows
<1>3. ASSUME ~cut' PROVE 1..index = {}
  <2>1. ~(index > 0)
    BY <1>1, <1>3, Zenon
  <2> QED
    BY <1>2, <2>1
<1> QED
  BY <1>1, <1>3 DEF Follows

\* What comes is put after what was read, and a packet that is full is one of the stream.
LEMMA ReadKeepsPlace ==
  ASSUME NEW B, File \in Seq(B), NEW at \in Nat, Follows(B, at),
         \A j \in 1..PacketBytes : at + j \in DOMAIN File =>
           File[at + j].at = j /\ File[at + j].of = File[at + 1].of,
         Timer!ReadInput, UNCHANGED double, stray = FALSE
  PROVE  /\ Follows(B, at)' \/ Follows(B, at + PacketBytes)'
         /\ stray' = stray
<1> DEFINE n  == IF Len(live) < PacketBytes - index THEN Len(live) ELSE PacketBytes - index
           p  == [k \in 1..PacketBytes |->
                    IF k \in (index + 1)..(index + n) THEN live[k - index] ELSE packet[k]]
<1>1. /\ packet' = p /\ live' = SubSeq(live, n + 1, Len(live)) /\ file' = file
      /\ IF index + n = PacketBytes
         THEN /\ index' = 0 /\ cut' = FALSE
              /\ stray' = (stray \/ (~Timer!IsWhole(p) /\ ~cut))
         ELSE index' = index + n /\ cut' = cut /\ stray' = stray
  BY DEF Timer!ReadInput, Timer!ReadPlace, double
<1>2. /\ live \in Seq(B) /\ file \in Seq(B) /\ index \in Nat /\ index < PacketBytes
      /\ at + index + Len(live) + Len(file) = Len(File)
      /\ \A k \in 1..Len(live) : live[k] = File[at + index + k]
      /\ \A k \in 1..Len(file) : file[k] = File[at + index + Len(live) + k]
      /\ ~cut => \A k \in 1..index : packet[k] = File[at + k]
  BY DEF Follows
<1>3. PacketBytes \in Nat \ {0} /\ Len(live) \in Nat /\ Len(file) \in Nat
  BY <1>2, PlayoutAssumption
<1>4. n \in Nat /\ n <= Len(live) /\ index + n <= PacketBytes
  BY <1>2, <1>3
<1>5. /\ live' \in Seq(B) /\ Len(live') = Len(live) - n
      /\ \A k \in 1..Len(live') : live'[k] = live[n + k]
  <2> HIDE DEF n
  <2> QED
    BY <1>1, <1>2, <1>3, <1>4
<1> HIDE DEF n
<1>6. ASSUME ~cut, NEW k \in 1..(index + n) PROVE p[k] = File[at + k]
  <2>1. k \in 1..PacketBytes /\ k \in Nat
    BY <1>2, <1>3, <1>4
  <2>2. CASE k \in 1..index
    <3>1. k \notin (index + 1)..(index + n)
      BY <1>2, <2>2
    <3> QED
      BY <1>2, <1>6, <2>1, <2>2, <3>1
  <2>3. CASE k \in (index + 1)..(index + n)
    <3>1. k - index \in 1..Len(live) /\ at + index + (k - index) = at + k
      BY <1>2, <1>3, <1>4, <2>1, <2>3
    <3>2. p[k] = live[k - index]
      BY <2>1, <2>3
    <3>3. live[k - index] = File[at + index + (k - index)]
      BY <1>2, <3>1
    <3> HIDE DEF p
    <3> QED
      BY <3>1, <3>2, <3>3
  <2>4. k \in 1..index \/ k \in (index + 1)..(index + n)
    <3>1. \A a, b \in Nat : 1..(a + b) \subseteq 1..a \cup (a + 1)..(a + b)
      OBVIOUS
    <3> QED
      BY <1>2, <1>4, <3>1
  <2> HIDE DEF p
  <2> QED
    BY <2>2, <2>3, <2>4
<1>7. \A k \in 1..Len(live') : live'[k] = File[at + (index + n) + k]
  <2> SUFFICES ASSUME NEW k \in 1..Len(live') PROVE live'[k] = File[at + (index + n) + k]
    OBVIOUS
  <2>1. n + k \in 1..Len(live) /\ live'[k] = live[n + k]
        /\ at + index + (n + k) = at + (index + n) + k
    BY <1>2, <1>3, <1>4, <1>5
  <2> QED
    BY <1>2, <2>1
<1>8. \A k \in 1..Len(file') : file'[k] = File[at + (index + n) + Len(live') + k]
  <2> SUFFICES ASSUME NEW k \in 1..Len(file)
               PROVE  file[k] = File[at + (index + n) + Len(live') + k]
    BY <1>1
  <2>1. at + index + Len(live) + k = at + (index + n) + Len(live') + k
    BY <1>2, <1>3, <1>4, <1>5
  <2> QED
    BY <1>2, <2>1
<1>9. at + (index + n) + Len(live') + Len(file') = Len(File)
  <2>1. Len(live') = Len(live) - n /\ Len(file') = Len(file)
    BY <1>1, <1>5
  <2>2. at + (index + n) + (Len(live) - n) + Len(file) = at + index + Len(live) + Len(file)
    BY <1>2, <1>3, <1>4
  <2> QED
    BY <1>2, <2>1, <2>2
<1>10. CASE index + n = PacketBytes
  <2>1. index' = 0 /\ cut' = FALSE /\ stray' = (stray \/ (~Timer!IsWhole(p) /\ ~cut))
    BY <1>1, <1>10
  <2>3. Follows(B, at + PacketBytes)'
    <3>1. at + PacketBytes + 0 = at + (index + n)
      BY <1>3, <1>10
    <3>2. at + PacketBytes + 0 + Len(live') + Len(file') = Len(File)
      BY <1>9, <3>1
    <3>3. \A k \in 1..Len(live') : live'[k] = File[at + PacketBytes + 0 + k]
      BY <1>7, <3>1
    <3>4. \A k \in 1..Len(file') : file'[k] = File[at + PacketBytes + 0 + Len(live') + k]
      BY <1>8, <3>1
    <3>5. live' \in Seq(B) /\ file' \in Seq(B) /\ 0 < PacketBytes /\ 1..0 = {}
      BY <1>1, <1>2, <1>3, <1>5
    <3> HIDE DEF p
    <3> QED
      BY <2>1, <3>2, <3>3, <3>4, <3>5 DEF Follows
  <2>4. ~cut => Timer!IsWhole(p)
    <3> SUFFICES ASSUME ~cut, NEW k \in 1..PacketBytes
                 PROVE  p[k].of = p[1].of /\ p[k].at = k
      BY DEF Timer!IsWhole
    <3>1. p[k] = File[at + k] /\ p[1] = File[at + 1]
      <4>1. 1 \in 1..PacketBytes
        BY <1>3
      <4> HIDE DEF p
      <4> QED
        BY <1>6, <1>10, <4>1
    <3>2. at + k \in 1..Len(File)
      BY <1>2, <1>3, <1>5, <1>9, <1>10, <1>1
    <3>3. at + k \in DOMAIN File
      BY <3>2
    <3>4. File[at + k].at = k /\ File[at + k].of = File[at + 1].of
      BY <3>3
    <3> HIDE DEF p
    <3> QED
      BY <3>1, <3>4
  <2>5. stray' = FALSE
    <3> HIDE DEF p
    <3> QED
      BY <2>1, <2>4, Zenon
  <2> QED
    BY <2>3, <2>5
<1>11. CASE index + n # PacketBytes
  <2> HIDE DEF p
  <2>1. index' = index + n /\ cut' = cut /\ stray' = stray /\ packet' = p
    BY <1>1, <1>11
  <2>2. index + n \in Nat /\ index + n < PacketBytes
    BY <1>2, <1>3, <1>4, <1>11
  <2>3. Follows(B, at)'
    BY <1>1, <1>2, <1>3, <1>5, <1>6, <1>7, <1>8, <1>9, <2>1, <2>2 DEF Follows
  <2> QED
    BY <2>1, <2>3
<1> QED
  BY <1>10, <1>11

\* A packet that tstimeout puts together of the bytes of its input is mixed of two only when
\* a timeout came while it was being read (tstimeout.c:124), whatever pieces the bytes come
\* in, for any packet size and any backup file.
THEOREM TimeoutsMixPackets ==
  ASSUME NEW B, File \in Seq(B), IsStream(File)
  PROVE  Spec => []OnlyTimeoutsMixPackets
<1>1. Init => TInv(B)
  BY TimeoutInitHolds
<1>2. ASSUME TInv(B), [Next]_vars PROVE TInv(B)'
  <2>1. ASSUME setup' = setup, UNCHANGED <<timeout, file>> PROVE TInv(B)'
    BY <1>2, <2>1 DEF TInv, Follows, timeout
  <2>2. CASE PathsStep
    BY <1>2, <2>2 DEF PathsStep, TInv, timeout
  <2>3. CASE LiveStep
    <3>1. PICK q \in Nat : Follows(B, q * PacketBytes)
      BY <1>2, <2>3 DEF LiveStep, TInv
    <3>2. q * PacketBytes \in Nat
      BY PlayoutAssumption
    <3>3. Follows(B, q * PacketBytes)'
      BY <2>3, <3>1, <3>2, LiveKeepsPlace DEF LiveStep
    <3>4. stray' = stray
      BY <2>3 DEF LiveStep, LiveWrite, LiveEnd
    <3> QED
      BY <1>2, <3>3, <3>4 DEF TInv
  <2>4. CASE TimerStep
    <3>1. PICK q \in Nat : Follows(B, q * PacketBytes)
      BY <1>2, <2>4 DEF TimerStep, TInv
    <3>2. UNCHANGED double /\ (Timer!ReadInput \/ Timer!Timeout)
      BY <2>4 DEF TimerStep, TimeoutStep, Timer!TimeoutNext
    <3>3. CASE Timer!ReadInput
      <4>1. /\ q * PacketBytes \in Nat /\ q + 1 \in Nat
            /\ (q + 1) * PacketBytes = q * PacketBytes + PacketBytes
        BY PlayoutAssumption
      <4>2. \A j \in 1..PacketBytes : q * PacketBytes + j \in DOMAIN File =>
              /\ File[q * PacketBytes + j].at = j
              /\ File[q * PacketBytes + j].of = File[q * PacketBytes + 1].of
        BY DEF IsStream
      <4>3. /\ stray' = stray
            /\ Follows(B, q * PacketBytes)' \/ Follows(B, q * PacketBytes + PacketBytes)'
        BY <1>2, <3>1, <3>2, <3>3, <4>1, <4>2, ReadKeepsPlace DEF TInv
      <4>4. \E r \in Nat : Follows(B, r * PacketBytes)'
        BY <4>1, <4>3
      <4> QED
        BY <1>2, <4>3, <4>4 DEF TInv
    <3>4. CASE Timer!Timeout
      <4>1. q * PacketBytes \in Nat
        BY PlayoutAssumption
      <4>2. stray' = stray /\ Follows(B, q * PacketBytes)'
        BY <3>1, <3>2, <3>4, <4>1, TimeoutKeepsPlace
      <4> QED
        BY <1>2, <4>2 DEF TInv
    <3> QED
      BY <3>2, <3>3, <3>4
  <2>5. CASE OutputStep
    BY <2>1, <2>5 DEF OutputStep, paths, double
  <2>6. CASE \E i \in {1, 2} : ReaderStep(i)
    BY <2>1, <2>6 DEF ReaderStep, paths, double
  <2>7. CASE UNCHANGED vars
    BY <2>1, <2>7 DEF vars, paths, double
  <2> QED
    BY <1>2, <2>2, <2>3, <2>4, <2>5, <2>6, <2>7 DEF Next
<1>3. TInv(B) => OnlyTimeoutsMixPackets
  BY DEF TInv, OnlyTimeoutsMixPackets, Timer!OnlyTimeoutsMixPackets
<1> QED
  BY <1>1, <1>2, <1>3, PTL DEF Spec

-----------------------------------------------------------------------------
(* tsinputswitch: the stream and the parts of it.                            *)

Bytes == [of : Nat, at : Nat]

\* A length of whole packets.
Whole(x) == \E i \in Nat : x = i * PacketBytes

\* The stream is one of packets that are numbered, and not empty; tsudpsend reads whole
\* packets; and the operator chooses by numbers.
WholePackets ==
  /\ File \in Seq(Bytes) /\ Whole(Len(File)) /\ File # <<>>
  /\ \A q \in Nat : \A j \in 1..PacketBytes :
       q * PacketBytes + j \in DOMAIN File => File[q * PacketBytes + j] = [of |-> q + 1, at |-> j]
  /\ Unset \in Bytes
  /\ Whole(UdpSize)
  /\ InputChoices \subseteq Nat

\* What tsdoubleoutput writes: the stream, and its last packet once more.
StreamAt(k) ==
  IF k <= Len(File) THEN File[k] ELSE IF Len(File) = 0 THEN Unset ELSE File[k - PacketBytes]

\* A piece of it, from the place a to the place b.
Part(q, a, b) ==
  /\ q \in Seq(Bytes) /\ a \in Nat /\ b = a + Len(q)
  /\ \A k \in 1..Len(q) : q[k] = StreamAt(a + k)

LEMMA WholeNumbers ==
  ASSUME NEW x, Whole(x)
  PROVE  /\ x \in Nat /\ (x > 0 => x >= PacketBytes) /\ Whole(x + PacketBytes)
         /\ \A y : Whole(y) => Whole(x + y) /\ (y <= x => Whole(x - y))
<1>1. PICK i \in Nat : x = i * PacketBytes
  BY DEF Whole
<1>2. PacketBytes \in Nat \ {0}
  BY PlayoutAssumption
<1>3. x \in Nat
  BY <1>1, <1>2
<1>4. x > 0 => x >= PacketBytes
  <2> SUFFICES ASSUME x > 0 PROVE x >= PacketBytes
    OBVIOUS
  <2>1. i # 0
    BY <1>1, <1>2
  <2>2. PICK j \in Nat : i = j + 1
    <3>1. i - 1 \in Nat /\ i = (i - 1) + 1
      BY <2>1
    <3> QED
      BY <3>1
  <2>3. x = j * PacketBytes + PacketBytes /\ j * PacketBytes \in Nat
    BY <1>1, <1>2, <2>2
  <2> QED
    BY <1>2, <2>3
<1>5. ASSUME NEW y, Whole(y) PROVE Whole(x + y) /\ (y <= x => Whole(x - y))
  <2>1. PICK j \in Nat : y = j * PacketBytes
    BY <1>5 DEF Whole
  <2>2. x + y = (i + j) * PacketBytes /\ i + j \in Nat
    BY <1>1, <1>2, <2>1
  <2>3. ASSUME y <= x PROVE Whole(x - y)
    <3>1. j <= i \/ x - y = 0
      <4> SUFFICES ASSUME i < j PROVE x - y = 0
        OBVIOUS
      <4>1. i * PacketBytes <= j * PacketBytes
        BY <1>2
      <4> QED
        BY <1>1, <1>2, <2>1, <2>3, <4>1
    <3>2. CASE j <= i
      <4>1. i - j \in Nat /\ x - y = (i - j) * PacketBytes
        BY <1>1, <1>2, <2>1, <3>2
      <4> QED
        BY <4>1 DEF Whole
    <3>3. CASE x - y = 0
      <4>1. 0 = 0 * PacketBytes
        BY <1>2
      <4> QED
        BY <3>3, <4>1 DEF Whole
    <3> QED
      BY <3>1, <3>2, <3>3
  <2> QED
    BY <2>2, <2>3 DEF Whole
<1>6. Whole(PacketBytes)
  <2>1. PacketBytes = 1 * PacketBytes
    BY <1>2
  <2> QED
    BY <2>1 DEF Whole
<1> QED
  BY <1>3, <1>4, <1>5, <1>6

LEMMA NoneIsWhole == Whole(0) /\ Whole(PacketBytes)
<1>1. PacketBytes \in Nat
  BY PlayoutAssumption
<1>2. 0 = 0 * PacketBytes /\ PacketBytes = 1 * PacketBytes
  BY <1>1
<1> QED
  BY <1>2 DEF Whole

LEMMA EmptyPart ==
  ASSUME NEW a \in Nat
  PROVE  /\ Part(<<>>, a, a)
         /\ \A b : Part(<<>>, a, b) => a = b
<1>1. <<>> \in Seq(Bytes) /\ Len(<<>>) = 0 /\ a + 0 = a
  OBVIOUS
<1> QED
  BY <1>1 DEF Part

LEMMA JoinedParts ==
  ASSUME NEW p, NEW q, NEW a, NEW b, NEW c, Part(p, a, b), Part(q, b, c)
  PROVE  Part(p \o q, a, c)
<1>1. /\ p \in Seq(Bytes) /\ q \in Seq(Bytes) /\ a \in Nat
      /\ b = a + Len(p) /\ c = b + Len(q) /\ Len(p) \in Nat /\ Len(q) \in Nat
  BY DEF Part
<1>2. p \o q \in Seq(Bytes) /\ Len(p \o q) = Len(p) + Len(q)
  BY <1>1
<1>3. ASSUME NEW k \in 1..Len(p \o q) PROVE (p \o q)[k] = StreamAt(a + k)
  <2>1. CASE k <= Len(p)
    <3>1. (p \o q)[k] = p[k] /\ k \in 1..Len(p)
      BY <1>1, <1>2, <2>1
    <3> QED
      BY <3>1 DEF Part
  <2>2. CASE ~(k <= Len(p))
    <3>1. (p \o q)[k] = q[k - Len(p)] /\ k - Len(p) \in 1..Len(q)
      BY <1>1, <1>2, <2>2
    <3>2. b + (k - Len(p)) = a + k
      BY <1>1
    <3>3. q[k - Len(p)] = StreamAt(b + (k - Len(p)))
      BY <3>1 DEF Part
    <3> QED
      BY <3>1, <3>2, <3>3
  <2> QED
    BY <2>1, <2>2
<1>4. c = a + Len(p \o q)
  BY <1>1, <1>2
<1> QED
  BY <1>1, <1>2, <1>3, <1>4 DEF Part

LEMMA SplitPart ==
  ASSUME NEW q, NEW a, NEW b, Part(q, a, b), NEW n \in 0..Len(q)
  PROVE  /\ Part(SubSeq(q, 1, n), a, a + n) /\ Len(SubSeq(q, 1, n)) = n
         /\ Part(SubSeq(q, n + 1, Len(q)), a + n, b)
<1> DEFINE p == SubSeq(q, 1, n)
           r == SubSeq(q, n + 1, Len(q))
<1>1. q \in Seq(Bytes) /\ a \in Nat /\ b = a + Len(q) /\ Len(q) \in Nat
  BY DEF Part
<1>2. \A k \in 1..Len(q) : q[k] \in Bytes
  BY <1>1
<1>3. /\ p \in Seq(Bytes) /\ Len(p) = n /\ \A k \in 1..n : p[k] = q[k]
  <2>1. /\ p \in Seq(Bytes)
        /\ Len(p) = IF 1 <= n THEN n - 1 + 1 ELSE 0
        /\ \A k \in 1..Len(p) : p[k] = q[1 + k - 1]
    BY <1>1, <1>2, SubSeqProperties
  <2>2. Len(p) = n /\ \A k \in 1..n : 1 + k - 1 = k
    BY <1>1, <2>1
  <2> QED
    BY <2>1, <2>2
<1>4. /\ r \in Seq(Bytes) /\ Len(r) = Len(q) - n
      /\ \A k \in 1..(Len(q) - n) : r[k] = q[n + k]
  <2>1. /\ r \in Seq(Bytes)
        /\ Len(r) = IF n + 1 <= Len(q) THEN Len(q) - (n + 1) + 1 ELSE 0
        /\ \A k \in 1..Len(r) : r[k] = q[n + 1 + k - 1]
    BY <1>1, <1>2, SubSeqProperties
  <2>2. Len(r) = Len(q) - n /\ \A k \in 1..(Len(q) - n) : n + 1 + k - 1 = n + k
    BY <1>1, <2>1
  <2> QED
    BY <2>1, <2>2
<1> HIDE DEF p, r
<1>5. Part(p, a, a + n)
  <2>1. \A k \in 1..n : k \in 1..Len(q)
    BY <1>1
  <2> QED
    BY <1>1, <1>3, <2>1 DEF Part
<1>6. Part(r, a + n, b)
  <2>1. ASSUME NEW k \in 1..(Len(q) - n) PROVE r[k] = StreamAt(a + n + k)
    <3>1. n + k \in 1..Len(q) /\ a + (n + k) = a + n + k
      BY <1>1
    <3>2. q[n + k] = StreamAt(a + (n + k))
      BY <3>1 DEF Part
    <3> QED
      BY <1>4, <3>1, <3>2
  <2>2. b = a + n + Len(r) /\ a + n \in Nat
    BY <1>1, <1>4
  <2> QED
    BY <1>4, <2>1, <2>2 DEF Part
<1> QED
  BY <1>3, <1>5, <1>6 DEF p, r

\* A read takes a whole packet when there is one, and all of the buffer is of it.
LEMMA ReadsPacket ==
  ASSUME NEW q, NEW a, NEW b, Part(q, a, b), Len(q) >= PacketBytes,
         NEW buf \in Seq(Bytes), Len(buf) = PacketBytes
  PROVE  /\ Part(ReadInto(buf, q), a, a + PacketBytes) /\ Len(ReadInto(buf, q)) = PacketBytes
         /\ Part(After(q), a + PacketBytes, b) /\ Got(q) = PacketBytes
<1>1. PacketBytes \in Nat \ {0} /\ Len(q) \in Nat /\ PacketBytes \in 0..Len(q) /\ q \in Seq(Bytes)
  BY PlayoutAssumption DEF Part
<1>2. Got(q) = PacketBytes
  BY <1>1 DEF Got
<1>3. /\ Part(SubSeq(q, 1, PacketBytes), a, a + PacketBytes)
      /\ Len(SubSeq(q, 1, PacketBytes)) = PacketBytes
      /\ Part(SubSeq(q, PacketBytes + 1, Len(q)), a + PacketBytes, b)
  BY <1>1, SplitPart
<1>4. SubSeq(buf, PacketBytes + 1, PacketBytes) = <<>>
  BY <1>1
<1>5. SubSeq(q, 1, PacketBytes) \o <<>> = SubSeq(q, 1, PacketBytes)
  <2>1. SubSeq(q, 1, PacketBytes) \in Seq(Bytes)
    BY <1>3 DEF Part
  <2> QED
    BY <2>1
<1> QED
  BY <1>2, <1>3, <1>4, <1>5 DEF ReadInto, After

\* A read of nothing leaves the buffer.
LEMMA ReadsNothing ==
  ASSUME NEW buf \in Seq(Bytes), Len(buf) = PacketBytes
  PROVE  ReadInto(buf, <<>>) = buf /\ After(<<>>) = <<>> /\ Got(<<>>) = 0
<1>1. PacketBytes \in Nat \ {0} /\ Len(<<>>) = 0
  BY PlayoutAssumption
<1>2. Got(<<>>) = 0
  BY <1>1 DEF Got
<1>3. SubSeq(<<>>, 1, 0) = <<>> /\ SubSeq(<<>>, 0 + 1, 0) = <<>>
  OBVIOUS
<1>4. SubSeq(buf, 0 + 1, PacketBytes) = buf
  <2>1. SubSeq(buf, 1, Len(buf)) = buf
    OBVIOUS
  <2> QED
    BY <2>1
<1>5. <<>> \o buf = buf
  OBVIOUS
<1> QED
  BY <1>1, <1>2, <1>3, <1>4, <1>5 DEF ReadInto, After

-----------------------------------------------------------------------------
(* tsdoubleoutput and the two paths.                                         *)

\* How much of it was written.
Total == IF d.byte_read THEN Len(File) - Len(file) ELSE Len(File) + PacketBytes

\* The packet before the place x.
PacketBefore(q, x) == IF x = 0 THEN q = NoPacket ELSE Part(q, x - PacketBytes, x)

Source ==
  /\ d.packet \in Seq(Bytes) /\ Len(d.packet) = PacketBytes
  /\ Whole(Total) /\ Total <= Len(File) + PacketBytes
  /\ d.byte_read => Part(file, Total, Len(File)) /\ PacketBefore(d.packet, Total)

\* The datagrams on the network go from the place b to the place c.
OnNet(b, c) ==
  /\ datagrams \in Seq(Seq(Bytes))
  /\ \E g \in [0..Len(datagrams) -> {x \in 0..c : Whole(x)}] :
       /\ g[0] = b /\ g[Len(datagrams)] = c
       /\ \A j \in 1..Len(datagrams) : Part(datagrams[j], g[j - 1], g[j])

\* What is to come on either path, for a switch that read it up to the place x.
Path1(x) ==
  /\ Whole(x)
  /\ \E b, c : /\ Part(in1, x, b) /\ Whole(b)
               /\ OnNet(b, c)
               /\ Part(toUdp, c, Total)

Path2(x) ==
  /\ Whole(x)
  /\ \E e, f, g : /\ Part(in2, x, e) /\ Whole(e)
                  /\ Part(partial, e, f) /\ Len(partial) < PacketBytes
                  /\ Part(stream, f, g)
                  /\ Part(toTcp, g, Total)
  /\ tcpDone => ~d.byte_read /\ toTcp = <<>>

LEMMA NoPacketFacts ==
  ASSUME WholePackets
  PROVE  /\ NoPacket \in Seq(Bytes) /\ Len(NoPacket) = PacketBytes
         /\ \A k \in 1..PacketBytes : NoPacket[k] = Unset
<1>1. PacketBytes \in Nat \ {0} /\ Unset \in Bytes
  BY PlayoutAssumption DEF WholePackets
<1> QED
  BY <1>1 DEF NoPacket

\* The end of the stream is the packet before it once more.
LEMMA LastPacketAgain ==
  ASSUME WholePackets, NEW q, PacketBefore(q, Len(File)), q \in Seq(Bytes), Len(q) = PacketBytes
  PROVE  Part(q, Len(File), Len(File) + PacketBytes)
<1>1. Len(File) \in Nat /\ PacketBytes \in Nat \ {0} /\ File \in Seq(Bytes)
  BY PlayoutAssumption DEF WholePackets
<1>2. ASSUME NEW k \in 1..PacketBytes PROVE q[k] = StreamAt(Len(File) + k)
  <2>0. ~(Len(File) + k <= Len(File))
    BY <1>1
  <2>1. CASE Len(File) = 0
    <3>1. q = NoPacket
      BY <2>1 DEF PacketBefore
    <3>2. q[k] = Unset
      BY <3>1, NoPacketFacts
    <3> QED
      BY <2>0, <2>1, <3>2 DEF StreamAt
  <2>2. CASE Len(File) # 0
    <3>1. Len(File) >= PacketBytes
      BY <1>1, <2>2, WholeNumbers DEF WholePackets
    <3>2. q[k] = StreamAt(Len(File) - PacketBytes + k)
      BY <2>2 DEF PacketBefore, Part
    <3>3. /\ Len(File) - PacketBytes + k = Len(File) + k - PacketBytes
          /\ Len(File) + k - PacketBytes <= Len(File)
      BY <1>1
    <3>4. StreamAt(Len(File) - PacketBytes + k) = File[Len(File) + k - PacketBytes]
      BY <3>3 DEF StreamAt
    <3>5. StreamAt(Len(File) + k) = File[Len(File) + k - PacketBytes]
      BY <2>0, <2>2 DEF StreamAt
    <3> QED
      BY <3>2, <3>4, <3>5
  <2> QED
    BY <2>1, <2>2
<1> QED
  BY <1>1, <1>2 DEF Part

LEMMA DoubleLeads ==
  ASSUME WholePackets, Source, Double
  PROVE  /\ Source' /\ Part(d'.packet, Total, Total')
         /\ toUdp' = toUdp \o d'.packet /\ toTcp' = toTcp \o d'.packet
<1>1. /\ d.byte_read /\ d' = [packet |-> ReadInto(d.packet, file), byte_read |-> Got(file) > 0]
      /\ file' = After(file)
      /\ toUdp' = toUdp \o d'.packet /\ toTcp' = toTcp \o d'.packet
  BY DEF Double, DoubleRead
<1>2. /\ Part(file, Total, Len(File)) /\ PacketBefore(d.packet, Total)
      /\ d.packet \in Seq(Bytes) /\ Len(d.packet) = PacketBytes /\ Whole(Total)
      /\ file \in Seq(Bytes) /\ Total = Len(File) - Len(file)
  BY <1>1 DEF Source, Part, Total
<1>3. Len(File) \in Nat /\ PacketBytes \in Nat \ {0} /\ File \in Seq(Bytes) /\ Len(file) \in Nat
  BY <1>2, PlayoutAssumption DEF WholePackets
<1>4. d'.packet = ReadInto(d.packet, file) /\ d'.byte_read = (Got(file) > 0)
  BY <1>1
<1>5. CASE file = <<>>
  <2>1. d'.packet = d.packet /\ Got(file) = 0
    BY <1>2, <1>4, <1>5, ReadsNothing
  <2>2. ~d'.byte_read
    <3>1. ~(Got(file) > 0)
      BY <2>1
    <3> QED
      BY <1>4, <3>1
  <2>3. Total = Len(File) /\ Total' = Len(File) + PacketBytes
    <3>1. Len(file) = 0
      BY <1>5
    <3>2. Total' = IF d'.byte_read THEN Len(File) - Len(file') ELSE Len(File) + PacketBytes
      BY DEF Total
    <3> QED
      BY <1>2, <1>3, <2>2, <3>1, <3>2
  <2>4. Part(d'.packet, Total, Total')
    BY <1>2, <2>1, <2>3, LastPacketAgain
  <2>5. Whole(Total')
    BY <1>2, <2>3, WholeNumbers
  <2>6. Source'
    <3>1. Total' <= Len(File) + PacketBytes
      BY <1>3, <2>3
    <3> QED
      BY <1>2, <2>1, <2>2, <2>5, <3>1 DEF Source
  <2> QED
    BY <1>1, <2>4, <2>6
<1>6. CASE file # <<>>
  <2>1. Len(file) >= PacketBytes
    <3>1. Whole(Len(File) - Total)
      <4>1. Total <= Len(File) /\ Whole(Len(File))
        BY <1>2, <1>3 DEF WholePackets
      <4> QED
        BY <1>2, <4>1, WholeNumbers
    <3>2. Len(File) - Total = Len(file)
      BY <1>2, <1>3
    <3>3. Len(file) > 0
      BY <1>2, <1>6
    <3> QED
      BY <3>1, <3>2, <3>3, WholeNumbers
  <2>2. /\ Part(d'.packet, Total, Total + PacketBytes) /\ Len(d'.packet) = PacketBytes
        /\ Part(file', Total + PacketBytes, Len(File)) /\ d'.byte_read
    <3>1. /\ Part(ReadInto(d.packet, file), Total, Total + PacketBytes)
          /\ Len(ReadInto(d.packet, file)) = PacketBytes
          /\ Part(After(file), Total + PacketBytes, Len(File)) /\ Got(file) = PacketBytes
      BY <1>2, <2>1, ReadsPacket
    <3>2. Got(file) > 0
      BY <1>3, <3>1
    <3> QED
      BY <1>1, <1>4, <3>1, <3>2
  <2>3. Total' = Total + PacketBytes
    <3>1. Total' = Len(File) - Len(file')
      BY <2>2 DEF Total
    <3>2. Len(File) = Total + PacketBytes + Len(file') /\ Len(file') \in Nat /\ Total \in Nat
      BY <2>2, <1>2, WholeNumbers DEF Part
    <3> QED
      BY <1>3, <3>1, <3>2
  <2>4. Whole(Total') /\ Total' <= Len(File) + PacketBytes /\ Total' # 0
        /\ Total' - PacketBytes = Total
    <3>1. Total \in Nat /\ Len(file) \in Nat
      BY <1>2, <1>3, WholeNumbers
    <3>2. Whole(Total + PacketBytes)
      BY <1>2, WholeNumbers
    <3> QED
      BY <1>2, <1>3, <2>3, <3>1, <3>2
  <2>5. d'.packet \in Seq(Bytes)
    BY <2>2 DEF Part
  <2>6. Source'
    BY <2>2, <2>3, <2>4, <2>5 DEF Source, PacketBefore
  <2> QED
    BY <1>1, <2>2, <2>3, <2>6
<1> QED
  BY <1>5, <1>6

\* What tsdoubleoutput writes goes to the end of the paths.
LEMMA DoubleKeepsPath1 ==
  ASSUME NEW x, Path1(x), NEW p, Part(p, Total, Total'), toUdp' = toUdp \o p,
         UNCHANGED <<in1, datagrams>>
  PROVE  Path1(x)'
<1>1. PICK b, c : Part(in1, x, b) /\ Whole(b) /\ OnNet(b, c) /\ Part(toUdp, c, Total)
  BY DEF Path1
<1>2. Part(toUdp', c, Total')
  BY <1>1, JoinedParts
<1> QED
  BY <1>1, <1>2 DEF Path1, OnNet

LEMMA DoubleKeepsPath2 ==
  ASSUME NEW x, Path2(x), NEW p, Part(p, Total, Total'), toTcp' = toTcp \o p, d.byte_read,
         UNCHANGED <<in2, partial, stream, tcpDone>>
  PROVE  Path2(x)'
<1>1. PICK e, f, g : /\ Part(in2, x, e) /\ Whole(e)
                     /\ Part(partial, e, f) /\ Len(partial) < PacketBytes
                     /\ Part(stream, f, g) /\ Part(toTcp, g, Total)
  BY DEF Path2
<1>2. Part(toTcp', g, Total')
  BY <1>1, JoinedParts
<1>3. ~tcpDone /\ Whole(x)
  BY DEF Path2
<1> QED
  BY <1>1, <1>2, <1>3 DEF Path2

\* The datagrams: one more, and one less.
LEMMA MoreDatagrams ==
  ASSUME NEW b, NEW c, OnNet(b, c), NEW p, NEW e, Part(p, c, e), Whole(c), Whole(e),
         datagrams' = Append(datagrams, p)
  PROVE  OnNet(b, e)'
<1> DEFINE l == Len(datagrams)
<1>1. PICK g \in [0..l -> {x \in 0..c : Whole(x)}] :
        /\ g[0] = b /\ g[l] = c
        /\ \A j \in 1..l : Part(datagrams[j], g[j - 1], g[j])
  BY DEF OnNet
<1>2. datagrams \in Seq(Seq(Bytes)) /\ l \in Nat /\ p \in Seq(Bytes) /\ c \in Nat /\ e \in Nat /\ c <= e
  BY DEF OnNet, Part
<1> DEFINE h == [j \in 0..(l + 1) |-> IF j = l + 1 THEN e ELSE g[j]]
<1>3. h \in [0..(l + 1) -> {x \in 0..e : Whole(x)}]
  <2> SUFFICES ASSUME NEW j \in 0..(l + 1)
               PROVE  (IF j = l + 1 THEN e ELSE g[j]) \in {x \in 0..e : Whole(x)}
    OBVIOUS
  <2>1. CASE j = l + 1
    BY <1>2, <2>1
  <2>2. CASE j # l + 1
    <3>1. j \in 0..l
      BY <1>2, <2>2
    <3>2. g[j] \in 0..c /\ Whole(g[j])
      BY <1>1, <3>1
    <3> QED
      BY <1>2, <2>2, <3>2
  <2> QED
    BY <2>1, <2>2
<1>4. /\ h[0] = b /\ h[l + 1] = e
      /\ \A j \in 1..l : h[j - 1] = g[j - 1] /\ h[j] = g[j]
      /\ h[l] = c
  BY <1>1, <1>2
<1>5. /\ datagrams' \in Seq(Seq(Bytes)) /\ Len(datagrams') = l + 1
      /\ \A j \in 1..l : datagrams'[j] = datagrams[j]
      /\ datagrams'[l + 1] = p
  BY <1>2
<1> HIDE DEF h, l
<1>6. ASSUME NEW j \in 1..(l + 1) PROVE Part(datagrams'[j], h[j - 1], h[j])
  <2>1. CASE j = l + 1
    <3>1. j - 1 = l
      BY <1>2, <2>1
    <3> QED
      BY <1>4, <1>5, <2>1, <3>1
  <2>2. CASE j # l + 1
    <3>1. j \in 1..l
      BY <1>2, <2>2
    <3> QED
      BY <1>1, <1>4, <1>5, <3>1
  <2> QED
    BY <2>1, <2>2
<1> QED
  BY <1>3, <1>4, <1>5, <1>6 DEF OnNet

LEMMA FewerDatagrams ==
  ASSUME NEW b, NEW c, OnNet(b, c), datagrams # <<>>, datagrams' = Tail(datagrams)
  PROVE  \E m : Part(Head(datagrams), b, m) /\ Whole(m) /\ OnNet(m, c)'
<1> DEFINE l == Len(datagrams)
<1>1. PICK g \in [0..l -> {x \in 0..c : Whole(x)}] :
        /\ g[0] = b /\ g[l] = c
        /\ \A j \in 1..l : Part(datagrams[j], g[j - 1], g[j])
  BY DEF OnNet
<1>2. datagrams \in Seq(Seq(Bytes)) /\ l \in Nat \ {0} /\ Head(datagrams) = datagrams[1]
  BY DEF OnNet
<1>3. /\ datagrams' \in Seq(Seq(Bytes)) /\ Len(datagrams') = l - 1
      /\ \A j \in 1..(l - 1) : datagrams'[j] = datagrams[j + 1]
  BY <1>2
<1> DEFINE h == [j \in 0..(l - 1) |-> g[j + 1]]
<1> HIDE DEF l
<1>4. h \in [0..(l - 1) -> {x \in 0..c : Whole(x)}]
  <2>1. \A j \in 0..(l - 1) : j + 1 \in 0..l
    BY <1>2
  <2> QED
    BY <1>1, <2>1
<1>5. h[0] = g[1] /\ h[l - 1] = c /\ \A j \in 1..(l - 1) : h[j - 1] = g[j] /\ h[j] = g[j + 1]
  <2>1. 0 \in 0..(l - 1) /\ l - 1 \in 0..(l - 1) /\ (l - 1) + 1 = l
    BY <1>2
  <2>2. \A j \in 1..(l - 1) : j - 1 \in 0..(l - 1) /\ j \in 0..(l - 1) /\ (j - 1) + 1 = j
    BY <1>2
  <2> QED
    BY <1>1, <2>1, <2>2
<1> HIDE DEF h
<1>6. ASSUME NEW j \in 1..(l - 1) PROVE Part(datagrams'[j], h[j - 1], h[j])
  <2>1. j + 1 \in 1..l /\ (j + 1) - 1 = j
    BY <1>2
  <2>2. Part(datagrams[j + 1], g[(j + 1) - 1], g[j + 1])
    BY <1>1, <2>1
  <2> QED
    BY <1>3, <1>5, <2>1, <2>2
<1>7. Part(Head(datagrams), b, g[1]) /\ Whole(g[1])
  <2>1. 1 \in 1..l /\ 1 - 1 = 0 /\ 1 \in 0..l
    BY <1>2
  <2> QED
    BY <1>1, <1>2, <2>1
<1>8. OnNet(g[1], c)'
  BY <1>3, <1>4, <1>5, <1>6 DEF OnNet
<1> QED
  BY <1>7, <1>8

\* What the paths do not touch stays.
LEMMA StaysOnPath1 ==
  ASSUME NEW x, Path1(x), UNCHANGED <<in1, datagrams, toUdp, d, file>>
  PROVE  Path1(x)'
<1>1. Total' = Total
  BY DEF Total
<1>2. PICK b, c : Part(in1, x, b) /\ Whole(b) /\ OnNet(b, c) /\ Part(toUdp, c, Total)
  BY DEF Path1
<1>3. OnNet(b, c)'
  BY <1>2 DEF OnNet
<1> QED
  BY <1>1, <1>2, <1>3 DEF Path1

LEMMA StaysOnPath2 ==
  ASSUME NEW x, Path2(x), UNCHANGED <<in2, partial, stream, toTcp, tcpDone, d, file>>
  PROVE  Path2(x)'
<1>1. Total' = Total
  BY DEF Total
<1> QED
  BY <1>1 DEF Path2

LEMMA UdpKeepsPath1 ==
  ASSUME WholePackets, Source, NEW x, Path1(x), UdpSend
  PROVE  Path1(x)'
<1>0. PICK n : n = UdpSender!Readable
  OBVIOUS
<1>1. /\ toUdp' = SubSeq(toUdp, n + 1, Len(toUdp))
      /\ datagrams' = Append(datagrams, SubSeq(toUdp, 1, n))
      /\ UNCHANGED <<in1, d, file>>
  BY <1>0 DEF UdpSend, UdpSender!SendChunk, UdpSender!Chunk, double
<1>2. PICK b, c : Part(in1, x, b) /\ Whole(b) /\ OnNet(b, c) /\ Part(toUdp, c, Total)
  BY DEF Path1
<1>3. Whole(c) /\ Whole(Total)
  <2>1. Len(datagrams) \in 0..Len(datagrams)
    BY <1>2 DEF OnNet
  <2> QED
    BY <1>2, <2>1 DEF OnNet, Source
<1>4. c \in Nat /\ Total = c + Len(toUdp) /\ Len(toUdp) \in Nat
  BY <1>2 DEF Part
<1>5. Whole(Len(toUdp)) /\ Whole(UdpSize)
  <2>1. c <= Total /\ Total - c = Len(toUdp)
    BY <1>4
  <2> QED
    BY <1>3, <2>1, WholeNumbers DEF WholePackets
<1>6. n \in 0..Len(toUdp) /\ Whole(n)
  <2>1. UdpSize \in Nat
    BY <1>5, WholeNumbers
  <2>2. n = IF Len(toUdp) < UdpSize THEN Len(toUdp) ELSE UdpSize
    BY <1>0 DEF UdpSender!Readable
  <2>3. n \in 0..Len(toUdp)
    BY <1>4, <2>1, <2>2
  <2> QED
    BY <1>5, <2>2, <2>3
<1>7. Part(SubSeq(toUdp, 1, n), c, c + n) /\ Part(toUdp', c + n, Total)
  BY <1>1, <1>2, <1>6, SplitPart
<1>8. Whole(c + n)
  BY <1>3, <1>6, WholeNumbers
<1>9. OnNet(b, c + n)'
  BY <1>1, <1>2, <1>3, <1>7, <1>8, MoreDatagrams
<1>10. Total' = Total
  BY <1>1 DEF Total
<1> QED
  BY <1>1, <1>2, <1>7, <1>9, <1>10 DEF Path1

LEMMA ReceiveKeepsPath1 ==
  ASSUME NEW x, Path1(x), UdpReceive
  PROVE  Path1(x)'
<1>1. /\ datagrams # <<>> /\ datagrams' = Tail(datagrams) /\ in1' = in1 \o Head(datagrams)
      /\ UNCHANGED <<toUdp, d, file>>
  BY DEF UdpReceive, double
<1>2. PICK b, c : Part(in1, x, b) /\ Whole(b) /\ OnNet(b, c) /\ Part(toUdp, c, Total)
  BY DEF Path1
<1>3. PICK m : Part(Head(datagrams), b, m) /\ Whole(m) /\ OnNet(m, c)'
  BY <1>1, <1>2, FewerDatagrams
<1>4. Part(in1', x, m)
  BY <1>1, <1>2, <1>3, JoinedParts
<1>5. Total' = Total
  BY <1>1 DEF Total
<1>6. Path1(x)'
  BY <1>1, <1>2, <1>3, <1>4, <1>5 DEF Path1
<1> QED
  BY <1>6

LEMMA TcpKeepsPath2 ==
  ASSUME NEW x, Path2(x), TcpSend \/ TcpEnd
  PROVE  Path2(x)'
<1>1. UNCHANGED <<in2, partial, d, file>>
  BY DEF TcpSend, TcpEnd, double
<1>2. Total' = Total
  BY <1>1 DEF Total
<1>3. PICK e, f, g : /\ Part(in2, x, e) /\ Whole(e)
                     /\ Part(partial, e, f) /\ Len(partial) < PacketBytes
                     /\ Part(stream, f, g) /\ Part(toTcp, g, Total)
  BY DEF Path2
<1>4. CASE TcpSend
  <2> DEFINE n == TcpSender!Readable
  <2>1. /\ ~tcpDone /\ tcpDone' = tcpDone
        /\ toTcp' = SubSeq(toTcp, n + 1, Len(toTcp)) /\ stream' = stream \o SubSeq(toTcp, 1, n)
    BY <1>4 DEF TcpSend, TcpSender!SendChunk, TcpSender!Chunk
  <2>2. n \in 0..Len(toTcp)
    <3>1. Len(toTcp) \in Nat /\ TcpSize \in Nat
      BY <1>3, PlayoutAssumption DEF Part, TcpSender!SenderAssumption
    <3> QED
      BY <3>1 DEF TcpSender!Readable
  <2> HIDE DEF n
  <2>3. Part(SubSeq(toTcp, 1, n), g, g + n) /\ Part(toTcp', g + n, Total)
    BY <1>3, <2>1, <2>2, SplitPart
  <2>4. Part(stream', f, g + n)
    BY <1>3, <2>1, <2>3, JoinedParts
  <2> QED
    BY <1>1, <1>2, <1>3, <2>1, <2>3, <2>4 DEF Path2
<1>5. CASE TcpEnd
  <2>1. toTcp = <<>> /\ ~d.byte_read /\ UNCHANGED <<toTcp, stream>>
    BY <1>5 DEF TcpEnd, TcpSender!SendEnd, DoubleDone
  <2> QED
    BY <1>1, <1>2, <1>3, <2>1 DEF Path2
<1> QED
  BY <1>4, <1>5

\* tstcpreceive writes whole packets and keeps less than one.
LEMMA Quotient ==
  ASSUME NEW n \in Nat, NEW m \in Nat \ {0}
  PROVE  /\ n \div m \in Nat /\ n % m \in 0..(m - 1)
         /\ n = (n \div m) * m + (n % m)
OBVIOUS

LEMMA FullIsWhole ==
  ASSUME NEW bytes, Len(bytes) \in Nat
  PROVE  /\ Whole(FullBytes(bytes)) /\ FullBytes(bytes) \in 0..Len(bytes)
         /\ Len(bytes) - FullBytes(bytes) < PacketBytes
<1> DEFINE n == Len(bytes)
           i == n \div PacketBytes
           r == n % PacketBytes
<1>1. PacketBytes \in Nat \ {0}
  BY PlayoutAssumption
<1>2. i \in Nat /\ r \in 0..(PacketBytes - 1) /\ n = i * PacketBytes + r
  BY <1>1, Quotient
<1>3. FullBytes(bytes) = i * PacketBytes
  BY DEF FullBytes
<1> HIDE DEF n, i, r
<1>4. i * PacketBytes \in Nat
  BY <1>1, <1>2
<1>5. FullBytes(bytes) \in 0..n /\ n - FullBytes(bytes) < PacketBytes
  BY <1>1, <1>2, <1>3, <1>4
<1> QED
  BY <1>2, <1>3, <1>5 DEF Whole, n

LEMMA ReceiveKeepsPath2 ==
  ASSUME NEW x, Path2(x), TcpReceive
  PROVE  Path2(x)'
<1>1. PICK n \in 1..Len(stream) :
        LET bytes == partial \o SubSeq(stream, 1, n)
        IN  /\ in2' = in2 \o SubSeq(bytes, 1, FullBytes(bytes))
            /\ partial' = SubSeq(bytes, FullBytes(bytes) + 1, Len(bytes))
            /\ stream' = SubSeq(stream, n + 1, Len(stream))
            /\ UNCHANGED <<toTcp, d, file, tcpDone>>
  BY DEF TcpReceive, double, tcp
<1> DEFINE bytes == partial \o SubSeq(stream, 1, n)
           k == FullBytes(bytes)
<1>2. PICK e, f, g : /\ Part(in2, x, e) /\ Whole(e)
                     /\ Part(partial, e, f) /\ Len(partial) < PacketBytes
                     /\ Part(stream, f, g) /\ Part(toTcp, g, Total)
  BY DEF Path2
<1>3. n \in 0..Len(stream)
  BY <1>2 DEF Part
<1>4. Part(SubSeq(stream, 1, n), f, f + n) /\ Part(stream', f + n, g)
  BY <1>1, <1>2, <1>3, SplitPart
<1>5. Part(bytes, e, f + n)
  BY <1>2, <1>4, JoinedParts
<1>6. in2' = in2 \o SubSeq(bytes, 1, k) /\ partial' = SubSeq(bytes, k + 1, Len(bytes))
  BY <1>1
<1> HIDE DEF bytes
<1>7. Len(bytes) \in Nat
  BY <1>5 DEF Part
<1>8. Whole(k) /\ k \in 0..Len(bytes) /\ Len(bytes) - k < PacketBytes
  BY <1>7, FullIsWhole
<1> HIDE DEF k
<1>9. Part(SubSeq(bytes, 1, k), e, e + k) /\ Part(partial', e + k, f + n)
  BY <1>5, <1>6, <1>8, SplitPart
<1>10. Part(in2', x, e + k) /\ Whole(e + k)
  BY <1>2, <1>6, <1>8, <1>9, JoinedParts, WholeNumbers
<1>11. Len(partial') < PacketBytes
  <2>1. f + n = e + Len(bytes) /\ e \in Nat
    BY <1>5 DEF Part
  <2>2. f + n = e + k + Len(partial') /\ Len(partial') \in Nat
    BY <1>9 DEF Part
  <2>3. Len(partial') = Len(bytes) - k
    BY <1>7, <1>8, <2>1, <2>2
  <2> QED
    BY <1>8, <2>3
<1>12. Total' = Total
  BY <1>1 DEF Total
<1> QED
  BY <1>1, <1>2, <1>4, <1>9, <1>10, <1>11, <1>12 DEF Path2

-----------------------------------------------------------------------------
(* What the switch reads.                                                    *)

\* On a path there are whole packets, and not more than were written.
LEMMA Path1Bounds ==
  ASSUME NEW x, Path1(x)
  PROVE  /\ x \in Nat /\ Total \in Nat /\ x <= Total
         /\ in1 # <<>> => Len(in1) >= PacketBytes /\ x + PacketBytes <= Total
<1>1. PICK b, c : Part(in1, x, b) /\ Whole(b) /\ OnNet(b, c) /\ Part(toUdp, c, Total)
  BY DEF Path1
<1>2. x \in Nat /\ b = x + Len(in1) /\ Len(in1) \in Nat /\ in1 \in Seq(Bytes)
  BY <1>1 DEF Part
<1>3. b <= c
  <2>1. 0 \in 0..Len(datagrams)
    BY <1>1 DEF OnNet
  <2>2. b \in 0..c
    BY <1>1, <2>1 DEF OnNet
  <2> QED
    BY <1>2, <2>2
<1>4. c \in Nat /\ Total = c + Len(toUdp) /\ Len(toUdp) \in Nat
  BY <1>1 DEF Part
<1>5. PacketBytes \in Nat
  BY PlayoutAssumption
<1>6. ASSUME in1 # <<>> PROVE Len(in1) >= PacketBytes
  <2>1. Len(in1) > 0
    BY <1>2, <1>6
  <2>2. Whole(b - x) /\ b - x = Len(in1)
    <3>1. x <= b /\ b - x = Len(in1)
      BY <1>2
    <3> QED
      BY <1>1, <3>1, WholeNumbers DEF Path1
  <2> QED
    BY <2>1, <2>2, WholeNumbers
<1> QED
  BY <1>2, <1>3, <1>4, <1>5, <1>6

LEMMA Path2Bounds ==
  ASSUME WholePackets, Source, NEW x, Path2(x)
  PROVE  /\ in2 # <<>> => Len(in2) >= PacketBytes
         /\ in2 = <<>> /\ In2Ended => x = Len(File) + PacketBytes
<1>1. PICK e, f, g : /\ Part(in2, x, e) /\ Whole(e)
                     /\ Part(partial, e, f) /\ Len(partial) < PacketBytes
                     /\ Part(stream, f, g) /\ Part(toTcp, g, Total)
  BY DEF Path2
<1>2. x \in Nat /\ e = x + Len(in2) /\ Len(in2) \in Nat /\ in2 \in Seq(Bytes)
  BY <1>1 DEF Part
<1>3. ASSUME in2 # <<>> PROVE Len(in2) >= PacketBytes
  <2>1. Len(in2) > 0
    BY <1>2, <1>3
  <2>2. Whole(e - x) /\ e - x = Len(in2)
    <3>1. x <= e /\ e - x = Len(in2)
      BY <1>2
    <3> QED
      BY <1>1, <3>1, WholeNumbers DEF Path2
  <2> QED
    BY <2>1, <2>2, WholeNumbers
<1>4. ASSUME in2 = <<>>, In2Ended PROVE x = Len(File) + PacketBytes
  <2>1. stream = <<>> /\ toTcp = <<>> /\ ~d.byte_read
    BY <1>4 DEF In2Ended, Path2
  <2>2. Total = Len(File) + PacketBytes
    BY <2>1 DEF Total
  <2>3. e \in Nat /\ f = e + Len(partial) /\ Len(partial) \in Nat
    BY <1>1 DEF Part
  <2>4. f \in Nat /\ f = g /\ g = Total
    <3>1. f \in Nat /\ g \in Nat
      BY <1>1 DEF Part
    <3> QED
      BY <1>1, <2>1, <3>1, EmptyPart
  <2>5. Whole(Len(partial))
    <3>1. Whole(f) /\ e <= f /\ f - e = Len(partial)
      BY <2>3, <2>4 DEF Source
    <3> QED
      BY <1>1, <3>1, WholeNumbers
  <2>6. Len(partial) = 0
    <3>1. ~(Len(partial) > 0) \/ Len(partial) >= PacketBytes
      BY <2>5, WholeNumbers
    <3> QED
      BY <1>1, <2>3, <3>1, PlayoutAssumption
  <2>7. e = x
    BY <1>2, <1>4
  <2> QED
    BY <2>2, <2>3, <2>4, <2>6, <2>7
<1> QED
  BY <1>3, <1>4

LEMMA ReadOnPath1 ==
  ASSUME NEW x, Path1(x), in1 # <<>>, in1' = After(in1), UNCHANGED <<datagrams, toUdp, d, file>>,
         NEW buf \in Seq(Bytes), Len(buf) = PacketBytes
  PROVE  /\ Path1(x + PacketBytes)' /\ Got(in1) = PacketBytes
         /\ Part(ReadInto(buf, in1), x, x + PacketBytes)
         /\ Len(ReadInto(buf, in1)) = PacketBytes
<1>1. PICK b, c : Part(in1, x, b) /\ Whole(b) /\ OnNet(b, c) /\ Part(toUdp, c, Total)
  BY DEF Path1
<1>2. Len(in1) >= PacketBytes
  BY Path1Bounds
<1>3. /\ Part(ReadInto(buf, in1), x, x + PacketBytes) /\ Len(ReadInto(buf, in1)) = PacketBytes
      /\ Part(in1', x + PacketBytes, b) /\ Got(in1) = PacketBytes
  BY <1>1, <1>2, ReadsPacket
<1>4. Whole(x + PacketBytes)
  BY WholeNumbers DEF Path1
<1>5. Total' = Total /\ OnNet(b, c)'
  BY <1>1 DEF Total, OnNet
<1> QED
  BY <1>1, <1>3, <1>4, <1>5 DEF Path1

LEMMA ReadOnPath2 ==
  ASSUME WholePackets, Source, NEW x, Path2(x), in2 # <<>>, in2' = After(in2),
         UNCHANGED <<partial, stream, toTcp, tcpDone, d, file>>,
         NEW buf \in Seq(Bytes), Len(buf) = PacketBytes
  PROVE  /\ Path2(x + PacketBytes)' /\ Got(in2) = PacketBytes
         /\ Part(ReadInto(buf, in2), x, x + PacketBytes)
         /\ Len(ReadInto(buf, in2)) = PacketBytes
<1>1. PICK e, f, g : /\ Part(in2, x, e) /\ Whole(e)
                     /\ Part(partial, e, f) /\ Len(partial) < PacketBytes
                     /\ Part(stream, f, g) /\ Part(toTcp, g, Total)
  BY DEF Path2
<1>2. Len(in2) >= PacketBytes
  BY Path2Bounds
<1>3. /\ Part(ReadInto(buf, in2), x, x + PacketBytes) /\ Len(ReadInto(buf, in2)) = PacketBytes
      /\ Part(in2', x + PacketBytes, e) /\ Got(in2) = PacketBytes
  BY <1>1, <1>2, ReadsPacket
<1>4. Whole(x + PacketBytes)
  BY WholeNumbers DEF Path2
<1>5. Total' = Total
  BY DEF Total
<1> QED
  BY <1>1, <1>3, <1>4, <1>5 DEF Path2

-----------------------------------------------------------------------------
(* The switch.                                                               *)

SwitchStates ==
  [pc : {"recv", "discard", "read", "write", "done"}, choice : {0, 1}, packet : Seq(Bytes),
   byte_read : Nat]

\* The inputs are read in step, and what was written is all that was read before.  The input
\* that is thrown away may have ended: then nothing more comes from the other.
InStep(x) ==
  /\ s \in SwitchStates /\ Len(s.packet) = PacketBytes
  /\ written \in Seq(Bytes) /\ Len(written) = PacketBytes /\ PacketBefore(written, x)
  /\ writes \in Nat /\ writes * PacketBytes = x
  /\ \/ s.pc \in {"recv", "discard"} /\ Path1(x) /\ Path2(x)
     \/ /\ s.pc = "read" /\ s.choice = 0 /\ Path1(x)
        /\ Path2(x + PacketBytes) \/ (Path2(x) /\ x = Len(File) + PacketBytes)
     \/ s.pc = "read" /\ s.choice = 1 /\ Path1(x + PacketBytes) /\ Path2(x)
     \/ /\ s.pc = "write" /\ Path1(x + PacketBytes) /\ Path2(x + PacketBytes)
        /\ s.byte_read > 0 /\ Part(s.packet, x, x + PacketBytes)

\* As long as the paths were not put out of step.
SwitchInv == Source /\ (odd \/ \E x \in Nat : InStep(x))

LEMMA SeamStarts ==
  ASSUME WholePackets, Init
  PROVE  SwitchInv
<1>1. /\ file = File /\ d = [packet |-> NoPacket, byte_read |-> TRUE] /\ toUdp = <<>> /\ toTcp = <<>>
      /\ datagrams = <<>> /\ stream = <<>> /\ partial = <<>> /\ in1 = <<>> /\ in2 = <<>>
      /\ s = [pc |-> "recv", choice |-> 0, packet |-> NoPacket, byte_read |-> 1]
      /\ written = NoPacket /\ writes = 0 /\ tcpDone = FALSE
  BY DEF Init, DoubleInit, InputInit, TcpSender!SenderInit
<1>2. /\ NoPacket \in Seq(Bytes) /\ Len(NoPacket) = PacketBytes /\ PacketBytes \in Nat \ {0}
      /\ File \in Seq(Bytes) /\ Len(File) \in Nat
  BY NoPacketFacts, PlayoutAssumption DEF WholePackets
<1>3. Total = 0
  BY <1>1, <1>2 DEF Total
<1>4. Source
  <2>1. Part(file, 0, Len(File))
    <3>1. \A k \in 1..Len(File) : File[k] = StreamAt(0 + k)
      BY <1>2 DEF StreamAt
    <3> QED
      BY <1>1, <1>2, <3>1 DEF Part
  <2> QED
    BY <1>1, <1>2, <1>3, <2>1, NoneIsWhole DEF Source, PacketBefore
<1>5. Path1(0)
  <2>1. OnNet(0, 0)
    <3> DEFINE g == [j \in 0..0 |-> 0]
    <3>1. g \in [0..0 -> {x \in 0..0 : Whole(x)}] /\ g[0] = 0
      BY NoneIsWhole
    <3>2. datagrams \in Seq(Seq(Bytes)) /\ Len(datagrams) = 0
      BY <1>1
    <3> HIDE DEF g
    <3> QED
      BY <3>1, <3>2 DEF OnNet
  <2> QED
    BY <1>1, <1>3, <2>1, EmptyPart, NoneIsWhole DEF Path1
<1>6. Path2(0)
  <2>1. Len(<<>>) < PacketBytes
    BY <1>2
  <2> QED
    BY <1>1, <1>3, <2>1, EmptyPart, NoneIsWhole DEF Path2
<1>7. InStep(0)
  <2>1. s \in SwitchStates
    BY <1>1, <1>2 DEF SwitchStates
  <2>2. 0 * PacketBytes = 0
    BY <1>2
  <2> QED
    BY <1>1, <1>2, <1>5, <1>6, <2>1, <2>2 DEF InStep, PacketBefore
<1> QED
  BY <1>4, <1>7 DEF SwitchInv

LEMMA NetworkLeads ==
  ASSUME WholePackets, Source,
         Double \/ UdpSend \/ UdpEnd \/ TcpSend \/ TcpEnd \/ UdpReceive \/ TcpReceive
  PROVE  /\ Source' /\ UNCHANGED <<s, history, odd>>
         /\ \A x : (Path1(x) => Path1(x)') /\ (Path2(x) => Path2(x)')
<1>1. CASE Double
  <2>1. /\ Source' /\ Part(d'.packet, Total, Total')
        /\ toUdp' = toUdp \o d'.packet /\ toTcp' = toTcp \o d'.packet
    BY <1>1, DoubleLeads
  <2>2. PICK p : p = d'.packet
    OBVIOUS
  <2>3. Part(p, Total, Total') /\ toUdp' = toUdp \o p /\ toTcp' = toTcp \o p
    BY <2>1, <2>2
  <2>4. d.byte_read /\ UNCHANGED <<tcpDone, datagrams, stream, partial, in1, in2, s, history, odd>>
    BY <1>1 DEF Double, tcp
  <2>5. \A x : (Path1(x) => Path1(x)') /\ (Path2(x) => Path2(x)')
    BY <2>3, <2>4, DoubleKeepsPath1, DoubleKeepsPath2
  <2> QED
    BY <2>1, <2>4, <2>5
<1>2. ASSUME ~Double
      PROVE  Source' /\ UNCHANGED <<s, history, odd, d, file>> /\ Total' = Total
  <2>1. UNCHANGED <<s, history, odd, d, file>>
    BY <1>2 DEF UdpSend, UdpEnd, TcpSend, TcpEnd, UdpReceive, TcpReceive, double
  <2>2. Total' = Total
    BY <2>1 DEF Total
  <2> QED
    BY <2>1, <2>2 DEF Source, PacketBefore
<1>3. CASE UdpSend
  <2>1. UNCHANGED <<in2, partial, stream, toTcp, tcpDone, d, file>>
    BY <1>3 DEF UdpSend, tcp, double
  <2>2. \A x : (Path1(x) => Path1(x)') /\ (Path2(x) => Path2(x)')
    BY <1>3, <2>1, UdpKeepsPath1, StaysOnPath2
  <2> QED
    BY <1>1, <1>2, <2>2
<1>4. CASE UdpEnd
  <2>1. UNCHANGED <<in1, datagrams, toUdp, in2, partial, stream, toTcp, tcpDone, d, file>>
    BY <1>4 DEF UdpEnd, UdpSender!SendEnd, tcp, double
  <2>2. \A x : (Path1(x) => Path1(x)') /\ (Path2(x) => Path2(x)')
    BY <2>1, StaysOnPath1, StaysOnPath2
  <2> QED
    BY <1>1, <1>2, <2>2
<1>5. CASE TcpSend \/ TcpEnd
  <2>1. UNCHANGED <<in1, datagrams, toUdp, d, file>>
    BY <1>5 DEF TcpSend, TcpEnd, double
  <2>2. \A x : (Path1(x) => Path1(x)') /\ (Path2(x) => Path2(x)')
    BY <1>5, <2>1, TcpKeepsPath2, StaysOnPath1
  <2> QED
    BY <1>1, <1>2, <2>2
<1>6. CASE UdpReceive
  <2>1. UNCHANGED <<in2, partial, stream, toTcp, tcpDone, d, file>>
    BY <1>6 DEF UdpReceive, tcp, double
  <2>2. \A x : (Path1(x) => Path1(x)') /\ (Path2(x) => Path2(x)')
    BY <1>6, <2>1, ReceiveKeepsPath1, StaysOnPath2
  <2> QED
    BY <1>1, <1>2, <2>2
<1>7. CASE TcpReceive
  <2>1. UNCHANGED <<in1, datagrams, toUdp, d, file>>
    BY <1>7 DEF TcpReceive, double
  <2>2. \A x : (Path1(x) => Path1(x)') /\ (Path2(x) => Path2(x)')
    BY <1>7, <2>1, ReceiveKeepsPath2, StaysOnPath1
  <2> QED
    BY <1>1, <1>2, <2>2
<1> QED
  BY <1>1, <1>3, <1>4, <1>5, <1>6, <1>7

\* What else happens on the paths.
LEMMA OthersKeepStep ==
  ASSUME NEW x, InStep(x), UNCHANGED <<s, history>>,
         \A y : (Path1(y) => Path1(y)') /\ (Path2(y) => Path2(y)')
  PROVE  InStep(x)'
BY DEF InStep, PacketBefore, history

LEMMA ReadsInStep ==
  ASSUME WholePackets, Source, NEW x \in Nat, InStep(x), InputRead
  PROVE  InStep(x)'
<1>1. /\ UNCHANGED <<datagrams, toUdp, d, file, partial, stream, toTcp, tcpDone, history>>
      /\ \/ s.pc = "discard" /\ ReadFrom(Discarded(s.choice), "read")
         \/ s.pc = "read" /\ ReadFrom(Wanted(s.choice), "write")
  BY DEF InputRead, otherPaths, double, tcp
<1>2. /\ s \in SwitchStates /\ Len(s.packet) = PacketBytes
      /\ written \in Seq(Bytes) /\ Len(written) = PacketBytes /\ PacketBefore(written, x)
      /\ writes \in Nat /\ writes * PacketBytes = x
      /\ s.packet \in Seq(Bytes) /\ s.choice \in {0, 1}
  BY DEF InStep, SwitchStates
<1>3. PacketBytes \in Nat \ {0}
  BY PlayoutAssumption
<1>4. /\ Discarded(s.choice) = IF s.choice = 0 THEN 2 ELSE 1
      /\ Wanted(s.choice) = IF s.choice = 0 THEN 1 ELSE 2
  BY <1>2 DEF Discarded, Wanted
<1>5. ASSUME NEW p, NEW pc \in {"read", "write"}, s' = HasRead(s, p, pc),
             ReadInto(s.packet, p) \in Seq(Bytes), Len(ReadInto(s.packet, p)) = PacketBytes,
             Got(p) \in Nat
      PROVE  /\ s' \in SwitchStates /\ Len(s'.packet) = PacketBytes
             /\ s'.pc = pc /\ s'.choice = s.choice /\ s'.packet = ReadInto(s.packet, p)
             /\ s'.byte_read = Got(p)
  BY <1>2, <1>5 DEF HasRead, SwitchStates
<1>6. /\ written' \in Seq(Bytes) /\ Len(written') = PacketBytes
      /\ PacketBefore(written, x)' /\ writes' \in Nat /\ writes' * PacketBytes = x
  BY <1>1, <1>2 DEF PacketBefore, history
<1>7. ASSUME NEW pc \in {"read", "write"}, NEW y, ReadFrom(1, pc), Path1(y)
      PROVE  /\ in1 # <<>> /\ Path1(y + PacketBytes)' /\ UNCHANGED in2
             /\ s' \in SwitchStates /\ Len(s'.packet) = PacketBytes
             /\ s'.pc = pc /\ s'.choice = s.choice /\ s'.byte_read = PacketBytes
             /\ Part(s'.packet, y, y + PacketBytes)
  <2>1. in1 # <<>> /\ s' = HasRead(s, in1, pc) /\ in1' = After(in1) /\ UNCHANGED in2
    BY <1>7 DEF ReadFrom, CanRead, In1Ended
  <2>2. /\ Path1(y + PacketBytes)' /\ Got(in1) = PacketBytes
        /\ Part(ReadInto(s.packet, in1), y, y + PacketBytes)
        /\ Len(ReadInto(s.packet, in1)) = PacketBytes
    BY <1>1, <1>2, <1>7, <2>1, ReadOnPath1
  <2>3. ReadInto(s.packet, in1) \in Seq(Bytes)
    BY <2>2 DEF Part
  <2> QED
    BY <1>3, <1>5, <2>1, <2>2, <2>3
<1>8. ASSUME NEW pc \in {"read", "write"}, NEW y, ReadFrom(2, pc), Path2(y)
      PROVE  /\ UNCHANGED in1
             /\ s' \in SwitchStates /\ Len(s'.packet) = PacketBytes
             /\ s'.pc = pc /\ s'.choice = s.choice
             /\ IF in2 # <<>>
                THEN /\ Path2(y + PacketBytes)' /\ s'.byte_read = PacketBytes
                     /\ Part(s'.packet, y, y + PacketBytes)
                ELSE Path2(y)' /\ y = Len(File) + PacketBytes
  <2>1. /\ in2 # <<>> \/ In2Ended
        /\ s' = HasRead(s, in2, pc) /\ in2' = After(in2) /\ UNCHANGED in1
    BY <1>8 DEF ReadFrom, CanRead
  <2>2. CASE in2 # <<>>
    <3>1. /\ Path2(y + PacketBytes)' /\ Got(in2) = PacketBytes
          /\ Part(ReadInto(s.packet, in2), y, y + PacketBytes)
          /\ Len(ReadInto(s.packet, in2)) = PacketBytes
      BY <1>1, <1>2, <1>8, <2>1, <2>2, ReadOnPath2
    <3>2. ReadInto(s.packet, in2) \in Seq(Bytes)
      BY <3>1 DEF Part
    <3> QED
      BY <1>3, <1>5, <2>1, <2>2, <3>1, <3>2
  <2>3. CASE in2 = <<>>
    <3>1. ReadInto(s.packet, in2) = s.packet /\ After(in2) = <<>> /\ Got(in2) = 0
      BY <1>2, <2>3, ReadsNothing
    <3>2. in2' = in2
      BY <2>1, <2>3, <3>1
    <3>3. Path2(y)'
      BY <1>1, <1>8, <3>2, StaysOnPath2
    <3>4. y = Len(File) + PacketBytes
      BY <1>8, <2>1, <2>3, Path2Bounds
    <3>5. /\ s' \in SwitchStates /\ Len(s'.packet) = PacketBytes
          /\ s'.pc = pc /\ s'.choice = s.choice
      BY <1>2, <1>5, <2>1, <3>1
    <3> QED
      BY <2>1, <2>3, <3>3, <3>4, <3>5
  <2> QED
    BY <2>2, <2>3
<1>9. ASSUME NEW y, Path1(y), UNCHANGED in1 PROVE Path1(y)'
  BY <1>1, <1>9, StaysOnPath1
<1>10. ASSUME NEW y, Path2(y), UNCHANGED in2 PROVE Path2(y)'
  BY <1>1, <1>10, StaysOnPath2
<1>11. Total <= Len(File) + PacketBytes /\ Len(File) \in Nat
  BY DEF Source, WholePackets
<1>12. CASE s.pc = "discard"
  <2>1. Path1(x) /\ Path2(x)
    BY <1>12 DEF InStep
  <2>2. CASE s.choice = 0
    <3>1. ReadFrom(2, "read")
      BY <1>1, <1>4, <1>12, <2>2
    <3>2. /\ s' \in SwitchStates /\ Len(s'.packet) = PacketBytes
          /\ s'.pc = "read" /\ s'.choice = 0 /\ UNCHANGED in1
          /\ Path2(x + PacketBytes)' \/ (Path2(x)' /\ x = Len(File) + PacketBytes)
      BY <1>8, <2>1, <2>2, <3>1
    <3> QED
      BY <1>6, <1>9, <2>1, <3>2 DEF InStep
  <2>3. CASE s.choice = 1
    <3>1. ReadFrom(1, "read")
      BY <1>1, <1>4, <1>12, <2>3
    <3>2. /\ s' \in SwitchStates /\ Len(s'.packet) = PacketBytes
          /\ s'.pc = "read" /\ s'.choice = 1 /\ UNCHANGED in2 /\ Path1(x + PacketBytes)'
      BY <1>7, <2>1, <2>3, <3>1
    <3> QED
      BY <1>6, <1>10, <2>1, <3>2 DEF InStep
  <2> QED
    BY <1>2, <2>2, <2>3
<1>13. CASE s.pc = "read"
  <2>1. CASE s.choice = 0
    <3>0. ReadFrom(1, "write") /\ Path1(x)
      BY <1>1, <1>4, <1>13, <2>1 DEF InStep
    <3>1. Path2(x + PacketBytes) \/ (Path2(x) /\ x = Len(File) + PacketBytes)
      BY <1>13, <2>1 DEF InStep
    <3>2. /\ in1 # <<>> /\ Path1(x + PacketBytes)' /\ UNCHANGED in2
          /\ s' \in SwitchStates /\ Len(s'.packet) = PacketBytes
          /\ s'.pc = "write" /\ s'.byte_read = PacketBytes
          /\ Part(s'.packet, x, x + PacketBytes)
      BY <1>7, <3>0
    <3>3. Path2(x + PacketBytes)
      <4>1. x + PacketBytes <= Total /\ Total \in Nat
        BY <3>0, <3>2, Path1Bounds
      <4>2. x # Len(File) + PacketBytes
        BY <1>3, <1>11, <4>1
      <4> QED
        BY <3>1, <4>2
    <3>4. Path2(x + PacketBytes)'
      BY <1>10, <3>2, <3>3
    <3>5. s'.byte_read > 0
      BY <1>3, <3>2
    <3> QED
      BY <1>6, <3>2, <3>4, <3>5 DEF InStep
  <2>2. CASE s.choice = 1
    <3>1. ReadFrom(2, "write") /\ Path1(x + PacketBytes) /\ Path2(x)
      BY <1>1, <1>4, <1>13, <2>2 DEF InStep
    <3>2. x # Len(File) + PacketBytes
      <4>1. x + PacketBytes <= Total /\ Total \in Nat
        BY <3>1, Path1Bounds
      <4> QED
        BY <1>3, <1>11, <4>1
    <3>3. /\ Path2(x + PacketBytes)' /\ UNCHANGED in1
          /\ s' \in SwitchStates /\ Len(s'.packet) = PacketBytes
          /\ s'.pc = "write" /\ s'.byte_read = PacketBytes
          /\ Part(s'.packet, x, x + PacketBytes)
      BY <1>8, <3>1, <3>2
    <3>4. Path1(x + PacketBytes)'
      BY <1>9, <3>1, <3>3
    <3>5. s'.byte_read > 0
      BY <1>3, <3>3
    <3> QED
      BY <1>6, <3>3, <3>4, <3>5 DEF InStep
  <2> QED
    BY <1>2, <2>1, <2>2
<1> QED
  BY <1>1, <1>12, <1>13

LEMMA BeginsInStep ==
  ASSUME WholePackets, NEW x \in Nat, InStep(x), InputReceive
  PROVE  odd' \/ InStep(x)'
<1> SUFFICES ASSUME ~odd' PROVE InStep(x)'
  OBVIOUS
<1>1. /\ s.pc = "recv" /\ UNCHANGED <<in1, datagrams, toUdp, d, file, in2, partial, stream, toTcp,
                                     tcpDone, history>>
  BY DEF InputReceive, otherPaths, double, tcp
<1>2. \E c \in {0, 1} : s' = Received(s, c)
  <2>1. s.choice \in {0, 1}
    BY DEF InStep, SwitchStates
  <2>2. ASSUME NEW c \in InputChoices, s' = Received(s, c), odd' = (odd \/ c > 1)
        PROVE  c \in {0, 1}
    <3>1. c \in Nat /\ ~(c > 1)
      BY <2>2 DEF WholePackets
    <3> QED
      BY <3>1
  <2> QED
    BY <2>1, <2>2 DEF InputReceive
<1>3. /\ s' \in SwitchStates /\ s'.packet = s.packet /\ s'.pc = "discard"
  BY <1>2 DEF InStep, SwitchStates, Received
<1>4. Path1(x) /\ Path2(x)
  BY <1>1 DEF InStep
<1>5. Path1(x)' /\ Path2(x)'
  BY <1>1, <1>4, StaysOnPath1, StaysOnPath2
<1>6. PacketBefore(written, x)' /\ UNCHANGED <<written, writes>>
  BY <1>1 DEF InStep, PacketBefore, history
<1> QED
  BY <1>1, <1>3, <1>5, <1>6 DEF InStep

\* The packet that is written is the next one that both paths have brought.
LEMMA WritesInStep ==
  ASSUME WholePackets, NEW x \in Nat, InStep(x), InputWrite, ~odd
  PROVE  InStep(x + PacketBytes)'
<1>1. /\ s.pc = "write" /\ Path1(x + PacketBytes) /\ Path2(x + PacketBytes)
      /\ s.byte_read > 0 /\ Part(s.packet, x, x + PacketBytes) /\ s' = RoundEnds(s)
      /\ written' = s.packet /\ writes' = writes + 1
      /\ UNCHANGED <<in1, datagrams, toUdp, d, file, in2, partial, stream, toTcp, tcpDone>>
  BY DEF InputWrite, InStep, otherPaths, double, tcp
<1>2. /\ s \in SwitchStates /\ Len(s.packet) = PacketBytes /\ s.packet \in Seq(Bytes)
      /\ writes \in Nat /\ writes * PacketBytes = x /\ PacketBytes \in Nat \ {0}
  BY PlayoutAssumption DEF InStep, SwitchStates
<1>3. s' \in SwitchStates /\ s'.packet = s.packet /\ s'.pc = "recv"
  BY <1>1, <1>2 DEF SwitchStates, RoundEnds
<1>4. Path1(x + PacketBytes)' /\ Path2(x + PacketBytes)'
  BY <1>1, StaysOnPath1, StaysOnPath2
<1>5. PacketBefore(written, x + PacketBytes)'
  <2>1. x + PacketBytes # 0 /\ (x + PacketBytes) - PacketBytes = x
    BY <1>2
  <2>2. Part(written', x, x + PacketBytes)
    BY <1>1
  <2> QED
    BY <2>1, <2>2 DEF PacketBefore
<1>6. writes' \in Nat /\ writes' * PacketBytes = x + PacketBytes
  BY <1>1, <1>2
<1> QED
  BY <1>1, <1>2, <1>3, <1>4, <1>5, <1>6 DEF InStep

\* What was written when the inputs are in step.
LEMMA SeamHolds ==
  ASSUME WholePackets, Source, NEW x \in Nat, InStep(x), writes > 0
  PROVE  /\ (writes - 1) * PacketBytes <= Len(File)
         /\ Timer!IsWhole(written)
         /\ written[1].of = IF writes * PacketBytes <= Len(File) THEN writes ELSE writes - 1
<1>1. /\ written \in Seq(Bytes) /\ Len(written) = PacketBytes /\ PacketBefore(written, x)
      /\ writes \in Nat \ {0} /\ writes * PacketBytes = x
      /\ Path1(x) \/ Path1(x + PacketBytes)
  BY DEF InStep
<1>2. /\ PacketBytes \in Nat \ {0} /\ Len(File) \in Nat /\ File \in Seq(Bytes)
      /\ Len(File) > 0 /\ Whole(Len(File))
  BY PlayoutAssumption DEF WholePackets
<1>3. x <= Len(File) + PacketBytes
  <2>1. Total \in Nat /\ x <= Total
    BY <1>1, <1>2, Path1Bounds
  <2> QED
    BY <1>2, <2>1 DEF Source
<1>4. PICK q \in Nat : q = writes - 1
  BY <1>1
<1>5. PICK z \in Nat : z = q * PacketBytes
  BY <1>2
<1>6. z + PacketBytes = x /\ z <= Len(File) /\ Whole(z) /\ x # 0
  <2>1. (q + 1) * PacketBytes = q * PacketBytes + PacketBytes
    BY <1>2
  <2>2. z + PacketBytes = x
    BY <1>1, <1>4, <1>5, <2>1
  <2> QED
    BY <1>2, <1>3, <1>5, <2>2 DEF Whole
<1>7. /\ written \in Seq(Bytes) /\ Len(written) = PacketBytes
      /\ \A k \in 1..PacketBytes : written[k] = StreamAt(z + k)
  <2>1. x - PacketBytes = z
    BY <1>2, <1>6
  <2>2. Part(written, z, x)
    BY <1>1, <1>6, <2>1 DEF PacketBefore
  <2> QED
    BY <1>1, <2>2 DEF Part
<1>8. (writes - 1) * PacketBytes <= Len(File)
  BY <1>4, <1>5, <1>6
\* The bytes of the packet n + 1 of the stream.
<1>9. ASSUME NEW n \in Nat, NEW y \in Nat, y = n * PacketBytes, y + PacketBytes <= Len(File),
             NEW k \in 1..PacketBytes
      PROVE  y + k <= Len(File) /\ File[y + k] = [of |-> n + 1, at |-> k]
  <2>1. y + k <= Len(File) /\ y + k \in DOMAIN File
    BY <1>2, <1>9
  <2> QED
    BY <1>9, <2>1 DEF WholePackets
<1>10. ASSUME NEW n \in Nat, \A k \in 1..PacketBytes : written[k] = [of |-> n, at |-> k]
       PROVE  Timer!IsWhole(written) /\ written[1].of = n
  <2>1. 1 \in 1..PacketBytes
    BY <1>2
  <2>2. ASSUME NEW k \in 1..PacketBytes PROVE written[k].of = n /\ written[k].at = k
    <3>1. written[k] = [of |-> n, at |-> k]
      BY <1>10
    <3> QED
      BY <3>1
  <2>3. written[1].of = n
    BY <2>1, <2>2
  <2> QED
    BY <2>2, <2>3 DEF Timer!IsWhole
<1>11. CASE x <= Len(File)
  <2>1. ASSUME NEW k \in 1..PacketBytes PROVE written[k] = [of |-> q + 1, at |-> k]
    <3>1. z + k <= Len(File) /\ File[z + k] = [of |-> q + 1, at |-> k]
      BY <1>5, <1>6, <1>9, <1>11
    <3> QED
      BY <1>7, <3>1 DEF StreamAt
  <2>2. q + 1 = writes
    BY <1>1, <1>4
  <2> QED
    BY <1>1, <1>8, <1>10, <1>11, <2>1, <2>2
<1>12. CASE ~(x <= Len(File))
  <2>1. z = Len(File)
    <3>1. Whole(Len(File) - z)
      BY <1>2, <1>6, WholeNumbers
    <3>2. Len(File) - z < PacketBytes /\ Len(File) - z >= 0
      BY <1>2, <1>6, <1>12
    <3>3. ~(Len(File) - z > 0)
      BY <1>2, <3>1, <3>2, WholeNumbers
    <3> QED
      BY <1>2, <1>6, <3>3
  <2>2. PICK m \in Nat : q = m + 1
    <3>1. q # 0
      BY <1>2, <1>5, <2>1
    <3>2. q - 1 \in Nat /\ q = (q - 1) + 1
      BY <3>1
    <3> QED
      BY <3>2
  <2>3. PICK y \in Nat : y = m * PacketBytes
    BY <1>2
  <2>4. y + PacketBytes = Len(File)
    <3>1. (m + 1) * PacketBytes = m * PacketBytes + PacketBytes
      BY <1>2
    <3> QED
      BY <1>5, <2>1, <2>2, <2>3, <3>1
  <2>5. ASSUME NEW k \in 1..PacketBytes PROVE written[k] = [of |-> q, at |-> k]
    <3>1. StreamAt(z + k) = File[z + k - PacketBytes]
      BY <1>2, <2>1 DEF StreamAt
    <3>2. z + k - PacketBytes = y + k
      BY <1>2, <2>1, <2>4
    <3>3. File[y + k] = [of |-> m + 1, at |-> k]
      BY <1>2, <1>9, <2>3, <2>4
    <3> QED
      BY <1>7, <2>2, <3>1, <3>2, <3>3
  <2>6. Timer!IsWhole(written) /\ written[1].of = q
    BY <1>10, <2>5
  <2> QED
    BY <1>1, <1>4, <1>8, <1>12, <2>6
<1> QED
  BY <1>11, <1>12

LEMMA SourceStays ==
  ASSUME Source, UNCHANGED <<d, file>>
  PROVE  Source'
BY DEF Source, Total, PacketBefore

LEMMA PathsKeepStep ==
  ASSUME WholePackets, SwitchInv, Paths
  PROVE  SwitchInv'
<1>1. Source
  BY DEF SwitchInv
<1>2. CASE Double \/ UdpSend \/ UdpEnd \/ TcpSend \/ TcpEnd \/ UdpReceive \/ TcpReceive
  <2>1. /\ Source' /\ UNCHANGED <<s, history, odd>>
        /\ \A y : (Path1(y) => Path1(y)') /\ (Path2(y) => Path2(y)')
    BY <1>1, <1>2, NetworkLeads
  <2>2. ASSUME NEW x \in Nat, InStep(x) PROVE InStep(x)'
    BY <2>1, <2>2, OthersKeepStep
  <2> QED
    BY <2>1, <2>2 DEF SwitchInv
<1>3. CASE InputReceive
  <2>1. UNCHANGED <<d, file>> /\ (odd => odd')
    <3>1. UNCHANGED <<d, file>>
      BY <1>3 DEF InputReceive, otherPaths, double
    <3>2. odd' = odd \/ \E c \in InputChoices : odd' = (odd \/ c > 1)
      BY <1>3 DEF InputReceive
    <3>3. odd => odd'
      BY <3>2, Zenon
    <3> QED
      BY <3>1, <3>3
  <2>2. ASSUME NEW x \in Nat, InStep(x) PROVE odd' \/ InStep(x)'
    BY <1>3, <2>2, BeginsInStep
  <2> QED
    BY <1>1, <2>1, <2>2, SourceStays DEF SwitchInv
<1>4. CASE InputRead
  <2>1. UNCHANGED <<d, file, odd>>
    BY <1>4 DEF InputRead, otherPaths, double
  <2>2. ASSUME NEW x \in Nat, InStep(x) PROVE InStep(x)'
    BY <1>1, <1>4, <2>2, ReadsInStep
  <2> QED
    BY <1>1, <2>1, <2>2, SourceStays DEF SwitchInv
<1>5. CASE InputWrite
  <2>1. UNCHANGED <<d, file, odd>>
    BY <1>5 DEF InputWrite, otherPaths, double
  <2>2. Source'
    BY <1>1, <2>1, SourceStays
  <2>3. CASE odd
    BY <2>1, <2>2, <2>3 DEF SwitchInv
  <2>4. CASE ~odd
    <3>1. PICK x \in Nat : InStep(x)
      BY <2>4 DEF SwitchInv
    <3>2. PICK y \in Nat : y = x + PacketBytes
      BY PlayoutAssumption
    <3>3. InStep(y)'
      BY <1>5, <2>4, <3>1, <3>2, WritesInStep
    <3> QED
      BY <2>2, <3>3 DEF SwitchInv
  <2> QED
    BY <2>3, <2>4
<1>6. CASE Lose
  <2>1. UNCHANGED <<d, file>> /\ odd' = TRUE
    BY <1>6 DEF Lose, double
  <2> QED
    BY <1>1, <2>1, SourceStays DEF SwitchInv
<1>7. CASE UNCHANGED otherThanTime
  <2>1. /\ UNCHANGED <<d, file, s, history, odd, in1, datagrams, toUdp, in2, partial, stream,
                       toTcp, tcpDone>>
    BY <1>7 DEF otherThanTime, double, tcp
  <2>2. \A y : (Path1(y) => Path1(y)') /\ (Path2(y) => Path2(y)')
    BY <2>1, StaysOnPath1, StaysOnPath2
  <2>3. ASSUME NEW x \in Nat, InStep(x) PROVE InStep(x)'
    BY <2>1, <2>2, <2>3, OthersKeepStep
  <2> QED
    BY <1>1, <2>1, <2>3, SourceStays DEF SwitchInv
<1> QED
  BY <1>2, <1>3, <1>4, <1>5, <1>6, <1>7 DEF Paths

LEMMA StutterKeepsStep ==
  ASSUME SwitchInv,
         UNCHANGED <<d, file, s, history, odd, in1, datagrams, toUdp, in2, partial, stream,
                     toTcp, tcpDone>>
  PROVE  SwitchInv'
<1>1. \A y : (Path1(y) => Path1(y)') /\ (Path2(y) => Path2(y)')
  BY StaysOnPath1, StaysOnPath2
<1>2. ASSUME NEW x \in Nat, InStep(x) PROVE InStep(x)'
  BY <1>1, <1>2, OthersKeepStep
<1> QED
  BY <1>2, SourceStays DEF SwitchInv

\* As long as nothing is lost on the way and only choices that read both inputs are made,
\* tsinputswitch changes from one path to the other without a packet missing, repeated or
\* mixed, until the last packet that is written once more at the end: for any packet size and
\* stream, datagrams of any number of packets, and whatever pieces the bytes come in over the
\* connection.
THEOREM Seamless ==
  ASSUME WholePackets
  PROVE  Spec => []SeamlessSwitch
<1> DEFINE Inv == IF setup = "paths" THEN SwitchInv ELSE writes = 0
<1>1. Init => Inv
  BY SeamStarts DEF Init
<1>2. ASSUME Inv, [Next]_vars PROVE Inv'
  <2>1. CASE PathsStep
    <3>1. setup = "paths" /\ setup' = setup /\ Paths
      BY <2>1 DEF PathsStep
    <3> QED
      BY <1>2, <3>1, PathsKeepStep
  <2>2. CASE LiveStep \/ TimerStep \/ OutputStep \/ \E i \in {1, 2} : ReaderStep(i)
    <3>1. setup' = setup /\ setup = "timeout" /\ writes' = writes
      BY <2>2 DEF LiveStep, TimerStep, OutputStep, ReaderStep, otherThanDouble, paths, history
    <3> QED
      BY <1>2, <3>1
  <2>3. CASE UNCHANGED vars
    <3>1. /\ setup' = setup /\ writes' = writes
          /\ UNCHANGED <<d, file, s, history, odd, in1, datagrams, toUdp, in2, partial, stream,
                         toTcp, tcpDone>>
      BY <2>3 DEF vars, paths, double, tcp, history
    <3> QED
      BY <1>2, <3>1, StutterKeepsStep
  <2> QED
    BY <1>2, <2>1, <2>2, <2>3 DEF Next
<1>3. Inv => SeamlessSwitch
  <2>1. ASSUME Inv, ~odd, writes > 0
        PROVE  Source /\ \E x \in Nat : InStep(x)
    <3>1. CASE setup = "paths"
      BY <2>1, <3>1 DEF SwitchInv
    <3>2. CASE setup # "paths"
      BY <2>1, <3>2
    <3> QED
      BY <3>1, <3>2
  <2> HIDE DEF Inv
  <2> QED
    BY <2>1, SeamHolds DEF SeamlessSwitch
<1> HIDE DEF Inv
<1>4. Inv /\ [Next]_vars => Inv'
  BY <1>2
<1> QED
  BY <1>1, <1>3, <1>4, PTL DEF Spec

=============================================================================
