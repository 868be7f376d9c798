------------------------------- MODULE Playout -------------------------------
(***************************************************************************)
(* How streams leave the headend, in two set-ups.  In "paths" a stream is  *)
(* sent along two paths and taken from one of them:                        *)
(*                                                                         *)
(*   tsdoubleoutput --> tsudpsend --> tsudpreceive --> tsinputswitch       *)
(*                  --> tstcpsend --> tstcpreceive -->                     *)
(*                                                                         *)
(* In "timeout" a live input is replaced by a backup while it is silent,   *)
(* and goes to one of two outputs:                                         *)
(*                                                                         *)
(*   tstimeout --> tsoutputswitch                                          *)
(***************************************************************************)
EXTENDS Switches

CONSTANTS
  Setups,      \* the set-ups that are looked at
  File,        \* the bytes of the stream
  UdpSize, TcpSize, Bitrate, Word,  \* of tsudpsend and tstcpsend
  BackupFile, Unset,
  PipeBytes,   \* the room of a pipe
  InputChoices, OutputChoices,  \* what the operator sends to the switches
  MaxTime,     \* bound: the time at which the clock stops
  MaxFaults,   \* bound: datagrams lost and settings of the clock
  MaxChoices   \* bound: how often the operator changes a choice

VARIABLES
  setup,
  clock, latest, early,     \* the clock; history: the latest time shown since the start,
                            \* and whether it was ever before it
  file, d, toUdp, toTcp,    \* tsdoubleoutput and its two fifos
  udpStart, udpTime, udpDone, udpSent,  \* tsudpsend
  tcpStart, tcpTime, tcpDone, tcpSent,  \* tstcpsend
  datagrams,                \* on the network
  stream, partial,          \* bytes on the connection; ts_packet of tstcpreceive
  in1, in2, s,              \* tsinputswitch and its inputs
  written, writes,          \* history: the last packet it wrote, and which one that was,
                            \* until the paths are out of step
  faults, choices, odd,     \* bounds; history: the paths were put out of step
  live, liveEnded, packet, index, stable, backupAt, aired, cut, stray,  \* tstimeout
  o, readers, beat          \* tsoutputswitch, what the reader of each of its fifos does, and
                            \* a bit that changes whenever a packet is written

double == <<file, d>>
udp == <<udpStart, udpTime, udpDone, udpSent>>
tcp == <<tcpStart, tcpTime, tcpDone, tcpSent>>
time == <<clock, latest, early>>
timeout == <<live, liveEnded, packet, index, stable, backupAt, cut, stray>>
outputs == <<o, readers, beat>>
history == <<written, writes>>
paths == <<time, double, toUdp, toTcp, udp, tcp, datagrams, stream, partial, in1, in2, s,
           history, odd>>
vars == <<setup, paths, faults, choices, timeout, aired, outputs>>

DoubleDone == ~d.byte_read
UdpSender == INSTANCE PacedSender WITH Size <- UdpSize, start <- udpStart, from <- toUdp,
  fromEnded <- DoubleDone, packetTime <- udpTime, completed <- udpDone, sent <- udpSent
TcpSender == INSTANCE PacedSender WITH Size <- TcpSize, start <- tcpStart, from <- toTcp,
  fromEnded <- DoubleDone, packetTime <- tcpTime, completed <- tcpDone, sent <- tcpSent
Timer == INSTANCE TsTimeout

ASSUME PlayoutAssumption ==
  /\ UdpSender!SenderAssumption /\ TcpSender!SenderAssumption
  /\ PacketBytes \in Nat \ {0}

NoPacket == [k \in 1..PacketBytes |-> Unset]

Init ==
  /\ setup \in Setups
  /\ clock = 1 /\ latest = 0 /\ early = FALSE
  /\ file = File /\ d = DoubleInit(NoPacket) /\ toUdp = <<>> /\ toTcp = <<>>
  /\ UdpSender!SenderInit /\ TcpSender!SenderInit
  /\ datagrams = <<>> /\ stream = <<>> /\ partial = <<>>
  /\ in1 = <<>> /\ in2 = <<>> /\ s = InputInit(NoPacket)
  /\ written = NoPacket /\ writes = 0
  /\ faults = 0 /\ choices = 0 /\ odd = FALSE
  /\ Timer!TimeoutInit /\ live = <<>> /\ liveEnded = FALSE /\ aired = <<>>
  /\ o = OutputInit(NoPacket) /\ readers = [i \in {1, 2} |-> "reads"] /\ beat = FALSE

Fits(pipe) == Len(pipe) <= PipeBytes

-----------------------------------------------------------------------------
(* The two paths.                                                            *)

\* A round of tsdoubleoutput.
Double ==
  /\ d.byte_read
  /\ d' = DoubleRead(d, file) /\ file' = After(file)
  /\ toUdp' = toUdp \o d'.packet /\ toTcp' = toTcp \o d'.packet
  /\ Fits(toUdp') /\ Fits(toTcp')
  /\ UNCHANGED <<time, udp, tcp, datagrams, stream, partial, in1, in2, s, history, odd>>

UdpSend ==
  /\ UdpSender!SendChunk
  /\ datagrams' = Append(datagrams, UdpSender!Chunk)
  /\ UNCHANGED <<time, double, toTcp, tcp, stream, partial, in1, in2, s, history, odd>>
UdpEnd ==
  /\ UdpSender!SendEnd
  /\ UNCHANGED <<time, double, toTcp, tcp, datagrams, stream, partial, in1, in2, s, history,
                 odd>>
TcpSend ==
  /\ TcpSender!SendChunk
  /\ stream' = stream \o TcpSender!Chunk /\ Fits(stream')
  /\ UNCHANGED <<time, double, toUdp, udp, datagrams, partial, in1, in2, s, history, odd>>
TcpEnd ==
  /\ TcpSender!SendEnd
  /\ UNCHANGED <<time, double, toUdp, udp, datagrams, stream, partial, in1, in2, s, history,
                 odd>>

\* tsudpreceive writes each datagram as it is.
UdpReceive ==
  /\ datagrams # <<>> /\ datagrams' = Tail(datagrams)
  /\ in1' = in1 \o Head(datagrams) /\ Fits(in1')
  /\ UNCHANGED <<time, double, toUdp, toTcp, udp, tcp, stream, partial, in2, s, history, odd>>

\* tstcpreceive: recv returns some of what is there, and the packets that are full are
\* written.
FullBytesRounded(bytes) == Len(bytes)  \* mutated: what was received is written
FullBytes(bytes) == (Len(bytes) \div PacketBytes) * PacketBytes
TcpReceive ==
  \E n \in 1..Len(stream) :
    LET bytes == partial \o SubSeq(stream, 1, n)
    IN  /\ in2' = in2 \o SubSeq(bytes, 1, FullBytes(bytes)) /\ Fits(in2')
        /\ partial' = SubSeq(bytes, FullBytes(bytes) + 1, Len(bytes))
        /\ stream' = SubSeq(stream, n + 1, Len(stream))
        /\ UNCHANGED <<time, double, toUdp, toTcp, udp, tcp, datagrams, in1, s, history, odd>>

\* tsinputswitch: tsudpreceive never ends, tstcpreceive does with the connection.
In1Ended == FALSE
In2Ended == tcpDone /\ stream = <<>>

otherPaths == <<time, double, toUdp, toTcp, udp, tcp, datagrams, stream, partial>>
InputReceive ==
  /\ s.pc = "recv"
  /\ \/ s' = Received(s, s.choice) /\ UNCHANGED <<choices, odd>>
     \/ /\ choices < MaxChoices /\ choices' = choices + 1
        /\ \E c \in InputChoices : s' = Received(s, c) /\ odd' = (odd \/ c > 1)
  /\ UNCHANGED <<otherPaths, in1, in2, history>>

\* The reads of a round: the input that is thrown away, then the other.
ReadFrom(input, pc) ==
  \/ input = 1 /\ CanRead(in1, In1Ended) /\ s' = HasRead(s, in1, pc)
     /\ in1' = After(in1) /\ UNCHANGED in2
  \/ input = 2 /\ CanRead(in2, In2Ended) /\ s' = HasRead(s, in2, pc)
     /\ in2' = After(in2) /\ UNCHANGED in1
  \/ input = 0 /\ s' = Skips(s, pc) /\ UNCHANGED <<in1, in2>>
InputRead ==
  /\ \/ s.pc = "discard" /\ ReadFrom(Discarded(s.choice), "read")
     \/ s.pc = "read" /\ ReadFrom(Wanted(s.choice), "write")
  /\ UNCHANGED <<otherPaths, history, choices, odd>>
InputWrite ==
  /\ s.pc = "write"
  /\ s' = RoundEnds(s)
  /\ IF s.byte_read > 0
     THEN written' = s.packet /\ writes' = IF odd THEN writes ELSE writes + 1
     ELSE UNCHANGED history
  /\ UNCHANGED <<otherPaths, in1, in2, choices, odd>>

\* A datagram is lost.
Lose ==
  /\ datagrams # <<>> /\ faults < MaxFaults /\ faults' = faults + 1
  /\ datagrams' = Tail(datagrams)
  /\ odd' = TRUE
  /\ UNCHANGED <<time, double, toUdp, toTcp, udp, tcp, stream, partial, in1, in2, s, history>>

\* The clock goes on, or is set back.
Tick ==
  /\ clock < MaxTime /\ clock' = clock + 1
  /\ latest' = IF clock - udpStart < latest THEN latest ELSE clock' - udpStart
  /\ UNCHANGED early
SetBack ==
  /\ faults < MaxFaults /\ faults' = faults + 1
  /\ clock' \in 0..(clock - 1)
  /\ early' = (early \/ clock' < udpStart) /\ UNCHANGED latest
otherThanTime == <<double, toUdp, toTcp, udp, tcp, datagrams, stream, partial, in1, in2, s,
                   history, odd>>

Paths ==
  \/ (Double \/ UdpSend \/ UdpEnd \/ TcpSend \/ TcpEnd \/ UdpReceive \/ TcpReceive)
     /\ UNCHANGED <<faults, choices>>
  \/ (InputReceive \/ InputRead \/ InputWrite) /\ UNCHANGED faults
  \/ Lose /\ UNCHANGED choices
  \/ Tick /\ UNCHANGED <<otherThanTime, faults, choices>>
  \/ SetBack /\ UNCHANGED <<otherThanTime, choices>>

-----------------------------------------------------------------------------
(* The live input and the outputs.                                           *)

\* The source of the live input writes the bytes of File as they come, and may stop.
LiveWrite ==
  /\ ~liveEnded /\ file # <<>> /\ Fits(Append(live, Head(file)))
  /\ live' = Append(live, Head(file)) /\ file' = Tail(file)
  /\ UNCHANGED <<d, liveEnded, packet, index, stable, backupAt, cut, stray, aired>>
LiveEnd ==
  /\ liveEnded' = TRUE
  /\ UNCHANGED <<double, live, packet, index, stable, backupAt, cut, stray, aired>>
TimeoutStep ==
  /\ Timer!TimeoutNext /\ Fits(aired')
  /\ UNCHANGED double

OutputReceive ==
  /\ o.pc = "recv"
  /\ \/ o' = NewChoice(o, o.new_choice) /\ UNCHANGED choices
     \/ /\ choices < MaxChoices /\ choices' = choices + 1
        /\ \E c \in OutputChoices : o' = NewChoice(o, c)
  /\ UNCHANGED <<readers, beat, aired>>
OutputRead ==
  /\ o.pc = "read" /\ CanRead(aired, FALSE)
  /\ o' = ReadPacket(o, aired) /\ aired' = After(aired)
  /\ UNCHANGED <<readers, beat, choices>>

\* A fifo is closed and opened again; open waits while nobody has the fifo open for reading,
\* or waits for it to be opened for writing.
Close(pc, next) ==
  /\ o.pc = pc /\ o' = Reopening(o, next)
  /\ UNCHANGED <<readers, beat, aired, choices>>
Open(i, pc, opened) ==
  /\ o.pc = pc /\ readers[i] # "gone"
  /\ o' = opened /\ readers' = [readers EXCEPT ![i] = IF @ = "waits" THEN "reads" ELSE @]
  /\ UNCHANGED <<beat, aired, choices>>

\* A reader that reads while the fifo is closed sees the end of it, and leaves.  It may still
\* be there, or see nothing at all, when the fifo is opened again at once.  The next one waits
\* when the fifo is closed.
ClosedFifo == CASE o.pc = "open1" -> {1} [] o.pc = "open2" -> {2} [] OTHER -> {}
ReaderMoves(i) ==
  /\ \/ readers[i] = "reads" /\ i \in ClosedFifo /\ readers' = [readers EXCEPT ![i] = "leaves"]
     \/ readers[i] = "leaves" /\ readers' = [readers EXCEPT ![i] = "gone"]
     \/ /\ readers[i] = "gone"
        /\ readers' = [readers EXCEPT ![i] = IF i \in ClosedFifo THEN "waits" ELSE "reads"]
  /\ UNCHANGED <<o, beat, aired, choices>>

\* Writing to a fifo that nobody has open for reading kills the switch with SIGPIPE.
OutputWrite ==
  /\ o.pc = "write"
  /\ IF \E i \in OutputsOf(o.choice) : readers[i] = "gone"
     THEN o' = Killed(o) /\ UNCHANGED beat
     ELSE /\ o' = Written(o)
          /\ beat' = IF OutputsOf(o.choice) # {} THEN ~beat ELSE beat
  /\ UNCHANGED <<readers, aired, choices>>

Outputs ==
  \/ OutputReceive \/ OutputRead \/ OutputWrite
  \/ Close("close1", "open1")
  \/ Open(1, "open1", Reopening(o, "close2"))
  \/ Close("close2", "open2")
  \/ Open(2, "open2", Reopened(o))

-----------------------------------------------------------------------------
PathsStep == setup = "paths" /\ Paths /\ UNCHANGED <<setup, timeout, aired, outputs>>
otherThanDouble == <<time, toUdp, toTcp, udp, tcp, datagrams, stream, partial, in1, in2, s,
                     history, odd>>
LiveStep ==
  /\ setup = "timeout" /\ (LiveWrite \/ LiveEnd)
  /\ UNCHANGED <<setup, otherThanDouble, faults, choices, outputs>>
TimerStep ==
  /\ setup = "timeout" /\ TimeoutStep
  /\ UNCHANGED <<setup, otherThanDouble, faults, choices, outputs>>
OutputStep ==
  /\ setup = "timeout" /\ Outputs
  /\ UNCHANGED <<setup, paths, faults, timeout>>
ReaderStep(i) ==
  /\ setup = "timeout" /\ ReaderMoves(i)
  /\ UNCHANGED <<setup, paths, faults, timeout>>

Next == PathsStep \/ LiveStep \/ TimerStep \/ OutputStep \/ \E i \in {1, 2} : ReaderStep(i)

\* The tools go on when they can; a reader that saw the end leaves, and someone opens the fifo
\* for reading again.
Fairness ==
  /\ WF_vars(TimerStep) /\ WF_vars(OutputStep)
  /\ \A i \in {1, 2} : WF_vars(ReaderStep(i))

Spec == Init /\ [][Next]_vars /\ Fairness

-----------------------------------------------------------------------------
(* Properties.                                                              *)

\* tsudpsend and tstcpsend never send more than a packet ahead of their bitrate, by the
\* latest time that the clock has shown, unless it was set to before the start.
NeverTooFast == early \/ (UdpSender!PacedBy(latest) /\ TcpSender!PacedBy(latest))

\* While nothing is lost on the way and only choices that read both inputs are made, the
\* packet that the switch writes as its n-th is the n-th of the stream, or at the end its last
\* one once more: however the choice changes, none is missing, repeated or mixed.
SeamlessSwitch ==
  ~odd /\ writes > 0 =>
    /\ (writes - 1) * PacketBytes <= Len(File)
    /\ Timer!IsWhole(written)
    /\ written[1].of = IF writes * PacketBytes <= Len(File) THEN writes ELSE writes - 1

\* tstimeout.
OnlyTimeoutsMixPackets == Timer!OnlyTimeoutsMixPackets

\* As long as the live input is open, however silent, packets go out again and again to an
\* output, across every change of the outputs, unless a reader that saw one of them closed
\* left only after it had been opened again.
StaysOnAir ==
  setup = "timeout" =>
    (<>liveEnded \/ <>(o.pc = "killed") \/ []<><<beat' # beat>>_vars)

=============================================================================
