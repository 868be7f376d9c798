----------------------------- MODULE PesVideo2Ts -----------------------------
(***************************************************************************)
(* tools/pesvideo2ts: puts the PES packets of its input files, one after   *)
(* the other and again and again, in transport stream packets, emulates    *)
(* the video buffer of the receiver and holds the stream back with null    *)
(* packets while there is no room in it, and adds the PCR.                 *)
(***************************************************************************)
EXTENDS EsVideo2Pes, PesPackets

CONSTANTS
  VbvMax,      \* vbv_max
  Period,      \* packets sent in the time of a frame
  PcrPackets,  \* packets sent in PCR_DELTA
  WrapPackets, \* packets sent until the PCR wraps
  MaxOpens     \* bound: how often a file is opened again

ASSUME VideoAssumption ==
  /\ VbvMax \in Nat /\ Room <= VbvMax
  /\ Period \in Nat /\ PcrPackets \in Nat /\ WrapPackets \in Nat /\ MaxOpens \in Nat

\* The size of look_ahead_buffer, which is that of a header with a DTS.
LookAhead == 2

VARIABLES
  files,     \* the command line: records of whether it is a fifo and of its PES packets
  loopOn,    \* loop_on
  open,      \* open_counter: the file that is read, counted from 1
  at,        \* how much of it was read
  drained,   \* fifos that were read to their end
  opens,     \* bound: how often a file was opened again
  look,      \* look_ahead_buffer
  byteRead,  \* byte_read > 0, the last time
  data,      \* the payload of ts_packet
  pusi,      \* its payload_unit_start_indicator
  toSend,    \* packets that are to be sent before the loop goes on, with their es_payload
  es,        \* es_input_bytes, its old value and last_frame_index
  m,         \* the buffer of the receiver, and the clock: see Model
  c,         \* pts_index, pts and pts_delta
  sent,      \* the packets written in this step
  pc

videoVars == <<files, loopOn, open, at, drained, opens, look, byteRead, data, pusi, toSend, es,
               m, c, sent, pc>>

\* Packets without anything of the stream.
NullPacket == TsPacket(FALSE, 1, <<>>)
PcrPacket == TsPacket(FALSE, 2, <<>>)

\* What main starts with, after the first PCR packet and the first read.
VideoInit ==
  /\ open = 1 /\ at = LookAhead /\ drained = {} /\ opens = 0
  /\ look = SubSeq(files[1].pes, 1, LookAhead) /\ byteRead = TRUE
  /\ data = <<>> /\ pusi = TRUE /\ toSend = <<>>
  /\ es = [input |-> LookAhead, old |-> 0, last |-> 0]
  /\ m = [out |-> 1, old_pcr |-> 0, frames |-> FALSE, first |-> 0, popped |-> 0,
          queue |-> <<>>, vbv |-> 0]
  /\ c = [index |-> 0, pts |-> 0, delta |-> 0]
  /\ sent = <<PcrPacket>> /\ pc = "head"

-----------------------------------------------------------------------------
(* The buffer of the receiver.  out: ts_output_bytes, in packets; frames: a   *)
(* header was seen; first: first_frame_ts_size; popped: last_frame_popped;    *)
(* queue: the sizes of frames that were read; vbv: vbv_current_size.          *)

Pop(b) == IF b.queue = <<>> THEN b
          ELSE [b EXCEPT !.vbv = @ - Head(b.queue), !.queue = Tail(@)]

\* When the next frame leaves the buffer.
NextPop(b) == b.first + Period * (b.popped + 1)

\* The first frame leaves at once, the others after their period, or are missed.
Tick(b) ==
  IF ~b.frames THEN b
  ELSE IF b.popped = 0 /\ b.queue # <<>> THEN [Pop(b) EXCEPT !.popped = 1]
  ELSE IF b.out >= NextPop(b) THEN [Pop(b) EXCEPT !.popped = @ + 1]
  ELSE b

\* The PCR wraps, and the counters with it.
WrappedAlone(b) ==  \* mutated: the time of the next frame stays
  IF b.out < WrapPackets THEN b ELSE [b EXCEPT !.out = @ - WrapPackets]
Wrapped(b) ==
  IF b.out < WrapPackets THEN b
  ELSE Tick([b EXCEPT !.out = @ - WrapPackets, !.popped = 1,
                      !.first = NextPop(b) - WrapPackets - 2 * Period])

PcrDue(b) == b.out + 1 - b.old_pcr > PcrPackets

\* After each packet: the buffer, a PCR packet when it is time for it, the buffer.
Controlled(b) ==
  LET t == Tick(b)
      w == Wrapped(t).out + 1
  IN  IF PcrDue(t) THEN Tick([Wrapped(t) EXCEPT !.out = w, !.old_pcr = w]) ELSE Tick(t)
PcrAfter(b) == IF PcrDue(Tick(b)) THEN <<PcrPacket>> ELSE <<>>

\* There is no room for one more packet.
NoRoomAfterwards(b) == b.vbv > VbvMax  \* mutated: there is none for what was sent
NoRoom(b) == b.vbv + Room > VbvMax

-----------------------------------------------------------------------------
(* The times in the headers.                                                  *)

TimeOf(d) == IF d[1].both THEN d[2].dts ELSE d[1].pts

\* mutated: all frames keep their times
TimesFromFile(d) == [index |-> 1, pts |-> TimeOf(d), delta |-> 0]

\* restamp_ptsdts_and_output: the first two frames of all keep their times, and the others
\* follow at the same distance; a PTS stays as far from its DTS as it was.
Times(d) ==
  IF c.index = 0 THEN [c EXCEPT !.index = 1, !.pts = TimeOf(d)]
  ELSE IF c.index = 1
  THEN [index |-> 2, pts |-> TimeOf(d), delta |-> (TimeOf(d) - c.pts) % PtsMax]
  ELSE [c EXCEPT !.pts = @ + c.delta]
Restamped(d) ==
  IF c.index < 2 THEN d
  ELSE IF d[1].both
  THEN [d EXCEPT ![1].pts = (Times(d).pts + (d[1].pts - d[2].dts)) % PtsMax,
                 ![2].dts = Times(d).pts % PtsMax]
  ELSE [d EXCEPT ![1].pts = Times(d).pts % PtsMax]
Starts(d) == d # <<>> /\ d[1].kind = "pes"

-----------------------------------------------------------------------------
(* The loop.                                                                  *)

reader == <<files, loopOn, open, at, drained, opens>>

\* The packets of the payload, to be sent: the first counts es_payload bytes less those of
\* the second.
Sending(d) ==
  LET ps == Packets(pusi, d)
  IN  [k \in DOMAIN ps |->
         [packet |-> ps[k],
          es |-> IF k = Len(ps) /\ k > 1 THEN 1 ELSE es'.input - es.old - (Len(ps) - 1)]]

\* The look-ahead buffer is filled up, one token a round.
Look ==
  /\ pc = "look"
  /\ LET full == Len(look) = LookAhead
         some == at < Len(files[open].pes)
     IN  /\ byteRead' = (full \/ some)
         /\ IF ~full /\ some
            THEN /\ look' = Append(look, files[open].pes[at + 1]) /\ at' = at + 1
                 /\ es' = [es EXCEPT !.input = @ + 1]
            ELSE UNCHANGED <<look, at, es>>
         /\ pc' = IF ~full /\ ~some /\ loopOn THEN "next" ELSE "head"
  /\ sent' = <<>>
  /\ UNCHANGED <<files, loopOn, open, drained, opens, data, pusi, toSend, m, c>>

\* The next file is opened at the end of one, or the first again when there is none; a fifo
\* is not closed, and at its end there is nothing in it.
Opened(i) ==
  /\ open' = i
  /\ IF i \in drained'
     THEN byteRead' = FALSE /\ pc' = "ended" /\ UNCHANGED <<at, look, es>>
     ELSE /\ byteRead' = TRUE /\ pc' = "head" /\ at' = 1
          /\ look' = Append(look, files[i].pes[1]) /\ es' = [es EXCEPT !.input = @ + 1]
Missing ==
  /\ open' = 1 /\ byteRead' = FALSE /\ pc' = "ended"
  /\ UNCHANGED <<at, look, es>>
MayOpen(i) == i \in DOMAIN files /\ (files[i].fifo \/ opens < MaxOpens)
MayMiss(i) == ~(i \in DOMAIN files /\ files[i].fifo)
ClosedFifos == IF files[open].fifo THEN drained \cup {open} ELSE drained  \* left open
NextFile ==
  /\ pc = "next"
  /\ drained' = ClosedFifos
  /\ \/ MayOpen(open + 1) /\ Opened(open + 1)
     \/ MayMiss(open + 1) /\ ((MayOpen(1) /\ Opened(1)) \/ (MayMiss(1) /\ Missing))
  /\ opens' = IF opens < MaxOpens THEN opens + 1 ELSE opens
  /\ sent' = <<>>
  /\ UNCHANGED <<files, loopOn, data, pusi, toSend, m, c>>

\* A header: the size of the frame before is known, and its last packet is sent.
IsStart == Len(look) = LookAhead /\ look[1].kind = "pes"
HeaderSize == IF look[1].both THEN 2 ELSE 1
FindHeader ==
  /\ pc = "head"
  /\ IF ~IsStart
     THEN pc' = "fill" /\ UNCHANGED <<es, m, toSend, data, pusi>>
     ELSE LET input == es.input - HeaderSize
          IN  /\ es' = [input |-> input, last |-> input,
                        old |-> IF data = <<>> THEN es.old ELSE input]
              /\ m' = [m EXCEPT !.frames = TRUE,
                                !.queue = IF input > 0 THEN Append(@, input - es.last) ELSE @,
                                !.first = IF input > 0 /\ @ = 0 THEN m.out ELSE @]
              /\ toSend' = IF data = <<>> THEN <<>> ELSE Sending(data)
              /\ data' = <<>> /\ pusi' = TRUE
              /\ pc' = IF data = <<>> THEN "fill" ELSE "send"
  /\ sent' = <<>>
  /\ UNCHANGED <<reader, look, byteRead, c>>

\* A token goes to the packet, which is sent when it is full, or at the end.
Fill ==
  /\ pc = "fill"
  /\ LET moves == look # <<>> /\ (byteRead \/ ~loopOn)
         d == IF moves THEN Append(data, look[1]) ELSE data
         rest == IF moves THEN Tail(look) ELSE look
         send == d # <<>> /\ (Len(d) = Room \/ (~byteRead /\ rest = <<>>))
     IN  /\ look' = rest
         /\ data' = IF send THEN <<>> ELSE d
         /\ pusi' = (pusi /\ ~(send /\ Len(d) = Room))
         /\ es' = IF send THEN [es EXCEPT !.old = es.input] ELSE es
         /\ toSend' = IF send THEN Sending(d) ELSE <<>>
         /\ pc' = IF send THEN "send" ELSE IF byteRead \/ rest # <<>> THEN "look" ELSE "ended"
  /\ sent' = <<>>
  /\ UNCHANGED <<reader, byteRead, m, c>>

\* send_current_packet, up to the control of the buffer ...
Send ==
  /\ pc = "send"
  /\ LET p == Head(toSend).packet
         b == [m EXCEPT !.out = @ + 1, !.vbv = @ + Head(toSend).es]
     IN  /\ c' = IF Starts(p.data) THEN Times(p.data) ELSE c
         /\ sent' = <<[p EXCEPT !.data = IF Starts(@) THEN Restamped(@) ELSE @]>> \o PcrAfter(b)
         /\ m' = Controlled(b)
  /\ toSend' = Tail(toSend)
  /\ pc' = "nulls"
  /\ UNCHANGED <<reader, look, byteRead, data, pusi, es>>

\* ... which sends null packets until a frame has left it.
Null ==
  /\ pc = "nulls" /\ NoRoom(m)
  /\ LET b == [m EXCEPT !.out = @ + 1]
     IN  m' = Controlled(b) /\ sent' = <<NullPacket>> \o PcrAfter(b)
  /\ UNCHANGED <<reader, look, byteRead, data, pusi, toSend, es, c, pc>>
GoOn ==
  /\ pc = "nulls" /\ ~NoRoom(m)
  /\ pc' = IF toSend # <<>> THEN "send"
           ELSE IF IsStart THEN "fill"
           ELSE IF byteRead \/ look # <<>> THEN "look" ELSE "ended"
  /\ sent' = <<>>
  /\ UNCHANGED <<reader, look, byteRead, data, pusi, toSend, es, m, c>>

\* The fifos are opened again when the first file is one.  Without loop_on the outer loop
\* does nothing for ever, and the program never ends.
Reopen ==
  /\ pc = "ended" /\ loopOn /\ files[1].fifo /\ opens < MaxOpens
  /\ drained' = {} /\ at' = 0 /\ open' = 1
  /\ pc' = "look" /\ sent' = <<>>
  /\ UNCHANGED <<files, loopOn, opens, look, byteRead, data, pusi, toSend, es, m, c>>

VideoNext == Look \/ NextFile \/ FindHeader \/ Fill \/ Send \/ Null \/ GoOn \/ Reopen

=============================================================================
