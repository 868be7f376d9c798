------------------------------ MODULE Packaging ------------------------------
(***************************************************************************)
(* Elementary streams on their way to the multiplexer.  kind says which:   *)
(*                                                                         *)
(*   "video":  esvideo2pes --> files --> pesvideo2ts --> ts2pes --> pes2es *)
(*   "audio":  esaudio2pes --> files --> pesaudio2ts                       *)
(***************************************************************************)
EXTENDS PesVideo2Ts, FiniteSetsExt

CONSTANTS
  VideoFiles,  \* what pesvideo2ts is given: sequences of records of fifo and stream
  AudioFiles,  \* what pesaudio2ts is given, see there
  FramePackets, Held, Samples, SampleRate, PtsTime, PacketBits, VideoStep, FileOffset,
  MaxFiles     \* of pesaudio2ts

VARIABLES
  kind,
  taken,     \* history: the tokens of elementary streams that pesvideo2ts has read
  arrived,   \* history: what ts2pes and pes2es make of the packets written
  decoding,  \* history: the last decoding time that was written, or -1
  audio, file, k, named, packets, offset, number, index, left, frame, past,
  video      \* history: when the video starts that the audio file goes with

Audio == INSTANCE PesAudio2Ts

ASSUME PackagingAssumption ==
  /\ Audio!AudioAssumption
  /\ VideoFiles # {}
  /\ \A v \in VideoFiles : 1 \in DOMAIN v /\ \A i \in DOMAIN v : IsStream(v[i].stream)

audioVars == <<audio, file, k, named, packets, offset, number, index, left, frame, past>>
vars == <<kind, videoVars, taken, arrived, decoding, audioVars, video>>

Some(S) == CHOOSE x \in S : TRUE
FilesOf(v) == [i \in DOMAIN v |-> [fifo |-> v[i].fifo, stream |-> v[i].stream,
                                   pes |-> PesOf(v[i].stream)]]

Init ==
  /\ \/ kind = "video" /\ loopOn \in BOOLEAN /\ audio = Some(AudioFiles)
        /\ \E v \in VideoFiles : files = FilesOf(v)
     \/ kind = "audio" /\ loopOn = TRUE /\ audio \in AudioFiles
        /\ files = FilesOf(Some(VideoFiles))
  /\ VideoInit /\ Audio!AudioInit
  /\ taken = EsOf(look) /\ arrived = <<>> /\ decoding = -1 /\ video = VideoStep

\* What is written begins with the packet of the video, if there is one.
WritesStart == sent' # <<>> /\ Starts(sent'[1].data)

VideoPart ==
  /\ kind = "video" /\ VideoNext
  /\ taken' = IF Len(look') > Len(look) THEN taken \o EsOf(<<Last(look')>>) ELSE taken
  /\ arrived' = arrived \o EsOf(PesIn(sent'))
  /\ decoding' = IF WritesStart THEN TimeOf(sent'[1].data) ELSE decoding
  /\ UNCHANGED <<kind, audioVars, video>>

AudioPart ==
  /\ kind = "audio" /\ Audio!AudioNext
  /\ video' = IF past' # past THEN video + audio[file].video ELSE video
  /\ UNCHANGED <<kind, videoVars, taken, arrived, decoding>>

Next == VideoPart \/ AudioPart

Spec == Init /\ [][Next]_vars /\ WF_vars(Next)

-----------------------------------------------------------------------------
(* Properties.                                                              *)

\* What was read and not written yet.
Underway ==
  EsOf(PesIn([j \in DOMAIN toSend |-> toSend[j].packet])) \o EsOf(data) \o EsOf(look)

\* Every byte of the elementary streams that pesvideo2ts reads arrives, in its order,
\* wherever frames and files end in the packets; and a PES packet starts in a packet of its
\* own, which says so.
NothingIsLost ==
  /\ taken = arrived \o Underway
  /\ StartsAreMarked(sent)

\* What esvideo2pes makes of a stream has all of it (but the last bytes, which it drops), and
\* pesdata2ts does with a file what pesvideo2ts does.  This is looked at before anything is
\* sent.
FilesAreKept ==
  m.out = 1 /\ k = 0 =>
    \A i \in DOMAIN files : KeepsStream(files[i].stream) /\ KeepsData(files[i].pes)

\* What the frames of the queue have together.
Total(queue) ==
  LET sum[i \in 0..Len(queue)] == IF i = 0 THEN 0 ELSE sum[i - 1] + queue[i]
  IN  sum[Len(queue)]

\* What is in the buffer of a receiver that takes each frame when pesvideo2ts thinks so.
Fullness == Len(arrived) - (es.last - Total(m.queue))

\* It never holds more than it can, and no frame is taken before all of it is there, except
\* for its last byte when that has a packet of its own, and for what was in the look-ahead
\* buffer of the next frame when its header was shorter than the buffer.
ReceiverBufferHolds == kind = "video" => Fullness \in (-LookAhead)..VbvMax

\* Decoding times go on with the same step from frame to frame and from file to file, when
\* the first file has two frames to learn the step from.
DecodingTimesGoOn ==
  [][decoding # -1 /\ WritesStart
       => decoding' = (decoding + PtsStep) % PtsMax]_vars

\* Null packets end, if there is room for each frame and a packet: the files are read to
\* their end, and without loop_on all of the file is sent.
EveryFrameIsSent ==
  kind = "video" => <>(pc = "ended" /\ (loopOn \/ arrived = EsOf(files[1].pes)))

\* pesaudio2ts.
InTime == Audio!InTime

\* Each audio file starts with its video, if audio ends less than a video frame before the
\* video does, and files with a length have the same.
InStepWithVideo == offset = video

=============================================================================
