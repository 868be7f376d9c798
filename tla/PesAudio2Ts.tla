----------------------------- MODULE PesAudio2Ts -----------------------------
(***************************************************************************)
(* tools/esaudio2pes and pesaudio2ts: audio frames, all of one size, are   *)
(* sent at the rate that their size and duration ask for, in whole bits    *)
(* per second, and null packets are sent at the end of each input file so  *)
(* that the first frame of the next one is in time for the video.          *)
(*                                                                         *)
(* PesPackets has how frames are put in packets.  A frame whose size is    *)
(* not the one of the command line (one with padding) is not restamped;    *)
(* such streams are left out.                                              *)
(***************************************************************************)
EXTENDS Integers, Sequences

CONSTANTS
  FramePackets,  \* packets that a frame takes
  Held,          \* how many of them are sent when the next header is found: 1 or 2, or 0
                 \* when a frame fills its packets
  Samples, SampleRate,  \* sample_per_frame and sample_rate
  PtsTime,       \* PTS_TIME, ticks in a second
  PacketBits,    \* 8 * TS_PACKET_SIZE
  VideoStep,     \* 3600, the time of a video frame
  FileOffset,    \* the PTS of the first frame in a file: esaudio2pes takes pts_offset from
                 \* the argument of the frame size
  MaxFiles       \* bound: how many files are read

AudioAssumption ==
  /\ FramePackets \in Nat \ {0} /\ Held \in 0..2 /\ Held < FramePackets
  /\ Samples \in Nat \ {0} /\ SampleRate \in Nat \ {0}
  /\ PtsTime \in Nat \ {0} /\ PacketBits \in Nat \ {0}
  /\ VideoStep \in Nat \ {0} /\ FileOffset \in Nat

VARIABLES
  audio,    \* the command line: records of the frames in each file, of the time of the
            \* video it goes with and of its length in input.pes.length, 0 when there is none
  file,     \* open_counter: the file that is read, counted from 1
  k,        \* the frames that were read from it
  named,    \* the file of which filelength is the name, 0 for none
  packets,  \* ts_packets
  offset,   \* pts_offset
  number,   \* frame_number
  index,    \* pts_index
  left,     \* left_packet
  frame,    \* the PTS of the frame that is being sent, and whether all of it was
  past      \* bound: how many files were read

audioVars == <<audio, file, k, named, packets, offset, number, index, left, frame, past>>

\* The time of n frames, and the bits per second, of both of which the fraction is lost.
Time(n) == (n * Samples * PtsTime) \div SampleRate
bitrate == (SampleRate * FramePackets * PacketBits) \div Samples

\* The packets sent up to time t, of which rest is left over.
PacketTime == PtsTime * PacketBits
PacketsTo(t, rest) == (rest + t * bitrate) \div PacketTime
Rest(t, rest) == (rest + t * bitrate) % PacketTime

\* The packets that are left for the first frame before its time.
LeadNone == 0  \* mutated
Lead == FramePackets + 1

\* Null packets are sent first.
AudioInit ==
  /\ file = 1 /\ k = 0 /\ named = 1 /\ past = 0
  /\ offset = VideoStep /\ number = 0 /\ index = 0 /\ left = 0
  /\ packets = LET start == PacketsTo(offset, 0) - Lead
               IN  IF start > 0 THEN start ELSE 0
  /\ frame = [pts |-> 0, whole |-> TRUE, last |-> FALSE]

\* The PTS that esaudio2pes gave the next frame, and the one it is sent with: the first two
\* frames of all keep theirs.
FilePts == FileOffset + Time(k)
FramePts == IF index < 2 THEN FilePts ELSE offset + Time(number)

\* The rest of the frame before is sent when the header of a frame is found, and most of
\* the frame.
Begin ==
  /\ frame.whole /\ k < audio[file].frames
  /\ packets' = packets + FramePackets - Held
  /\ frame' = [pts |-> FramePts, whole |-> FALSE, last |-> FALSE]
  /\ k' = k + 1
  /\ IF index < 2 THEN index' = index + 1 /\ number' = index'
     ELSE number' = number + 1 /\ UNCHANGED index
  /\ UNCHANGED <<audio, file, named, offset, left, past>>
Finish ==
  /\ ~frame.whole /\ k < audio[file].frames
  /\ packets' = packets + Held
  /\ frame' = [frame EXCEPT !.whole = TRUE]
  /\ UNCHANGED <<audio, file, k, named, offset, number, index, left, past>>

\* The time at which the next file starts: that of the length in the file that filelength
\* names, or else that of the next video frame.
NextPts == offset + Time(number)
RoundedDown == (NextPts \div VideoStep) * VideoStep  \* mutated: the video frame before
Rounded == ((NextPts \div VideoStep) + 1) * VideoStep
Start == IF named # 0 /\ audio[named].length > 0 THEN offset + audio[named].length
         ELSE Rounded

\* The end of a file.  What is held of the last frame waits until the null packets were
\* sent and the next header is found.  filelength becomes the name of the file that was
\* just read, not of the one that is opened; for the first file it is that of no file.
NextAudioFile ==
  /\ ~frame.whole /\ k = audio[file].frames
  /\ past < MaxFiles /\ past' = past + 1
  /\ LET nulls == PacketsTo(Start, left) - packets - Lead
     IN  packets' = packets + (IF nulls > 0 THEN nulls ELSE 0) + Held
  /\ left' = Rest(Start, left)
  /\ frame' = [frame EXCEPT !.whole = TRUE, !.last = TRUE]
  /\ k' = 0 /\ number' = 0 /\ offset' = Start
  /\ IF file < Len(audio) THEN file' = file + 1 /\ named' = file
     ELSE file' = 1 /\ named' = 0
  /\ UNCHANGED <<audio, index>>

AudioNext == Begin \/ Finish \/ NextAudioFile

-----------------------------------------------------------------------------
(* Properties.                                                              *)

\* When the packets are sent at bitrate, a frame is whole in the receiver when it is time for
\* it, and at most two packets before, so that the receiver has no more to hold.  It is late
\* by less than a tick and one bit for each second since the start, however many files there
\* were, for that is what bitrate has too little; and by part of what is held back at the end
\* of a file, which takes the packet that is left for safety.  The last frame of a file is
\* later, for the rest of it comes after the null packets; the first two of all keep times
\* that are not of this clock.
InTime ==
  frame.whole /\ ~frame.last /\ index = 2 /\ (k > 2 \/ past > 0)
    => /\ (packets - Held) * PacketTime < (frame.pts + 1) * (bitrate + 1)
       /\ frame.pts * bitrate < (packets + 2) * PacketTime

=============================================================================
